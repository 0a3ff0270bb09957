------------------------------ MODULE Listing ------------------------------
(***************************************************************************)
(* The List calls of the gRPC servers: a client walks through the objects of *)
(* a kind page by page, while others create and delete objects.  A page      *)
(* token stands for an offset that the server remembers in memory.           *)
(*                                                                          *)
(* Names are numbers in their order; a token is identified with its offset,  *)
(* which never changes.  Creation and deletion are atomic here (InfraDB has  *)
(* their steps).                                                            *)
(***************************************************************************)
EXTENDS Integers, FiniteSets

CONSTANTS
    Name,             \* names of the objects of the kind
    Client,           \* clients that list them
    Requested,        \* page sizes in the requests
    defaultPageSize, maxPageSize,
    NoToken,          \* the empty page token
    MaxEvents         \* bound on changes, lost answers and restarts

ASSUME ListingAssumption ==
    /\ Name \subseteq Nat /\ IsFiniteSet(Name)
    /\ Requested \subseteq Int /\ NoToken \notin Nat
    /\ defaultPageSize \in Nat \ {0} /\ maxPageSize \in Nat \ {0}
    /\ MaxEvents \in Nat

VARIABLES
    stored,      \* objects in the store and in the map of their names
    mapped,      \* the map of names exists: there has been an object
    Pagination,  \* offsets of the tokens that the server has handed out
    walks,       \* per client: its walk, and what happened since the first page
    alive,       \* the process is up
    events

vars == <<stored, mapped, Pagination, walks, alive, events>>

Walk == [status : {"going", "done", "failed"}, token : Nat \cup {NoToken},
         start : SUBSET Name, seen : SUBSET Name, twice : SUBSET Name,
         created : BOOLEAN, deleted : BOOLEAN]

NewWalk == [status |-> "going", token |-> NoToken, start |-> {}, seen |-> {}, twice |-> {},
            created |-> FALSE, deleted |-> FALSE]

-----------------------------------------------------------------------------
(* ExtractPagination and LimitPagination *)

PageSize(n) == IF n = 0 THEN defaultPageSize ELSE IF n > maxPageSize THEN maxPageSize ELSE n

Offset(w) == IF walks[w].token = NoToken THEN 0 ELSE walks[w].token

\* The position of an object in the sorted listing.
Position(n) == Cardinality({m \in stored : m < n})

Page(offset, size) == {n \in stored : offset <= Position(n) /\ Position(n) < offset + size}

\* Faulty variant: there is always another page.
HasMoreElements_Always(offset, size) == TRUE

HasMoreElements(offset, size) == offset + size < Cardinality(stored)

\* Faulty variants: the next page starts one later, and always at the same place.
NextOffset_Later(offset, size) == offset + size + 1
NextOffset_Same(offset, size) == size

NextOffset(offset, size) == offset + size

-----------------------------------------------------------------------------
Event == events < MaxEvents /\ events' = events + 1

\* The walk goes on with a page; the first page starts it anew.
Continued(w, page, token) ==
    LET first == walks[w].token = NoToken
        seen  == IF first THEN {} ELSE walks[w].seen
    IN  [status  |-> IF token = NoToken THEN "done" ELSE "going",
         token   |-> token,
         start   |-> IF first THEN stored ELSE walks[w].start,
         seen    |-> seen \cup page,
         twice   |-> IF first THEN {} ELSE walks[w].twice \cup (seen \cap page),
         created |-> ~first /\ walks[w].created,
         deleted |-> ~first /\ walks[w].deleted]

\* ListVrfs, ListLogicalBridges, ListBridgePorts, ListSvis of a page; the slice
\* [offset:end] panics when the offset is behind the end of the listing.
List(w, n, answered) ==
    LET offset == Offset(w)
        size   == PageSize(n)
        more   == HasMoreElements(offset, size)
        next   == NextOffset(offset, size)
    IN  /\ alive /\ walks[w].status = "going"
        /\ n >= 0 /\ mapped
        /\ walks[w].token # NoToken => walks[w].token \in Pagination
        /\ IF offset > Cardinality(stored)
           THEN alive' = FALSE /\ UNCHANGED <<Pagination, walks, events>>
           ELSE /\ Pagination' = IF more THEN Pagination \cup {next} ELSE Pagination
                /\ IF answered
                   THEN /\ walks' = [walks EXCEPT ![w] =
                              Continued(w, Page(offset, size), IF more THEN next ELSE NoToken)]
                        /\ UNCHANGED events
                   ELSE Event /\ UNCHANGED walks
                /\ UNCHANGED alive
        /\ UNCHANGED <<stored, mapped>>

\* A negative size, an unknown token, or no map of names yet.
ListRefused(w, n) ==
    /\ alive /\ walks[w].status = "going"
    /\ \/ n < 0
       \/ walks[w].token # NoToken /\ walks[w].token \notin Pagination
       \/ ~mapped
    /\ walks' = [walks EXCEPT ![w].status = "failed"]
    /\ UNCHANGED <<stored, mapped, Pagination, alive, events>>

Create(n) ==
    /\ alive /\ Event
    /\ n \notin stored
    /\ stored' = stored \cup {n} /\ mapped' = TRUE
    /\ walks' = [w \in Client |-> [walks[w] EXCEPT !.created = TRUE]]
    /\ UNCHANGED <<Pagination, alive>>

Delete(n) ==
    /\ alive /\ Event
    /\ n \in stored
    /\ stored' = stored \ {n}
    /\ walks' = [w \in Client |-> [walks[w] EXCEPT !.deleted = TRUE]]
    /\ UNCHANGED <<mapped, Pagination, alive>>

\* The store is a database of its own; the tokens are forgotten.
Restart ==
    /\ Event
    /\ alive' = TRUE /\ Pagination' = {}
    /\ UNCHANGED <<stored, mapped, walks>>

Init ==
    /\ stored \in SUBSET Name /\ mapped \in BOOLEAN /\ (stored # {} => mapped)
    /\ Pagination = {} /\ alive = TRUE /\ events = 0
    /\ walks = [w \in Client |-> NewWalk]

Next ==
    \/ \E w \in Client, n \in Requested : (\E answered \in BOOLEAN : List(w, n, answered)) \/ ListRefused(w, n)
    \/ \E n \in Name : Create(n) \/ Delete(n)
    \/ Restart

Spec == Init /\ [][Next]_vars

\* A client goes on until its walk has ended; its calls are handled.
Goes(w) == \E n \in Requested : List(w, n, TRUE) \/ ListRefused(w, n)

FairSpec == Spec /\ \A w \in Client : WF_vars(Goes(w))
-----------------------------------------------------------------------------
(* Properties *)

\* Types; an offset that is handed out lies within the largest listing.
TypeOK ==
    /\ stored \subseteq Name /\ mapped \in BOOLEAN /\ alive \in BOOLEAN
    /\ walks \in [Client -> Walk]
    /\ Pagination \subseteq {i \in Nat : i < Cardinality(Name)}
    /\ events \in 0..MaxEvents

\* A walk returns nothing twice unless something was created during it,
\* whatever page sizes it asks for, whatever is deleted and whatever answers
\* get lost.
NothingTwice == \A w \in Client : ~walks[w].created => walks[w].twice = {}

\* A walk that ends has returned everything that was there when it began,
\* unless something was deleted during it.
NothingSkipped ==
    \A w \in Client : walks[w].status = "done" /\ ~walks[w].deleted => walks[w].start \subseteq walks[w].seen

\* An offset lies behind the end of the listing only after a deletion: nothing
\* else makes the slice of LimitPagination panic.
DiesOnlyOfDeletion == ~alive => \E w \in Client : walks[w].deleted

\* Every walk ends, if the process stays up.
WalksEnd == \A w \in Client : <>(walks[w].status # "going" \/ ~alive)
=============================================================================
