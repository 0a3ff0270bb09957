--------------------------- MODULE ListingProofs ---------------------------
(***************************************************************************)
(* Proofs about the paging of listings, for any objects, clients, page sizes *)
(* and bounds.  The invariants of a walk follow from where its token stands: *)
(* without creations nothing it has seen has moved behind the token, and     *)
(* without deletions nothing it has not seen has moved before it.            *)
(***************************************************************************)
EXTENDS Listing, FiniteSetTheorems, TLAPS

\* The walk stands at a token.
Underway(w) == walks[w].status = "going" /\ walks[w].token # NoToken

\* A walk that has had no page has seen nothing.
Untouched(w) == walks[w].token = NoToken /\ walks[w].status = "going" => walks[w].seen = {}

\* Without creations, what is seen and still there stands before the token.
SeenBefore(w) == Underway(w) /\ ~walks[w].created =>
                    \A n \in walks[w].seen \cap stored : Position(n) < walks[w].token

\* Without deletions, everything from the start is still there, what has not
\* been seen stands at the token or after it, and the token within the listing.
UnseenAfter(w) == Underway(w) /\ ~walks[w].deleted =>
                    /\ walks[w].start \subseteq stored
                    /\ walks[w].token <= Cardinality(stored)
                    /\ \A n \in walks[w].start \ walks[w].seen : walks[w].token <= Position(n)

\* The inductive invariant.
IInv ==
    /\ TypeOK
    /\ \A w \in Client : Untouched(w) /\ SeenBefore(w) /\ UnseenAfter(w)
    /\ NothingTwice
    /\ NothingSkipped
    /\ DiesOnlyOfDeletion

-----------------------------------------------------------------------------
(* Positions and pages *)

\* The number of smaller members of a finite set of numbers.
LEMMA Rank ==
    ASSUME NEW S, IsFiniteSet(S), NEW n
    PROVE  /\ Cardinality(S) \in Nat
           /\ Cardinality({m \in S : m < n}) \in Nat
           /\ Cardinality({m \in S : m < n}) <= Cardinality(S)
<1> {m \in S : m < n} \in SUBSET S
  OBVIOUS
<1> QED
  BY FS_Subset, FS_CardinalityType

\* A member comes before the end.
LEMMA RankOfMember ==
    ASSUME NEW S, IsFiniteSet(S), S \subseteq Nat, NEW n \in S
    PROVE  Cardinality({m \in S : m < n}) < Cardinality(S)
<1>1. {m \in S : m < n} \in SUBSET S /\ {m \in S : m < n} # S
  OBVIOUS
<1>2. Cardinality(S) # Cardinality({m \in S : m < n})
  BY <1>1, FS_Subset
<1> QED
  BY <1>2, Rank

\* The rank grows with the set.
LEMMA RankMonotone ==
    ASSUME NEW S, IsFiniteSet(S), NEW T \in SUBSET S, NEW n
    PROVE  /\ Cardinality({m \in T : m < n}) <= Cardinality({m \in S : m < n})
           /\ Cardinality(T) <= Cardinality(S)
<1> {m \in S : m < n} \in SUBSET S /\ {m \in T : m < n} \in SUBSET {m \in S : m < n}
  OBVIOUS
<1> IsFiniteSet({m \in S : m < n})
  BY FS_Subset
<1> QED
  BY FS_Subset

\* The store is finite, and what it holds has a place in the listing.
LEMMA Places ==
    ASSUME TypeOK
    PROVE  /\ IsFiniteSet(stored) /\ stored \subseteq Nat
           /\ Cardinality(stored) \in Nat
           /\ Cardinality(stored) <= Cardinality(Name)
           /\ \A n : Position(n) \in Nat
           /\ \A n \in stored : Position(n) < Cardinality(stored)
<1>1. IsFiniteSet(stored) /\ stored \subseteq Nat /\ Cardinality(stored) <= Cardinality(Name)
  BY FS_Subset, ListingAssumption DEF TypeOK
<1> QED
  BY <1>1, Rank, RankOfMember DEF Position

\* The page size is a number, and so is an offset.
LEMMA Sizes ==
    ASSUME NEW n \in Requested, n >= 0
    PROVE  PageSize(n) \in Nat
BY ListingAssumption DEF PageSize

LEMMA Offsets ==
    ASSUME TypeOK, NEW w \in Client
    PROVE  /\ walks[w] \in Walk
           /\ Offset(w) \in Nat
           /\ walks[w].token # NoToken => Offset(w) = walks[w].token
           /\ walks[w].token = NoToken => Offset(w) = 0
BY DEF TypeOK, Walk, Offset

-----------------------------------------------------------------------------
(* The invariant *)

LEMMA InitIInv == Init => IInv
<1> SUFFICES ASSUME Init PROVE IInv
  OBVIOUS
<1>1. TypeOK
  BY ListingAssumption DEF Init, TypeOK, Walk, NewWalk
<1> QED
  BY <1>1 DEF Init, IInv, NewWalk, Untouched, SeenBefore, UnseenAfter, Underway,
              NothingTwice, NothingSkipped, DiesOnlyOfDeletion

\* What a walk becomes with a page keeps the invariant of the walk: the page is
\* exactly what stands between the offset and the next one.
LEMMA PageOfWalk ==
    ASSUME IInv, NEW w \in Client, NEW n \in Requested, n >= 0,
           walks[w].status = "going",
           Offset(w) <= Cardinality(stored),
           NEW W, NEW next, NEW more,
           next = Offset(w) + PageSize(n),
           more = (next < Cardinality(stored)),
           W = Continued(w, Page(Offset(w), PageSize(n)), IF more THEN next ELSE NoToken)
    PROVE  /\ W \in Walk
           /\ W.token = NoToken => W.status = "done"
           /\ W.status = "going" => W.token = next
           /\ ~W.created => \A i \in W.seen \cap stored : Position(i) < next
           /\ ~W.created => W.twice = {}
           /\ ~W.deleted => W.start \subseteq stored
           /\ ~W.deleted => \A i \in W.start \ W.seen : next <= Position(i)
           /\ more => W.status = "going" /\ next < Cardinality(stored)
           /\ ~more => W.status = "done"
<1> DEFINE page == Page(Offset(w), PageSize(n))
           first == walks[w].token = NoToken
           before == IF first THEN {} ELSE walks[w].seen
<1>1. TypeOK /\ Untouched(w) /\ SeenBefore(w) /\ UnseenAfter(w) /\ NothingTwice
  BY DEF IInv
<1>2. /\ walks[w] \in Walk /\ Offset(w) \in Nat
      /\ ~first => Offset(w) = walks[w].token
      /\ first => Offset(w) = 0
  BY <1>1, Offsets
<1>3. PageSize(n) \in Nat
  BY Sizes
<1>4. /\ stored \subseteq Name
      /\ Cardinality(stored) \in Nat
      /\ \A i : Position(i) \in Nat
      /\ \A i \in stored : Position(i) < Cardinality(stored)
  BY <1>1, Places DEF TypeOK
<1>5. /\ next \in Nat /\ Offset(w) <= next
      /\ next # NoToken
  BY <1>2, <1>3, ListingAssumption
<1>6. /\ page \subseteq stored
      /\ \A i \in page : Offset(w) <= Position(i) /\ Position(i) < next
      /\ \A i \in stored : Offset(w) <= Position(i) /\ Position(i) < next => i \in page
  BY <1>2, <1>3, <1>4 DEF Page
<1>7. /\ W.status = (IF more THEN "going" ELSE "done")
      /\ W.token = (IF more THEN next ELSE NoToken)
      /\ W.start = (IF first THEN stored ELSE walks[w].start)
      /\ W.seen = before \cup page
      /\ W.twice = (IF first THEN {} ELSE walks[w].twice \cup (before \cap page))
      /\ W.created = (~first /\ walks[w].created)
      /\ W.deleted = (~first /\ walks[w].deleted)
  BY <1>5 DEF Continued
<1>8. W \in Walk
  <2>1. /\ W = [status |-> W.status, token |-> W.token, start |-> W.start, seen |-> W.seen,
               twice |-> W.twice, created |-> W.created, deleted |-> W.deleted]
    BY DEF Continued
  <2>2. /\ walks[w].start \subseteq Name /\ walks[w].seen \subseteq Name /\ walks[w].twice \subseteq Name
        /\ walks[w].created \in BOOLEAN /\ walks[w].deleted \in BOOLEAN
    BY <1>2 DEF Walk
  <2>3. /\ W.status \in {"going", "done", "failed"} /\ W.token \in Nat \cup {NoToken}
        /\ W.start \subseteq Name /\ W.seen \subseteq Name /\ W.twice \subseteq Name
        /\ W.created \in BOOLEAN /\ W.deleted \in BOOLEAN
    BY <2>2, <1>7, <1>4, <1>5, <1>6
  <2> QED
    BY <2>1, <2>3 DEF Walk
<1>9. ASSUME ~W.created
      PROVE  /\ \A i \in before \cap stored : Position(i) < Offset(w)
             /\ \A i \in W.seen \cap stored : Position(i) < next
             /\ W.twice = {}
  <2>1. \A i \in before \cap stored : Position(i) < Offset(w)
    BY <1>1, <1>2, <1>7, <1>9 DEF SeenBefore, Underway
  <2>2. before \cap page = {}
    BY <2>1, <1>2, <1>4, <1>6
  <2>3. \A i \in W.seen \cap stored : Position(i) < next
    BY <2>1, <1>2, <1>4, <1>5, <1>6, <1>7
  <2>4. W.twice = {}
    BY <2>2, <1>1, <1>7, <1>9 DEF NothingTwice
  <2> QED
    BY <2>1, <2>3, <2>4
<1>10. ASSUME ~W.deleted
       PROVE  /\ W.start \subseteq stored
              /\ \A i \in W.start \ W.seen : next <= Position(i)
  <2>1. /\ W.start \subseteq stored
        /\ \A i \in W.start \ before : Offset(w) <= Position(i)
    <3>1. CASE first
      BY <3>1, <1>2, <1>4, <1>7
    <3>2. CASE ~first
      BY <3>2, <1>1, <1>2, <1>7, <1>10 DEF UnseenAfter, Underway
    <3> QED
      BY <3>1, <3>2
  <2>2. ASSUME NEW i \in W.start \ W.seen
        PROVE  next <= Position(i)
    <3>1. i \in stored /\ i \notin page /\ Offset(w) <= Position(i)
      BY <2>1, <2>2, <1>7
    <3> QED
      BY <3>1, <1>4, <1>5, <1>6
  <2> QED
    BY <2>1, <2>2
<1> QED
  BY <1>5, <1>7, <1>8, <1>9, <1>10

\* A walk that a step leaves alone keeps its part of the invariant when the
\* listing stays as it is.
LEMMA OtherWalks ==
    ASSUME NEW w \in Client, walks'[w] = walks[w], stored' = stored,
           Untouched(w), SeenBefore(w), UnseenAfter(w)
    PROVE  Untouched(w)' /\ SeenBefore(w)' /\ UnseenAfter(w)'
BY DEF Untouched, SeenBefore, UnseenAfter, Underway, Position

LEMMA ListKeepsIInv ==
    ASSUME IInv, NEW w \in Client, NEW n \in Requested, NEW answered \in BOOLEAN,
           List(w, n, answered)
    PROVE  IInv'
<1> DEFINE next == NextOffset(Offset(w), PageSize(n))
           more == HasMoreElements(Offset(w), PageSize(n))
           W == Continued(w, Page(Offset(w), PageSize(n)), IF more THEN next ELSE NoToken)
<1>1. /\ TypeOK
      /\ \A v \in Client : Untouched(v) /\ SeenBefore(v) /\ UnseenAfter(v)
      /\ NothingTwice /\ NothingSkipped /\ DiesOnlyOfDeletion
  BY DEF IInv
<1>2. /\ walks[w].status = "going" /\ n >= 0 /\ alive
      /\ UNCHANGED <<stored, mapped>>
  BY DEF List
<1>3. /\ Offset(w) \in Nat /\ PageSize(n) \in Nat
      /\ next = Offset(w) + PageSize(n)
      /\ more = (next < Cardinality(stored))
  BY <1>1, <1>2, Offsets, Sizes DEF NextOffset, HasMoreElements
<1>4. /\ IsFiniteSet(stored) /\ Cardinality(stored) \in Nat
      /\ Cardinality(stored) <= Cardinality(Name) /\ Cardinality(Name) \in Nat
      /\ \A i : Position(i) \in Nat
      /\ \A i \in stored : Position(i) < Cardinality(stored)
  BY <1>1, Places, FS_CardinalityType, ListingAssumption
<1>5. /\ next \in Nat
      /\ more => next < Cardinality(Name)
      /\ ~more => Cardinality(stored) <= next
  BY <1>3, <1>4 DEF NextOffset, HasMoreElements
<1>6. CASE Offset(w) > Cardinality(stored)
  <2>1. alive' = FALSE /\ UNCHANGED <<Pagination, walks, events, stored, mapped>>
    BY <1>2, <1>6 DEF List
  <2>2. walks[w].deleted
    <3>1. Underway(w) /\ Offset(w) = walks[w].token
      BY <1>1, <1>2, <1>3, <1>4, <1>6, Offsets DEF Underway
    <3> QED
      BY <3>1, <1>1, <1>3, <1>4, <1>6 DEF UnseenAfter
  <2>3. TypeOK'
    BY <2>1, <1>1 DEF TypeOK
  <2>4. \A v \in Client : Untouched(v)' /\ SeenBefore(v)' /\ UnseenAfter(v)'
    BY <2>1, <1>1, OtherWalks
  <2> QED
    BY <2>1, <2>2, <2>3, <2>4, <1>1 DEF IInv, NothingTwice, NothingSkipped, DiesOnlyOfDeletion
<1>7. CASE ~(Offset(w) > Cardinality(stored))
  <2>1. /\ Pagination' = (IF more THEN Pagination \cup {next} ELSE Pagination)
        /\ alive' = alive
        /\ \/ walks' = [walks EXCEPT ![w] = W] /\ events' = events
           \/ walks' = walks /\ Event
    BY <1>7 DEF List
  <2>2. Pagination' \subseteq {i \in Nat : i < Cardinality(Name)} /\ events' \in 0..MaxEvents
    <3> HIDE DEF next, more
    <3>3. Pagination' \subseteq {i \in Nat : i < Cardinality(Name)}
      BY <1>5, <2>1, <1>1 DEF TypeOK
    <3>4. events' \in 0..MaxEvents
      BY <2>1, <1>1, ListingAssumption DEF TypeOK, Event
    <3> QED
      BY <3>3, <3>4
  <2>3. CASE walks' = walks
    <3>1. TypeOK'
      BY <2>1, <2>2, <2>3, <1>1, <1>2 DEF TypeOK
    <3>2. \A v \in Client : Untouched(v)' /\ SeenBefore(v)' /\ UnseenAfter(v)'
      BY <2>3, <1>1, <1>2, OtherWalks
    <3> QED
      BY <2>1, <2>3, <3>1, <3>2, <1>1 DEF IInv, NothingTwice, NothingSkipped, DiesOnlyOfDeletion
  <2>4. CASE walks' = [walks EXCEPT ![w] = W]
    <3>1. Offset(w) <= Cardinality(stored)
      BY <1>3, <1>4, <1>7
    <3>2. /\ W \in Walk
          /\ W.token = NoToken => W.status = "done"
          /\ W.status = "going" => W.token = next
          /\ ~W.created => \A i \in W.seen \cap stored : Position(i) < next
          /\ ~W.created => W.twice = {}
          /\ ~W.deleted => W.start \subseteq stored
          /\ ~W.deleted => \A i \in W.start \ W.seen : next <= Position(i)
          /\ more => W.status = "going" /\ next < Cardinality(stored)
          /\ ~more => W.status = "done"
      BY ONLY IInv, w \in Client, n \in Requested, <1>2, <1>3, <3>1, PageOfWalk
    <3>3. walks' \in [Client -> Walk] /\ walks'[w] = W /\ \A v \in Client \ {w} : walks'[v] = walks[v]
      BY <2>4, <3>2, <1>1 DEF TypeOK
    <3>4. TypeOK'
      BY <2>1, <2>2, <3>3, <1>1, <1>2 DEF TypeOK
    <3>5. \A v \in Client \ {w} : Untouched(v)' /\ SeenBefore(v)' /\ UnseenAfter(v)'
      BY <3>3, <1>1, <1>2, OtherWalks
    <3>6. Untouched(w)' /\ SeenBefore(w)' /\ UnseenAfter(w)'
      <4>1. \A i : Position(i)' = Position(i)
        BY <1>2 DEF Position
      <4>2. Untouched(w)'
        BY <3>2, <3>3 DEF Untouched
      <4>3. SeenBefore(w)'
        BY <3>2, <3>3, <4>1, <1>2 DEF SeenBefore, Underway
      <4>4. UnseenAfter(w)'
        BY <3>2, <3>3, <4>1, <1>2, <1>3, <1>4 DEF UnseenAfter, Underway
      <4> QED
        BY <4>2, <4>3, <4>4
    <3>7. NothingTwice'
      BY <3>2, <3>3, <1>1 DEF NothingTwice
    <3>8. W.status = "done" /\ ~W.deleted => W.start \subseteq W.seen
      <4> SUFFICES ASSUME W.status = "done", ~W.deleted, NEW i \in W.start, i \notin W.seen
                   PROVE  FALSE
        OBVIOUS
      <4>1. ~more /\ i \in stored /\ next <= Position(i)
        BY <3>2
      <4> HIDE DEF next, more, W
      <4> QED
        BY <4>1, <1>4, <1>5
    <3>9. NothingSkipped'
      BY <3>3, <3>8, <1>1 DEF NothingSkipped
    <3>10. DiesOnlyOfDeletion'
      BY <2>1, <1>2 DEF DiesOnlyOfDeletion
    <3> QED
      BY <3>4, <3>5, <3>6, <3>7, <3>9, <3>10 DEF IInv
  <2> QED
    BY <2>1, <2>3, <2>4
<1> QED
  BY <1>3, <1>4, <1>6, <1>7

LEMMA ListRefusedKeepsIInv ==
    ASSUME IInv, NEW w \in Client, NEW n \in Requested, ListRefused(w, n)
    PROVE  IInv'
<1>1. /\ TypeOK
      /\ \A v \in Client : Untouched(v) /\ SeenBefore(v) /\ UnseenAfter(v)
      /\ NothingTwice /\ NothingSkipped /\ DiesOnlyOfDeletion
  BY DEF IInv
<1>2. /\ alive /\ walks' = [walks EXCEPT ![w].status = "failed"]
      /\ UNCHANGED <<stored, mapped, Pagination, alive, events>>
  BY DEF ListRefused
<1>3. /\ walks' \in [Client -> Walk]
      /\ walks'[w] = [walks[w] EXCEPT !.status = "failed"]
      /\ \A v \in Client \ {w} : walks'[v] = walks[v]
  BY <1>1, <1>2 DEF TypeOK, Walk
<1>4. walks[w] \in Walk
  BY <1>1 DEF TypeOK
<1>5. TypeOK'
  BY <1>1, <1>2, <1>3 DEF TypeOK
<1>6. \A v \in Client \ {w} : Untouched(v)' /\ SeenBefore(v)' /\ UnseenAfter(v)'
  BY <1>1, <1>2, <1>3, OtherWalks
<1>7. Untouched(w)' /\ SeenBefore(w)' /\ UnseenAfter(w)'
  BY <1>3, <1>4 DEF Untouched, SeenBefore, UnseenAfter, Underway, Walk
<1>8. NothingTwice' /\ NothingSkipped' /\ DiesOnlyOfDeletion'
  BY <1>1, <1>2, <1>3, <1>4 DEF NothingTwice, NothingSkipped, DiesOnlyOfDeletion, Walk
<1> QED
  BY <1>5, <1>6, <1>7, <1>8 DEF IInv

\* A creation moves what is listed away from the beginning: what has not been
\* seen stays after the token, and the listing only grows.
LEMMA CreateKeepsIInv ==
    ASSUME IInv, NEW n \in Name, Create(n)
    PROVE  IInv'
<1>1. /\ TypeOK
      /\ \A v \in Client : Untouched(v) /\ SeenBefore(v) /\ UnseenAfter(v)
      /\ NothingTwice /\ NothingSkipped /\ DiesOnlyOfDeletion
  BY DEF IInv
<1>2. /\ alive /\ alive' = alive /\ stored' = stored \cup {n} /\ mapped' = TRUE /\ Event
      /\ walks' = [w \in Client |-> [walks[w] EXCEPT !.created = TRUE]]
      /\ Pagination' = Pagination
  BY DEF Create
<1>3. TypeOK'
  <2>1. walks' \in [Client -> Walk]
    BY ZenonT(30), <1>1, <1>2 DEF TypeOK, Walk
  <2>2. events' \in 0..MaxEvents
    BY <1>1, <1>2, ListingAssumption DEF TypeOK, Event
  <2> QED
    BY <1>1, <1>2, <2>1, <2>2 DEF TypeOK
<1>4. \A w \in Client : walks[w] \in Walk /\ walks'[w] = [walks[w] EXCEPT !.created = TRUE]
  BY <1>1, <1>2 DEF TypeOK
<1>5. ASSUME NEW w \in Client
      PROVE  Untouched(w)' /\ SeenBefore(w)' /\ UnseenAfter(w)'
  <2>1. /\ Cardinality(stored) \in Nat /\ Cardinality(stored') \in Nat
        /\ Cardinality(stored) <= Cardinality(stored')
        /\ \A i : Position(i) \in Nat /\ Position(i)' \in Nat /\ Position(i) <= Position(i)'
    <3>1. IsFiniteSet(stored') /\ stored \in SUBSET stored'
      BY <1>1, <1>2, Places, FS_AddElement
    <3>2. IsFiniteSet(stored)
      BY <1>1, Places
    <3> QED
      BY <3>1, <3>2, Rank, RankMonotone DEF Position
  <2>2. Untouched(w)' /\ SeenBefore(w)'
    BY ZenonT(30), <1>1, <1>4 DEF Untouched, SeenBefore, Underway, Walk
  <2>3. UnseenAfter(w)'
    <3> SUFFICES ASSUME Underway(w)', ~walks'[w].deleted
                 PROVE  /\ walks'[w].start \subseteq stored'
                        /\ walks'[w].token <= Cardinality(stored')
                        /\ \A i \in walks'[w].start \ walks'[w].seen : walks'[w].token <= Position(i)'
      BY DEF UnseenAfter
    <3>1. /\ walks'[w].token = walks[w].token /\ walks'[w].status = walks[w].status
          /\ walks'[w].start = walks[w].start /\ walks'[w].seen = walks[w].seen
          /\ walks'[w].deleted = walks[w].deleted
      BY <1>4 DEF Walk
    <3>2. walks[w].token \in Nat /\ Underway(w)
      BY <3>1, <1>4 DEF Underway, Walk
    <3>3. /\ walks[w].start \subseteq stored
          /\ walks[w].token <= Cardinality(stored)
          /\ \A i \in walks[w].start \ walks[w].seen : walks[w].token <= Position(i)
      BY <3>1, <3>2, <1>1 DEF UnseenAfter
    <3> QED
      BY <3>1, <3>2, <3>3, <2>1, <1>2
  <2> QED
    BY <2>2, <2>3
<1>6. NothingTwice' /\ NothingSkipped' /\ DiesOnlyOfDeletion'
  BY <1>1, <1>2, <1>4 DEF NothingTwice, NothingSkipped, DiesOnlyOfDeletion, Walk
<1> QED
  BY <1>3, <1>5, <1>6 DEF IInv

\* A deletion moves what is listed towards the beginning: what has been seen
\* stays before the token.
LEMMA DeleteKeepsIInv ==
    ASSUME IInv, NEW n \in Name, Delete(n)
    PROVE  IInv'
<1>1. /\ TypeOK
      /\ \A v \in Client : Untouched(v) /\ SeenBefore(v) /\ UnseenAfter(v)
      /\ NothingTwice /\ NothingSkipped /\ DiesOnlyOfDeletion
  BY DEF IInv
<1>2. /\ alive /\ alive' = alive /\ stored' = stored \ {n} /\ mapped' = mapped /\ Event
      /\ walks' = [w \in Client |-> [walks[w] EXCEPT !.deleted = TRUE]]
      /\ Pagination' = Pagination
  BY DEF Delete
<1>3. TypeOK'
  <2>1. walks' \in [Client -> Walk]
    BY ZenonT(30), <1>1, <1>2 DEF TypeOK, Walk
  <2>2. events' \in 0..MaxEvents
    BY <1>1, <1>2, ListingAssumption DEF TypeOK, Event
  <2> QED
    BY <1>1, <1>2, <2>1, <2>2 DEF TypeOK
<1>4. \A w \in Client : walks[w] \in Walk /\ walks'[w] = [walks[w] EXCEPT !.deleted = TRUE]
  BY <1>1, <1>2 DEF TypeOK
<1>5. ASSUME NEW w \in Client
      PROVE  Untouched(w)' /\ SeenBefore(w)' /\ UnseenAfter(w)'
  <2>1. \A i : Position(i) \in Nat /\ Position(i)' \in Nat /\ Position(i)' <= Position(i)
    <3>1. IsFiniteSet(stored) /\ IsFiniteSet(stored') /\ stored' \in SUBSET stored
      BY <1>1, <1>2, Places, FS_RemoveElement
    <3> QED
      BY <3>1, Rank, RankMonotone DEF Position
  <2>2. Untouched(w)' /\ UnseenAfter(w)'
    BY <1>1, <1>4 DEF Untouched, UnseenAfter, Underway, Walk
  <2>3. SeenBefore(w)'
    <3> SUFFICES ASSUME Underway(w)', ~walks'[w].created, NEW i \in walks'[w].seen \cap stored'
                 PROVE  Position(i)' < walks'[w].token
      BY DEF SeenBefore
    <3>1. /\ walks'[w].token = walks[w].token /\ walks'[w].status = walks[w].status
          /\ walks'[w].seen = walks[w].seen /\ walks'[w].created = walks[w].created
      BY <1>4 DEF Walk
    <3>2. walks[w].token \in Nat /\ Underway(w)
      BY <3>1, <1>4 DEF Underway, Walk
    <3>3. Position(i) < walks[w].token
      BY <3>1, <3>2, <1>1, <1>2 DEF SeenBefore
    <3> QED
      BY <3>1, <3>2, <3>3, <2>1
  <2> QED
    BY <2>2, <2>3
<1>6. NothingTwice' /\ NothingSkipped' /\ DiesOnlyOfDeletion'
  BY <1>1, <1>2, <1>4 DEF NothingTwice, NothingSkipped, DiesOnlyOfDeletion, Walk
<1> QED
  BY <1>3, <1>5, <1>6 DEF IInv

LEMMA RestartKeepsIInv ==
    ASSUME IInv, Restart
    PROVE  IInv'
<1>1. /\ TypeOK
      /\ \A v \in Client : Untouched(v) /\ SeenBefore(v) /\ UnseenAfter(v)
      /\ NothingTwice /\ NothingSkipped /\ DiesOnlyOfDeletion
  BY DEF IInv
<1>2. /\ Event /\ alive' = TRUE /\ Pagination' = {} /\ UNCHANGED <<stored, mapped, walks>>
  BY DEF Restart
<1>3. TypeOK'
  BY <1>1, <1>2, ListingAssumption DEF TypeOK, Event
<1>4. \A w \in Client : Untouched(w)' /\ SeenBefore(w)' /\ UnseenAfter(w)'
  BY <1>1, <1>2, OtherWalks
<1>5. NothingTwice' /\ NothingSkipped' /\ DiesOnlyOfDeletion'
  BY <1>1, <1>2 DEF NothingTwice, NothingSkipped, DiesOnlyOfDeletion
<1> QED
  BY <1>3, <1>4, <1>5 DEF IInv

LEMMA NextIInv == IInv /\ [Next]_vars => IInv'
<1> SUFFICES ASSUME IInv, [Next]_vars PROVE IInv'
  OBVIOUS
<1>1. CASE UNCHANGED vars
  BY <1>1, OtherWalks DEF vars, IInv, TypeOK, NothingTwice, NothingSkipped, DiesOnlyOfDeletion
<1>2. ASSUME NEW w \in Client, NEW n \in Requested, NEW answered \in BOOLEAN, List(w, n, answered)
      PROVE  IInv'
  BY <1>2, ListKeepsIInv
<1>3. ASSUME NEW w \in Client, NEW n \in Requested, ListRefused(w, n)
      PROVE  IInv'
  BY <1>3, ListRefusedKeepsIInv
<1>4. ASSUME NEW n \in Name, Create(n)
      PROVE  IInv'
  BY <1>4, CreateKeepsIInv
<1>5. ASSUME NEW n \in Name, Delete(n)
      PROVE  IInv'
  BY <1>5, DeleteKeepsIInv
<1>6. CASE Restart
  BY <1>6, RestartKeepsIInv
<1> QED
  BY <1>1, <1>2, <1>3, <1>4, <1>5, <1>6 DEF Next

-----------------------------------------------------------------------------
(* The theorems *)

\* In every reachable state the inductive invariant holds.
THEOREM WalksAreSound == Spec => []IInv
BY InitIInv, NextIInv, PTL DEF Spec

\* Types, and no token for an offset outside the largest listing
\* (ExtractPagination, LimitPagination).
THEOREM ListingIsTyped == Spec => []TypeOK
<1>1. IInv => TypeOK
  BY DEF IInv
<1> QED
  BY <1>1, WalksAreSound, PTL

\* ListVrfs and its siblings return nothing twice in a walk without creations.
THEOREM WalksDoNotRepeat == Spec => []NothingTwice
<1>1. IInv => NothingTwice
  BY DEF IInv
<1> QED
  BY <1>1, WalksAreSound, PTL

\* ListVrfs and its siblings leave nothing out of a walk without deletions.
THEOREM WalksAreComplete == Spec => []NothingSkipped
<1>1. IInv => NothingSkipped
  BY DEF IInv
<1> QED
  BY <1>1, WalksAreSound, PTL

\* LimitPagination is called with an offset behind the end of the listing only
\* for a walk during which something was deleted.
THEOREM OnlyDeletionsKill == Spec => []DiesOnlyOfDeletion
<1>1. IInv => DiesOnlyOfDeletion
  BY DEF IInv
<1> QED
  BY <1>1, WalksAreSound, PTL
=============================================================================
