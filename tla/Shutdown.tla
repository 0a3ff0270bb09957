------------------------------ MODULE Shutdown ------------------------------
(***************************************************************************)
(* The end of the process: on a signal cleanUp deletes all objects, kind by  *)
(* kind, waits for the modules to tear them down, unsubscribes the modules   *)
(* and exits, while the gRPC servers, the TaskManager and the subscribers    *)
(* go on.                                                                   *)
(*                                                                          *)
(* A task keeps a slice of the event bus's subscribers: a length and a place *)
(* in an array that UnsubscribeModule rewrites.  The way of a task through   *)
(* the channel, lost statuses and replays are the subject of Realization,    *)
(* what objects refer to that of InfraDB; here tasks wait in any order, and  *)
(* an object is created on stored ones only.                                *)
(***************************************************************************)
EXTENDS Naturals, Sequences, FiniteSets, Functions

CONSTANTS
    Obj,            \* object names
    KindOf,         \* the kind of an object
    Uses,           \* the objects that an object refers to
    Phases,         \* the kinds in the order of DeleteAllResources
    Subscribers,    \* the modules subscribed to a kind, by priority
    Stops,          \* the modules in the order of cleanUp
    MaxCalls,       \* bound on the gRPC calls
    MaxFaults       \* bound on failures, timeouts and store errors

Kinds   == Range(Phases)
Modules == Range(Stops)

ASSUME ShutdownAssumption ==
    /\ Obj # {}
    /\ Phases \in Seq(Kinds) /\ Stops \in Seq(Modules)
    /\ KindOf \in [Obj -> Kinds]
    /\ Uses \in [Obj -> SUBSET Obj]
    /\ Subscribers \in [Kinds -> Seq(Modules)]
    /\ MaxCalls \in Nat /\ MaxFaults \in Nat

\* What refers to an object is deleted in an earlier phase than the object.
ASSUME ReferencesFollowPhases ==
    \A p \in Obj : \A o \in Uses[p] : \A i, j \in DOMAIN Phases :
        Phases[i] = KindOf[p] /\ Phases[j] = KindOf[o] => i < j

\* config.yaml gives the modules priorities in the order in which cleanUp stops
\* them, and StartSubscriber subscribes a module to a kind once.
ASSUME PrioritiesFollowStops ==
    \A k \in Kinds : \A i, j \in DOMAIN Subscribers[k] : \A a, b \in DOMAIN Stops :
        i < j /\ Subscribers[k][i] = Stops[a] /\ Subscribers[k][j] = Stops[b] => a < b

VARIABLES
    db,        \* the store
    clock,     \* the last version of each object
    list,      \* per kind: the array behind the slices of its subscribers
    size,      \* per kind: how many subscribers there still are
    closed,    \* channels of the subscribers that are closed
    hdl,       \* their handlers
    tasks,     \* tasks in the channel, in timers or about to be sent
    tm,        \* the TaskManager: the task it is at, if any
    main,      \* cleanUp
    alive,     \* the process has not panicked
    calls, faults,
    raced,     \* history: a client changed the store, or had an object on its
               \* way out, while cleanUp was deleting
    blind,     \* history: DeleteAllResources took a store error for no objects
    down       \* history: the modules that have torn an object down

vars == <<db, clock, list, size, closed, hdl, tasks, tm, main, alive, calls, faults,
          raced, blind, down>>

busVars == <<list, size, closed>>

-----------------------------------------------------------------------------

Channel == {s \in Modules \X Kinds : s[1] \in Range(Subscribers[s[2]])}

Object == [oper : {"Absent", "Present", "ToBeDeleted"}, ver : Nat,
           comps : UNION {[1..n -> Modules] : n \in 0..Cardinality(Modules)}, ok : SUBSET Modules]
Absent == [oper |-> "Absent", ver |-> 0, comps |-> <<>>, ok |-> {}]

Task   == [obj : Obj, ver : Nat, len : Nat, at : Nat]
NoTask == [obj |-> CHOOSE o \in Obj : TRUE, ver |-> 0, len |-> 0, at |-> 0]
TMIdle == [pc |-> "idle", task |-> NoTask]

Job  == [busy : BOOLEAN, obj : Obj, ver : Nat, awaited : BOOLEAN]
Idle == [busy |-> FALSE, obj |-> NoTask.obj, ver |-> 0, awaited |-> FALSE]

Stored(o)  == db[o].oper # "Absent"
Leaving(o) == db[o].oper = "ToBeDeleted"
InUse(o)   == \E p \in Obj : Stored(p) /\ o \in Uses[p]
OfKind(k)  == {o \in Obj : KindOf[o] = k /\ Stored(o)}

Fault == faults < MaxFaults /\ faults' = faults + 1

\* GetSubscribers, as a sequence.
SubsNow(k) == SubSeq(list[k], 1, size[k])

\* CreateTask, with the slice of the subscribers there are now.
NewTask(o, v) == [obj |-> o, ver |-> v, len |-> size[KindOf[o]], at |-> 1]

\* Faulty variant: the components keep their status.
Deleted_Kept(o) == [db[o] EXCEPT !.oper = "ToBeDeleted", !.ver = clock[o] + 1]

\* The components are set to Pending by position, as many as there are subscribers now.
Deleted(o) ==
    LET pending == Range(SubSeq(db[o].comps, 1, size[KindOf[o]]))
    IN  [db[o] EXCEPT !.oper = "ToBeDeleted", !.ver = clock[o] + 1, !.ok = @ \ pending]

\* DeleteBP, DeleteSvi, DeleteVrf, DeleteLB.
CanDelete(o) == Stored(o) /\ ~InUse(o) /\ size[KindOf[o]] > 0

Delete(o) ==
    /\ db' = [db EXCEPT ![o] = Deleted(o)]
    /\ clock' = [clock EXCEPT ![o] = @ + 1]
    /\ tasks' = tasks \cup {NewTask(o, clock[o] + 1)}

-----------------------------------------------------------------------------
(* Clients, also during cleanUp *)

Call ==
    /\ alive /\ main.pc # "exited"
    /\ calls < MaxCalls /\ calls' = calls + 1
    /\ raced' = (raced \/ main.pc # "serving")
    /\ UNCHANGED <<busVars, hdl, tm, main, alive, faults, blind>>

ClientCreates(o) ==
    /\ Call
    /\ ~Stored(o) /\ \A p \in Uses[o] : Stored(p)
    /\ size[KindOf[o]] > 0
    /\ db' = [db EXCEPT ![o] = [oper |-> "Present", ver |-> clock[o] + 1,
                                comps |-> SubsNow(KindOf[o]), ok |-> {}]]
    /\ clock' = [clock EXCEPT ![o] = @ + 1]
    /\ tasks' = tasks \cup {NewTask(o, clock[o] + 1)}
    /\ down' = [down EXCEPT ![o] = {}]

ClientDeletes(o) == Call /\ CanDelete(o) /\ Delete(o) /\ UNCHANGED down

-----------------------------------------------------------------------------
(* TaskManager and subscribers *)

TaskVars == <<db, clock, busVars, main, calls, raced, blind, down>>

\* The channel that the slice of a task now has at its place.
Target(t) == <<list[KindOf[t.obj]][t.at], KindOf[t.obj]>>

\* The next task, or the next subscriber of the one that the TaskManager is at.
AtTask(t) == IF tm.pc = "idle" THEN t \in tasks ELSE tm.pc = "publish" /\ t = tm.task

Requeued(t) == tasks' = tasks \cup {t} /\ tm' = TMIdle

\* Publish: a send on a closed channel panics, one that nobody receives fails.
Publish(t) ==
    /\ alive /\ main.pc # "exited"
    /\ AtTask(t)
    /\ alive' = (Target(t) \notin closed)
    /\ IF hdl[Target(t)].busy \/ Target(t) \in closed
       THEN Requeued(t) /\ UNCHANGED hdl
       ELSE /\ hdl' = [hdl EXCEPT ![Target(t)] = [busy |-> TRUE, obj |-> t.obj,
                                                 ver |-> t.ver, awaited |-> TRUE]]
            /\ tm' = [pc |-> "wait", task |-> t]
            /\ tasks' = tasks \ {t}
    /\ UNCHANGED <<TaskVars, faults>>

Timeout ==
    /\ alive /\ main.pc # "exited"
    /\ tm.pc = "wait" /\ Fault
    /\ hdl' = [s \in Channel |-> [hdl[s] EXCEPT !.awaited = FALSE]]
    /\ Requeued(tm.task)
    /\ UNCHANGED <<TaskVars, alive>>

\* A handler is done with its job; the TaskManager goes on if it still waits.
Returns(s, told) ==
    /\ hdl' = [hdl EXCEPT ![s] = Idle]
    /\ IF hdl[s].awaited THEN told ELSE UNCHANGED <<tm, tasks>>

Current(s) == Stored(hdl[s].obj) /\ db[hdl[s].obj].ver = hdl[s].ver

\* The object with the component of s set to Success.
Reported(s) ==
    LET o  == hdl[s].obj
        ok == db[o].ok \cup ({s[1]} \cap Range(db[o].comps))
    IN  IF ok = Range(db[o].comps) /\ Leaving(o) THEN Absent ELSE [db[o] EXCEPT !.ok = ok]

\* Faulty variant: one subscriber too many.
NextSubscriber_Past ==
    /\ tm' = IF tm.task.at <= tm.task.len THEN [pc |-> "publish", task |-> [tm.task EXCEPT !.at = @ + 1]]
             ELSE TMIdle
    /\ UNCHANGED tasks

NextSubscriber ==
    /\ tm' = IF tm.task.at < tm.task.len THEN [pc |-> "publish", task |-> [tm.task EXCEPT !.at = @ + 1]]
             ELSE TMIdle
    /\ UNCHANGED tasks

HandlerSucceeds(s) ==
    /\ alive /\ main.pc # "exited"
    /\ hdl[s].busy
    /\ IF Current(s)
       THEN /\ db' = [db EXCEPT ![hdl[s].obj] = Reported(s)]
            /\ down' = [down EXCEPT ![hdl[s].obj] = IF Leaving(hdl[s].obj) THEN @ \cup {s[1]} ELSE @]
            /\ Returns(s, NextSubscriber)
       ELSE UNCHANGED <<db, down>> /\ Returns(s, tm' = TMIdle /\ UNCHANGED tasks)
    /\ UNCHANGED <<clock, busVars, main, alive, calls, faults, raced, blind>>

HandlerFails(s) ==
    /\ alive /\ main.pc # "exited"
    /\ hdl[s].busy /\ Current(s) /\ Fault
    /\ db' = [db EXCEPT ![hdl[s].obj].ok = @ \ {s[1]}]
    /\ Returns(s, Requeued(tm.task))
    /\ UNCHANGED <<clock, busVars, main, alive, calls, raced, blind, down>>

-----------------------------------------------------------------------------
(* cleanUp and DeleteAllResources *)

\* What DeleteAllResources returns: nothing yet, nil, the refusal of a deletion
\* (the object is in use or gone, or nobody is subscribed), an error of the
\* store, or the end of its patience.
Results == {"none", "nil", "refused", "error", "late"}

Main == [pc : {"serving", "list", "delete", "wait", "unsubscribe", "exited"},
         phase : 1 .. Len(Phases) + 1, todo : SUBSET Obj, result : Results,
         stop : 1 .. Len(Stops) + 1]

CleanUpVars == <<list, size, closed, hdl, tm, alive, calls, down>>

Kind == Phases[main.phase]

Signal ==
    /\ alive /\ main.pc = "serving"
    /\ main' = [main EXCEPT !.pc = "list"]
    /\ UNCHANGED <<CleanUpVars, db, clock, tasks, faults, raced, blind>>

\* GetAllX; its errors are ignored.
ListKind ==
    /\ alive /\ main.pc = "list"
    /\ \/ /\ main' = [main EXCEPT !.pc = "delete", !.todo = OfKind(Kind)]
          /\ raced' = (raced \/ \E o \in OfKind(Kind) : Leaving(o))
          /\ UNCHANGED <<faults, blind>>
       \/ /\ Fault /\ blind' = TRUE
          /\ main' = [main EXCEPT !.pc = "wait"]
          /\ UNCHANGED raced
    /\ UNCHANGED <<CleanUpVars, db, clock, tasks>>

GivesUp(result) ==
    main' = [main EXCEPT !.pc = "unsubscribe", !.todo = {}, !.result = result]

\* The first deletion that returns an error ends it all; an error of the store
\* leaves the object as it is.
DeleteListed(o) ==
    /\ alive /\ main.pc = "delete" /\ o \in main.todo
    /\ \/ /\ CanDelete(o) /\ Delete(o)
          /\ main' = [main EXCEPT !.todo = @ \ {o}]
          /\ UNCHANGED faults
       \/ /\ ~CanDelete(o) /\ GivesUp("refused")
          /\ UNCHANGED <<db, clock, tasks, faults>>
       \/ /\ Fault /\ GivesUp("error")
          /\ UNCHANGED <<db, clock, tasks>>
    /\ UNCHANGED <<CleanUpVars, raced, blind>>

AllAsked ==
    /\ alive /\ main.pc = "delete" /\ main.todo = {}
    /\ main' = [main EXCEPT !.pc = "wait"]
    /\ UNCHANGED <<CleanUpVars, db, clock, tasks, faults, raced, blind>>

NextKind ==
    main' = IF main.phase = Len(Phases)
            THEN [main EXCEPT !.pc = "unsubscribe", !.phase = @ + 1, !.result = "nil"]
            ELSE [main EXCEPT !.pc = "list", !.phase = @ + 1]

\* Faulty variant: the objects of a kind may still be there.
Gone_NotChecked(k) == TRUE

Gone(k) == OfKind(k) = {}

\* A store error looks like an empty listing.
WaitEnds ==
    /\ alive /\ main.pc = "wait"
    /\ \/ Gone(Kind) /\ UNCHANGED <<faults, blind>>
       \/ Fault /\ blind' = TRUE
    /\ NextKind
    /\ UNCHANGED <<CleanUpVars, db, clock, tasks, raced>>

\* Faulty variant: there is no limit.
TimeLimit_Never == FALSE

TimeLimit == OfKind(Kind) # {}

\* After ten seconds.
WaitExpires ==
    /\ alive /\ main.pc = "wait" /\ TimeLimit
    /\ main' = [main EXCEPT !.pc = "unsubscribe", !.result = "late"]
    /\ UNCHANGED <<CleanUpVars, db, clock, tasks, faults, raced, blind>>

Subscribed(m) == {k \in Kinds : m \in Range(SubsNow(k))}

\* append(subs[:i], subs[i+1:]...): the rest of the array moves up.
Removed(k, m) ==
    LET i == CHOOSE i \in 1 .. size[k] : list[k][i] = m
    IN  [j \in DOMAIN list[k] |-> IF i <= j /\ j < size[k] THEN list[k][j + 1] ELSE list[k][j]]

\* UnsubscribeModule blocks until the goroutine of the subscriber is in its select.
Unsubscribe(k) ==
    /\ alive /\ main.pc = "unsubscribe" /\ main.stop <= Len(Stops)
    /\ LET m == Stops[main.stop]
       IN  /\ k \in Subscribed(m) /\ ~hdl[<<m, k>>].busy
           /\ closed' = closed \cup {<<m, k>>}
           /\ list' = [list EXCEPT ![k] = Removed(k, m)]
    /\ size' = [size EXCEPT ![k] = @ - 1]
    /\ UNCHANGED <<db, clock, hdl, tasks, tm, main, alive, calls, faults, raced, blind, down>>

NextStop ==
    /\ alive /\ main.pc = "unsubscribe" /\ main.stop <= Len(Stops)
    /\ Subscribed(Stops[main.stop]) = {}
    /\ main' = [main EXCEPT !.stop = @ + 1]
    /\ UNCHANGED <<CleanUpVars, db, clock, tasks, faults, raced, blind>>

Exit ==
    /\ alive /\ main.pc = "unsubscribe" /\ main.stop > Len(Stops)
    /\ main' = [main EXCEPT !.pc = "exited"]
    /\ UNCHANGED <<CleanUpVars, db, clock, tasks, faults, raced, blind>>

-----------------------------------------------------------------------------

\* Some objects are set up, nothing is on its way.
Init ==
    /\ \E S \in SUBSET Obj :
          /\ \A o \in S : Uses[o] \subseteq S /\ Subscribers[KindOf[o]] # <<>>
          /\ db = [o \in Obj |-> IF o \in S
                                 THEN [oper |-> "Present", ver |-> 1, comps |-> Subscribers[KindOf[o]],
                                       ok |-> Range(Subscribers[KindOf[o]])]
                                 ELSE Absent]
          /\ clock = [o \in Obj |-> IF o \in S THEN 1 ELSE 0]
    /\ list = Subscribers /\ size = [k \in Kinds |-> Len(Subscribers[k])]
    /\ closed = {}
    /\ hdl = [s \in Channel |-> Idle]
    /\ tasks = {} /\ tm = TMIdle
    /\ main = [pc |-> "serving", phase |-> 1, todo |-> {}, result |-> "none", stop |-> 1]
    /\ alive = TRUE /\ calls = 0 /\ faults = 0 /\ raced = FALSE /\ blind = FALSE
    /\ down = [o \in Obj |-> {}]

TaskStep == (\E t \in tasks \cup {tm.task} : Publish(t)) \/ Timeout

HandlerStep(s) == HandlerSucceeds(s) \/ HandlerFails(s)

CleanUpStep ==
    \/ ListKind \/ AllAsked \/ WaitEnds \/ WaitExpires \/ NextStop \/ Exit
    \/ \E o \in Obj : DeleteListed(o)
    \/ \E k \in Kinds : Unsubscribe(k)

Next ==
    \/ \E o \in Obj : ClientCreates(o) \/ ClientDeletes(o)
    \/ TaskStep
    \/ \E s \in Channel : HandlerStep(s)
    \/ Signal
    \/ CleanUpStep

Spec == Init /\ [][Next]_vars

\* Goroutines run: those of cleanUp and of the subscribers.
FairSpec ==
    /\ Spec
    /\ WF_vars(CleanUpStep)
    /\ \A s \in Channel : WF_vars(HandlerSucceeds(s))

-----------------------------------------------------------------------------
(* Properties *)

TypeOK ==
    /\ db \in [Obj -> Object] /\ clock \in [Obj -> Nat]
    /\ \A k \in Kinds : DOMAIN list[k] = DOMAIN Subscribers[k] /\ size[k] \in 0 .. Len(Subscribers[k])
    /\ closed \subseteq Channel
    /\ hdl \in [Channel -> Job]
    /\ tasks \subseteq Task /\ tm \in [pc : {"idle", "publish", "wait"}, task : Task]
    /\ \A t \in tasks \cup ({tm.task} \ {NoTask}) :
          t.at \in 1 .. t.len /\ t.len <= Len(Subscribers[KindOf[t.obj]])
    /\ main \in Main
    /\ {alive, raced, blind} \subseteq BOOLEAN /\ calls \in Nat /\ faults \in Nat
    /\ down \in [Obj -> SUBSET Modules]

(* When DeleteAllResources returns without an error nothing is stored any    *)
(* more: everything was torn down before the modules are unsubscribed,       *)
(* unless a client interfered or a store error was taken for an empty list.  *)
NothingRemains == main.result = "nil" /\ ~raced /\ ~blind => \A o \in Obj : ~Stored(o)

(* DeleteAllResources is refused a deletion (the object is in use or gone, or *)
(* nobody is subscribed) only when a client interfered or a store error hid  *)
(* an object that refers to it: the order of the kinds follows the           *)
(* references.  A store error in the deletion itself is the result "error".  *)
RefusedOnlyByOthers == main.result = "refused" => raced \/ blind

(* An object that leaves the store has been torn down by every module on its *)
(* list, although deletions set statuses by position and tasks send to       *)
(* places of an array that UnsubscribeModule rewrites under them.            *)
GoneIsTornDown ==
    [][\A o \in Obj : Stored(o) /\ ~Stored(o)' => Range(db[o].comps) \subseteq down'[o]]_vars

(* The process ends after a signal, whatever its subscribers are doing.      *)
Exits == main.pc # "serving" ~> main.pc = "exited" \/ ~alive
=============================================================================
