----------------------------- MODULE Realization -----------------------------
(***************************************************************************)
(* How a stored intent is realised: the InfraDB records of the objects, the *)
(* TaskManager goroutine with its queue and its retry timers, the           *)
(* subscriber goroutines of the modules (LGM, LCI, FRR) and the replay      *)
(* procedure a module can ask for.                                          *)
(*                                                                          *)
(* An object is anything InfraDB stores as an intent (VRF, SVI, logical     *)
(* bridge, bridge port).  The four kinds go through the same control, so    *)
(* only the kind's subscriber list tells them apart here; what the kinds    *)
(* refer to in each other is the subject of module InfraDB.                 *)
(*                                                                          *)
(* Every InfraDB function runs under globalLock and is one step.  The two   *)
(* channels of the TaskManager and the channels of the subscribers are      *)
(* unbuffered and written with a non-blocking select: a message reaches its *)
(* reader only if the reader is parked on the channel at that moment.       *)
(***************************************************************************)
EXTENDS Naturals, Sequences, FiniteSets, Functions

CONSTANTS
    Modules,      \* names of the modules: "lgm", "lci", "frr"
    Types,        \* event types: "vrf", "svi", "logical-bridge", "bridge-port"
    Obj,          \* object names
    TypeOf,       \* the event type of an object
    SubsOf,       \* the subscribers of an event type, in priority order
    Replayers,    \* modules that call CheckReplayThreshold (FRR)
    Sticky,       \* modules that can leave a host on which repeating is in vain (LGM)
    NotReplayed,  \* event types no case of gatherObjectsAndSubsToReplay matches
    ReplayErrs,   \* consecutive errors at which 2^errs s exceeds the threshold
    QueueCap,     \* capacity of the task channel
    MaxOps,       \* bound on the API operations of a behaviour
    MaxFaults     \* bound on the timeouts and failures of a behaviour

ASSUME ConstAssumption ==
    /\ Obj # {} /\ IsFiniteSet(Obj)
    /\ TypeOf \in [Obj -> Types]
    /\ SubsOf \in [Types -> Seq(Modules)]
    /\ Replayers \subseteq Modules
    /\ Sticky \subseteq Modules
    /\ NotReplayed \subseteq Types
    /\ ReplayErrs \in Nat \ {0, 1}
    /\ QueueCap \in Nat \ {0}
    /\ MaxOps \in Nat
    /\ MaxFaults \in Nat

(* What the code takes for granted: an event type lists a module once        *)
(* (subscriberExist), and an object is only stored if somebody subscribed.   *)
ASSUME SubsAssumption ==
    \A ty \in Types :
        /\ SubsOf[ty] # <<>>
        /\ \A i, j \in DOMAIN SubsOf[ty] : SubsOf[ty][i] = SubsOf[ty][j] => i = j

VARIABLES
    db,       \* the store: one record per object name
    clock,    \* the last resource version generated for an object
    listed,   \* the objects in the maps of names ("vrfs", "lbs", "svis", "bps")
    enq,      \* goroutines about to send, or blocked sending, a task
    timers,   \* tasks held by a running time.AfterFunc
    queue,    \* the task channel
    tm,       \* the TaskManager goroutine
    hdl,      \* the subscriber goroutines, one per module and event type
    nids,     \* notification ids handed out
    replays,  \* goroutines running startReplayProcedure
    ops,      \* API operations so far (bounded by MaxOps)
    faults,   \* timeouts and failures so far (bounded by MaxFaults)
    done,     \* history: the intent a module realised last, per object
    unsure,   \* history: <<module, object>> whose realisation a replay threw
              \* away or overtook without setting the component to Pending
    lost,     \* history: object versions a create stored and then returned an
              \* error, or whose task a replay dropped without a successor
    stuck     \* history: <<module, object, tear-down?>> that cannot succeed on
              \* what earlier attempts have left

vars == <<db, clock, listed, enq, timers, queue, tm, hdl, nids, replays, ops,
          faults, done, unsure, lost, stuck>>

tmVars    == <<tm, nids>>
taskVars  == <<enq, timers, queue>>
dbVars    == <<db, clock, listed>>
ghostVars == <<done, unsure, lost, stuck>>

-----------------------------------------------------------------------------
(* Records *)

Status == {"Pending", "Success", "Error"}
Oper   == {"Absent", "Down", "Up", "ToBeDeleted"}

\* The sequences over S of at most n elements.
SeqOf(S, n) == UNION {[1..k -> S] : k \in 0..n}

\* A component of an object.  errs stands for Timer: 0, or 2^errs seconds.
Component == [st : Status, errs : Nat]
Fresh     == [st |-> "Pending", errs |-> 0]

Object == [ver : Nat, oper : Oper, intent : Nat, comp : [Modules -> Component]]
Absent == [ver |-> 0, oper |-> "Absent", intent |-> 0,
           comp |-> [m \in Modules |-> Fresh]]

Task   == [obj : Obj, ver : Nat, subs : Seq(Modules), subIndex : Nat]
AnyObj == CHOOSE o \in Obj : TRUE
NoTask == [obj |-> AnyObj, ver |-> 0, subs |-> <<>>, subIndex |-> 0]

TaskStatus == [nid : Nat, dropTask : BOOLEAN, replay : BOOLEAN, st : Status]
NoStatus   == [nid |-> 0, dropTask |-> FALSE, replay |-> FALSE, st |-> "Pending"]

TaskManager == [pc : {"idle", "publish", "sent", "wait", "got", "replay"},
                task : Task, i : Nat, nid : Nat, status : TaskStatus]
TMIdle      == [pc |-> "idle", task |-> NoTask, i |-> 0, nid |-> 0,
                status |-> NoStatus]

Handler == [pc : {"idle", "notified", "exec", "report", "return"},
            obj : Obj, ver : Nat, nid : Nat, intent : Nat, del : BOOLEAN,
            comp : Component, replay : BOOLEAN]
Parked  == [pc |-> "idle", obj |-> AnyObj, ver |-> 0, nid |-> 0, intent |-> 0,
            del |-> FALSE, comp |-> Fresh, replay |-> FALSE]

Replay == [nid : Nat, mod : Modules, obj : Obj, ver : Nat,
           pc : {"start", "finish"}, tasks : SUBSET Task]

Subscriber == Modules \X Types

Subs(o)   == SubsOf[TypeOf[o]]
Stored(o) == db[o].oper # "Absent"

\* v is the version of o the store holds.
Current(o, v) == Stored(o) /\ db[o].ver = v

\* Faulty variant: the first component that succeeded decides.
checkForAllSuccess_First(o, c) == \E m \in Range(Subs(o)) : c[m].st = "Success"

\* checkForAllSuccess, on the components c of an object o
checkForAllSuccess(o, c) == \A m \in Range(Subs(o)) : c[m].st = "Success"

-----------------------------------------------------------------------------
(* API operations on InfraDB *)

CanOperate == ops < MaxOps /\ ops' = ops + 1

Fault == faults < MaxFaults /\ faults' = faults + 1

newTask(o, v, subs) == [obj |-> o, ver |-> v, subs |-> subs, subIndex |-> 0]

\* CreateTask leaves the send on the task channel to a goroutine of its own.
CreateTask(o, v, subs) == enq' = enq \cup {newTask(o, v, subs)}

\* The object a Create or an Update stores: built afresh from the request.
NewObject(o) == [ver |-> clock[o] + 1, oper |-> "Down", intent |-> clock[o] + 1,
                 comp |-> [m \in Modules |-> Fresh]]

\* Every component is Pending again, so the module will be asked again.
AskAgain(o) == unsure' = unsure \ (Modules \X {o})

StoreNew(o) ==
    /\ CanOperate
    /\ clock' = [clock EXCEPT ![o] = @ + 1]
    /\ db' = [db EXCEPT ![o] = NewObject(o)]
    /\ AskAgain(o)
    /\ UNCHANGED <<timers, queue, tmVars, hdl, replays, done, stuck>>

\* The caller looked the name up before taking the lock, so the object may
\* have appeared meanwhile: InfraDB does not look again.
CreateObject(o) ==
    /\ StoreNew(o)
    /\ listed' = listed \cup {o}
    /\ CreateTask(o, clock[o] + 1, Subs(o))
    /\ UNCHANGED <<faults, lost>>

\* The object is stored, but a later call to the store fails (the VNIs or the
\* names): the create returns the error before it comes to CreateTask.
CreateFails(o) ==
    /\ StoreNew(o)
    /\ Fault
    /\ lost' = lost \cup {<<o, clock[o] + 1>>}
    /\ UNCHANGED <<listed, enq>>

\* Refused by the caller for a missing object; the status it read is stale.
UpdateObject(o) ==
    /\ Stored(o)
    /\ StoreNew(o)
    /\ CreateTask(o, clock[o] + 1, Subs(o))
    /\ UNCHANGED <<listed, faults, lost>>

\* Faulty variant: the components keep what they say about the creation.
ToBeDeletedObject_Kept(o) ==
    [db[o] EXCEPT !.ver = clock[o] + 1, !.oper = "ToBeDeleted", !.intent = clock[o] + 1]

ToBeDeletedObject(o) ==
    [db[o] EXCEPT !.ver = clock[o] + 1, !.oper = "ToBeDeleted", !.intent = clock[o] + 1,
                  !.comp = [m \in Modules |-> [@[m] EXCEPT !.st = "Pending"]]]

DeleteObject(o) ==
    /\ Stored(o)
    /\ CanOperate
    /\ clock' = [clock EXCEPT ![o] = @ + 1]
    /\ db' = [db EXCEPT ![o] = ToBeDeletedObject(o)]
    /\ CreateTask(o, clock[o] + 1, Subs(o))
    /\ AskAgain(o)
    /\ UNCHANGED <<listed, timers, queue, tmVars, hdl, replays, faults, done, lost, stuck>>

-----------------------------------------------------------------------------
(* The task channel and the timers *)

Enqueue(t) ==
    /\ t \in enq
    /\ Len(queue) < QueueCap
    /\ queue' = Append(queue, t)
    /\ enq' = enq \ {t}
    /\ UNCHANGED <<timers, dbVars, tmVars, hdl, replays, ops, faults, ghostVars>>

TimerFires(t) ==
    /\ t \in timers
    /\ timers' = timers \ {t}
    /\ enq' = enq \cup {t}
    /\ UNCHANGED <<queue, dbVars, tmVars, hdl, replays, ops, faults, ghostVars>>

-----------------------------------------------------------------------------
(* The TaskManager goroutine, processTasks *)

\* The subscriber the loop over subs[subIndex:] is at.
CurrentModule == tm.task.subs[tm.task.subIndex + tm.i + 1]
CurrentSub    == <<CurrentModule, TypeOf[tm.task.obj]>>

Dequeue ==
    /\ tm.pc = "idle"
    /\ queue # <<>>
    /\ tm' = [TMIdle EXCEPT !.pc = "publish", !.task = Head(queue)]
    /\ queue' = Tail(queue)
    /\ UNCHANGED <<enq, timers, dbVars, hdl, nids, replays, ops, faults, ghostVars>>

\* Faulty variant: the index is advanced past the subscriber to retry.
RequeuedTask_Skips == [tm.task EXCEPT !.subIndex = @ + tm.i + 1]

\* The task comes back, after a timer, to the subscriber it has reached.
RequeuedTask == [tm.task EXCEPT !.subIndex = @ + tm.i]

\* Faulty variant: the task is dropped.
Requeue_Drops  == UNCHANGED timers /\ tm' = TMIdle

Requeue == timers' = timers \cup {RequeuedTask} /\ tm' = TMIdle

PublishDelivered ==
    /\ tm.pc = "publish"
    /\ hdl[CurrentSub].pc = "idle"
    /\ nids' = nids + 1
    /\ tm' = [tm EXCEPT !.pc = "sent", !.nid = nids + 1]
    /\ hdl' = [hdl EXCEPT ![CurrentSub] =
                  [Parked EXCEPT !.pc = "notified", !.obj = tm.task.obj,
                                 !.ver = tm.task.ver, !.nid = nids + 1]]
    /\ UNCHANGED <<taskVars, dbVars, replays, ops, faults, ghostVars>>

PublishBusy ==
    /\ tm.pc = "publish"
    /\ hdl[CurrentSub].pc # "idle"
    /\ Requeue
    /\ UNCHANGED <<enq, queue, dbVars, hdl, nids, replays, ops, faults, ghostVars>>

\* The goroutine reaches the select: from here on a status can be received.
AwaitStatus ==
    /\ tm.pc = "sent"
    /\ tm' = [tm EXCEPT !.pc = "wait"]
    /\ UNCHANGED <<taskVars, dbVars, hdl, nids, replays, ops, faults, ghostVars>>

\* Somebody will still report on the notification the TaskManager waits for.
AnswerOutstanding ==
    \E s \in Subscriber : hdl[s].pc \in {"notified", "exec", "report"} /\ hdl[s].nid = tm.nid

\* Faulty variant: the select has no timer.
StatusTimeout_Never == FALSE

\* A timeout that overtakes the answer is a fault; one after a lost answer is not.
StatusTimeout ==
    /\ tm.pc = "wait"
    /\ IF AnswerOutstanding THEN Fault ELSE UNCHANGED faults
    /\ Requeue
    /\ UNCHANGED <<enq, queue, dbVars, hdl, nids, replays, ops, ghostVars>>

ForThisNotification == tm.pc = "got" /\ tm.status.nid = tm.nid

IgnoreStatus ==
    /\ tm.pc = "got"
    /\ tm.status.nid # tm.nid
    /\ tm' = [tm EXCEPT !.pc = "sent", !.status = NoStatus]
    /\ UNCHANGED <<taskVars, dbVars, hdl, nids, replays, ops, faults, ghostVars>>

DropTask ==
    /\ ForThisNotification
    /\ tm.status.dropTask
    /\ tm' = IF tm.status.replay THEN [TMIdle EXCEPT !.pc = "replay"] ELSE TMIdle
    /\ UNCHANGED <<taskVars, dbVars, hdl, nids, replays, ops, faults, ghostVars>>

NextSubscriber ==
    /\ ForThisNotification
    /\ ~tm.status.dropTask
    /\ tm.status.st = "Success"
    /\ tm' = IF tm.task.subIndex + tm.i + 1 < Len(tm.task.subs)
             THEN [tm EXCEPT !.pc = "publish", !.i = @ + 1, !.nid = 0, !.status = NoStatus]
             ELSE TMIdle
    /\ UNCHANGED <<taskVars, dbVars, hdl, nids, replays, ops, faults, ghostVars>>

RetrySubscriber ==
    /\ ForThisNotification
    /\ ~tm.status.dropTask
    /\ tm.status.st = "Error"
    /\ Requeue
    /\ UNCHANGED <<enq, queue, dbVars, hdl, nids, replays, ops, faults, ghostVars>>

-----------------------------------------------------------------------------
(* A subscriber goroutine s = <<module, event type>> and its handler *)

\* Faulty variant: only the name is compared.
IsCurrent_ByName(s) == Stored(hdl[s].obj)

\* The version s was notified of is the one in the store.
IsCurrent(s) == Current(hdl[s].obj, hdl[s].ver)

\* Faulty variant: the status is left unset.
Unloaded_Unset(s) == [hdl[s] EXCEPT !.pc = "report", !.comp = [st |-> "Unspecified", errs |-> 1]]

\* GetX failed, or returned another version than the one notified.
Unloaded(s) == [hdl[s] EXCEPT !.pc = "report", !.comp = [st |-> "Error", errs |-> 1]]

Loaded(s) ==
    LET obj == db[hdl[s].obj]
    IN  [hdl[s] EXCEPT !.pc = "exec", !.intent = obj.intent,
                       !.del = (obj.oper = "ToBeDeleted"), !.comp = obj.comp[s[1]]]

LoadObject(s) ==
    /\ hdl[s].pc = "notified"
    /\ hdl' = [hdl EXCEPT ![s] =
                  IF IsCurrent(s)
                  THEN Loaded(s) ELSE Unloaded(s)]
    /\ UNCHANGED <<taskVars, dbVars, tmVars, replays, ops, faults, ghostVars>>

LoadFails(s) ==
    /\ hdl[s].pc = "notified"
    /\ Fault
    /\ hdl' = [hdl EXCEPT ![s] = Unloaded(s)]
    /\ UNCHANGED <<taskVars, dbVars, tmVars, replays, ops, ghostVars>>

\* What s is asked to do, and what of s its attempts can make impossible.
SetUp(s)    == <<s[1], hdl[s].obj, FALSE>>
TearDown(s) == <<s[1], hdl[s].obj, TRUE>>
JobOf(s)    == IF hdl[s].del THEN TearDown(s) ELSE SetUp(s)
Sticks(s)   == IF s[1] \in Sticky THEN {SetUp(s), TearDown(s)} ELSE {}

\* setUpX or tearDownX did the whole job.  A set-up of a sticky module may not
\* stand being repeated; a tear-down makes it possible again.
RealizeOk(s) ==
    /\ hdl[s].pc = "exec"
    /\ JobOf(s) \notin stuck
    /\ \/ hdl[s].del /\ stuck' = stuck \ {SetUp(s)}
       \/ ~hdl[s].del /\ \E J \in SUBSET (Sticks(s) \ {TearDown(s)}) : stuck' = stuck \cup J
    /\ hdl' = [hdl EXCEPT ![s].pc = "report", ![s].comp = [st |-> "Success", errs |-> 0]]
    /\ done' = [done EXCEPT ![s[1]][hdl[s].obj] = hdl[s].intent]
    /\ unsure' = unsure \ {<<s[1], hdl[s].obj>>}
    /\ UNCHANGED <<taskVars, dbVars, tmVars, replays, ops, faults, lost>>

\* setUpX or tearDownX stopped half-way: what the module realised is unknown.
StopsHalfway(s) ==
    LET errs == hdl[s].comp.errs + 1
    IN  /\ hdl[s].pc = "exec"
        /\ hdl' = [hdl EXCEPT ![s].pc = "report",
                              ![s].comp = [st |-> "Error", errs |-> errs],
                              ![s].replay = (s[1] \in Replayers /\ errs >= ReplayErrs)]
        /\ done' = [done EXCEPT ![s[1]][hdl[s].obj] = 0]
        /\ UNCHANGED <<taskVars, dbVars, tmVars, replays, ops, unsure, lost>>

\* What a sticky module leaves when it stops may be in the way of the next
\* set-up, of the tear-down or of both, and stay there.
RealizeFails(s) ==
    /\ StopsHalfway(s)
    /\ Fault
    /\ \E J \in SUBSET Sticks(s) : stuck' = stuck \cup J

\* What cannot succeed fails.  On the stored version it does so for ever, which
\* MaxFaults bounds (RealizeFails); on an older one only until it is dropped.
RealizeIsStuck(s) ==
    /\ StopsHalfway(s)
    /\ JobOf(s) \in stuck
    /\ ~IsCurrent(s)
    /\ UNCHANGED <<faults, stuck>>

\* The answer is there before the TaskManager has reached its select.
TooEarly(s) == tm.pc = "sent" /\ tm.nid = hdl[s].nid

\* StatusUpdated: the status is gone unless the TaskManager is in its select.
StatusUpdated(s, drop) ==
    /\ tm' = IF tm.pc = "wait"
             THEN [tm EXCEPT !.pc = "got",
                             !.status = [nid |-> hdl[s].nid, dropTask |-> drop,
                                         replay |-> hdl[s].replay, st |-> hdl[s].comp.st]]
             ELSE tm
    /\ IF TooEarly(s) THEN Fault ELSE UNCHANGED faults

HandlerReturns(s) == hdl' = [hdl EXCEPT ![s].pc = "return"]

UpdateStatusStale(s) ==
    /\ hdl[s].pc = "report"
    /\ ~IsCurrent(s)
    /\ StatusUpdated(s, TRUE)
    /\ HandlerReturns(s)
    /\ UNCHANGED <<taskVars, dbVars, nids, replays, ops, ghostVars>>

UpdateStatusReplay(s) ==
    /\ hdl[s].pc = "report"
    /\ IsCurrent(s)
    /\ hdl[s].replay
    /\ StatusUpdated(s, TRUE)
    /\ replays' = replays \cup {[nid |-> hdl[s].nid, mod |-> s[1], obj |-> hdl[s].obj,
                                 ver |-> hdl[s].ver, pc |-> "start", tasks |-> {}]}
    /\ HandlerReturns(s)
    /\ UNCHANGED <<taskVars, dbVars, nids, ops, ghostVars>>

\* The object once the component of s is set: gone, Up, or just updated.
Reported(s) ==
    LET obj == db[hdl[s].obj]
        c   == [obj.comp EXCEPT ![s[1]] = hdl[s].comp]
    IN  IF checkForAllSuccess(hdl[s].obj, c)
        THEN IF obj.oper = "ToBeDeleted" THEN Absent
             ELSE [obj EXCEPT !.comp = c, !.oper = "Up"]
        ELSE [obj EXCEPT !.comp = c]

UpdateStatus(s) ==
    /\ hdl[s].pc = "report"
    /\ IsCurrent(s)
    /\ ~hdl[s].replay
    /\ db' = [db EXCEPT ![hdl[s].obj] = Reported(s)]
    /\ listed' = IF Reported(s) = Absent THEN listed \ {hdl[s].obj} ELSE listed
    /\ StatusUpdated(s, FALSE)
    /\ HandlerReturns(s)
    /\ UNCHANGED <<taskVars, clock, nids, replays, ops, ghostVars>>

\* A store error: UpdateXStatus returns it and tells the TaskManager nothing.
UpdateStatusFails(s) ==
    /\ hdl[s].pc = "report"
    /\ Fault
    /\ HandlerReturns(s)
    /\ UNCHANGED <<taskVars, dbVars, tmVars, replays, ops, ghostVars>>

\* The same after the object has been deleted: the maps of VNIs and of names
\* cannot be written, or are missing when no create has ever got that far.
RemovalFails(s) ==
    /\ hdl[s].pc = "report"
    /\ IsCurrent(s)
    /\ ~hdl[s].replay
    /\ Reported(s) = Absent
    /\ Fault \/ (hdl[s].obj \notin listed /\ UNCHANGED faults)
    /\ db' = [db EXCEPT ![hdl[s].obj] = Absent]
    /\ HandlerReturns(s)
    /\ UNCHANGED <<taskVars, clock, listed, tmVars, replays, ops, ghostVars>>

\* Only now can the next notification be received.
HandlerParks(s) ==
    /\ hdl[s].pc = "return"
    /\ hdl' = [hdl EXCEPT ![s] = Parked]
    /\ UNCHANGED <<taskVars, dbVars, tmVars, replays, ops, faults, ghostVars>>

-----------------------------------------------------------------------------
(* The replay procedure, a goroutine per request *)

ObjectsOf(m)    == {o \in Obj : m \in Range(Subs(o))}
Named(m)        == {o \in ObjectsOf(m) \cap listed : TypeOf[o] \notin NotReplayed}
ToReplay(m)     == {o \in Named(m) : Stored(o)}

\* The requesting component, and the ones that have not succeeded.
ReplaySet(m, o) == {n \in Modules : n = m \/ db[o].comp[n].st # "Success"}

\* q lists the members of S that occur in the sequence all, in all's order.
IsSelection(q, all, S) ==
    /\ Range(q) = Range(all) \cap S
    /\ \A i, j \in DOMAIN q : i < j =>
          \E k, l \in DOMAIN all : k < l /\ all[k] = q[i] /\ all[l] = q[j]

\* Faulty variant: the replayed object keeps its version.
ReplayVersion_Same(o) == db[o].ver

\* The version a replayed object gets.
ReplayVersion(o) == clock[o] + 1

\* Faulty variant: the components are not reset.
prepareObjectsForReplay_Kept(m, o) == [db[o] EXCEPT !.ver = ReplayVersion(o)]

prepareObjectsForReplay(m, o) ==
    [db[o] EXCEPT !.ver = ReplayVersion(o),
                  !.oper = IF @ = "Up" THEN "Down" ELSE @,
                  !.comp = [n \in Modules |-> IF n \in ReplaySet(m, o) THEN Fresh ELSE @[n]]]

\* The pre-replay of a module resets the subsystem to its basic configuration.
Reset(m) == done' = [done EXCEPT ![m] = [o \in Obj |-> 0]]

\* What a replay of the objects R leaves without a record of its doubt: the
\* objects it does not reach, and components kept in Success although their
\* handler is at work again.
NotReplayedPairs(m, R) == {<<m, o>> : o \in {p \in ObjectsOf(m) : Stored(p)} \ R}
OvertakenPairs(m, R)   ==
    {p \in Modules \X R :
        LET h == hdl[<<p[1], TypeOf[p[2]]>>]
        IN  /\ p[1] \notin ReplaySet(m, p[2])
            /\ \/ h.pc = "exec" /\ h.obj = p[2]
               \/ done[p[1]][p[2]] # db[p[2]].intent}

\* The pre-replay of module m is done and the objects R have new versions.
GatherObjects(m, R) ==
    /\ clock' = [o \in Obj |-> IF o \in R THEN ReplayVersion(o) ELSE clock[o]]
    /\ db' = [o \in Obj |-> IF o \in R THEN prepareObjectsForReplay(m, o) ELSE db[o]]
    /\ Reset(m)
    /\ unsure' = unsure \cup NotReplayedPairs(m, R) \cup OvertakenPairs(m, R)

\* subsOf: the subscribers prepareObjectsForReplay returns for each object.
ReplayTasks(R, subsOf) == {newTask(o, ReplayVersion(o), subsOf[o]) : o \in R}

ReplayObjects(r) ==
    LET R == ToReplay(r.mod)
    IN  /\ r.pc = "start"
        /\ \A o \in Named(r.mod) : Stored(o)
        /\ GatherObjects(r.mod, R)
        /\ \E subsOf \in [R -> SeqOf(Modules, Cardinality(Modules))] :
              /\ \A o \in R : IsSelection(subsOf[o], Subs(o), ReplaySet(r.mod, o))
              /\ replays' = (replays \ {r}) \cup
                    {[r EXCEPT !.pc = "finish", !.tasks = ReplayTasks(R, subsOf)]}
        /\ lost' = lost \cup ({<<r.obj, r.ver>>} \cap ((Obj \ R) \X Nat))
        /\ UNCHANGED <<listed, taskVars, tmVars, hdl, ops, faults, stuck>>

ReplayGivesUp(r) == replays' = (replays \ {r}) \cup {[r EXCEPT !.pc = "finish"]}

\* A store error on the way, or a name whose object is gone: the objects R
\* that were written already keep their new versions, and none gets a task.
ReplayGatherFails(r) ==
    /\ r.pc = "start"
    /\ Fault \/ (UNCHANGED faults /\ \E o \in Named(r.mod) : ~Stored(o))
    /\ \E R \in SUBSET ToReplay(r.mod) :
          /\ GatherObjects(r.mod, R)
          /\ lost' = lost \cup {<<r.obj, r.ver>>} \cup {<<o, ReplayVersion(o)>> : o \in R}
    /\ ReplayGivesUp(r)
    /\ UNCHANGED <<listed, taskVars, tmVars, hdl, ops, stuck>>

\* No pre-replay subscriber, or it is busy, or it reports an error; in the
\* last case the subsystem may have been reset already.
ReplayFails(r) ==
    /\ r.pc = "start"
    /\ Fault
    /\ ReplayGivesUp(r)
    /\ \/ UNCHANGED <<done, unsure>>
       \/ Reset(r.mod) /\ unsure' = unsure \cup NotReplayedPairs(r.mod, {})
    /\ lost' = lost \cup {<<r.obj, r.ver>>}
    /\ UNCHANGED <<taskVars, dbVars, tmVars, hdl, ops, stuck>>

\* Faulty variant: the TaskManager goes on, but no task is created.
ReplayFinished_NoTasks(r) ==
    /\ r.pc = "finish"
    /\ tm.pc = "replay"
    /\ tm' = TMIdle
    /\ replays' = replays \ {r}
    /\ UNCHANGED <<enq, timers, queue, dbVars, hdl, nids, ops, faults, ghostVars>>

\* ReplayFinished blocks until the TaskManager waits for a replay (any one),
\* then the tasks of the replayed objects are created.
ReplayFinished(r) ==
    /\ r.pc = "finish"
    /\ tm.pc = "replay"
    /\ tm' = TMIdle
    /\ enq' = enq \cup r.tasks
    /\ replays' = replays \ {r}
    /\ UNCHANGED <<timers, queue, dbVars, hdl, nids, ops, faults, ghostVars>>

-----------------------------------------------------------------------------

Init ==
    /\ db = [o \in Obj |-> Absent]
    /\ clock = [o \in Obj |-> 0]
    /\ listed = {}
    /\ enq = {} /\ timers = {} /\ queue = <<>>
    /\ tm = TMIdle
    /\ hdl = [s \in Subscriber |-> Parked]
    /\ nids = 0
    /\ replays = {}
    /\ ops = 0 /\ faults = 0
    /\ done = [m \in Modules |-> [o \in Obj |-> 0]]
    /\ unsure = {} /\ lost = {} /\ stuck = {}

ApiStep ==
    \E o \in Obj : CreateObject(o) \/ CreateFails(o) \/ UpdateObject(o) \/ DeleteObject(o)

ChannelStep == (\E t \in enq : Enqueue(t)) \/ (\E t \in timers : TimerFires(t))

TaskManagerStep ==
    \/ Dequeue \/ PublishDelivered \/ PublishBusy \/ AwaitStatus \/ StatusTimeout
    \/ IgnoreStatus \/ DropTask \/ NextSubscriber \/ RetrySubscriber

HandlerStep(s) ==
    \/ LoadObject(s) \/ LoadFails(s)
    \/ RealizeOk(s) \/ RealizeFails(s) \/ RealizeIsStuck(s)
    \/ UpdateStatusStale(s) \/ UpdateStatusReplay(s) \/ UpdateStatus(s)
    \/ UpdateStatusFails(s) \/ RemovalFails(s) \/ HandlerParks(s)

ReplayStep(r) ==
    ReplayObjects(r) \/ ReplayGatherFails(r) \/ ReplayFails(r) \/ ReplayFinished(r)

Next ==
    \/ ApiStep
    \/ ChannelStep
    \/ TaskManagerStep
    \/ \E s \in Subscriber : HandlerStep(s)
    \/ \E r \in replays : ReplayStep(r)

Spec == Init /\ [][Next]_vars
-----------------------------------------------------------------------------
(* Properties *)

TypeOK ==
    /\ db \in [Obj -> Object]
    /\ clock \in [Obj -> Nat]
    /\ listed \subseteq Obj
    /\ enq \subseteq Task /\ timers \subseteq Task /\ queue \in Seq(Task)
    /\ tm \in TaskManager
    /\ hdl \in [Subscriber -> Handler]
    /\ nids \in Nat
    /\ replays \subseteq Replay
    /\ ops \in Nat /\ faults \in Nat
    /\ done \in [Modules -> [Obj -> Nat]]
    /\ unsure \subseteq Modules \X Obj
    /\ lost \subseteq Obj \X Nat
    /\ stuck \subseteq Sticky \X Obj \X BOOLEAN

TMHolds == tm.pc \in {"publish", "sent", "wait", "got"}

\* The tasks that are somewhere on their way to the TaskManager.
Waiting == enq \cup timers \cup Range(queue)

IsFor(t, o, v) == t.obj = o /\ t.ver = v

Live(o, v) == (\E t \in Waiting : IsFor(t, o, v)) \/ (TMHolds /\ IsFor(tm.task, o, v))

\* A live task for the stored version of o has got as far as subscriber m.
AtSubscriber(o, m) ==
    \/ \E t \in Waiting : IsFor(t, o, db[o].ver) /\ t.subs[t.subIndex + 1] = m
    \/ TMHolds /\ IsFor(tm.task, o, db[o].ver) /\ CurrentModule = m

Succeeded(o, m) == Stored(o) /\ db[o].comp[m].st = "Success"

(* A component is recorded as Success (UpdateXStatus) only if the module has *)
(* realised the very intent that is stored, or a live task is about to make  *)
(* it try again: a late or lost status, a timeout or a newer version never   *)
(* leaves a Success behind that nothing stands for.                          *)
SuccessMeansRealised ==
    \A o \in Obj : \A m \in Range(Subs(o)) :
        Succeeded(o, m) /\ <<m, o>> \notin unsure =>
            done[m][o] = db[o].intent \/ AtSubscriber(o, m)

(* UpdateXStatus removes an object only after every subscriber has torn down *)
(* what the object stood for.                                                *)
DeletedOnlyWhenTornDown ==
    [][\A o \in Obj : Stored(o) /\ ~Stored(o)' =>
          /\ db[o].oper = "ToBeDeleted"
          /\ \A m \in Range(Subs(o)) :
                <<m, o>> \notin unsure => done[m][o] = db[o].intent]_vars

(* A stored intent that some module has not realised is still being worked   *)
(* on: its task is on the way, or a replay is about to create one.  The code  *)
(* loses an intent in three ways and in no other, and lost names the version: *)
(* a CreateX whose store fails between its Set and its CreateTask (CreateVrf, *)
(* although the architecture document promises a task for every stored       *)
(* intent), a replay that fails, and one that does not reach the object.     *)
NoLostIntent ==
    \A o \in Obj : Stored(o) /\ ~checkForAllSuccess(o, db[o].comp) =>
        \/ Live(o, db[o].ver)
        \/ \E r \in replays : \/ r.pc = "start" /\ r.obj = o /\ r.ver = db[o].ver
                             \/ \E t \in r.tasks : IsFor(t, o, db[o].ver)
        \/ <<o, db[o].ver>> \in lost

(* There is never a second copy of a task: not when a timeout requeues it    *)
(* while the late status is on its way, not after a failed Publish.          *)
OneTaskPerVersion ==
    /\ enq \cap timers = {}
    /\ \A i, j \in DOMAIN queue : IsFor(queue[i], queue[j].obj, queue[j].ver) => i = j
    /\ \A t \in enq \cup timers : \A u \in Waiting : IsFor(t, u.obj, u.ver) => t = u
    /\ Range(queue) \cap (enq \cup timers) = {}
    /\ TMHolds => \A t \in Waiting : ~IsFor(t, tm.task.obj, tm.task.ver)

(* Modules realise an intent one by one, by priority: while a subscriber     *)
(* works on the stored version, every module before it in the list has       *)
(* succeeded (subIndex survives each kind of requeue correctly).             *)
PriorityOrder ==
    \A s \in Subscriber : hdl[s].pc = "exec" /\ IsCurrent(s) =>
        LET subs == Subs(hdl[s].obj)
        IN  \A i, j \in DOMAIN subs :
                i < j /\ subs[j] = s[1] => Succeeded(hdl[s].obj, subs[i])

(* Once an object has left the store no subscriber is still setting it up:   *)
(* a slow handler of an older version cannot bring it back.                  *)
NoResurrection ==
    \A s \in Subscriber : hdl[s].pc = "exec" /\ ~Stored(hdl[s].obj) => hdl[s].del

\* What Intent calls oper, acks and Order.
Opers  == [o \in Obj |-> db[o].oper]
Acked  == [o \in Obj |-> {m \in Range(Subs(o)) : db[o].comp[m].st = "Success"}]
Listed == [o \in Obj |-> Subs(o)]

Promise == INSTANCE Intent WITH oper <- Opers, acks <- Acked, Order <- Listed

(* The TaskManager, the subscribers and the replays keep the promise that    *)
(* Intent states: whatever is retried, lost, late or replayed, the modules   *)
(* acknowledge an object by priority, and it is up or gone with the last.    *)
KeepsPromise == Promise!Spec

(* The TaskManager waits for a replay (checkStatus) only if one is going on. *)
WaitsForARealReplay == tm.pc = "replay" => replays # {}

-----------------------------------------------------------------------------
(* The inductive invariant behind SuccessMeansRealised                       *)

Working(s) == hdl[s].pc \in {"notified", "exec", "report"}

WellFormedTask(t) ==
    /\ t.ver \in 1 .. clock[t.obj]
    /\ t.subIndex < Len(t.subs)
    /\ Range(t.subs) \subseteq Range(Subs(t.obj))

\* Tasks are about versions that exist, and point into their subscriber list.
TasksWellFormed ==
    /\ \A t \in Waiting : WellFormedTask(t)
    /\ \A r \in replays : \A t \in r.tasks : WellFormedTask(t)
    /\ TMHolds => WellFormedTask(tm.task) /\ tm.task.subIndex + tm.i < Len(tm.task.subs)

\* The versions generated so far bound the stored one; a success clears Timer.
RecordsWellFormed ==
    \A o \in Obj :
        /\ db[o].ver <= clock[o]
        /\ \A m \in Modules : db[o].comp[m].st = "Success" => db[o].comp[m].errs = 0

\* A handler works on an object of its kind, for a notification handed out.
WellFormedHandler(s) ==
    /\ hdl[s].pc # "idle" => TypeOf[hdl[s].obj] = s[2] /\ s[1] \in Range(Subs(hdl[s].obj))
    /\ hdl[s].ver <= clock[hdl[s].obj] /\ hdl[s].nid <= nids
    /\ hdl[s].pc \in {"notified", "exec"} => ~hdl[s].replay
    /\ hdl[s].comp.st = "Success" => hdl[s].comp.errs = 0

HandlersWellFormed == tm.nid <= nids /\ \A s \in Subscriber : WellFormedHandler(s)

\* Whoever works for the notification the TaskManager waits for is the
\* current subscriber, on the current task.
AnswerIsFromCurrent ==
    \A s \in Subscriber :
        Working(s) /\ tm.pc \in {"sent", "wait", "got"} /\ hdl[s].nid = tm.nid =>
            s = CurrentSub /\ IsFor(tm.task, hdl[s].obj, hdl[s].ver)

Realised(o, m) == done[m][o] = db[o].intent \/ <<m, o>> \in unsure

\* What an accepted status says of the task and of the store.
AcceptedStatusIsTrue ==
    LET o == tm.task.obj
        current == Current(o, tm.task.ver)
    IN  ForThisNotification =>
            /\ ~Working(CurrentSub)
            /\ tm.status.dropTask => ~current \/ ~Succeeded(o, CurrentModule)
            /\ ~tm.status.dropTask /\ tm.status.st = "Success" /\ current =>
                  Realised(o, CurrentModule)

\* A handler at work on the stored version has a live task behind it, and
\* what it loaded is still what the store says.
Backed(s) ==
    LET o == hdl[s].obj
        m == s[1]
    IN  /\ Working(s) /\ IsCurrent(s) => AtSubscriber(o, m)
        /\ hdl[s].pc = "exec" /\ IsCurrent(s) =>
              db[o].comp[m] = hdl[s].comp /\ db[o].intent = hdl[s].intent
        /\ hdl[s].pc = "exec" /\ Succeeded(o, m) =>
              db[o].intent = hdl[s].intent /\ (IsCurrent(s) \/ <<m, o>> \in unsure)
        /\ hdl[s].pc = "report" /\ IsCurrent(s) /\ hdl[s].comp.st = "Success" =>
              Realised(o, m)
        /\ hdl[s].pc = "report" /\ IsCurrent(s) /\ hdl[s].replay => ~Succeeded(o, m)

WorkIsBacked == \A s \in Subscriber : Backed(s)

IInv ==
    /\ TypeOK
    /\ TasksWellFormed
    /\ RecordsWellFormed
    /\ HandlersWellFormed
    /\ AnswerIsFromCurrent
    /\ AcceptedStatusIsTrue
    /\ WorkIsBacked
    /\ SuccessMeansRealised

-----------------------------------------------------------------------------
(* Fairness: the goroutines run, timers fire, senders on the task channel    *)
(* are served.  Nobody is obliged to call the API or to fail.                *)

Fairness ==
    /\ WF_vars(TaskManagerStep)
    /\ \A o \in Obj : \A v \in 1 .. (MaxOps + MaxFaults) :
          /\ WF_vars(\E t \in enq : IsFor(t, o, v) /\ Enqueue(t))
          /\ WF_vars(\E t \in timers : IsFor(t, o, v) /\ TimerFires(t))
    /\ \A s \in Subscriber :
          WF_vars(LoadObject(s) \/ RealizeOk(s) \/ RealizeIsStuck(s)
                  \/ UpdateStatusStale(s) \/ UpdateStatusReplay(s)
                  \/ UpdateStatus(s) \/ HandlerParks(s))
    /\ WF_vars(\E r \in replays : ReplayObjects(r) \/ ReplayFinished(r))

FairSpec == Spec /\ Fairness

\* What the API last asked of o is in place everywhere.
Settled(o) ==
    Stored(o) => /\ db[o].oper = "Up"
                 /\ checkForAllSuccess(o, db[o].comp)
                 /\ \A m \in Range(Subs(o)) : done[m][o] = db[o].intent

\* No retry can help o: the code has lost its version, or what a module has
\* left on the host is in the way of what the module has to do next.
BeyondRetry(o) ==
    \/ <<o, db[o].ver>> \in lost
    \/ \E m \in Range(Subs(o)) : <<m, o, db[o].oper = "ToBeDeleted">> \in stuck

(* Once the API is quiet and the faults are over, every object is fully set  *)
(* up or gone, and stays so: the retries of the TaskManager converge.  The   *)
(* code has two exceptions: a version that was lost (NoLostIntent), and a    *)
(* job that cannot be repeated on what an earlier attempt has left, as the   *)
(* set-up of an SVI whose VLAN device exists, or a tear-down that finds the   *)
(* device of its parent gone (setUpSvi and the tear-downs of lgm.go).        *)
Converges == <>[](\A o \in Obj : Settled(o) \/ BeyondRetry(o))
=============================================================================
