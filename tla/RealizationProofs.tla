-------------------------- MODULE RealizationProofs --------------------------
(***************************************************************************)
(* Proof, for every choice of modules, objects, subscriber lists and        *)
(* bounds, that Realization keeps its type invariant and that a component   *)
(* is only recorded as Success when its module has realised the stored      *)
(* intent or a live task makes it try again.                                *)
(***************************************************************************)
EXTENDS Realization, TLAPS

-----------------------------------------------------------------------------
(* Constants and sequences *)

LEMMA ConstTypes ==
    /\ AnyObj \in Obj
    /\ \A o \in Obj : TypeOf[o] \in Types /\ Subs(o) \in Seq(Modules) /\ Subs(o) # <<>>
    /\ Fresh \in Component /\ Absent \in Object /\ NoTask \in Task
    /\ NoStatus \in TaskStatus /\ TMIdle \in TaskManager /\ Parked \in Handler
<1>1. AnyObj \in Obj
  BY ConstAssumption DEF AnyObj
<1>2. Fresh \in Component /\ NoStatus \in TaskStatus
  BY DEF Fresh, Component, NoStatus, TaskStatus, Status
<1>3. Absent \in Object
  BY <1>2 DEF Absent, Object, Oper
<1>4. NoTask \in Task
  BY <1>1 DEF NoTask, Task
<1>5. TMIdle \in TaskManager
  BY <1>2, <1>4 DEF TMIdle, TaskManager
<1>6. Parked \in Handler
  BY <1>1, <1>2 DEF Parked, Handler
<1>7. \A o \in Obj : TypeOf[o] \in Types /\ Subs(o) \in Seq(Modules) /\ Subs(o) # <<>>
  BY ConstAssumption, SubsAssumption DEF Subs
<1>8. QED
  BY <1>1, <1>2, <1>3, <1>4, <1>5, <1>6, <1>7

LEMMA RangeOfAppend ==
    ASSUME NEW S, NEW q \in Seq(S), NEW t \in S
    PROVE  Range(Append(q, t)) = Range(q) \cup {t}
<1>1. /\ Append(q, t) \in Seq(S) /\ Len(Append(q, t)) = Len(q) + 1
      /\ \A i \in 1 .. Len(q) : Append(q, t)[i] = q[i]
      /\ Append(q, t)[Len(q) + 1] = t
  OBVIOUS
<1>2. Range(q) \cup {t} \subseteq Range(Append(q, t))
  BY <1>1 DEF Range
<1>3. ASSUME NEW i \in DOMAIN Append(q, t)
      PROVE  Append(q, t)[i] \in Range(q) \cup {t}
  <2>1. i \in 1 .. Len(q) \/ i = Len(q) + 1
    BY <1>1
  <2>2. QED
    BY <1>1, <2>1 DEF Range
<1>4. QED
  BY <1>2, <1>3 DEF Range

LEMMA RangeOfQueue ==
    ASSUME NEW S, NEW q \in Seq(S), q # <<>>
    PROVE  Head(q) \in S /\ Tail(q) \in Seq(S) /\ Range(q) = Range(Tail(q)) \cup {Head(q)}
<1>1. Head(q) \in S /\ Tail(q) \in Seq(S)
  OBVIOUS
<1>2. Range(q) \subseteq Range(Tail(q)) \cup {Head(q)}
  <2> SUFFICES ASSUME NEW i \in DOMAIN q
               PROVE  q[i] \in Range(Tail(q)) \cup {Head(q)}
    BY DEF Range
  <2>1. CASE i = 1
    BY <2>1
  <2>2. CASE i # 1
    <3>1. i - 1 \in DOMAIN Tail(q) /\ Tail(q)[i - 1] = q[i]
      BY <2>2
    <3>2. QED
      BY <3>1 DEF Range
  <2>3. QED
    BY <2>1, <2>2
<1>3. Range(Tail(q)) \cup {Head(q)} \subseteq Range(q)
  <2>1. Head(q) = q[1] /\ 1 \in DOMAIN q
    OBVIOUS
  <2>2. \A i \in DOMAIN Tail(q) : i + 1 \in DOMAIN q /\ Tail(q)[i] = q[i + 1]
    OBVIOUS
  <2>3. QED
    BY <2>1, <2>2 DEF Range
<1>4. QED
  BY <1>1, <1>2, <1>3

LEMMA RangeOfTyped ==
    ASSUME NEW S, NEW q \in Seq(S), NEW i \in Nat, i < Len(q)
    PROVE  q[i + 1] \in S /\ q[i + 1] \in Range(q)
  BY DEF Range

LEMMA RangeTyped ==
    ASSUME NEW S, NEW q \in Seq(S), NEW x \in Range(q)
    PROVE  x \in S
  BY DEF Range

-----------------------------------------------------------------------------
(* Facts about the TaskManager's current subscriber *)

LEMMA CurrentFacts ==
    ASSUME TypeOK, TasksWellFormed, TMHolds
    PROVE  /\ CurrentModule \in Modules
           /\ CurrentModule \in Range(Subs(tm.task.obj))
           /\ CurrentSub \in Subscriber
           /\ RequeuedTask \in Task
           /\ WellFormedTask(RequeuedTask)
           /\ RequeuedTask.obj = tm.task.obj /\ RequeuedTask.ver = tm.task.ver
           /\ RequeuedTask.subs[RequeuedTask.subIndex + 1] = CurrentModule
<1>1. /\ tm.task \in Task /\ tm.i \in Nat
      /\ tm.task.obj \in Obj /\ tm.task.subs \in Seq(Modules) /\ tm.task.subIndex \in Nat
      /\ tm.task.ver \in Nat
  BY DEF TypeOK, TaskManager, Task
<1>2. tm.task.subIndex + tm.i < Len(tm.task.subs) /\ WellFormedTask(tm.task)
  BY DEF TasksWellFormed
<1>3. /\ CurrentModule \in Modules
      /\ CurrentModule \in Range(tm.task.subs)
  BY <1>1, <1>2, RangeOfTyped DEF CurrentModule
<1>4. CurrentModule \in Range(Subs(tm.task.obj))
  BY <1>2, <1>3 DEF WellFormedTask
<1>5. CurrentSub \in Subscriber
  BY <1>1, <1>3, ConstTypes DEF CurrentSub, Subscriber
<1>6. RequeuedTask \in Task
  BY <1>1 DEF RequeuedTask, Task
<1>7. /\ RequeuedTask.obj = tm.task.obj /\ RequeuedTask.ver = tm.task.ver
      /\ RequeuedTask.subs = tm.task.subs
      /\ RequeuedTask.subIndex = tm.task.subIndex + tm.i
  BY <1>1 DEF RequeuedTask, Task
<1>8. WellFormedTask(RequeuedTask)
  BY <1>2, <1>7 DEF WellFormedTask
<1>9. QED
  BY <1>3, <1>4, <1>5, <1>6, <1>7, <1>8 DEF CurrentModule

-----------------------------------------------------------------------------
(* Types *)

LEMMA TypesInit == Init => TypeOK
  BY ConstTypes DEF Init, TypeOK, Subscriber

LEMMA TypesApi ==
    ASSUME TypeOK, NEW o \in Obj,
           CreateObject(o) \/ CreateFails(o) \/ UpdateObject(o) \/ DeleteObject(o)
    PROVE  TypeOK'
<1>1. /\ db \in [Obj -> Object] /\ clock \in [Obj -> Nat] /\ ops \in Nat
      /\ enq \subseteq Task
  BY DEF TypeOK
<1>2. newTask(o, clock[o] + 1, Subs(o)) \in Task
  BY <1>1, ConstTypes DEF newTask, Task
<1>3. NewObject(o) \in Object
  <2>1. [m \in Modules |-> Fresh] \in [Modules -> Component] /\ clock[o] + 1 \in Nat
    BY <1>1, ConstTypes
  <2>2. QED
    BY <2>1 DEF NewObject, Object, Oper
<1>4. ToBeDeletedObject(o) \in Object
  <2>1. db[o] \in Object /\ db[o].comp \in [Modules -> Component] /\ clock[o] + 1 \in Nat
    BY <1>1 DEF Object
  <2>2. \A m \in Modules : [db[o].comp[m] EXCEPT !.st = "Pending"] \in Component
    BY <2>1 DEF Component, Status
  <2>3. [m \in Modules |-> [db[o].comp[m] EXCEPT !.st = "Pending"]] \in [Modules -> Component]
    BY <2>2
  <2>4. QED
    BY <2>1, <2>3 DEF ToBeDeletedObject, Object, Oper
<1>5. /\ clock' \in [Obj -> Nat] /\ ops' \in Nat /\ db' \in [Obj -> Object]
      /\ UNCHANGED <<timers, queue, tm, nids, hdl, replays, done, stuck>>
      /\ unsure' \subseteq unsure
  BY <1>1, <1>3, <1>4
  DEF StoreNew, CreateObject, CreateFails, UpdateObject, DeleteObject, CanOperate, AskAgain, tmVars
<1>6. enq' \subseteq Task
  BY <1>1, <1>2 DEF CreateObject, CreateFails, UpdateObject, DeleteObject, CreateTask
<1>7. listed' \subseteq Obj /\ faults' \in Nat
  BY DEF TypeOK, CreateObject, CreateFails, UpdateObject, DeleteObject, Fault
<1>8. lost' \subseteq Obj \X Nat
  BY <1>1 DEF TypeOK, CreateObject, CreateFails, UpdateObject, DeleteObject
<1>9. QED
  BY <1>5, <1>6, <1>7, <1>8 DEF TypeOK

LEMMA TypesChannel ==
    ASSUME TypeOK, ChannelStep
    PROVE  TypeOK'
<1>1. CASE \E t \in enq : Enqueue(t)
  BY <1>1 DEF TypeOK, Enqueue, dbVars, tmVars, ghostVars
<1>2. CASE \E t \in timers : TimerFires(t)
  BY <1>2 DEF TypeOK, TimerFires, dbVars, tmVars, ghostVars
<1>3. QED
  BY <1>1, <1>2 DEF ChannelStep

LEMMA TypesTaskManager ==
    ASSUME TypeOK, TaskManagerStep
    PROVE  TypeOK'
<1>1. /\ tm \in TaskManager /\ queue \in Seq(Task) /\ timers \subseteq Task
      /\ faults \in Nat /\ nids \in Nat /\ hdl \in [Subscriber -> Handler]
  BY DEF TypeOK
<1>2. /\ tm.task \in Task /\ tm.i \in Nat /\ tm.nid \in Nat /\ RequeuedTask \in Task
      /\ tm.task.obj \in Obj /\ tm.task.ver \in Nat
  <2>1. tm.task \in Task /\ tm.i \in Nat /\ tm.nid \in Nat
    BY <1>1 DEF TaskManager
  <2>2. tm.task.obj \in Obj /\ tm.task.ver \in Nat /\ RequeuedTask \in Task
    BY <2>1 DEF Task, RequeuedTask
  <2>3. QED
    BY <2>1, <2>2
<1> USE DEF tmVars, taskVars, dbVars, ghostVars
<1>3. CASE Dequeue
  <2>1. Head(queue) \in Task /\ queue' \in Seq(Task)
    BY <1>1, <1>3, RangeOfQueue DEF Dequeue
  <2>2. tm' \in TaskManager
    BY <1>3, <2>1, ConstTypes DEF Dequeue, TaskManager, TMIdle
  <2>3. QED
    BY <1>3, <2>1, <2>2 DEF Dequeue, TypeOK
<1>4. CASE PublishDelivered
  <2>1. tm' \in TaskManager /\ nids' \in Nat
    <3>1. nids + 1 \in Nat /\ tm' = [tm EXCEPT !.pc = "sent", !.nid = nids + 1]
      BY <1>1, <1>4 DEF PublishDelivered
    <3>2. QED
      BY <1>1, <1>4, <3>1 DEF PublishDelivered, TaskManager
  <2>2. [Parked EXCEPT !.pc = "notified", !.obj = tm.task.obj,
                       !.ver = tm.task.ver, !.nid = nids + 1] \in Handler
    <3>1. Parked \in Handler /\ nids + 1 \in Nat
      BY <1>1, ConstTypes
    <3>2. QED
      BY <1>2, <3>1 DEF Handler
  <2>3. hdl' \in [Subscriber -> Handler]
    BY <1>1, <1>4, <2>2 DEF PublishDelivered
  <2>4. QED
    BY <1>4, <2>1, <2>3 DEF PublishDelivered, TypeOK
<1>5. CASE PublishBusy
  BY <1>2, <1>5, ConstTypes DEF PublishBusy, Requeue, TypeOK
<1>6. CASE AwaitStatus
  BY <1>6 DEF AwaitStatus, TypeOK, TaskManager
<1>7. CASE StatusTimeout
  <2>1. faults' \in Nat
    BY <1>1, <1>7 DEF StatusTimeout, Fault
  <2>2. QED
    BY <1>2, <1>7, <2>1, ConstTypes DEF StatusTimeout, Requeue, TypeOK
<1>8. CASE IgnoreStatus
  BY <1>8, ConstTypes DEF IgnoreStatus, TypeOK, TaskManager
<1>9. CASE DropTask
  BY <1>9, ConstTypes DEF DropTask, TypeOK, TaskManager
<1>10. CASE NextSubscriber
  <2>1. [tm EXCEPT !.pc = "publish", !.i = @ + 1, !.nid = 0, !.status = NoStatus] \in TaskManager
    <3>1. tm.i + 1 \in Nat /\ NoStatus \in TaskStatus
      BY <1>2, ConstTypes
    <3>2. QED
      BY <1>1, <3>1 DEF TaskManager
  <2>2. tm' \in TaskManager
    BY <1>10, <2>1, ConstTypes DEF NextSubscriber
  <2>3. QED
    BY <1>10, <2>2 DEF NextSubscriber, TypeOK
<1>11. CASE RetrySubscriber
  BY <1>2, <1>11, ConstTypes DEF RetrySubscriber, Requeue, TypeOK
<1>12. QED
  BY <1>3, <1>4, <1>5, <1>6, <1>7, <1>8, <1>9, <1>10, <1>11 DEF TaskManagerStep

LEMMA TypesStatusUpdated ==
    ASSUME TypeOK, NEW s \in Subscriber, NEW drop \in BOOLEAN, StatusUpdated(s, drop)
    PROVE  tm' \in TaskManager /\ faults' \in Nat
<1>1. hdl[s] \in Handler /\ tm \in TaskManager /\ faults \in Nat
  BY DEF TypeOK
<1>2. [nid |-> hdl[s].nid, dropTask |-> drop, replay |-> hdl[s].replay, st |-> hdl[s].comp.st]
        \in TaskStatus
  BY <1>1 DEF Handler, TaskStatus, Component
<1>3. tm' \in TaskManager
  BY <1>1, <1>2 DEF StatusUpdated, TaskManager
<1>4. QED
  BY <1>1, <1>3 DEF StatusUpdated, Fault

LEMMA TypesHandler ==
    ASSUME TypeOK, NEW s \in Subscriber, HandlerStep(s)
    PROVE  TypeOK'
<1>1. /\ hdl \in [Subscriber -> Handler] /\ hdl[s] \in Handler
      /\ s[1] \in Modules /\ hdl[s].obj \in Obj /\ hdl[s].comp \in Component
      /\ db \in [Obj -> Object] /\ db[hdl[s].obj] \in Object
      /\ hdl[s].intent \in Nat /\ hdl[s].ver \in Nat /\ hdl[s].nid \in Nat
      /\ faults \in Nat /\ done \in [Modules -> [Obj -> Nat]]
  BY DEF TypeOK, Subscriber, Handler
<1>2. Unloaded(s) \in Handler
  BY <1>1 DEF Unloaded, Handler, Component, Status
<1>3. Loaded(s) \in Handler
  BY <1>1 DEF Loaded, Handler, Object
<1>4. HandlerReturns(s) => hdl' \in [Subscriber -> Handler]
  BY <1>1 DEF HandlerReturns, Handler
<1>14. Sticks(s) \subseteq Sticky \X Obj \X BOOLEAN /\ stuck \subseteq Sticky \X Obj \X BOOLEAN
  <2>1. s[1] \in Sticky =>
          /\ SetUp(s) \in Sticky \X Obj \X BOOLEAN
          /\ TearDown(s) \in Sticky \X Obj \X BOOLEAN
    BY <1>1 DEF SetUp, TearDown
  <2>2. stuck \subseteq Sticky \X Obj \X BOOLEAN
    BY DEF TypeOK
  <2>3. QED
    BY <2>1, <2>2 DEF Sticks
<1> USE DEF tmVars, taskVars, dbVars, ghostVars
<1>5. CASE LoadObject(s)
  BY <1>1, <1>2, <1>3, <1>5 DEF LoadObject, TypeOK
<1>6. CASE LoadFails(s)
  <2>1. hdl' \in [Subscriber -> Handler]
    BY <1>1, <1>2, <1>6 DEF LoadFails
  <2>2. faults' \in Nat
    BY <1>6 DEF LoadFails, Fault, TypeOK
  <2>3. QED
    BY <1>6, <2>1, <2>2 DEF LoadFails, TypeOK
<1>7. CASE RealizeOk(s)
  <2>1. hdl' \in [Subscriber -> Handler]
    BY <1>1, <1>7 DEF RealizeOk, Handler, Component, Status
  <2>2. done' \in [Modules -> [Obj -> Nat]]
    BY <1>1, <1>7 DEF RealizeOk
  <2>3. stuck' \subseteq Sticky \X Obj \X BOOLEAN
    BY <1>7, <1>14 DEF RealizeOk
  <2>4. QED
    BY <1>7, <2>1, <2>2, <2>3 DEF RealizeOk, TypeOK
<1>8. CASE RealizeFails(s) \/ RealizeIsStuck(s)
  <2>1. hdl' \in [Subscriber -> Handler]
    <3> DEFINE h == [hdl[s] EXCEPT !.pc = "report",
                         !.comp = [st |-> "Error", errs |-> hdl[s].comp.errs + 1],
                         !.replay = (s[1] \in Replayers /\ hdl[s].comp.errs + 1 >= ReplayErrs)]
    <3>1. h \in Handler
      <4>1. [st |-> "Error", errs |-> hdl[s].comp.errs + 1] \in Component
        BY <1>1 DEF Component, Status
      <4>2. (s[1] \in Replayers /\ hdl[s].comp.errs + 1 >= ReplayErrs) \in BOOLEAN
        OBVIOUS
      <4>3. QED
        BY <1>1, <4>1, <4>2 DEF Handler
    <3>2. hdl' = [hdl EXCEPT ![s] = h]
      BY <1>1, <1>8 DEF RealizeFails, RealizeIsStuck, StopsHalfway
    <3>3. QED
      BY <1>1, <3>1, <3>2
  <2>2. done' \in [Modules -> [Obj -> Nat]]
    <3>1. done' = [done EXCEPT ![s[1]][hdl[s].obj] = 0]
      BY <1>8 DEF RealizeFails, RealizeIsStuck, StopsHalfway
    <3>2. QED
      BY <1>1, <3>1
  <2>3. faults' \in Nat
    BY <1>1, <1>8 DEF RealizeFails, RealizeIsStuck, Fault
  <2>4. stuck' \subseteq Sticky \X Obj \X BOOLEAN
    BY <1>8, <1>14 DEF RealizeFails, RealizeIsStuck
  <2>5. QED
    BY <1>8, <2>1, <2>2, <2>3, <2>4 DEF RealizeFails, RealizeIsStuck, StopsHalfway, TypeOK
<1>9. CASE UpdateStatusStale(s)
  BY <1>4, <1>9, TypesStatusUpdated DEF UpdateStatusStale, TypeOK
<1>10. CASE UpdateStatusReplay(s)
  <2>1. replays' \subseteq Replay
    BY <1>1, <1>10 DEF UpdateStatusReplay, TypeOK, Replay
  <2>2. QED
    BY <1>4, <1>10, <2>1, TypesStatusUpdated DEF UpdateStatusReplay, TypeOK
<1>11. CASE UpdateStatus(s)
  <2>1. Reported(s) \in Object
    BY <1>1, ConstTypes DEF Reported, Object, Oper
  <2>2. db' \in [Obj -> Object]
    BY <1>1, <1>11, <2>1 DEF UpdateStatus
  <2>3. listed' \subseteq Obj
    BY <1>11 DEF UpdateStatus, TypeOK
  <2>4. QED
    BY <1>4, <1>11, <2>2, <2>3, TypesStatusUpdated DEF UpdateStatus, TypeOK
<1>12. CASE UpdateStatusFails(s)
  <2>1. hdl' \in [Subscriber -> Handler]
    BY <1>4, <1>12 DEF UpdateStatusFails
  <2>2. faults' \in Nat
    BY <1>12 DEF UpdateStatusFails, Fault, TypeOK
  <2>3. QED
    BY <1>12, <2>1, <2>2 DEF UpdateStatusFails, TypeOK
<1>13. CASE HandlerParks(s)
  BY <1>1, <1>13, ConstTypes DEF HandlerParks, TypeOK
<1>15. CASE RemovalFails(s)
  <2>1. hdl' \in [Subscriber -> Handler] /\ db' \in [Obj -> Object]
    BY <1>1, <1>4, <1>15, ConstTypes DEF RemovalFails
  <2>2. faults' \in Nat
    BY <1>15 DEF RemovalFails, Fault, TypeOK
  <2>3. QED
    BY <1>15, <2>1, <2>2 DEF RemovalFails, TypeOK
<1>16. QED
  BY <1>5, <1>6, <1>7, <1>8, <1>9, <1>10, <1>11, <1>12, <1>13, <1>15 DEF HandlerStep

LEMMA TypesReplay ==
    ASSUME TypeOK, NEW r \in replays, ReplayStep(r)
    PROVE  TypeOK'
<1>1. /\ r \in Replay /\ replays \subseteq Replay /\ faults \in Nat
      /\ db \in [Obj -> Object] /\ clock \in [Obj -> Nat] /\ enq \subseteq Task
      /\ done \in [Modules -> [Obj -> Nat]] /\ unsure \subseteq Modules \X Obj
      /\ lost \subseteq Obj \X Nat
      /\ r.mod \in Modules /\ r.obj \in Obj /\ r.ver \in Nat /\ r.tasks \subseteq Task
  BY DEF TypeOK, Replay
<1>2. Reset(r.mod) => done' \in [Modules -> [Obj -> Nat]]
  BY <1>1 DEF Reset
<1> USE DEF tmVars, taskVars, dbVars, ghostVars
<1>3. \A R \in SUBSET Obj : GatherObjects(r.mod, R) =>
          /\ clock' \in [Obj -> Nat] /\ db' \in [Obj -> Object]
          /\ done' \in [Modules -> [Obj -> Nat]] /\ unsure' \subseteq Modules \X Obj
  <2> SUFFICES ASSUME NEW R \in SUBSET Obj, GatherObjects(r.mod, R)
               PROVE  /\ clock' \in [Obj -> Nat] /\ db' \in [Obj -> Object]
                      /\ done' \in [Modules -> [Obj -> Nat]] /\ unsure' \subseteq Modules \X Obj
    OBVIOUS
  <2>1. clock' \in [Obj -> Nat]
    BY <1>1 DEF GatherObjects, ReplayVersion
  <2>2. \A o \in R : prepareObjectsForReplay(r.mod, o) \in Object
    <3> SUFFICES ASSUME NEW o \in R
                 PROVE  prepareObjectsForReplay(r.mod, o) \in Object
      OBVIOUS
    <3>1. db[o] \in Object /\ db[o].comp \in [Modules -> Component] /\ clock[o] + 1 \in Nat
      BY <1>1 DEF Object
    <3>2. [n \in Modules |-> IF n \in ReplaySet(r.mod, o) THEN Fresh ELSE db[o].comp[n]]
            \in [Modules -> Component]
      BY <3>1, ConstTypes
    <3>3. (IF db[o].oper = "Up" THEN "Down" ELSE db[o].oper) \in Oper
      BY <3>1 DEF Object, Oper
    <3>4. QED
      BY <3>1, <3>2, <3>3 DEF prepareObjectsForReplay, ReplayVersion, Object
  <2>3. db' \in [Obj -> Object]
    BY <1>1, <2>2 DEF GatherObjects
  <2>4. unsure' \subseteq Modules \X Obj
    BY <1>1 DEF GatherObjects, NotReplayedPairs, OvertakenPairs, ObjectsOf
  <2>5. QED
    BY <1>2, <2>1, <2>3, <2>4 DEF GatherObjects
<1>4. CASE ReplayObjects(r)
  <2>1. PICK R \in SUBSET Obj : R = ToReplay(r.mod)
    BY DEF ToReplay, Named, ObjectsOf
  <2>2. \A subsOf \in [R -> SeqOf(Modules, Cardinality(Modules))] :
            ReplayTasks(R, subsOf) \subseteq Task
    <3> SUFFICES ASSUME NEW subsOf \in [R -> SeqOf(Modules, Cardinality(Modules))], NEW o \in R
                 PROVE  newTask(o, clock[o] + 1, subsOf[o]) \in Task
      BY DEF ReplayTasks, ReplayVersion
    <3>1. subsOf[o] \in Seq(Modules)
      BY DEF SeqOf
    <3>2. QED
      BY <1>1, <3>1 DEF newTask, Task
  <2>3. replays' \subseteq Replay
    <3>1. PICK subsOf \in [R -> SeqOf(Modules, Cardinality(Modules))] :
             replays' = (replays \ {r}) \cup
                 {[r EXCEPT !.pc = "finish", !.tasks = ReplayTasks(R, subsOf)]}
      BY <1>4, <2>1 DEF ReplayObjects
    <3>2. PICK T \in SUBSET Task : T = ReplayTasks(R, subsOf)
      BY <2>2
    <3>3. [r EXCEPT !.pc = "finish", !.tasks = T] \in Replay
      BY <1>1 DEF Replay
    <3>4. QED
      BY <1>1, <3>1, <3>2, <3>3
  <2>4. lost' \subseteq Obj \X Nat
    BY <1>1, <1>4 DEF ReplayObjects
  <2>5. QED
    BY <1>3, <1>4, <2>1, <2>3, <2>4 DEF ReplayObjects, TypeOK
<1>5. ReplayGivesUp(r) => replays' \subseteq Replay
  BY <1>1 DEF ReplayGivesUp, Replay
<1>6. CASE ReplayGatherFails(r)
  <2>1. PICK R \in SUBSET Obj :
           /\ GatherObjects(r.mod, R)
           /\ lost' = lost \cup {<<r.obj, r.ver>>} \cup {<<o, ReplayVersion(o)>> : o \in R}
    BY <1>6 DEF ReplayGatherFails, ToReplay, Named, ObjectsOf
  <2>2. lost' \subseteq Obj \X Nat
    BY <1>1, <2>1 DEF ReplayVersion
  <2>3. faults' \in Nat
    BY <1>1, <1>6 DEF ReplayGatherFails, Fault
  <2>4. QED
    BY <1>3, <1>5, <1>6, <2>1, <2>2, <2>3 DEF ReplayGatherFails, TypeOK
<1>7. CASE ReplayFails(r)
  <2>1. lost' \subseteq Obj \X Nat /\ faults' \in Nat
    BY <1>1, <1>7 DEF ReplayFails, Fault
  <2>2. done' \in [Modules -> [Obj -> Nat]] /\ unsure' \subseteq Modules \X Obj
    BY <1>1, <1>2, <1>7 DEF ReplayFails, NotReplayedPairs, ObjectsOf
  <2>3. QED
    BY <1>5, <1>7, <2>1, <2>2 DEF ReplayFails, TypeOK
<1>8. CASE ReplayFinished(r)
  BY <1>1, <1>8, ConstTypes DEF ReplayFinished, TypeOK
<1>9. QED
  BY <1>4, <1>6, <1>7, <1>8 DEF ReplayStep

LEMMA TypesStep == TypeOK /\ [Next]_vars => TypeOK'
<1> SUFFICES ASSUME TypeOK, [Next]_vars
             PROVE  TypeOK'
  OBVIOUS
<1>1. CASE ApiStep
  BY <1>1, TypesApi DEF ApiStep
<1>2. CASE ChannelStep
  BY <1>2, TypesChannel
<1>3. CASE TaskManagerStep
  BY <1>3, TypesTaskManager
<1>4. CASE \E s \in Subscriber : HandlerStep(s)
  BY <1>4, TypesHandler
<1>5. CASE \E r \in replays : ReplayStep(r)
  BY <1>5, TypesReplay
<1>6. CASE UNCHANGED vars
  BY <1>6 DEF vars, TypeOK
<1>7. QED
  BY <1>1, <1>2, <1>3, <1>4, <1>5, <1>6 DEF Next

(* Every state the code reaches is made of well-typed records, queues and    *)
(* goroutine states.                                                         *)
THEOREM TypesHold == Spec => []TypeOK
  BY TypesInit, TypesStep, PTL DEF Spec

-----------------------------------------------------------------------------
(* The tasks on their way, the one in the TaskManager's hands as it would be *)
(* requeued.  Most steps only move a task about in this set.                 *)

LiveTasks == Waiting \cup (IF TMHolds THEN {RequeuedTask} ELSE {})

LEMMA AtSubscriberIs ==
    ASSUME TypeOK, TasksWellFormed, NEW o, NEW m
    PROVE  AtSubscriber(o, m) <=>
              \E t \in LiveTasks : IsFor(t, o, db[o].ver) /\ t.subs[t.subIndex + 1] = m
<1>1. CASE TMHolds
  BY <1>1, CurrentFacts DEF AtSubscriber, LiveTasks, IsFor
<1>2. CASE ~TMHolds
  BY <1>2 DEF AtSubscriber, LiveTasks
<1>3. QED
  BY <1>1, <1>2

LEMMA AtSubscriberKept ==
    ASSUME TypeOK, TypeOK', TasksWellFormed, TasksWellFormed', LiveTasks \subseteq LiveTasks',
           NEW o, NEW m, db'[o].ver = db[o].ver, AtSubscriber(o, m)
    PROVE  AtSubscriber(o, m)'
<1>1. PICK t \in LiveTasks : IsFor(t, o, db[o].ver) /\ t.subs[t.subIndex + 1] = m
  BY AtSubscriberIs
<1>2. IsFor(t, o, db[o].ver)' /\ t \in LiveTasks'
  BY <1>1 DEF IsFor
<1>3. CASE TMHolds'
  <2>1. (RequeuedTask.obj = tm.task.obj /\ RequeuedTask.ver = tm.task.ver
         /\ RequeuedTask.subs[RequeuedTask.subIndex + 1] = CurrentModule)'
    BY <1>3, CurrentFacts, PTL
  <2>2. QED
    BY <1>1, <1>2, <1>3, <2>1 DEF AtSubscriber, LiveTasks, IsFor
<1>4. CASE ~TMHolds'
  BY <1>1, <1>2, <1>4 DEF AtSubscriber, LiveTasks
<1>5. QED
  BY <1>3, <1>4

\* A step that leaves the records, the handlers and the history alone.
LEMMA QuietStep ==
    ASSUME IInv, TypeOK', TasksWellFormed', LiveTasks \subseteq LiveTasks',
           UNCHANGED <<db, hdl, done, unsure>>
    PROVE  WorkIsBacked' /\ SuccessMeansRealised'
<1>1. \A o, m : AtSubscriber(o, m) => AtSubscriber(o, m)'
  BY AtSubscriberKept DEF IInv
<1>2. WorkIsBacked'
  BY <1>1 DEF IInv, WorkIsBacked, Backed, Working, IsCurrent, Current, Stored, Succeeded, Realised
<1>3. SuccessMeansRealised'
  BY <1>1 DEF IInv, SuccessMeansRealised, Succeeded, Stored
<1>4. QED
  BY <1>2, <1>3

-----------------------------------------------------------------------------
(* The task channel, the timers and the TaskManager *)

LEMMA EnqueueKeeps ==
    ASSUME IInv, TypeOK', NEW t \in enq, Enqueue(t)
    PROVE  IInv'
<1>1. /\ queue \in Seq(Task) /\ t \in Task
      /\ queue' = Append(queue, t) /\ enq' = enq \ {t}
      /\ UNCHANGED <<db, clock, timers, tm, hdl, nids, replays, done, unsure>>
  BY DEF IInv, TypeOK, Enqueue, dbVars, tmVars, ghostVars
<1>2. Waiting' = Waiting
  <2>1. Range(queue)' = Range(queue) \cup {t}
    BY <1>1, RangeOfAppend
  <2>2. QED
    BY <1>1, <2>1 DEF Waiting
<1>3. LiveTasks' = LiveTasks
  BY <1>1, <1>2 DEF LiveTasks, TMHolds, RequeuedTask
<1>4. TasksWellFormed'
  BY <1>1, <1>2 DEF IInv, TasksWellFormed, WellFormedTask, TMHolds
<1>5. RecordsWellFormed' /\ HandlersWellFormed'
  BY <1>1 DEF IInv, RecordsWellFormed, HandlersWellFormed, WellFormedHandler
<1>6. AnswerIsFromCurrent' /\ AcceptedStatusIsTrue'
  BY <1>1 DEF IInv, AnswerIsFromCurrent, AcceptedStatusIsTrue, Working, IsFor, CurrentSub,
              CurrentModule, ForThisNotification, Current, Stored, Succeeded, Realised
<1>7. QED
  BY <1>1, <1>3, <1>4, <1>5, <1>6, QuietStep DEF IInv

LEMMA TimerFiresKeeps ==
    ASSUME IInv, TypeOK', NEW t \in timers, TimerFires(t)
    PROVE  IInv'
<1>1. /\ timers' = timers \ {t} /\ enq' = enq \cup {t}
      /\ UNCHANGED <<db, clock, queue, tm, hdl, nids, replays, done, unsure>>
  BY DEF TimerFires, dbVars, tmVars, ghostVars
<1>2. Waiting' = Waiting
  BY <1>1 DEF Waiting
<1>3. LiveTasks' = LiveTasks
  BY <1>1, <1>2 DEF LiveTasks, TMHolds, RequeuedTask
<1>4. TasksWellFormed'
  BY <1>1, <1>2 DEF IInv, TasksWellFormed, WellFormedTask, TMHolds
<1>5. RecordsWellFormed' /\ HandlersWellFormed'
  BY <1>1 DEF IInv, RecordsWellFormed, HandlersWellFormed, WellFormedHandler
<1>6. AnswerIsFromCurrent' /\ AcceptedStatusIsTrue'
  BY <1>1 DEF IInv, AnswerIsFromCurrent, AcceptedStatusIsTrue, Working, IsFor, CurrentSub,
              CurrentModule, ForThisNotification, Current, Stored, Succeeded, Realised
<1>7. QED
  BY <1>1, <1>3, <1>4, <1>5, <1>6, QuietStep DEF IInv

LEMMA DequeueKeeps ==
    ASSUME IInv, TypeOK', Dequeue
    PROVE  IInv'
<1>1. /\ queue \in Seq(Task) /\ queue # <<>> /\ tm.pc = "idle" /\ queue' = Tail(queue)
      /\ tm' = [TMIdle EXCEPT !.pc = "publish", !.task = Head(queue)]
      /\ UNCHANGED <<db, clock, enq, timers, hdl, nids, replays, done, unsure>>
  BY DEF IInv, TypeOK, Dequeue, dbVars, ghostVars
<1>2. /\ Head(queue) \in Task /\ Head(queue).subIndex \in Nat
      /\ Range(queue) = Range(queue)' \cup {Head(queue)}
  <2>1. Range(queue)' = Range(Tail(queue))
    BY <1>1
  <2>2. Head(queue) \in Task /\ Range(queue) = Range(Tail(queue)) \cup {Head(queue)}
    BY <1>1, RangeOfQueue
  <2>3. QED
    BY <2>1, <2>2 DEF Task
<1>3. /\ tm'.pc = "publish" /\ tm'.task = Head(queue) /\ tm'.i = 0 /\ tm'.nid = 0
  BY <1>1 DEF TMIdle
<1>4. Waiting = Waiting' \cup {Head(queue)}
  BY <1>1, <1>2 DEF Waiting
<1>5. RequeuedTask' = Head(queue)
  BY <1>2, <1>3 DEF RequeuedTask, Task
<1>6. LiveTasks \subseteq LiveTasks'
  BY <1>1, <1>3, <1>4, <1>5 DEF LiveTasks, TMHolds
<1>7. TasksWellFormed'
  <2>1. WellFormedTask(Head(queue))
    BY <1>4 DEF IInv, TasksWellFormed
  <2>2. Head(queue).subIndex + 0 < Len(Head(queue).subs)
    BY <1>2, <2>1 DEF WellFormedTask
  <2>3. QED
    BY <1>1, <1>3, <1>4, <2>1, <2>2 DEF IInv, TasksWellFormed, WellFormedTask
<1>8. RecordsWellFormed' /\ HandlersWellFormed'
  BY <1>1, <1>3 DEF IInv, RecordsWellFormed, HandlersWellFormed, WellFormedHandler, TypeOK
<1>9. AnswerIsFromCurrent' /\ AcceptedStatusIsTrue'
  BY <1>3 DEF AnswerIsFromCurrent, AcceptedStatusIsTrue, ForThisNotification
<1>10. QED
  BY <1>1, <1>6, <1>7, <1>8, <1>9, QuietStep DEF IInv

\* The ways back to the timers: PublishBusy, StatusTimeout, RetrySubscriber.
LEMMA RequeueKeeps ==
    ASSUME IInv, TypeOK', TMHolds, Requeue,
           UNCHANGED <<db, clock, enq, queue, hdl, nids, replays, done, unsure>>
    PROVE  IInv'
<1>1. timers' = timers \cup {RequeuedTask} /\ tm' = TMIdle
  BY DEF Requeue
<1>2. tm'.pc = "idle" /\ tm'.nid = 0 /\ ~TMHolds'
  BY <1>1 DEF TMIdle, TMHolds
<1>3. Waiting' = Waiting \cup {RequeuedTask}
  BY <1>1 DEF Waiting
<1>4. LiveTasks \subseteq LiveTasks'
  BY <1>2, <1>3 DEF LiveTasks
<1>5. TasksWellFormed'
  <2>1. WellFormedTask(RequeuedTask)
    BY CurrentFacts DEF IInv
  <2>2. QED
    BY <1>2, <1>3, <2>1 DEF IInv, TasksWellFormed, WellFormedTask
<1>6. RecordsWellFormed' /\ HandlersWellFormed'
  BY <1>2 DEF IInv, RecordsWellFormed, HandlersWellFormed, WellFormedHandler, TypeOK
<1>7. AnswerIsFromCurrent' /\ AcceptedStatusIsTrue'
  BY <1>2 DEF AnswerIsFromCurrent, AcceptedStatusIsTrue, ForThisNotification
<1>8. QED
  BY <1>4, <1>5, <1>6, <1>7, QuietStep DEF IInv

\* AwaitStatus and IgnoreStatus: the TaskManager stays with its subscriber.
LEMMA StillWaiting ==
    ASSUME IInv, TypeOK', AwaitStatus \/ IgnoreStatus
    PROVE  IInv'
<1>1. /\ tm'.task = tm.task /\ tm'.i = tm.i /\ tm'.nid = tm.nid
      /\ tm.pc \in {"sent", "wait", "got"} /\ tm'.pc \in {"sent", "wait"}
      /\ UNCHANGED <<db, clock, enq, timers, queue, hdl, nids, replays, done, unsure>>
  BY DEF IInv, TypeOK, TaskManager, AwaitStatus, IgnoreStatus, taskVars, dbVars, ghostVars
<1>2. TMHolds /\ TMHolds' /\ Waiting' = Waiting
  BY <1>1 DEF TMHolds, Waiting
<1>3. LiveTasks' = LiveTasks
  BY <1>1, <1>2 DEF LiveTasks, RequeuedTask
<1>4. TasksWellFormed'
  BY <1>1, <1>2 DEF IInv, TasksWellFormed, WellFormedTask
<1>5. RecordsWellFormed' /\ HandlersWellFormed'
  BY <1>1 DEF IInv, RecordsWellFormed, HandlersWellFormed, WellFormedHandler
<1>6. AnswerIsFromCurrent' /\ AcceptedStatusIsTrue'
  BY <1>1 DEF IInv, AnswerIsFromCurrent, AcceptedStatusIsTrue, Working, IsFor, CurrentSub,
              CurrentModule, ForThisNotification
<1>7. QED
  BY <1>1, <1>3, <1>4, <1>5, <1>6, QuietStep DEF IInv

LEMMA PublishDeliveredKeeps ==
    ASSUME IInv, TypeOK', PublishDelivered
    PROVE  IInv'
<1>1. /\ tm.pc = "publish" /\ hdl[CurrentSub].pc = "idle"
      /\ nids' = nids + 1 /\ nids \in Nat
      /\ tm'.pc = "sent" /\ tm'.nid = nids + 1 /\ tm'.task = tm.task /\ tm'.i = tm.i
      /\ UNCHANGED <<db, clock, enq, timers, queue, replays, done, unsure>>
  BY DEF IInv, TypeOK, TaskManager, PublishDelivered, taskVars, dbVars, ghostVars
<1>2. TMHolds /\ TMHolds' /\ Waiting' = Waiting
  BY <1>1 DEF TMHolds, Waiting
<1>3. /\ CurrentSub \in Subscriber /\ CurrentModule \in Range(Subs(tm.task.obj))
      /\ CurrentSub' = CurrentSub /\ CurrentModule' = CurrentModule
      /\ CurrentSub[1] = CurrentModule /\ CurrentSub[2] = TypeOf[tm.task.obj]
  BY <1>1, <1>2, CurrentFacts DEF IInv, CurrentSub, CurrentModule
<1>4. /\ hdl \in [Subscriber -> Handler] /\ tm.task \in Task /\ tm.task.obj \in Obj
  BY DEF IInv, TypeOK, TaskManager, Task
<1>5. /\ hdl'[CurrentSub].pc = "notified" /\ hdl'[CurrentSub].obj = tm.task.obj
      /\ hdl'[CurrentSub].ver = tm.task.ver /\ hdl'[CurrentSub].nid = nids + 1
      /\ hdl'[CurrentSub].replay = FALSE /\ hdl'[CurrentSub].comp = Fresh
  BY <1>3, <1>4, ConstTypes DEF PublishDelivered, Parked, Handler
<1>6. \A s \in Subscriber : s # CurrentSub => hdl'[s] = hdl[s]
  BY <1>3, <1>4 DEF PublishDelivered
<1>7. LiveTasks' = LiveTasks
  BY <1>1, <1>2 DEF LiveTasks, RequeuedTask
<1>8. TasksWellFormed'
  BY <1>1, <1>2 DEF IInv, TasksWellFormed, WellFormedTask
<1>9. RecordsWellFormed'
  BY <1>1 DEF IInv, RecordsWellFormed
<1>10. HandlersWellFormed'
  <2>1. tm.task.ver <= clock[tm.task.obj]
    BY <1>2 DEF IInv, TasksWellFormed, WellFormedTask
  <2>2. \A s \in Subscriber : hdl[s].nid \in Nat /\ hdl[s].nid <= nids + 1
    BY <1>1, <1>4 DEF IInv, HandlersWellFormed, WellFormedHandler, Handler
  <2>3. ASSUME NEW s \in Subscriber
        PROVE  WellFormedHandler(s)'
    <3>1. CASE s = CurrentSub
      BY <1>1, <1>3, <1>5, <2>1, <3>1 DEF WellFormedHandler, Fresh
    <3>2. CASE s # CurrentSub
      BY <1>1, <1>6, <2>2, <3>2 DEF IInv, HandlersWellFormed, WellFormedHandler
    <3>3. QED
      BY <3>1, <3>2
  <2>4. tm'.nid <= nids'
    BY <1>1
  <2>5. QED
    BY <2>3, <2>4 DEF HandlersWellFormed
<1>11. AnswerIsFromCurrent'
  <2> SUFFICES ASSUME NEW s \in Subscriber, hdl'[s].nid = tm'.nid
               PROVE  s = CurrentSub
    BY <1>1, <1>3, <1>5 DEF AnswerIsFromCurrent, IsFor
  <2>1. hdl[s].nid \in Nat /\ hdl[s].nid <= nids
    BY <1>4 DEF IInv, HandlersWellFormed, WellFormedHandler, Handler
  <2>2. QED
    BY <1>1, <1>6, <2>1
<1>12. AcceptedStatusIsTrue'
  BY <1>1 DEF AcceptedStatusIsTrue, ForThisNotification
<1>13. \A o, m : AtSubscriber(o, m) => AtSubscriber(o, m)'
  BY <1>1, <1>7, <1>8, AtSubscriberKept DEF IInv
<1>14. WorkIsBacked'
  <2> SUFFICES ASSUME NEW s \in Subscriber
               PROVE  Backed(s)'
    BY DEF WorkIsBacked
  <2>1. CASE s = CurrentSub
    <3>1. IsCurrent(s)' => AtSubscriber(hdl[s].obj, s[1])'
      BY <1>1, <1>2, <1>3, <1>5, <2>1 DEF AtSubscriber, IsFor, IsCurrent, Current
    <3>2. QED
      BY <1>5, <2>1, <3>1 DEF Backed
  <2>2. CASE s # CurrentSub
    <3>1. Backed(s)
      BY DEF IInv, WorkIsBacked
    <3>2. QED
      BY <1>1, <1>6, <1>13, <2>2, <3>1
      DEF Backed, Working, IsCurrent, Current, Stored, Succeeded, Realised
  <2>3. QED
    BY <2>1, <2>2
<1>15. SuccessMeansRealised'
  BY <1>1, <1>13 DEF IInv, SuccessMeansRealised, Succeeded, Stored
<1>16. QED
  BY <1>8, <1>9, <1>10, <1>11, <1>12, <1>14, <1>15 DEF IInv

\* The TaskManager leaves its current subscriber, dropping the task or not:
\* nobody counts on the task any more.
LEMMA LeavesSubscriber ==
    ASSUME IInv, ForThisNotification, Waiting' = Waiting,
           UNCHANGED <<db, hdl, done, unsure>>,
           Current(tm.task.obj, tm.task.ver) /\ Succeeded(tm.task.obj, CurrentModule) =>
               Realised(tm.task.obj, CurrentModule)
    PROVE  WorkIsBacked' /\ SuccessMeansRealised'
<1>1. TMHolds /\ ~Working(CurrentSub)
  BY DEF IInv, AcceptedStatusIsTrue, ForThisNotification, TMHolds
<1>2. \A o, m : AtSubscriber(o, m) =>
         \/ AtSubscriber(o, m)'
         \/ IsFor(tm.task, o, db[o].ver) /\ CurrentModule = m
  BY DEF AtSubscriber, IsFor
<1>3. WorkIsBacked'
  <2> SUFFICES ASSUME NEW s \in Subscriber
               PROVE  Backed(s)'
    BY DEF WorkIsBacked
  <2>1. Backed(s)
    BY DEF IInv, WorkIsBacked
  <2>2. ASSUME Working(s), IsCurrent(s)
        PROVE  AtSubscriber(hdl[s].obj, s[1])'
    <3>1. TypeOf[hdl[s].obj] = s[2]
      BY <2>2 DEF IInv, HandlersWellFormed, WellFormedHandler, Working
    <3>2. s # CurrentSub
      BY <1>1, <2>2
    <3>3. ~(hdl[s].obj = tm.task.obj /\ s[1] = CurrentModule)
      BY <3>1, <3>2 DEF CurrentSub, Subscriber
    <3>4. QED
      BY <1>2, <2>1, <2>2, <3>3 DEF Backed, IsFor
  <2>3. QED
    BY <2>1, <2>2 DEF Backed, Working, IsCurrent, Current, Stored, Succeeded, Realised
<1>4. SuccessMeansRealised'
  <2> SUFFICES ASSUME NEW o \in Obj, NEW m \in Range(Subs(o)),
                      Succeeded(o, m), <<m, o>> \notin unsure
               PROVE  done[m][o] = db[o].intent \/ AtSubscriber(o, m)'
    BY DEF SuccessMeansRealised, Succeeded, Stored
  <2>1. done[m][o] = db[o].intent \/ AtSubscriber(o, m)
    BY DEF IInv, SuccessMeansRealised
  <2>2. CASE IsFor(tm.task, o, db[o].ver) /\ CurrentModule = m
    BY <2>2 DEF IsFor, Current, Succeeded, Realised
  <2>3. QED
    BY <1>2, <2>1, <2>2
<1>5. QED
  BY <1>3, <1>4

LEMMA DropTaskKeeps ==
    ASSUME IInv, TypeOK', DropTask
    PROVE  IInv'
<1>1. /\ ForThisNotification /\ tm.status.dropTask
      /\ tm'.pc \in {"idle", "replay"} /\ tm'.nid = 0
      /\ UNCHANGED <<db, clock, enq, timers, queue, hdl, nids, replays, done, unsure>>
  BY DEF DropTask, TMIdle, taskVars, dbVars, ghostVars
<1>2. Waiting' = Waiting /\ ~TMHolds'
  BY <1>1 DEF Waiting, TMHolds
<1>3. TasksWellFormed'
  BY <1>1, <1>2 DEF IInv, TasksWellFormed, WellFormedTask
<1>4. RecordsWellFormed' /\ HandlersWellFormed'
  BY <1>1 DEF IInv, RecordsWellFormed, HandlersWellFormed, WellFormedHandler, TypeOK
<1>5. AnswerIsFromCurrent' /\ AcceptedStatusIsTrue'
  BY <1>1 DEF AnswerIsFromCurrent, AcceptedStatusIsTrue, ForThisNotification
<1>6. ~(Current(tm.task.obj, tm.task.ver) /\ Succeeded(tm.task.obj, CurrentModule))
  BY <1>1 DEF IInv, AcceptedStatusIsTrue
<1>7. QED
  BY <1>1, <1>2, <1>3, <1>4, <1>5, <1>6, LeavesSubscriber DEF IInv

LEMMA NextSubscriberKeeps ==
    ASSUME IInv, TypeOK', NextSubscriber
    PROVE  IInv'
<1>1. /\ ForThisNotification /\ ~tm.status.dropTask /\ tm.status.st = "Success"
      /\ UNCHANGED <<db, clock, enq, timers, queue, hdl, nids, replays, done, unsure>>
      /\ tm.task \in Task /\ tm.task.subIndex \in Nat /\ tm.i \in Nat /\ tm \in TaskManager
  BY DEF IInv, TypeOK, NextSubscriber, TaskManager, Task, taskVars, dbVars, ghostVars
<1>2. \/ /\ tm'.pc = "publish" /\ tm'.task = tm.task /\ tm'.i = tm.i + 1 /\ tm'.nid = 0
         /\ tm.task.subIndex + tm.i + 1 < Len(tm.task.subs)
      \/ tm'.pc = "idle" /\ tm'.nid = 0
  BY <1>1 DEF NextSubscriber, TMIdle, TaskManager
<1>3. TMHolds /\ Waiting' = Waiting
  BY <1>1 DEF Waiting, TMHolds, ForThisNotification
<1>4. TasksWellFormed'
  <2>1. WellFormedTask(tm.task)
    BY <1>3 DEF IInv, TasksWellFormed
  <2>2. tm'.pc = "publish" =>
            tm'.task = tm.task /\ tm'.task.subIndex + tm'.i < Len(tm'.task.subs)
    BY <1>1, <1>2
  <2>3. TMHolds' => tm'.pc = "publish"
    BY <1>2 DEF TMHolds
  <2>4. QED
    BY <1>1, <1>3, <2>1, <2>2, <2>3 DEF IInv, TasksWellFormed, WellFormedTask
<1>5. RecordsWellFormed' /\ HandlersWellFormed'
  BY <1>1, <1>2 DEF IInv, RecordsWellFormed, HandlersWellFormed, WellFormedHandler, TypeOK
<1>6. AnswerIsFromCurrent' /\ AcceptedStatusIsTrue'
  BY <1>2 DEF AnswerIsFromCurrent, AcceptedStatusIsTrue, ForThisNotification
<1>7. Current(tm.task.obj, tm.task.ver) => Realised(tm.task.obj, CurrentModule)
  BY <1>1 DEF IInv, AcceptedStatusIsTrue
<1>8. QED
  BY <1>1, <1>3, <1>4, <1>5, <1>6, <1>7, LeavesSubscriber DEF IInv

LEMMA TaskManagerKeeps ==
    ASSUME IInv, TypeOK', ChannelStep \/ TaskManagerStep
    PROVE  IInv'
<1>1. CASE PublishBusy
  BY <1>1, RequeueKeeps DEF PublishBusy, TMHolds, dbVars, ghostVars
<1>2. CASE StatusTimeout
  BY <1>2, RequeueKeeps DEF StatusTimeout, TMHolds, dbVars, ghostVars
<1>3. CASE RetrySubscriber
  BY <1>3, RequeueKeeps DEF RetrySubscriber, ForThisNotification, TMHolds, dbVars, ghostVars
<1>4. CASE ChannelStep
  BY <1>4, EnqueueKeeps, TimerFiresKeeps DEF ChannelStep
<1>5. CASE Dequeue \/ PublishDelivered \/ AwaitStatus \/ IgnoreStatus \/ DropTask
           \/ NextSubscriber
  BY <1>5, DequeueKeeps, PublishDeliveredKeeps, StillWaiting, DropTaskKeeps,
     NextSubscriberKeeps
<1>6. QED
  BY <1>1, <1>2, <1>3, <1>4, <1>5 DEF TaskManagerStep

-----------------------------------------------------------------------------
(* The subscriber goroutines *)

\* What a handler step leaves of the TaskManager's side.
TasksStay ==
    /\ UNCHANGED <<clock, enq, timers, queue, nids>>
    /\ tm'.task = tm.task /\ tm'.i = tm.i /\ tm'.nid = tm.nid
    /\ \/ tm'.pc = tm.pc /\ tm'.status = tm.status
       \/ tm.pc = "wait" /\ tm'.pc = "got"
    /\ \A r \in replays' : r \in replays \/ r.tasks = {}

\* A handler never takes up work by itself, and the others are not concerned.
OnlyConcerns(s) ==
    /\ \A u \in Subscriber : u # s => hdl'[u] = hdl[u]
    /\ Working(s)' => /\ Working(s) /\ hdl'[s].obj = hdl[s].obj
                     /\ hdl'[s].ver = hdl[s].ver /\ hdl'[s].nid = hdl[s].nid

LEMMA TasksStayFacts ==
    ASSUME IInv, TypeOK', TasksStay
    PROVE  /\ TasksWellFormed'
           /\ TMHolds' <=> TMHolds
           /\ CurrentSub' = CurrentSub /\ CurrentModule' = CurrentModule
           /\ \A o, m : db'[o].ver = db[o].ver /\ AtSubscriber(o, m) => AtSubscriber(o, m)'
<1>1. (TMHolds' <=> TMHolds) /\ Waiting' = Waiting
  BY DEF TasksStay, TMHolds, Waiting
<1>2. TasksWellFormed'
  BY <1>1 DEF IInv, TasksWellFormed, WellFormedTask, TasksStay
<1>3. LiveTasks' = LiveTasks
  BY <1>1 DEF LiveTasks, RequeuedTask, TasksStay
<1>4. CurrentSub' = CurrentSub /\ CurrentModule' = CurrentModule
  BY DEF CurrentSub, CurrentModule, TasksStay
<1>5. QED
  BY <1>1, <1>2, <1>3, <1>4, AtSubscriberKept DEF IInv

LEMMA HandlersStayWellFormed ==
    ASSUME IInv, TypeOK', NEW s \in Subscriber, TasksStay, OnlyConcerns(s), WellFormedHandler(s)'
    PROVE  HandlersWellFormed' /\ AnswerIsFromCurrent'
<1>1. HandlersWellFormed'
  BY DEF IInv, HandlersWellFormed, WellFormedHandler, TasksStay, OnlyConcerns
<1>2. AnswerIsFromCurrent'
  <2> SUFFICES ASSUME NEW u \in Subscriber, Working(u)', tm'.pc \in {"sent", "wait", "got"},
                      hdl'[u].nid = tm'.nid
               PROVE  (u = CurrentSub /\ IsFor(tm.task, hdl[u].obj, hdl[u].ver))'
    BY DEF AnswerIsFromCurrent
  <2>1. /\ Working(u) /\ hdl[u].nid = tm.nid /\ tm.pc \in {"sent", "wait", "got"}
        /\ hdl'[u].obj = hdl[u].obj /\ hdl'[u].ver = hdl[u].ver
    BY DEF OnlyConcerns, Working, TasksStay
  <2>2. u = CurrentSub /\ IsFor(tm.task, hdl[u].obj, hdl[u].ver)
    BY <2>1 DEF IInv, AnswerIsFromCurrent
  <2>3. QED
    BY <2>1, <2>2, TasksStayFacts DEF IsFor, TasksStay
<1>3. QED
  BY <1>1, <1>2

\* A module has one handler that can be at work on an object.
LEMMA OneHandlerPerPair ==
    ASSUME IInv, NEW s \in Subscriber, NEW u \in Subscriber, Working(s), Working(u),
           hdl[s].obj = hdl[u].obj, s[1] = u[1]
    PROVE  s = u
  BY DEF IInv, HandlersWellFormed, WellFormedHandler, Working, Subscriber

\* The current subscriber is not a handler that is still at work.
LEMMA CurrentIsAnother ==
    ASSUME IInv, NEW s \in Subscriber, Working(s), ForThisNotification
    PROVE  /\ s # CurrentSub
           /\ ~(hdl[s].obj = tm.task.obj /\ s[1] = CurrentModule)
<1>1. s # CurrentSub
  BY DEF IInv, AcceptedStatusIsTrue
<1>2. TypeOf[hdl[s].obj] = s[2]
  BY DEF IInv, HandlersWellFormed, WellFormedHandler, Working
<1>3. QED
  BY <1>1, <1>2 DEF CurrentSub, Subscriber

\* A step of s that touches no record and no history.
LEMMA LocalStep ==
    ASSUME IInv, TypeOK', NEW s \in Subscriber, OnlyConcerns(s),
           UNCHANGED <<db, clock, enq, timers, queue, tm, nids, replays, done, unsure>>,
           WellFormedHandler(s)', Working(s)' => Backed(s)'
    PROVE  IInv'
<1>1. TasksStay
  BY DEF TasksStay
<1>2. \A o, m : AtSubscriber(o, m) => AtSubscriber(o, m)'
  BY <1>1, TasksStayFacts
<1>3. RecordsWellFormed'
  BY DEF IInv, RecordsWellFormed
<1>4. AcceptedStatusIsTrue'
  <2>1. ForThisNotification' => ForThisNotification
    BY DEF ForThisNotification
  <2>2. ASSUME ForThisNotification, Working(CurrentSub)'
        PROVE  Working(CurrentSub)
    <3>1. CurrentSub \in Subscriber /\ CurrentSub' = CurrentSub
      BY <1>1, <2>2, CurrentFacts, TasksStayFacts DEF IInv, ForThisNotification, TMHolds
    <3>2. QED
      BY <2>2, <3>1 DEF OnlyConcerns, Working
  <2>3. QED
    BY <2>1, <2>2 DEF IInv, AcceptedStatusIsTrue, Current, Stored, Succeeded, Realised,
                      CurrentModule
<1>5. WorkIsBacked'
  <2> SUFFICES ASSUME NEW u \in Subscriber
               PROVE  Backed(u)'
    BY DEF WorkIsBacked
  <2>1. CASE u = s
    BY <2>1 DEF Backed, Working
  <2>2. CASE u # s
    <3>1. hdl'[u] = hdl[u]
      BY <2>2 DEF OnlyConcerns
    <3>2. Backed(u)
      BY DEF IInv, WorkIsBacked
    <3>3. QED
      BY <1>2, <3>1, <3>2 DEF Backed, Working, IsCurrent, Current, Stored, Succeeded, Realised
  <2>3. QED
    BY <2>1, <2>2
<1>6. SuccessMeansRealised'
  BY <1>2 DEF IInv, SuccessMeansRealised, Succeeded, Stored
<1>7. QED
  BY <1>1, <1>3, <1>4, <1>5, <1>6, TasksStayFacts, HandlersStayWellFormed DEF IInv

LEMMA LoadKeeps ==
    ASSUME IInv, TypeOK', NEW s \in Subscriber, LoadObject(s) \/ LoadFails(s)
    PROVE  IInv'
<1>1. /\ hdl \in [Subscriber -> Handler] /\ hdl[s] \in Handler /\ hdl[s].pc = "notified"
      /\ db \in [Obj -> Object] /\ hdl[s].obj \in Obj /\ s[1] \in Modules
      /\ UNCHANGED <<db, clock, enq, timers, queue, tm, nids, replays, done, unsure>>
  BY DEF IInv, TypeOK, LoadObject, LoadFails, Subscriber, Handler, taskVars, dbVars, tmVars,
         ghostVars
<1>2. \/ hdl' = [hdl EXCEPT ![s] = Unloaded(s)]
      \/ IsCurrent(s) /\ hdl' = [hdl EXCEPT ![s] = Loaded(s)]
  BY DEF LoadObject, LoadFails
<1>3. OnlyConcerns(s)
  <2>1. \A u \in Subscriber : u # s => hdl'[u] = hdl[u]
    BY <1>1, <1>2
  <2>2. CASE hdl' = [hdl EXCEPT ![s] = Unloaded(s)]
    BY <1>1, <2>1, <2>2 DEF OnlyConcerns, Working, Unloaded, Handler
  <2>3. CASE hdl' = [hdl EXCEPT ![s] = Loaded(s)]
    BY <1>1, <2>1, <2>3 DEF OnlyConcerns, Working, Loaded, Handler
  <2>4. QED
    BY <1>2, <2>2, <2>3
<1>4. WellFormedHandler(s) /\ Backed(s)
  BY DEF IInv, HandlersWellFormed, WorkIsBacked
<1>5. ~hdl[s].replay /\ (IsCurrent(s) => AtSubscriber(hdl[s].obj, s[1]))
  BY <1>1, <1>4 DEF WellFormedHandler, Backed, Working
<1>6. \A o, m : AtSubscriber(o, m) => AtSubscriber(o, m)'
  BY <1>1, TasksStayFacts DEF TasksStay
<1>7. CASE hdl' = [hdl EXCEPT ![s] = Unloaded(s)]
  <2>1. /\ hdl'[s].pc = "report" /\ hdl'[s].comp.st = "Error" /\ ~hdl'[s].replay
        /\ hdl'[s].obj = hdl[s].obj /\ hdl'[s].ver = hdl[s].ver /\ hdl'[s].nid = hdl[s].nid
    BY <1>1, <1>5, <1>7 DEF Unloaded, Handler
  <2>2. WellFormedHandler(s)'
    BY <1>1, <1>4, <2>1 DEF WellFormedHandler
  <2>3. Backed(s)'
    BY <1>1, <1>5, <1>6, <2>1 DEF Backed, IsCurrent, Current, Stored
  <2>4. QED
    BY <1>1, <1>3, <2>2, <2>3, LocalStep
<1>8. CASE IsCurrent(s) /\ hdl' = [hdl EXCEPT ![s] = Loaded(s)]
  <2>1. /\ hdl'[s].pc = "exec" /\ hdl'[s].comp = db[hdl[s].obj].comp[s[1]] /\ ~hdl'[s].replay
        /\ hdl'[s].intent = db[hdl[s].obj].intent
        /\ hdl'[s].obj = hdl[s].obj /\ hdl'[s].ver = hdl[s].ver /\ hdl'[s].nid = hdl[s].nid
    BY <1>1, <1>5, <1>8 DEF Loaded, Handler
  <2>2. hdl'[s].comp.st = "Success" => hdl'[s].comp.errs = 0
    BY <1>1, <2>1 DEF IInv, RecordsWellFormed
  <2>3. WellFormedHandler(s)'
    BY <1>1, <1>4, <2>1, <2>2 DEF WellFormedHandler
  <2>4. Backed(s)'
    BY <1>1, <1>5, <1>6, <1>8, <2>1 DEF Backed, IsCurrent, Current, Stored, Succeeded
  <2>5. QED
    BY <1>1, <1>3, <2>3, <2>4, LocalStep
<1>9. QED
  BY <1>2, <1>7, <1>8

\* UpdateStatusFails, HandlerParks
LEMMA WithdrawKeeps ==
    ASSUME IInv, TypeOK', NEW s \in Subscriber, UpdateStatusFails(s) \/ HandlerParks(s)
    PROVE  IInv'
<1>1. /\ hdl \in [Subscriber -> Handler] /\ hdl[s] \in Handler
      /\ UNCHANGED <<db, clock, enq, timers, queue, tm, nids, replays, done, unsure>>
  BY DEF IInv, TypeOK, UpdateStatusFails, HandlerParks, taskVars, dbVars, tmVars, ghostVars
<1>2. WellFormedHandler(s)
  BY DEF IInv, HandlersWellFormed
<1>3. clock \in [Obj -> Nat] /\ AnyObj \in Obj /\ nids \in Nat
  BY ConstTypes DEF IInv, TypeOK
<1>4. CASE UpdateStatusFails(s)
  <2>1. /\ hdl'[s].pc = "return" /\ hdl[s].pc = "report"
        /\ hdl'[s].obj = hdl[s].obj /\ hdl'[s].ver = hdl[s].ver /\ hdl'[s].nid = hdl[s].nid
        /\ hdl'[s].comp = hdl[s].comp
        /\ \A u \in Subscriber : u # s => hdl'[u] = hdl[u]
    BY <1>1, <1>4 DEF UpdateStatusFails, HandlerReturns, Handler
  <2>2. OnlyConcerns(s) /\ ~Working(s)'
    BY <2>1 DEF OnlyConcerns, Working
  <2>3. WellFormedHandler(s)'
    BY <1>1, <1>2, <2>1 DEF WellFormedHandler
  <2>4. QED
    BY <1>1, <2>2, <2>3, LocalStep
<1>5. CASE HandlerParks(s)
  <2>1. hdl'[s] = Parked /\ \A u \in Subscriber : u # s => hdl'[u] = hdl[u]
    BY <1>1, <1>5 DEF HandlerParks
  <2>2. OnlyConcerns(s) /\ ~Working(s)'
    BY <2>1 DEF OnlyConcerns, Working, Parked
  <2>3. WellFormedHandler(s)'
    BY <1>1, <1>3, <2>1 DEF WellFormedHandler, Parked, Fresh
  <2>4. QED
    BY <1>1, <2>2, <2>3, LocalStep
<1>6. QED
  BY <1>4, <1>5

\* A step in which s ends its work: what is known about done and unsure for
\* the other pairs stays, and s has a true result.
LEMMA ResultStep ==
    ASSUME IInv, TypeOK', NEW s \in Subscriber, hdl[s].pc = "exec", OnlyConcerns(s),
           UNCHANGED <<db, clock, enq, timers, queue, tm, nids, replays>>,
           WellFormedHandler(s)', Backed(s)',
           \A o \in Obj : \A m \in Modules :
               ~(o = hdl[s].obj /\ m = s[1]) =>
                   done'[m][o] = done[m][o] /\ (<<m, o>> \in unsure' <=> <<m, o>> \in unsure),
           LET o == hdl[s].obj
               m == s[1]
           IN  Succeeded(o, m) /\ <<m, o>> \notin unsure' =>
                   done'[m][o] = db[o].intent \/ AtSubscriber(o, m)
    PROVE  IInv'
<1>1. TasksStay
  BY DEF TasksStay
<1>2. \A o, m : AtSubscriber(o, m) => AtSubscriber(o, m)'
  BY <1>1, TasksStayFacts
<1>3. Working(s)
  BY DEF Working
<1>4. RecordsWellFormed'
  BY DEF IInv, RecordsWellFormed
<1>5. AcceptedStatusIsTrue'
  <2> SUFFICES ASSUME ForThisNotification
               PROVE  AcceptedStatusIsTrue'
    BY DEF AcceptedStatusIsTrue, ForThisNotification
  <2>1. TMHolds /\ tm.task.obj \in Obj
    BY DEF ForThisNotification, TMHolds, IInv, TypeOK, TaskManager, Task
  <2>2. CurrentModule \in Modules /\ CurrentSub \in Subscriber
    BY <2>1, CurrentFacts DEF IInv
  <2>3. s # CurrentSub /\ ~(hdl[s].obj = tm.task.obj /\ s[1] = CurrentModule)
    BY <1>3, CurrentIsAnother
  <2>4. Working(CurrentSub)' => Working(CurrentSub)
    BY <1>1, <2>2, <2>3, TasksStayFacts DEF OnlyConcerns, Working
  <2>5. Realised(tm.task.obj, CurrentModule) => Realised(tm.task.obj, CurrentModule)'
    BY <2>1, <2>2, <2>3 DEF Realised, CurrentModule
  <2>6. QED
    BY <2>4, <2>5 DEF IInv, AcceptedStatusIsTrue, ForThisNotification, Current, Stored,
                      Succeeded, CurrentModule
<1>6. WorkIsBacked'
  <2> SUFFICES ASSUME NEW u \in Subscriber, u # s, Working(u)
               PROVE  Backed(u)'
    BY DEF WorkIsBacked, Backed, Working, OnlyConcerns
  <2>1. ~(hdl[u].obj = hdl[s].obj /\ u[1] = s[1])
    BY <1>3, OneHandlerPerPair
  <2>2. hdl[u].obj \in Obj /\ u[1] \in Modules
    BY DEF IInv, TypeOK, Handler, Subscriber
  <2>3. Backed(u)
    BY DEF IInv, WorkIsBacked
  <2>4. QED
    <3>1. hdl'[u] = hdl[u]
      BY DEF OnlyConcerns
    <3>2. /\ done'[u[1]][hdl[u].obj] = done[u[1]][hdl[u].obj]
          /\ <<u[1], hdl[u].obj>> \in unsure' <=> <<u[1], hdl[u].obj>> \in unsure
      BY <2>1, <2>2
    <3>3. QED
      BY ZenonT(30), <1>2, <2>3, <3>1, <3>2
      DEF Backed, Working, IsCurrent, Current, Stored, Succeeded, Realised
<1>7. SuccessMeansRealised'
  <2> SUFFICES ASSUME NEW o \in Obj, NEW m \in Range(Subs(o)),
                      Succeeded(o, m), <<m, o>> \notin unsure'
               PROVE  done'[m][o] = db[o].intent \/ AtSubscriber(o, m)'
    BY DEF SuccessMeansRealised, Succeeded, Stored
  <2>1. m \in Modules
    BY ConstTypes, RangeTyped
  <2>2. CASE o = hdl[s].obj /\ m = s[1]
    BY <1>2, <2>2
  <2>3. CASE ~(o = hdl[s].obj /\ m = s[1])
    BY <1>2, <2>1, <2>3 DEF IInv, SuccessMeansRealised
  <2>4. QED
    BY <2>2, <2>3
<1>8. QED
  BY <1>1, <1>4, <1>5, <1>6, <1>7, TasksStayFacts, HandlersStayWellFormed DEF IInv

LEMMA RealizeOkKeeps ==
    ASSUME IInv, TypeOK', NEW s \in Subscriber, RealizeOk(s)
    PROVE  IInv'
<1>1. /\ hdl \in [Subscriber -> Handler] /\ hdl[s] \in Handler /\ hdl[s].pc = "exec"
      /\ done \in [Modules -> [Obj -> Nat]] /\ hdl[s].obj \in Obj /\ s[1] \in Modules
      /\ UNCHANGED <<db, clock, enq, timers, queue, tm, nids, replays>>
  BY DEF IInv, TypeOK, RealizeOk, Subscriber, Handler, taskVars, dbVars, tmVars
<1>2. /\ hdl'[s].pc = "report" /\ hdl'[s].comp = [st |-> "Success", errs |-> 0]
      /\ hdl'[s].obj = hdl[s].obj /\ hdl'[s].ver = hdl[s].ver /\ hdl'[s].nid = hdl[s].nid
      /\ hdl'[s].replay = hdl[s].replay
      /\ \A u \in Subscriber : u # s => hdl'[u] = hdl[u]
  BY <1>1 DEF RealizeOk, Handler
<1>3. OnlyConcerns(s)
  BY <1>1, <1>2 DEF OnlyConcerns, Working
<1>4. WellFormedHandler(s) /\ Backed(s)
  BY DEF IInv, HandlersWellFormed, WorkIsBacked
<1>5. WellFormedHandler(s)'
  BY <1>1, <1>2, <1>4 DEF WellFormedHandler
<1>6. \A o \in Obj : \A m \in Modules :
          ~(o = hdl[s].obj /\ m = s[1]) =>
              done'[m][o] = done[m][o] /\ (<<m, o>> \in unsure' <=> <<m, o>> \in unsure)
  <2> SUFFICES ASSUME NEW o \in Obj, NEW m \in Modules, ~(o = hdl[s].obj /\ m = s[1])
               PROVE  done'[m][o] = done[m][o] /\ (<<m, o>> \in unsure' <=> <<m, o>> \in unsure)
    OBVIOUS
  <2>1. done'[m][o] = done[m][o]
    BY <1>1 DEF RealizeOk
  <2>2. <<m, o>> # <<s[1], hdl[s].obj>>
    OBVIOUS
  <2>3. QED
    BY <2>1, <2>2 DEF RealizeOk
<1>7. done'[s[1]][hdl[s].obj] = hdl[s].intent
  BY <1>1 DEF RealizeOk
<1>8. Backed(s)'
  <2>1. IsCurrent(s)' => IsCurrent(s) /\ db[hdl[s].obj].intent = hdl[s].intent
                         /\ AtSubscriber(hdl[s].obj, s[1])
    BY <1>1, <1>2, <1>4 DEF Backed, IsCurrent, Current, Stored, Working
  <2>2. ~hdl'[s].replay
    BY <1>1, <1>2, <1>4 DEF WellFormedHandler
  <2>3. \A o, m : AtSubscriber(o, m) => AtSubscriber(o, m)'
    BY <1>1, TasksStayFacts DEF TasksStay
  <2>4. QED
    BY <1>1, <1>2, <1>7, <2>1, <2>2, <2>3 DEF Backed, Realised
<1>9. Succeeded(hdl[s].obj, s[1]) => done'[s[1]][hdl[s].obj] = db[hdl[s].obj].intent
  BY <1>1, <1>4, <1>7 DEF Backed
<1>10. QED
  BY <1>1, <1>3, <1>5, <1>6, <1>8, <1>9, ResultStep

LEMMA StopsHalfwayKeeps ==
    ASSUME IInv, TypeOK', NEW s \in Subscriber, StopsHalfway(s)
    PROVE  IInv'
<1>1. /\ hdl \in [Subscriber -> Handler] /\ hdl[s] \in Handler /\ hdl[s].pc = "exec"
      /\ hdl[s].comp \in Component /\ hdl[s].comp.errs \in Nat
      /\ done \in [Modules -> [Obj -> Nat]] /\ hdl[s].obj \in Obj /\ s[1] \in Modules
      /\ UNCHANGED <<db, clock, enq, timers, queue, tm, nids, replays, unsure>>
  BY DEF IInv, TypeOK, StopsHalfway, Subscriber, Handler, Component, taskVars, dbVars, tmVars
<1>2. /\ hdl'[s].pc = "report" /\ hdl'[s].comp.st = "Error"
      /\ hdl'[s].obj = hdl[s].obj /\ hdl'[s].ver = hdl[s].ver /\ hdl'[s].nid = hdl[s].nid
      /\ hdl'[s].replay => hdl[s].comp.errs + 1 >= ReplayErrs
      /\ \A u \in Subscriber : u # s => hdl'[u] = hdl[u]
  BY <1>1 DEF StopsHalfway, Handler
<1>3. OnlyConcerns(s)
  BY <1>1, <1>2 DEF OnlyConcerns, Working
<1>4. WellFormedHandler(s) /\ Backed(s)
  BY DEF IInv, HandlersWellFormed, WorkIsBacked
<1>5. WellFormedHandler(s)'
  BY <1>1, <1>2, <1>4 DEF WellFormedHandler
<1>6. \A o \in Obj : \A m \in Modules :
          ~(o = hdl[s].obj /\ m = s[1]) =>
              done'[m][o] = done[m][o] /\ (<<m, o>> \in unsure' <=> <<m, o>> \in unsure)
  BY <1>1 DEF StopsHalfway
<1>7. Backed(s)'
  <2>1. IsCurrent(s)' => /\ AtSubscriber(hdl[s].obj, s[1])
                        /\ db[hdl[s].obj].comp[s[1]] = hdl[s].comp
    BY <1>1, <1>2, <1>4 DEF Backed, IsCurrent, Current, Stored, Working
  \* The first error on a component that had succeeded asks for no replay.
  <2>2. hdl'[s].replay => hdl[s].comp.errs # 0
    BY <1>1, <1>2, ConstAssumption DEF ConstAssumption
  <2>3. hdl'[s].replay /\ IsCurrent(s)' => ~Succeeded(hdl[s].obj, s[1])'
    BY <1>1, <1>2, <1>4, <2>1, <2>2 DEF WellFormedHandler, Succeeded
  <2>4. \A o, m : AtSubscriber(o, m) => AtSubscriber(o, m)'
    BY <1>1, TasksStayFacts DEF TasksStay
  <2>5. QED
    BY <1>1, <1>2, <2>1, <2>3, <2>4 DEF Backed
<1>8. Succeeded(hdl[s].obj, s[1]) /\ <<s[1], hdl[s].obj>> \notin unsure' =>
          AtSubscriber(hdl[s].obj, s[1])
  BY <1>1, <1>4 DEF Backed, Working
<1>9. QED
  BY <1>1, <1>3, <1>5, <1>6, <1>7, <1>8, ResultStep

LEMMA StatusUpdatedFacts ==
    ASSUME IInv, NEW s \in Subscriber, NEW drop \in BOOLEAN, StatusUpdated(s, drop)
    PROVE  /\ tm'.task = tm.task /\ tm'.i = tm.i /\ tm'.nid = tm.nid
           /\ \/ tm' = tm
              \/ /\ tm.pc = "wait" /\ tm'.pc = "got"
                 /\ tm'.status.nid = hdl[s].nid /\ tm'.status.dropTask = drop
                 /\ tm'.status.st = hdl[s].comp.st
  BY DEF StatusUpdated, IInv, TypeOK, TaskManager

\* UpdateStatusStale, UpdateStatusReplay: the task is to be dropped.
LEMMA DropStatusKeeps ==
    ASSUME IInv, TypeOK', NEW s \in Subscriber, UpdateStatusStale(s) \/ UpdateStatusReplay(s)
    PROVE  IInv'
<1>1. /\ hdl \in [Subscriber -> Handler] /\ hdl[s] \in Handler /\ hdl[s].pc = "report"
      /\ StatusUpdated(s, TRUE) /\ HandlerReturns(s)
      /\ IsCurrent(s) => hdl[s].replay
      /\ UNCHANGED <<db, clock, enq, timers, queue, nids, done, unsure>>
      /\ \A r \in replays' : r \in replays \/ r.tasks = {}
  <2>1. CASE UpdateStatusStale(s)
    BY <2>1 DEF IInv, TypeOK, UpdateStatusStale, taskVars, dbVars, ghostVars
  <2>2. CASE UpdateStatusReplay(s)
    <3> DEFINE r0 == [nid |-> hdl[s].nid, mod |-> s[1], obj |-> hdl[s].obj,
                      ver |-> hdl[s].ver, pc |-> "start", tasks |-> {}]
    <3>1. replays' = replays \cup {r0} /\ r0.tasks = {}
      BY <2>2 DEF UpdateStatusReplay
    <3>2. /\ hdl \in [Subscriber -> Handler] /\ hdl[s] \in Handler /\ hdl[s].pc = "report"
          /\ StatusUpdated(s, TRUE) /\ HandlerReturns(s) /\ hdl[s].replay
          /\ UNCHANGED <<db, clock, enq, timers, queue, nids, done, unsure>>
      BY <2>2 DEF IInv, TypeOK, UpdateStatusReplay, taskVars, dbVars, ghostVars
    <3> HIDE DEF r0
    <3>3. QED
      BY <3>1, <3>2
  <2>3. QED
    BY <2>1, <2>2
<1>2. /\ hdl'[s].pc = "return" /\ hdl'[s].comp = hdl[s].comp
      /\ hdl'[s].obj = hdl[s].obj /\ hdl'[s].ver = hdl[s].ver /\ hdl'[s].nid = hdl[s].nid
      /\ \A u \in Subscriber : u # s => hdl'[u] = hdl[u]
  BY <1>1 DEF HandlerReturns, Handler
<1>3. OnlyConcerns(s) /\ ~Working(s)' /\ Working(s)
  BY <1>1, <1>2 DEF OnlyConcerns, Working
<1>4. TasksStay
  BY <1>1, StatusUpdatedFacts DEF TasksStay
<1>5. \A o, m : AtSubscriber(o, m) => AtSubscriber(o, m)'
  BY <1>1, <1>4, TasksStayFacts
<1>6. WellFormedHandler(s)'
  BY <1>1, <1>2 DEF IInv, HandlersWellFormed, WellFormedHandler
<1>7. RecordsWellFormed'
  BY <1>1 DEF IInv, RecordsWellFormed
<1>8. AcceptedStatusIsTrue'
  <2>1. CASE tm' = tm
    <3> SUFFICES ASSUME ForThisNotification
                 PROVE  AcceptedStatusIsTrue'
      BY <2>1 DEF AcceptedStatusIsTrue, ForThisNotification
    <3>1. CurrentSub \in Subscriber /\ s # CurrentSub /\ CurrentSub' = CurrentSub
      BY <1>3, <1>4, CurrentFacts, CurrentIsAnother, TasksStayFacts
      DEF IInv, ForThisNotification, TMHolds
    <3>2. ~Working(CurrentSub)'
      BY <1>2, <3>1 DEF IInv, AcceptedStatusIsTrue, Working
    <3>3. QED
      BY <1>1, <2>1, <3>2 DEF IInv, AcceptedStatusIsTrue, ForThisNotification, Current, Stored,
                              Succeeded, Realised, CurrentModule
  <2>2. CASE tm.pc = "wait" /\ tm'.pc = "got" /\ tm'.status.nid = hdl[s].nid
             /\ tm'.status.dropTask = TRUE
    <3> SUFFICES ASSUME hdl[s].nid = tm.nid
                 PROVE  AcceptedStatusIsTrue'
      BY <1>4, <2>2 DEF AcceptedStatusIsTrue, ForThisNotification, TasksStay
    <3>1. s = CurrentSub /\ IsFor(tm.task, hdl[s].obj, hdl[s].ver)
      BY <1>3, <2>2 DEF IInv, AnswerIsFromCurrent
    <3>2. ~Current(tm.task.obj, tm.task.ver) \/ ~Succeeded(tm.task.obj, CurrentModule)
      BY <1>1, <3>1 DEF IInv, WorkIsBacked, Backed, IsFor, IsCurrent, CurrentSub
    <3>3. ~Working(CurrentSub)'
      BY <1>3, <1>4, <3>1, TasksStayFacts DEF Working
    <3>4. QED
      BY <1>1, <1>4, <2>2, <3>2, <3>3, TasksStayFacts
      DEF AcceptedStatusIsTrue, TasksStay, Current, Stored, Succeeded
  <2>3. QED
    BY <1>1, <2>1, <2>2, StatusUpdatedFacts
<1>9. WorkIsBacked'
  <2> SUFFICES ASSUME NEW u \in Subscriber, u # s
               PROVE  Backed(u)'
    BY <1>3 DEF WorkIsBacked, Backed, Working
  <2>1. Backed(u)
    BY DEF IInv, WorkIsBacked
  <2>2. QED
    BY <1>1, <1>2, <1>5, <2>1 DEF Backed, Working, IsCurrent, Current, Stored, Succeeded,
                                  Realised
<1>10. SuccessMeansRealised'
  BY <1>1, <1>5 DEF IInv, SuccessMeansRealised, Succeeded, Stored
<1>11. QED
  BY <1>3, <1>4, <1>6, <1>7, <1>8, <1>9, <1>10, TasksStayFacts, HandlersStayWellFormed DEF IInv

LEMMA UpdateStatusKeeps ==
    ASSUME IInv, TypeOK', NEW s \in Subscriber, UpdateStatus(s) \/ RemovalFails(s)
    PROVE  IInv'
<1> DEFINE O == hdl[s].obj
<1>1. /\ hdl \in [Subscriber -> Handler] /\ hdl[s] \in Handler /\ hdl[s].pc = "report"
      /\ db \in [Obj -> Object] /\ O \in Obj /\ s[1] \in Modules /\ clock \in [Obj -> Nat]
      /\ hdl[s].comp \in Component
      /\ HandlerReturns(s) /\ IsCurrent(s)
      /\ UNCHANGED <<clock, enq, timers, queue, nids, replays, done, unsure>>
  BY DEF IInv, TypeOK, UpdateStatus, RemovalFails, Subscriber, Handler, taskVars, tmVars, ghostVars
\* The TaskManager is told, or it hears nothing.
<1>0. /\ tm'.task = tm.task /\ tm'.i = tm.i /\ tm'.nid = tm.nid
      /\ \/ tm' = tm
         \/ /\ tm.pc = "wait" /\ tm'.pc = "got"
            /\ tm'.status.nid = hdl[s].nid /\ tm'.status.dropTask = FALSE
            /\ tm'.status.st = hdl[s].comp.st
  <2>1. CASE UpdateStatus(s)
    BY <2>1, StatusUpdatedFacts DEF UpdateStatus
  <2>2. CASE RemovalFails(s)
    BY <2>2 DEF RemovalFails, tmVars
  <2>3. QED
    BY <2>1, <2>2
<1>2. /\ hdl'[s].pc = "return" /\ hdl'[s].comp = hdl[s].comp
      /\ hdl'[s].obj = hdl[s].obj /\ hdl'[s].ver = hdl[s].ver /\ hdl'[s].nid = hdl[s].nid
      /\ \A u \in Subscriber : u # s => hdl'[u] = hdl[u]
  BY <1>1 DEF HandlerReturns, Handler
<1>3. OnlyConcerns(s) /\ ~Working(s)' /\ Working(s)
  BY <1>1, <1>2 DEF OnlyConcerns, Working
<1>4. TasksStay
  BY <1>0, <1>1 DEF TasksStay
<1>5. WellFormedHandler(s) /\ Backed(s)
  BY DEF IInv, HandlersWellFormed, WorkIsBacked
<1>6. WellFormedHandler(s)'
  BY <1>1, <1>2, <1>5 DEF WellFormedHandler
\* The record of s's object: gone, or the same but for the component of s.
<1>7. /\ \A o \in Obj \ {O} : db'[o] = db[o]
      /\ \/ db'[O] = Absent
         \/ /\ db'[O].ver = db[O].ver /\ db'[O].intent = db[O].intent
            /\ db'[O].comp = [db[O].comp EXCEPT ![s[1]] = hdl[s].comp]
  <2>1. db[O] \in Object
    BY <1>1
  <2>2. db' = [db EXCEPT ![O] = Reported(s)]
    BY DEF UpdateStatus, RemovalFails
  <2>3. \/ Reported(s) = Absent
        \/ /\ Reported(s).ver = db[O].ver /\ Reported(s).intent = db[O].intent
           /\ Reported(s).comp = [db[O].comp EXCEPT ![s[1]] = hdl[s].comp]
    BY <2>1 DEF Reported, Object
  <2>4. QED
    BY <1>1, <2>2, <2>3
<1>8. \A o \in Obj : Stored(o)' => Stored(o) /\ db'[o].ver = db[o].ver /\ db'[o].intent = db[o].intent
  <2>1. Stored(O)
    BY <1>1 DEF IsCurrent, Current
  <2>2. db'[O] = Absent => db'[O].oper = "Absent"
    BY DEF Absent
  <2>3. QED
    BY <1>7, <2>1, <2>2 DEF Stored
<1>9. \A o \in Obj : \A m \in Modules :
          Stored(o)' /\ ~(o = O /\ m = s[1]) => db'[o].comp[m] = db[o].comp[m]
  <2>1. db'[O] = Absent => db'[O].oper = "Absent"
    BY DEF Absent
  <2>2. db[O].comp \in [Modules -> Component]
    BY <1>1 DEF Object
  <2>3. QED
    BY <1>1, <1>7, <2>1, <2>2 DEF Stored
<1>10. \A o \in Obj : \A m : Stored(o)' /\ AtSubscriber(o, m) => AtSubscriber(o, m)'
  BY <1>4, <1>8, TasksStayFacts
<1>11. RecordsWellFormed'
  <2>1. Absent.ver = 0 /\ \A m \in Modules : Absent.comp[m].st # "Success"
    BY DEF Absent, Fresh
  <2>2. ASSUME NEW o \in Obj
        PROVE  /\ db'[o].ver <= clock'[o]
               /\ \A m \in Modules : db'[o].comp[m].st = "Success" => db'[o].comp[m].errs = 0
    <3>1. db[o].ver <= clock[o] /\ clock[o] \in Nat
          /\ \A m \in Modules : db[o].comp[m].st = "Success" => db[o].comp[m].errs = 0
      BY <1>1 DEF IInv, RecordsWellFormed
    <3>2. db[o].comp \in [Modules -> Component]
      BY <1>1 DEF Object
    <3>3. hdl[s].comp.st = "Success" => hdl[s].comp.errs = 0
      BY <1>5 DEF WellFormedHandler
    <3>4. QED
      BY <1>1, <1>7, <2>1, <3>1, <3>2, <3>3
  <2>3. QED
    BY <2>2 DEF RecordsWellFormed
<1>12. AcceptedStatusIsTrue'
  <2>1. CASE tm' = tm
    <3> SUFFICES ASSUME ForThisNotification
                 PROVE  AcceptedStatusIsTrue'
      BY <2>1 DEF AcceptedStatusIsTrue, ForThisNotification
    <3>1. TMHolds /\ tm.task.obj \in Obj
      BY DEF ForThisNotification, TMHolds, IInv, TypeOK, TaskManager, Task
    <3>2. CurrentSub \in Subscriber /\ CurrentModule \in Modules /\ CurrentSub' = CurrentSub
          /\ CurrentModule' = CurrentModule
      BY <1>4, <3>1, CurrentFacts, TasksStayFacts DEF IInv
    <3>3. s # CurrentSub /\ ~(O = tm.task.obj /\ s[1] = CurrentModule)
      BY <1>3, CurrentIsAnother
    <3>4. ~Working(CurrentSub)'
      BY <1>2, <3>2, <3>3 DEF IInv, AcceptedStatusIsTrue, Working
    <3>5. Current(tm.task.obj, tm.task.ver)' => Current(tm.task.obj, tm.task.ver)
      BY <1>8, <2>1, <3>1 DEF Current
    <3>6. Succeeded(tm.task.obj, CurrentModule)' => Succeeded(tm.task.obj, CurrentModule)
      BY <1>8, <1>9, <2>1, <3>1, <3>2, <3>3 DEF Succeeded
    <3>7. Stored(tm.task.obj)' /\ Realised(tm.task.obj, CurrentModule)
              => Realised(tm.task.obj, CurrentModule)'
      BY <1>1, <1>8, <2>1, <3>1, <3>2 DEF Realised
    <3>8. QED
      BY <2>1, <3>4, <3>5, <3>6, <3>7
      DEF IInv, AcceptedStatusIsTrue, ForThisNotification, Current
  <2>2. CASE tm.pc = "wait" /\ tm'.pc = "got" /\ tm'.status.nid = hdl[s].nid
             /\ tm'.status.dropTask = FALSE /\ tm'.status.st = hdl[s].comp.st
    <3> SUFFICES ASSUME hdl[s].nid = tm.nid
                 PROVE  AcceptedStatusIsTrue'
      BY <1>4, <2>2 DEF AcceptedStatusIsTrue, ForThisNotification, TasksStay
    <3>1. s = CurrentSub /\ IsFor(tm.task, hdl[s].obj, hdl[s].ver)
      BY <1>3, <2>2 DEF IInv, AnswerIsFromCurrent
    <3>2. tm'.task.obj = O /\ CurrentModule' = s[1] /\ CurrentSub' = s
      BY <1>4, <3>1, TasksStayFacts DEF IsFor, CurrentSub, TasksStay
    <3>3. hdl[s].comp.st = "Success" => Realised(O, s[1])
      BY <1>1, <1>5 DEF Backed
    <3>4. hdl[s].comp.st = "Success" /\ Stored(tm.task.obj)' => Realised(tm.task.obj, CurrentModule)'
      BY <1>1, <1>2, <1>8, <3>2, <3>3 DEF Realised, Stored
    <3>5. QED
      BY <1>3, <2>2, <3>2, <3>4 DEF AcceptedStatusIsTrue, Current
  <2>3. QED
    BY <1>0, <2>1, <2>2
<1>13. WorkIsBacked'
  <2> SUFFICES ASSUME NEW u \in Subscriber, u # s, Working(u), Stored(hdl[u].obj)'
               PROVE  Backed(u)'
    BY <1>2, <1>3 DEF WorkIsBacked, Backed, Working, IsCurrent, Current, Succeeded
  <2>1. Backed(u)
    BY DEF IInv, WorkIsBacked
  <2>2. hdl[u].obj \in Obj /\ u[1] \in Modules
    BY DEF IInv, TypeOK, Handler, Subscriber
  <2>3. ~(hdl[u].obj = O /\ u[1] = s[1])
    BY <1>3, OneHandlerPerPair
  <2>4. db'[hdl[u].obj].comp[u[1]] = db[hdl[u].obj].comp[u[1]]
    BY <1>2, <1>9, <2>2, <2>3 DEF Stored
  <2>5. /\ Stored(hdl[u].obj) /\ db'[hdl[u].obj].ver = db[hdl[u].obj].ver
        /\ db'[hdl[u].obj].intent = db[hdl[u].obj].intent
    BY <1>2, <1>8, <2>2 DEF Stored
  <2>6. AtSubscriber(hdl[u].obj, u[1]) => AtSubscriber(hdl[u].obj, u[1])'
    BY <1>2, <1>10, <2>2
  <2>7. QED
    BY ZenonT(30), <1>1, <1>2, <2>1, <2>4, <2>5, <2>6
    DEF Backed, Working, IsCurrent, Current, Succeeded, Realised
<1>14. SuccessMeansRealised'
  <2> SUFFICES ASSUME NEW o \in Obj, NEW m \in Range(Subs(o)),
                      Succeeded(o, m)', <<m, o>> \notin unsure
               PROVE  done[m][o] = db'[o].intent \/ AtSubscriber(o, m)'
    BY <1>1 DEF SuccessMeansRealised
  <2>1. Stored(o)' /\ m \in Modules
    BY ConstTypes, RangeTyped DEF Succeeded
  <2>2. CASE o = O /\ m = s[1]
    BY <1>1, <1>3, <1>5, <1>10, <2>1, <2>2 DEF Backed
  <2>3. CASE ~(o = O /\ m = s[1])
    <3>1. Succeeded(o, m)
      BY <1>8, <1>9, <2>1, <2>3 DEF Succeeded
    <3>2. QED
      BY <1>8, <1>10, <2>1, <3>1 DEF IInv, SuccessMeansRealised
  <2>4. QED
    BY <2>2, <2>3
<1>15. QED
  BY <1>3, <1>4, <1>6, <1>11, <1>12, <1>13, <1>14, TasksStayFacts, HandlersStayWellFormed DEF IInv

LEMMA HandlerKeeps ==
    ASSUME IInv, TypeOK', NEW s \in Subscriber, HandlerStep(s)
    PROVE  IInv'
  BY LoadKeeps, RealizeOkKeeps, StopsHalfwayKeeps, DropStatusKeeps, UpdateStatusKeeps,
     WithdrawKeeps DEF HandlerStep, RealizeFails, RealizeIsStuck

-----------------------------------------------------------------------------
(* The API and the replay procedure *)

\* Every object of R gets a new version, the others keep their records.  A
\* component that is left in Success is realised and nobody works on it, or
\* the history says that it is unsure.
LEMMA NewVersions ==
    ASSUME IInv, TypeOK', TasksWellFormed', NEW R \in SUBSET Obj,
           enq \subseteq enq', UNCHANGED <<timers, queue, tm, hdl, nids>>,
           \A o \in R : clock'[o] = clock[o] + 1 /\ db'[o].ver = clock[o] + 1,
           \A o \in R : \A m \in Modules :
               db'[o].comp[m].st = "Success" => db'[o].comp[m].errs = 0,
           \A o \in R : \A m \in Range(Subs(o)) : Succeeded(o, m)' =>
               /\ Succeeded(o, m) /\ db'[o].intent = db[o].intent
               /\ \/ <<m, o>> \in unsure'
                  \/ /\ done'[m][o] = db[o].intent
                     /\ \A s \in Subscriber : hdl[s].pc = "exec" /\ hdl[s].obj = o => s[1] # m,
           \A o \in Obj \ R : clock'[o] = clock[o] /\ db'[o] = db[o],
           \A o \in Obj \ R : \A m \in Range(Subs(o)) : Stored(o) =>
               \/ <<m, o>> \in unsure'
               \/ done'[m][o] = done[m][o] /\ <<m, o>> \notin unsure
    PROVE  IInv'
<1>1. clock \in [Obj -> Nat] /\ \A o \in Obj : clock[o] <= clock'[o]
  <2>1. clock \in [Obj -> Nat]
    BY DEF IInv, TypeOK
  <2>2. \A o \in R : clock[o] <= clock'[o]
    BY <2>1
  <2>3. \A o \in Obj \ R : clock[o] <= clock'[o]
    BY <2>1
  <2>4. QED
    BY <2>1, <2>2, <2>3
<1>2. LiveTasks \subseteq LiveTasks'
  BY DEF LiveTasks, Waiting, TMHolds, RequeuedTask
<1>3. \A o \in Obj \ R : \A m : AtSubscriber(o, m) => AtSubscriber(o, m)'
  BY <1>2, AtSubscriberKept DEF IInv
<1>4. \A s \in Subscriber : /\ WellFormedHandler(s) /\ Backed(s)
                            /\ hdl[s].obj \in Obj /\ hdl[s].ver \in Nat /\ s[1] \in Modules
                            /\ Working(s) => s[1] \in Range(Subs(hdl[s].obj))
  BY DEF IInv, TypeOK, HandlersWellFormed, WellFormedHandler, WorkIsBacked, Handler, Subscriber,
         Working
<1>5. RecordsWellFormed'
  BY <1>1 DEF IInv, RecordsWellFormed
<1>6. HandlersWellFormed'
  <2>1. ASSUME NEW s \in Subscriber
        PROVE  hdl[s].ver <= clock'[hdl[s].obj]
    <3>1. clock[hdl[s].obj] \in Nat /\ clock'[hdl[s].obj] \in Nat
          /\ clock[hdl[s].obj] <= clock'[hdl[s].obj] /\ hdl[s].ver <= clock[hdl[s].obj]
      BY <1>1, <1>4 DEF TypeOK, WellFormedHandler
    <3>2. QED
      BY <1>4, <3>1
  <2>2. QED
    BY <2>1 DEF IInv, HandlersWellFormed, WellFormedHandler
<1>7. AnswerIsFromCurrent'
  BY DEF IInv, AnswerIsFromCurrent, Working, IsFor, CurrentSub, CurrentModule
<1>8. AcceptedStatusIsTrue'
  <2> SUFFICES ASSUME ForThisNotification
               PROVE  AcceptedStatusIsTrue'
    BY DEF AcceptedStatusIsTrue, ForThisNotification
  <2>1. TMHolds /\ tm.task.obj \in Obj /\ tm.task.ver \in Nat
    BY DEF ForThisNotification, TMHolds, IInv, TypeOK, TaskManager, Task
  <2>2. CurrentModule \in Range(Subs(tm.task.obj)) /\ tm.task.ver <= clock[tm.task.obj]
    <3>1. CurrentModule \in Range(Subs(tm.task.obj)) /\ WellFormedTask(tm.task)
      BY <2>1, CurrentFacts DEF IInv, TasksWellFormed
    <3>2. QED
      BY <1>1, <2>1, <3>1 DEF WellFormedTask
  <2>3. ~Working(CurrentSub)'
    BY DEF IInv, AcceptedStatusIsTrue, Working, CurrentSub, CurrentModule
  <2>4. CASE tm.task.obj \in R
    <3>1. ~Current(tm.task.obj, tm.task.ver)'
      BY <1>1, <2>1, <2>2, <2>4 DEF Current
    <3>2. QED
      BY <2>3, <3>1 DEF AcceptedStatusIsTrue, ForThisNotification, Realised
  <2>5. CASE tm.task.obj \notin R
    <3>1. db'[tm.task.obj] = db[tm.task.obj]
      BY <2>1, <2>5
    <3>2. Stored(tm.task.obj) /\ Realised(tm.task.obj, CurrentModule)
              => Realised(tm.task.obj, CurrentModule)'
      BY <2>1, <2>2, <2>5, <3>1 DEF Realised, CurrentModule
    <3>3. QED
      BY <2>3, <3>1, <3>2 DEF IInv, AcceptedStatusIsTrue, ForThisNotification, Current, Stored,
                              Succeeded, CurrentModule
  <2>6. QED
    BY <2>4, <2>5
<1>9. WorkIsBacked'
  <2> SUFFICES ASSUME NEW u \in Subscriber, Working(u)
               PROVE  Backed(u)'
    BY DEF WorkIsBacked, Backed, Working
  <2>1. /\ WellFormedHandler(u) /\ Backed(u) /\ hdl[u].obj \in Obj /\ hdl[u].ver \in Nat
        /\ u[1] \in Range(Subs(hdl[u].obj)) /\ u[1] \in Modules
    BY <1>4
  <2>2. CASE hdl[u].obj \in R
    <3>1. clock[hdl[u].obj] \in Nat /\ hdl[u].ver <= clock[hdl[u].obj]
      BY <1>1, <2>1 DEF WellFormedHandler
    <3>2. ~IsCurrent(u)'
      BY <2>1, <2>2, <3>1 DEF IsCurrent, Current
    <3>3. hdl[u].pc = "exec" /\ Succeeded(hdl[u].obj, u[1])' =>
              /\ db'[hdl[u].obj].intent = hdl[u].intent
              /\ <<u[1], hdl[u].obj>> \in unsure'
      BY <2>1, <2>2 DEF Backed, Succeeded, Stored
    <3>4. QED
      BY <3>2, <3>3 DEF Backed
  <2>3. CASE hdl[u].obj \notin R
    <3>1. db'[hdl[u].obj] = db[hdl[u].obj]
      BY <2>1, <2>3
    <3>2. Stored(hdl[u].obj) /\ Realised(hdl[u].obj, u[1]) => Realised(hdl[u].obj, u[1])'
      BY <2>1, <2>3, <3>1 DEF Realised
    <3>3. AtSubscriber(hdl[u].obj, u[1]) => AtSubscriber(hdl[u].obj, u[1])'
      BY <1>3, <2>1, <2>3
    <3>4. Stored(hdl[u].obj) /\ <<u[1], hdl[u].obj>> \in unsure => <<u[1], hdl[u].obj>> \in unsure'
      BY <2>1, <2>3
    <3>5. QED
      BY <2>1, <3>1, <3>2, <3>3, <3>4 DEF Backed, Working, IsCurrent, Current, Stored, Succeeded
  <2>4. QED
    BY <2>2, <2>3
<1>10. SuccessMeansRealised'
  <2> SUFFICES ASSUME NEW o \in Obj, NEW m \in Range(Subs(o)),
                      Succeeded(o, m)', <<m, o>> \notin unsure'
               PROVE  done'[m][o] = db'[o].intent \/ AtSubscriber(o, m)'
    BY DEF SuccessMeansRealised
  <2>1. CASE o \in R
    BY <2>1
  <2>2. CASE o \notin R
    BY <1>3, <2>2 DEF IInv, SuccessMeansRealised, Succeeded, Stored
  <2>3. QED
    BY <2>1, <2>2
<1>11. QED
  BY <1>5, <1>6, <1>7, <1>8, <1>9, <1>10 DEF IInv

LEMMA ApiKeeps ==
    ASSUME IInv, TypeOK', NEW o \in Obj,
           CreateObject(o) \/ CreateFails(o) \/ UpdateObject(o) \/ DeleteObject(o)
    PROVE  IInv'
<1>0. PICK t : t = newTask(o, clock[o] + 1, Subs(o))
  OBVIOUS
<1>1. /\ db \in [Obj -> Object] /\ clock \in [Obj -> Nat] /\ db[o] \in Object
      /\ clock' = [clock EXCEPT ![o] = @ + 1] /\ enq' \in {enq, enq \cup {t}}
      /\ unsure' = unsure \ (Modules \X {o}) /\ (StoreNew(o) \/ DeleteObject(o))
      /\ UNCHANGED <<timers, queue, tm, nids, hdl, replays, done>>
  BY <1>0 DEF IInv, TypeOK, StoreNew, CreateObject, CreateFails, UpdateObject, DeleteObject,
              CreateTask, AskAgain, tmVars
<1>2. \A p \in Obj \ {o} : clock'[p] = clock[p] /\ db'[p] = db[p]
  BY <1>1 DEF StoreNew, DeleteObject
<1>3. /\ clock'[o] = clock[o] + 1 /\ db'[o].ver = clock[o] + 1
      /\ \A m \in Modules : db'[o].comp[m].st = "Pending"
  <2>1. CASE StoreNew(o)
    BY <1>1, <2>1 DEF StoreNew, NewObject, Fresh
  <2>2. CASE DeleteObject(o)
    <3>1. db'[o] = ToBeDeletedObject(o)
      BY <1>1, <2>2 DEF DeleteObject
    <3>2. db[o].comp \in [Modules -> Component]
      BY <1>1 DEF Object
    <3>3. \A m \in Modules : [db[o].comp[m] EXCEPT !.st = "Pending"].st = "Pending"
      BY <3>2 DEF Component
    <3>4. /\ db'[o].ver = clock[o] + 1
          /\ db'[o].comp = [m \in Modules |-> [db[o].comp[m] EXCEPT !.st = "Pending"]]
      BY <1>1, <3>1 DEF ToBeDeletedObject, Object
    <3>5. QED
      BY <1>1, <3>3, <3>4
  <2>3. QED
    BY <1>1, <2>1, <2>2
<1>4. TasksWellFormed'
  <2>1. Len(Subs(o)) > 0 /\ Subs(o) \in Seq(Modules)
    BY ConstTypes
  <2>2. WellFormedTask(t)'
    <3>1. /\ t.obj = o /\ t.ver = clock[o] + 1 /\ t.subs = Subs(o) /\ t.subIndex = 0
      BY <1>0 DEF newTask
    <3>2. clock'[o] \in Nat /\ t.ver \in 1 .. clock'[o]
      BY <1>1, <1>3, <3>1
    <3>3. QED
      BY <2>1, <3>1, <3>2 DEF WellFormedTask
  <2>3. \A p \in Obj : clock[p] <= clock'[p] /\ clock'[p] \in Nat
    BY <1>1, <1>2, <1>3
  <2>4. \A u \in Task : WellFormedTask(u) => WellFormedTask(u)'
    BY <1>1, <2>3 DEF WellFormedTask, Task
  <2>5. Waiting' \subseteq Waiting \cup {t}
    BY <1>1 DEF Waiting
  <2>6. Waiting \subseteq Task /\ tm.task \in Task /\ \A r \in replays : r.tasks \subseteq Task
    BY RangeTyped DEF IInv, TypeOK, Waiting, TaskManager, Replay
  <2>7. /\ \A u \in Waiting' : WellFormedTask(u)'
        /\ \A r \in replays' : \A u \in r.tasks : WellFormedTask(u)'
    BY <1>1, <2>2, <2>4, <2>5, <2>6 DEF IInv, TasksWellFormed
  <2>8. TMHolds' => WellFormedTask(tm.task)' /\ tm.task.subIndex + tm.i < Len(tm.task.subs)
    BY <1>1, <2>4, <2>6 DEF IInv, TasksWellFormed, TMHolds, WellFormedTask
  <2>9. QED
    BY <1>1, <2>7, <2>8 DEF TasksWellFormed, WellFormedTask
<1>5. \A m \in Range(Subs(o)) : ~Succeeded(o, m)'
  BY <1>3, ConstTypes, RangeTyped DEF Succeeded
<1>6. \A p \in Obj \ {o} : \A m \in Range(Subs(p)) : Stored(p) =>
          \/ <<m, p>> \in unsure'
          \/ done'[m][p] = done[m][p] /\ <<m, p>> \notin unsure
  BY <1>1
<1>7. \A p \in {o} : clock'[p] = clock[p] + 1 /\ db'[p].ver = clock[p] + 1
  BY <1>3
<1>8. \A p \in {o} : \A m \in Modules :
          db'[p].comp[m].st = "Success" => db'[p].comp[m].errs = 0
  BY <1>3
<1>9. \A p \in {o} : \A m \in Range(Subs(p)) : Succeeded(p, m)' =>
          /\ Succeeded(p, m) /\ db'[p].intent = db[p].intent
          /\ \/ <<m, p>> \in unsure'
             \/ /\ done'[m][p] = db[p].intent
                /\ \A s \in Subscriber : hdl[s].pc = "exec" /\ hdl[s].obj = p => s[1] # m
  BY <1>5
<1>10. {o} \in SUBSET Obj /\ enq \subseteq enq' /\ UNCHANGED <<timers, queue, tm, hdl, nids>>
  BY <1>1
<1>11. QED
  BY <1>2, <1>4, <1>6, <1>7, <1>8, <1>9, <1>10, NewVersions

LEMMA ReplayFinishedKeeps ==
    ASSUME IInv, TypeOK', NEW r \in replays, ReplayFinished(r)
    PROVE  IInv'
<1>1. /\ tm'.pc = "idle" /\ tm'.nid = 0 /\ tm.pc = "replay"
      /\ enq' = enq \cup r.tasks /\ replays' = replays \ {r}
      /\ UNCHANGED <<db, clock, timers, queue, hdl, nids, done, unsure>>
  BY DEF ReplayFinished, TMIdle, dbVars, ghostVars
<1>2. ~TMHolds /\ ~TMHolds' /\ Waiting' = Waiting \cup r.tasks
  BY <1>1 DEF TMHolds, Waiting
<1>3. LiveTasks \subseteq LiveTasks'
  BY <1>2 DEF LiveTasks
<1>4. TasksWellFormed'
  BY <1>1, <1>2 DEF IInv, TasksWellFormed, WellFormedTask
<1>5. RecordsWellFormed' /\ HandlersWellFormed'
  BY <1>1 DEF IInv, RecordsWellFormed, HandlersWellFormed, WellFormedHandler, TypeOK
<1>6. AnswerIsFromCurrent' /\ AcceptedStatusIsTrue'
  BY <1>1 DEF AnswerIsFromCurrent, AcceptedStatusIsTrue, ForThisNotification
<1>7. QED
  BY <1>1, <1>3, <1>4, <1>5, <1>6, QuietStep DEF IInv

LEMMA ReplayFailsKeeps ==
    ASSUME IInv, TypeOK', NEW r \in replays, ReplayFails(r)
    PROVE  IInv'
<1>1. /\ replays' = (replays \ {r}) \cup {[r EXCEPT !.pc = "finish"]}
      /\ r \in Replay /\ r.mod \in Modules /\ done \in [Modules -> [Obj -> Nat]]
      /\ UNCHANGED <<db, clock, enq, timers, queue, tm, hdl, nids>>
  BY DEF IInv, TypeOK, Replay, ReplayFails, ReplayGivesUp, taskVars, dbVars, tmVars
<1>2. [r EXCEPT !.pc = "finish"].tasks = r.tasks
  BY <1>1 DEF Replay
<1>3. TasksWellFormed'
  BY <1>1, <1>2 DEF IInv, TasksWellFormed, WellFormedTask, Waiting, TMHolds
<1>4. \A o \in Obj \ {} : \A m \in Range(Subs(o)) : Stored(o) =>
          \/ <<m, o>> \in unsure'
          \/ done'[m][o] = done[m][o] /\ <<m, o>> \notin unsure
  <2> SUFFICES ASSUME NEW o \in Obj, NEW m \in Range(Subs(o)), Stored(o)
               PROVE  \/ <<m, o>> \in unsure'
                      \/ done'[m][o] = done[m][o] /\ <<m, o>> \notin unsure
    OBVIOUS
  <2>1. m \in Modules
    BY ConstTypes, RangeTyped
  <2>2. CASE UNCHANGED <<done, unsure>>
    BY <2>2
  <2>3. CASE Reset(r.mod) /\ unsure' = unsure \cup NotReplayedPairs(r.mod, {})
    <3>1. m # r.mod => done'[m][o] = done[m][o]
      BY <1>1, <2>1, <2>3 DEF Reset
    <3>2. m = r.mod => <<m, o>> \in unsure'
      BY <2>3 DEF NotReplayedPairs, ObjectsOf
    <3>3. QED
      BY <2>3, <3>1, <3>2
  <2>4. QED
    BY <2>2, <2>3 DEF ReplayFails
<1>5. /\ \A o \in {} : clock'[o] = clock[o] + 1 /\ db'[o].ver = clock[o] + 1
      /\ \A o \in {} : \A m \in Modules :
             db'[o].comp[m].st = "Success" => db'[o].comp[m].errs = 0
      /\ \A o \in {} : \A m \in Range(Subs(o)) : Succeeded(o, m)' =>
             /\ Succeeded(o, m) /\ db'[o].intent = db[o].intent
             /\ \/ <<m, o>> \in unsure'
                \/ /\ done'[m][o] = db[o].intent
                   /\ \A s \in Subscriber : hdl[s].pc = "exec" /\ hdl[s].obj = o => s[1] # m
  OBVIOUS
<1>6. \A o \in Obj \ {} : clock'[o] = clock[o] /\ db'[o] = db[o]
  BY <1>1
<1>7. {} \in SUBSET Obj /\ enq \subseteq enq' /\ UNCHANGED <<timers, queue, tm, hdl, nids>>
  BY <1>1
<1>8. QED
  BY <1>3, <1>4, <1>5, <1>6, <1>7, NewVersions

\* The records after the new versions, whether all objects got one or not.
LEMMA GatherFacts ==
    ASSUME IInv, TypeOK', NEW m0 \in Modules, NEW R \in SUBSET ToReplay(m0),
           GatherObjects(m0, R), UNCHANGED <<enq, timers, queue, tm, nids, hdl>>
    PROVE  /\ R \in SUBSET Obj
           /\ \A o \in R : clock'[o] = clock[o] + 1
           /\ \A t \in Task : WellFormedTask(t) => WellFormedTask(t)'
           /\ TasksWellFormed' => IInv'
<1>1. /\ R \in SUBSET Obj
      /\ \A o \in R : Stored(o) /\ m0 \in Range(Subs(o))
      /\ db \in [Obj -> Object] /\ clock \in [Obj -> Nat] /\ done \in [Modules -> [Obj -> Nat]]
  BY DEF IInv, TypeOK, ToReplay, Named, ObjectsOf
<1>2. /\ \A o \in R : clock'[o] = clock[o] + 1 /\ db'[o] = prepareObjectsForReplay(m0, o)
      /\ \A o \in Obj \ R : clock'[o] = clock[o] /\ db'[o] = db[o]
  BY <1>1 DEF GatherObjects, ReplayVersion
<1>3. Reset(m0) /\ unsure' = unsure \cup NotReplayedPairs(m0, R) \cup OvertakenPairs(m0, R)
  BY DEF GatherObjects
<1>4. \A t \in Task : WellFormedTask(t) => WellFormedTask(t)'
  <2>1. \A o \in Obj : clock[o] \in Nat /\ clock'[o] \in Nat /\ clock[o] <= clock'[o]
    BY <1>1, <1>2
  <2>2. QED
    BY <2>1 DEF WellFormedTask, Task
<1>5. ASSUME NEW o \in R
      PROVE  /\ db'[o].ver = clock[o] + 1 /\ db'[o].intent = db[o].intent
             /\ Stored(o)' => Stored(o)
             /\ \A m \in Modules : db'[o].comp[m] =
                    IF m \in ReplaySet(m0, o) THEN Fresh ELSE db[o].comp[m]
  <2>1. db[o] \in Object
    BY <1>1
  <2>2. db'[o] = prepareObjectsForReplay(m0, o) /\ Stored(o)
    BY <1>1, <1>2
  <2>3. QED
    BY <2>1, <2>2 DEF prepareObjectsForReplay, ReplayVersion, Object
<1>6. \A o \in R : clock'[o] = clock[o] + 1 /\ db'[o].ver = clock[o] + 1
  BY <1>2, <1>5
<1>7. \A o \in R : \A m \in Modules :
          db'[o].comp[m].st = "Success" => db'[o].comp[m].errs = 0
  BY <1>1, <1>5 DEF IInv, RecordsWellFormed, Fresh
<1>8. \A o \in R : \A m \in Range(Subs(o)) : Succeeded(o, m)' =>
          /\ Succeeded(o, m) /\ db'[o].intent = db[o].intent
          /\ \/ <<m, o>> \in unsure'
             \/ /\ done'[m][o] = db[o].intent
                /\ \A s \in Subscriber : hdl[s].pc = "exec" /\ hdl[s].obj = o => s[1] # m
  <2> SUFFICES ASSUME NEW o \in R, NEW m \in Range(Subs(o)), Succeeded(o, m)'
               PROVE  /\ Succeeded(o, m) /\ db'[o].intent = db[o].intent
                      /\ \/ <<m, o>> \in unsure'
                         \/ /\ done'[m][o] = db[o].intent
                            /\ \A s \in Subscriber :
                                   hdl[s].pc = "exec" /\ hdl[s].obj = o => s[1] # m
    OBVIOUS
  <2>1. m \in Modules /\ o \in Obj
    BY <1>1, ConstTypes, RangeTyped
  <2>2. m \notin ReplaySet(m0, o) /\ Succeeded(o, m)
    BY <1>5, <2>1 DEF Succeeded, Fresh
  <2>3. m # m0
    BY <2>1, <2>2 DEF ReplaySet
  <2>4. done'[m][o] = done[m][o]
    BY <1>1, <1>3, <2>1, <2>3 DEF Reset
  <2>5. CASE <<m, o>> \notin OvertakenPairs(m0, R)
    <3>1. /\ ~(hdl[<<m, TypeOf[o]>>].pc = "exec" /\ hdl[<<m, TypeOf[o]>>].obj = o)
          /\ done[m][o] = db[o].intent
      BY <2>1, <2>2, <2>5 DEF OvertakenPairs
    <3>2. ASSUME NEW s \in Subscriber, hdl[s].pc = "exec", hdl[s].obj = o, s[1] = m
          PROVE  FALSE
      <4>1. s = <<m, TypeOf[o]>>
        BY <3>2 DEF IInv, HandlersWellFormed, WellFormedHandler, Subscriber
      <4>2. QED
        BY <3>1, <3>2, <4>1
    <3>3. QED
      BY <1>5, <2>2, <2>4, <3>1, <3>2
  <2>6. CASE <<m, o>> \in OvertakenPairs(m0, R)
    BY <1>3, <1>5, <2>2, <2>6
  <2>7. QED
    BY <2>5, <2>6
<1>9. \A o \in Obj \ R : \A m \in Range(Subs(o)) : Stored(o) =>
          \/ <<m, o>> \in unsure'
          \/ done'[m][o] = done[m][o] /\ <<m, o>> \notin unsure
  <2> SUFFICES ASSUME NEW o \in Obj \ R, NEW m \in Range(Subs(o)), Stored(o)
               PROVE  \/ <<m, o>> \in unsure'
                      \/ done'[m][o] = done[m][o] /\ <<m, o>> \notin unsure
    OBVIOUS
  <2>1. m \in Modules
    BY ConstTypes, RangeTyped
  <2>2. m # m0 => done'[m][o] = done[m][o]
    BY <1>1, <1>3, <2>1 DEF Reset
  <2>3. m = m0 => <<m, o>> \in NotReplayedPairs(m0, R)
    BY DEF NotReplayedPairs, ObjectsOf
  <2>4. QED
    BY <1>3, <2>2, <2>3
<1>10. \A o \in Obj \ R : clock'[o] = clock[o] /\ db'[o] = db[o]
  BY <1>2
<1>11. enq \subseteq enq' /\ R \in SUBSET Obj
  BY <1>1
<1>12. TasksWellFormed' => IInv'
  BY <1>6, <1>7, <1>8, <1>9, <1>10, <1>11, NewVersions
<1>13. QED
  BY <1>2, <1>4, <1>11, <1>12

\* The tasks known before stay well formed; those of the replays are T's.
LEMMA GatherTasks ==
    ASSUME IInv, UNCHANGED <<enq, timers, queue, tm>>,
           \A t \in Task : WellFormedTask(t) => WellFormedTask(t)',
           \A x \in replays' : x \in replays \/ \A t \in x.tasks : WellFormedTask(t)'
    PROVE  TasksWellFormed'
<1>1. Waiting \subseteq Task /\ tm.task \in Task /\ \A x \in replays : x.tasks \subseteq Task
  BY RangeTyped DEF IInv, TypeOK, Waiting, TaskManager, Replay
<1>2. \A t \in Waiting' : WellFormedTask(t)'
  BY <1>1 DEF IInv, TasksWellFormed, Waiting
<1>3. \A x \in replays' : \A t \in x.tasks : WellFormedTask(t)'
  BY <1>1 DEF IInv, TasksWellFormed
<1>4. TMHolds' => WellFormedTask(tm.task)' /\ tm.task.subIndex + tm.i < Len(tm.task.subs)
  BY <1>1 DEF IInv, TasksWellFormed, TMHolds, WellFormedTask
<1>5. QED
  BY <1>2, <1>3, <1>4 DEF TasksWellFormed, WellFormedTask

LEMMA ReplayGatherFailsKeeps ==
    ASSUME IInv, TypeOK', NEW r \in replays, ReplayGatherFails(r)
    PROVE  IInv'
<1>1. /\ r \in Replay /\ r.mod \in Modules /\ r.tasks \subseteq Task
      /\ UNCHANGED <<enq, timers, queue, tm, nids, hdl>>
      /\ replays' = (replays \ {r}) \cup {[r EXCEPT !.pc = "finish"]}
  BY DEF IInv, TypeOK, Replay, ReplayGatherFails, ReplayGivesUp, taskVars, tmVars
<1>2. PICK R \in SUBSET ToReplay(r.mod) : GatherObjects(r.mod, R)
  BY DEF ReplayGatherFails
<1>3. /\ \A t \in Task : WellFormedTask(t) => WellFormedTask(t)'
      /\ TasksWellFormed' => IInv'
  BY <1>1, <1>2, GatherFacts
<1>4. [r EXCEPT !.pc = "finish"].tasks = r.tasks
  BY <1>1 DEF Replay
<1>5. \A t \in r.tasks : WellFormedTask(t)'
  BY <1>1, <1>3 DEF IInv, TasksWellFormed
<1>6. \A x \in replays' : x \in replays \/ \A t \in x.tasks : WellFormedTask(t)'
  BY <1>1, <1>4, <1>5
<1>7. QED
  BY <1>1, <1>3, <1>6, GatherTasks

LEMMA ReplayObjectsKeeps ==
    ASSUME IInv, TypeOK', NEW r \in replays, ReplayObjects(r)
    PROVE  IInv'
<1>1. PICK R : R = ToReplay(r.mod)
  OBVIOUS
<1>2. /\ r \in Replay /\ r.mod \in Modules
      /\ \A o \in R : r.mod \in Range(Subs(o))
      /\ UNCHANGED <<enq, timers, queue, tm, nids, hdl>>
      /\ clock \in [Obj -> Nat] /\ GatherObjects(r.mod, R)
  BY <1>1 DEF IInv, TypeOK, Replay, ToReplay, Named, ObjectsOf, ReplayObjects, taskVars, tmVars
<1>3. /\ R \in SUBSET Obj /\ \A o \in R : clock'[o] = clock[o] + 1
      /\ \A t \in Task : WellFormedTask(t) => WellFormedTask(t)'
      /\ TasksWellFormed' => IInv'
  BY <1>1, <1>2, GatherFacts
<1>4. PICK subsOf \in [R -> SeqOf(Modules, Cardinality(Modules))] :
         /\ \A o \in R : IsSelection(subsOf[o], Subs(o), ReplaySet(r.mod, o))
         /\ replays' = (replays \ {r}) \cup
               {[r EXCEPT !.pc = "finish", !.tasks = ReplayTasks(R, subsOf)]}
  BY <1>1 DEF ReplayObjects
<1>5. ASSUME NEW o \in R, NEW t, t = newTask(o, clock[o] + 1, subsOf[o])
      PROVE  WellFormedTask(t)'
  <2>1. Range(subsOf[o]) = Range(Subs(o)) \cap ReplaySet(r.mod, o)
    BY <1>4 DEF IsSelection
  <2>2. r.mod \in Range(subsOf[o])
    BY <1>2, <2>1 DEF ReplaySet
  <2>3. subsOf[o] \in Seq(Modules)
    BY <1>4 DEF SeqOf
  <2>4. Len(subsOf[o]) > 0
    BY <2>2, <2>3 DEF Range
  <2>5. t.obj = o /\ t.ver = clock[o] + 1 /\ t.subs = subsOf[o] /\ t.subIndex = 0
    BY <1>5 DEF newTask
  <2>6. clock'[o] = clock[o] + 1 /\ clock[o] \in Nat
    BY <1>2, <1>3
  <2>7. QED
    BY <2>1, <2>4, <2>5, <2>6 DEF WellFormedTask
<1>6. PICK T : T = ReplayTasks(R, subsOf)
  OBVIOUS
<1>7. \A t \in T : WellFormedTask(t)'
  BY <1>5, <1>6 DEF ReplayTasks, ReplayVersion
<1>8. [r EXCEPT !.pc = "finish", !.tasks = T].tasks = T
  BY <1>2 DEF Replay
<1>9. \A x \in replays' : x \in replays \/ \A t \in x.tasks : WellFormedTask(t)'
  BY <1>4, <1>6, <1>7, <1>8
<1>10. QED
  BY <1>2, <1>3, <1>9, GatherTasks

-----------------------------------------------------------------------------
(* The theorems *)

LEMMA IInvInit == Init => IInv
<1> SUFFICES ASSUME Init
             PROVE  IInv
  OBVIOUS
<1>1. TypeOK
  BY TypesInit
<1>2. /\ enq = {} /\ timers = {} /\ queue = <<>> /\ replays = {} /\ tm.pc = "idle" /\ tm.nid = 0
      /\ nids = 0 /\ clock = [o \in Obj |-> 0] /\ db = [o \in Obj |-> Absent]
      /\ hdl = [s \in Subscriber |-> Parked]
  BY DEF Init, TMIdle
<1>3. Waiting = {}
  BY <1>2 DEF Waiting, Range
<1>4. TasksWellFormed
  BY <1>2, <1>3 DEF TasksWellFormed, TMHolds
<1>5. \A o \in Obj : /\ db[o].ver = 0 /\ clock[o] = 0
                     /\ \A m \in Modules : db[o].comp[m].st = "Pending"
  BY <1>2 DEF Absent, Fresh
<1>6. RecordsWellFormed
  BY <1>5 DEF RecordsWellFormed
<1>7. HandlersWellFormed
  BY <1>2, ConstTypes DEF HandlersWellFormed, WellFormedHandler, Parked, Fresh
<1>8. AnswerIsFromCurrent /\ AcceptedStatusIsTrue /\ WorkIsBacked
  BY <1>2 DEF AnswerIsFromCurrent, AcceptedStatusIsTrue, ForThisNotification, WorkIsBacked,
              Backed, Working, Parked
<1>9. \A o \in Obj : \A m \in Range(Subs(o)) : ~Succeeded(o, m)
  BY <1>5, ConstTypes, RangeTyped DEF Succeeded
<1>10. QED
  BY <1>1, <1>4, <1>6, <1>7, <1>8, <1>9 DEF IInv, SuccessMeansRealised

LEMMA IInvStep == IInv /\ [Next]_vars => IInv'
<1> SUFFICES ASSUME IInv, [Next]_vars
             PROVE  IInv'
  OBVIOUS
<1>1. TypeOK'
  BY TypesStep DEF IInv
<1>2. CASE ApiStep
  BY <1>1, <1>2, ApiKeeps DEF ApiStep
<1>3. CASE ChannelStep \/ TaskManagerStep
  BY <1>1, <1>3, TaskManagerKeeps
<1>4. CASE \E s \in Subscriber : HandlerStep(s)
  BY <1>1, <1>4, HandlerKeeps
<1>5. CASE \E r \in replays : ReplayStep(r)
  BY <1>1, <1>5, ReplayObjectsKeeps, ReplayGatherFailsKeeps, ReplayFailsKeeps,
     ReplayFinishedKeeps DEF ReplayStep
<1>6. CASE UNCHANGED vars
  <2>1. /\ Waiting' = Waiting /\ (TMHolds' <=> TMHolds) /\ LiveTasks' = LiveTasks
        /\ UNCHANGED <<db, clock, hdl, tm, nids, replays, done, unsure>>
    BY <1>6 DEF vars, Waiting, TMHolds, LiveTasks, RequeuedTask
  <2>2. TasksWellFormed' /\ RecordsWellFormed' /\ HandlersWellFormed'
    BY <2>1 DEF IInv, TasksWellFormed, WellFormedTask, RecordsWellFormed, HandlersWellFormed,
                WellFormedHandler
  <2>3. AnswerIsFromCurrent' /\ AcceptedStatusIsTrue'
    BY <2>1 DEF IInv, AnswerIsFromCurrent, AcceptedStatusIsTrue, Working, IsFor, CurrentSub,
                CurrentModule, ForThisNotification, Current, Stored, Succeeded, Realised
  <2>4. QED
    BY <1>1, <2>1, <2>2, <2>3, QuietStep DEF IInv
<1>7. QED
  BY <1>2, <1>3, <1>4, <1>5, <1>6 DEF Next

(* The inductive invariant: tasks, records and handlers fit together, an     *)
(* accepted status is true of the store, and work at hand is backed by a task.*)
THEOREM IInvHolds == Spec => []IInv
  BY IInvInit, IInvStep, PTL DEF Spec

(* A component UpdateXStatus records as Success is realised, or a live task   *)
(* is about to have it realised again.                                       *)
THEOREM SuccessHolds == Spec => []SuccessMeansRealised
<1>1. IInv => SuccessMeansRealised
  BY DEF IInv
<1>2. QED
  BY <1>1, IInvHolds, PTL
=============================================================================
