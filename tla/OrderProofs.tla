----------------------------- MODULE OrderProofs -----------------------------
(***************************************************************************)
(* Proof, for every choice of modules, objects, subscriber lists and        *)
(* bounds, that Realization never has two tasks for one version of an       *)
(* object, that the modules realise an object by priority, that an object   *)
(* is removed only when it is torn down everywhere and nobody brings it     *)
(* back, that no intent is lost, and that Realization implements Intent.    *)
(*                                                                          *)
(* OInv below says which tasks there are and what they stand for; it is     *)
(* inductive together with IInv of Realization.  NotRevived and LInv each   *)
(* add what one more property needs.                                        *)
(***************************************************************************)
EXTENDS RealizationProofs

-----------------------------------------------------------------------------
(* The inductive invariant, on top of IInv *)

\* The modules a task has still to ask; a task in the TaskManager's hands is
\* taken as it would be requeued (LiveTasks).
Rest(t) == {t.subs[j] : j \in t.subIndex + 1 .. Len(t.subs)}

\* The subscribers of a task are in the order of the object's list.
InOrder(t) ==
    \A i, j \in DOMAIN t.subs : i < j =>
        \E k, l \in DOMAIN Subs(t.obj) :
            k < l /\ Subs(t.obj)[k] = t.subs[i] /\ Subs(t.obj)[l] = t.subs[j]

\* Whoever the task of the stored version will not ask any more has succeeded.
OnlyRestOpen(t) ==
    Current(t.obj, t.ver) => \A m \in Range(Subs(t.obj)) \ Rest(t) : Succeeded(t.obj, m)

ReplayTasksOf(rs) == UNION {r.tasks : r \in rs}

TasksOrdered == \A t \in LiveTasks \cup ReplayTasksOf(replays) : InOrder(t) /\ OnlyRestOpen(t)

\* A replay holds back tasks that nobody else has; before it has gathered the
\* objects it has none.
ReplayTasksApart ==
    /\ \A r \in replays : r.pc = "start" => r.tasks = {}
    /\ \A r \in replays : \A t \in r.tasks : \A u \in LiveTasks : ~IsFor(u, t.obj, t.ver)
    /\ \A r, q \in replays : \A t \in r.tasks, u \in q.tasks :
          IsFor(t, u.obj, u.ver) => r = q /\ t = u

\* When the TaskManager goes on to the next subscriber, this one has succeeded.
AcceptedSuccessStands ==
    /\ ForThisNotification /\ ~tm.status.dropTask /\ tm.status.st = "Success"
    /\ Current(tm.task.obj, tm.task.ver)
    => Succeeded(tm.task.obj, CurrentModule)

OInv == OneTaskPerVersion /\ ReplayTasksApart /\ TasksOrdered /\ AcceptedSuccessStands

-----------------------------------------------------------------------------
(* Sequences of tasks *)

Distinct(q) == \A i, j \in DOMAIN q : IsFor(q[i], q[j].obj, q[j].ver) => i = j

LEMMA DistinctAppend ==
    ASSUME NEW q \in Seq(Task), NEW t \in Task, Distinct(q),
           \A u \in Range(q) : ~IsFor(u, t.obj, t.ver)
    PROVE  Distinct(Append(q, t))
<1>1. /\ DOMAIN Append(q, t) = 1 .. Len(q) + 1 /\ DOMAIN q = 1 .. Len(q)
      /\ \A i \in 1 .. Len(q) : Append(q, t)[i] = q[i]
      /\ Append(q, t)[Len(q) + 1] = t
  OBVIOUS
<1>2. \A i \in 1 .. Len(q) : ~IsFor(q[i], t.obj, t.ver) /\ ~IsFor(t, q[i].obj, q[i].ver)
  BY <1>1 DEF Range, IsFor
<1>3. SUFFICES ASSUME NEW i \in 1 .. Len(q) + 1, NEW j \in 1 .. Len(q) + 1,
                      IsFor(Append(q, t)[i], Append(q, t)[j].obj, Append(q, t)[j].ver)
               PROVE  i = j
  BY <1>1 DEF Distinct
<1>4. CASE i \in 1 .. Len(q) /\ j \in 1 .. Len(q)
  BY <1>1, <1>3, <1>4 DEF Distinct
<1>5. CASE i = Len(q) + 1 \/ j = Len(q) + 1
  BY <1>1, <1>2, <1>3, <1>5
<1>6. QED
  BY <1>4, <1>5

LEMMA DistinctTail ==
    ASSUME NEW q \in Seq(Task), q # <<>>, Distinct(q)
    PROVE  Distinct(Tail(q)) /\ \A u \in Range(Tail(q)) : ~IsFor(u, Head(q).obj, Head(q).ver)
<1>1. /\ Head(q) = q[1] /\ 1 \in DOMAIN q
      /\ \A i \in DOMAIN Tail(q) : i \in Nat /\ i + 1 \in DOMAIN q /\ i + 1 # 1 /\ Tail(q)[i] = q[i + 1]
  OBVIOUS
<1>2. ASSUME NEW i \in DOMAIN Tail(q), NEW j \in DOMAIN Tail(q),
             IsFor(Tail(q)[i], Tail(q)[j].obj, Tail(q)[j].ver)
      PROVE  i = j
  <2>1. i + 1 = j + 1
    BY <1>1, <1>2 DEF Distinct
  <2>2. QED
    BY <1>1, <2>1
<1>3. ASSUME NEW i \in DOMAIN Tail(q)
      PROVE  ~IsFor(Tail(q)[i], Head(q).obj, Head(q).ver)
  BY <1>1 DEF Distinct
<1>4. QED
  BY <1>2, <1>3 DEF Distinct, Range

-----------------------------------------------------------------------------
(* One task per version *)

\* Two tasks on their way for one version are the same task.
LEMMA UniqueLive ==
    ASSUME IInv, OneTaskPerVersion, NEW t \in LiveTasks, NEW u \in LiveTasks,
           IsFor(t, u.obj, u.ver)
    PROVE  t = u
<1>1. TMHolds => RequeuedTask.obj = tm.task.obj /\ RequeuedTask.ver = tm.task.ver
  BY CurrentFacts DEF IInv
<1>2. CASE t \in Waiting /\ u \in Waiting
  <2>1. CASE t \in enq \cup timers \/ u \in enq \cup timers
    BY <1>2, <2>1 DEF OneTaskPerVersion, IsFor
  <2>2. CASE t \in Range(queue) /\ u \in Range(queue)
    BY <2>2 DEF OneTaskPerVersion, Range
  <2>3. QED
    BY <1>2, <2>1, <2>2 DEF Waiting
<1>3. CASE ~(t \in Waiting /\ u \in Waiting)
  <2>1. TMHolds /\ (t = RequeuedTask \/ u = RequeuedTask)
    BY <1>3 DEF LiveTasks
  <2>2. QED
    BY <1>1, <2>1 DEF LiveTasks, OneTaskPerVersion, IsFor
<1>4. QED
  BY <1>2, <1>3

LEMMA UniqueChannel ==
    ASSUME IInv, OneTaskPerVersion, ChannelStep
    PROVE  OneTaskPerVersion' /\ LiveTasks' = LiveTasks
<1>1. CASE \E t \in enq : Enqueue(t)
  <2>1. PICK t \in enq : Enqueue(t)
    BY <1>1
  <2>2. /\ queue \in Seq(Task) /\ t \in Task /\ UNCHANGED <<timers, tm>>
        /\ queue' = Append(queue, t) /\ enq' = enq \ {t}
    BY <2>1 DEF IInv, TypeOK, Enqueue, tmVars
  <2>3. Range(queue)' = Range(queue) \cup {t}
    BY <2>2, RangeOfAppend
  <2>4. Waiting' = Waiting /\ (TMHolds' <=> TMHolds)
    BY <2>2, <2>3 DEF Waiting, TMHolds
  <2>5. Distinct(queue')
    <3>1. \A u \in Range(queue) : ~IsFor(u, t.obj, t.ver)
      BY <2>2 DEF OneTaskPerVersion, Waiting, IsFor
    <3>2. Distinct(queue)
      BY DEF OneTaskPerVersion, Distinct
    <3>3. QED
      BY <2>2, <3>1, <3>2, DistinctAppend
  <2>6. OneTaskPerVersion'
    BY <2>2, <2>3, <2>4, <2>5 DEF OneTaskPerVersion, Distinct, IsFor
  <2>7. QED
    BY <2>2, <2>4, <2>6 DEF LiveTasks, RequeuedTask
<1>2. CASE \E t \in timers : TimerFires(t)
  <2>1. PICK t \in timers : TimerFires(t)
    BY <1>2
  <2>2. timers' = timers \ {t} /\ enq' = enq \cup {t} /\ UNCHANGED <<queue, tm>>
    BY <2>1 DEF TimerFires, tmVars
  <2>3. Waiting' = Waiting /\ (TMHolds' <=> TMHolds)
    BY <2>2 DEF Waiting, TMHolds
  <2>4. OneTaskPerVersion'
    BY <2>2, <2>3 DEF OneTaskPerVersion, IsFor
  <2>5. QED
    BY <2>2, <2>3, <2>4 DEF LiveTasks, RequeuedTask
<1>3. QED
  BY <1>1, <1>2 DEF ChannelStep

LEMMA UniqueDequeue ==
    ASSUME IInv, OneTaskPerVersion, Dequeue
    PROVE  OneTaskPerVersion' /\ LiveTasks' = LiveTasks
<1>1. /\ queue \in Seq(Task) /\ queue # <<>> /\ tm.pc = "idle" /\ queue' = Tail(queue)
      /\ tm' = [TMIdle EXCEPT !.pc = "publish", !.task = Head(queue)]
      /\ UNCHANGED <<enq, timers>>
  BY DEF IInv, TypeOK, Dequeue
<1>2. Head(queue) \in Task /\ Range(queue) = Range(Tail(queue)) \cup {Head(queue)}
  BY <1>1, RangeOfQueue
<1>3. tm'.pc = "publish" /\ tm'.task = Head(queue) /\ tm'.i = 0 /\ ~TMHolds /\ TMHolds'
  BY <1>1 DEF TMIdle, TMHolds
<1>4. /\ Distinct(queue')
      /\ \A u \in Range(queue') : ~IsFor(u, Head(queue).obj, Head(queue).ver)
  BY <1>1, DistinctTail DEF OneTaskPerVersion, Distinct
<1>5. Waiting = Waiting' \cup {Head(queue)} /\ RequeuedTask' = Head(queue)
  BY <1>1, <1>2, <1>3 DEF Waiting, RequeuedTask, Task
<1>6. \A u \in enq \cup timers : ~IsFor(u, Head(queue).obj, Head(queue).ver)
  BY <1>2, <1>5 DEF OneTaskPerVersion, Waiting
<1>7. OneTaskPerVersion'
  BY <1>1, <1>2, <1>3, <1>4, <1>5, <1>6 DEF OneTaskPerVersion, Distinct, Waiting, IsFor
<1>8. QED
  BY <1>3, <1>5, <1>7 DEF LiveTasks

LEMMA UniqueRequeue ==
    ASSUME IInv, OneTaskPerVersion, TMHolds, Requeue, UNCHANGED <<enq, queue>>
    PROVE  OneTaskPerVersion' /\ LiveTasks' = LiveTasks
<1>1. /\ timers' = timers \cup {RequeuedTask} /\ ~TMHolds'
      /\ RequeuedTask.obj = tm.task.obj /\ RequeuedTask.ver = tm.task.ver
  BY CurrentFacts DEF IInv, Requeue, TMIdle, TMHolds
<1>2. Waiting' = Waiting \cup {RequeuedTask}
  BY <1>1 DEF Waiting
<1>3. \A u \in Waiting : ~IsFor(u, RequeuedTask.obj, RequeuedTask.ver)
  BY <1>1 DEF OneTaskPerVersion
<1>4. OneTaskPerVersion'
  BY <1>1, <1>2, <1>3 DEF OneTaskPerVersion, Waiting, IsFor
<1>5. QED
  BY <1>1, <1>2, <1>4 DEF LiveTasks

\* The TaskManager keeps its task, or has none any more.
LEMMA UniqueHeld ==
    ASSUME OneTaskPerVersion, UNCHANGED <<enq, timers, queue>>,
           TMHolds' => TMHolds /\ tm'.task = tm.task
    PROVE  OneTaskPerVersion'
  BY DEF OneTaskPerVersion, Waiting, IsFor

-----------------------------------------------------------------------------
(* The channel, the timers and the TaskManager *)

AllTasks == LiveTasks \cup ReplayTasksOf(replays)

LEMMA ApartKept ==
    ASSUME ReplayTasksApart, UNCHANGED replays,
           \A u \in LiveTasks' : \E w \in LiveTasks : w.obj = u.obj /\ w.ver = u.ver
    PROVE  ReplayTasksApart'
<1>1. \A r \in replays : \A t \in r.tasks : \A u \in LiveTasks' : ~IsFor(u, t.obj, t.ver)
  BY DEF ReplayTasksApart, IsFor
<1>2. QED
  BY <1>1 DEF ReplayTasksApart, IsFor

\* No component that a task will not ask for loses its Success.
LEMMA OrderedKept ==
    ASSUME TasksOrdered,
           \A t \in AllTasks' : t \in AllTasks \/ (InOrder(t) /\ OnlyRestOpen(t)'),
           \A t \in AllTasks : Current(t.obj, t.ver)' =>
               /\ Current(t.obj, t.ver)
               /\ \A m \in Range(Subs(t.obj)) \ Rest(t) :
                      Succeeded(t.obj, m) => Succeeded(t.obj, m)'
    PROVE  TasksOrdered'
<1>1. \A t \in AllTasks : InOrder(t) /\ OnlyRestOpen(t)
  BY DEF TasksOrdered, AllTasks
<1>2. \A t \in AllTasks : OnlyRestOpen(t)'
  BY <1>1 DEF OnlyRestOpen, Rest
<1>3. \A t \in AllTasks' : InOrder(t)' /\ OnlyRestOpen(t)'
  BY <1>1, <1>2 DEF InOrder
<1>4. QED
  BY <1>3 DEF TasksOrdered, AllTasks

\* The tasks are where they were, or moved between their places.
LEMMA OrderMoves ==
    ASSUME OInv, OneTaskPerVersion', LiveTasks' \subseteq LiveTasks, UNCHANGED <<db, replays>>,
           tm' = tm \/ tm'.pc # "got"
    PROVE  OInv'
<1>1. ReplayTasksApart'
  BY ApartKept DEF OInv
<1>2. TasksOrdered'
  BY OrderedKept DEF OInv, AllTasks, Current, Stored, Succeeded
<1>3. AcceptedSuccessStands'
  BY DEF OInv, AcceptedSuccessStands, ForThisNotification, Current, Stored, Succeeded, CurrentModule
<1>4. QED
  BY <1>1, <1>2, <1>3 DEF OInv

\* A task that goes one subscriber further leaves this one behind.
LEMMA RestNext ==
    ASSUME NEW t \in Task, NEW u, u.subs = t.subs, u.subIndex = t.subIndex + 1
    PROVE  Rest(t) \subseteq Rest(u) \cup {t.subs[t.subIndex + 1]}
<1>1. t.subIndex \in Nat /\ Len(t.subs) \in Nat
  BY DEF Task
<1>2. SUFFICES ASSUME NEW j \in t.subIndex + 1 .. Len(t.subs), j # t.subIndex + 1
               PROVE  t.subs[j] \in Rest(u)
  BY DEF Rest
<1>3. j \in u.subIndex + 1 .. Len(u.subs)
  BY <1>1, <1>2
<1>4. QED
  BY <1>3 DEF Rest

\* NextSubscriber: the one the task leaves behind has succeeded.
LEMMA OrderNextSubscriber ==
    ASSUME IInv, OInv, NextSubscriber
    PROVE  OInv'
<1>1. /\ ForThisNotification /\ ~tm.status.dropTask /\ tm.status.st = "Success"
      /\ UNCHANGED <<db, enq, timers, queue, replays>>
      /\ tm.task \in Task /\ tm.task.subIndex \in Nat /\ tm.i \in Nat /\ tm \in TaskManager
  BY DEF IInv, TypeOK, NextSubscriber, TaskManager, Task, taskVars, dbVars
<1>2. TMHolds /\ Waiting' = Waiting
  BY <1>1 DEF TMHolds, ForThisNotification, Waiting
<1>3. CASE tm' = TMIdle
  <2>1. ~TMHolds' /\ tm'.pc # "got"
    BY <1>3 DEF TMIdle, TMHolds
  <2>2. LiveTasks' \subseteq LiveTasks
    BY <1>2, <2>1 DEF LiveTasks
  <2>3. OneTaskPerVersion'
    BY <1>1, <2>1, UniqueHeld DEF OInv
  <2>4. QED
    BY <1>1, <2>1, <2>2, <2>3, OrderMoves
<1>4. CASE tm' = [tm EXCEPT !.pc = "publish", !.i = @ + 1, !.nid = 0, !.status = NoStatus]
  <2>1. tm'.pc = "publish" /\ tm'.task = tm.task /\ tm'.i = tm.i + 1
    BY <1>1, <1>4 DEF TaskManager
  <2>2. OneTaskPerVersion'
    BY <1>1, <1>2, <2>1, UniqueHeld DEF OInv
  <2>3. /\ RequeuedTask \in Task /\ RequeuedTask.obj = tm.task.obj
        /\ RequeuedTask.ver = tm.task.ver /\ RequeuedTask.subs = tm.task.subs
        /\ RequeuedTask.subIndex = tm.task.subIndex + tm.i
        /\ CurrentModule = RequeuedTask.subs[RequeuedTask.subIndex + 1]
    BY <1>1, <1>2, CurrentFacts DEF RequeuedTask, Task, IInv
  <2>4. LiveTasks = Waiting \cup {RequeuedTask} /\ LiveTasks' = Waiting \cup {RequeuedTask'}
    BY <1>2, <2>1 DEF LiveTasks, TMHolds
  <2>5. /\ RequeuedTask'.obj = tm.task.obj /\ RequeuedTask'.ver = tm.task.ver
        /\ RequeuedTask'.subs = tm.task.subs
        /\ RequeuedTask'.subIndex = tm.task.subIndex + tm.i + 1
    <3>1. RequeuedTask' = [tm.task EXCEPT !.subIndex = tm.task.subIndex + tm.i + 1]
      BY <1>1, <2>1 DEF RequeuedTask
    <3>2. QED
      BY <1>1, <3>1 DEF Task
  <2>6. ReplayTasksApart'
    BY <1>1, <2>3, <2>4, <2>5, ApartKept DEF OInv
  <2>7. InOrder(RequeuedTask) /\ OnlyRestOpen(RequeuedTask)
    BY <2>4 DEF OInv, TasksOrdered
  <2>8. Current(tm.task.obj, tm.task.ver) => Succeeded(tm.task.obj, CurrentModule)
    BY <1>1 DEF OInv, AcceptedSuccessStands
  <2>9. ASSUME NEW u \in AllTasks'
        PROVE  u \in AllTasks \/ (InOrder(u) /\ OnlyRestOpen(u)')
    <3>1. SUFFICES ASSUME u = RequeuedTask'
                   PROVE  InOrder(u) /\ OnlyRestOpen(u)'
      BY <1>1, <2>4, <2>9 DEF AllTasks
    <3>2. /\ u.obj = RequeuedTask.obj /\ u.ver = RequeuedTask.ver /\ u.subs = RequeuedTask.subs
          /\ u.subIndex = RequeuedTask.subIndex + 1
      BY <2>3, <2>5, <3>1
    <3>3. Rest(RequeuedTask) \subseteq Rest(u) \cup {CurrentModule}
      BY <2>3, <3>2, RestNext
    <3>4. OnlyRestOpen(u)
      BY <2>3, <2>7, <2>8, <3>2, <3>3 DEF OnlyRestOpen
    <3>5. QED
      BY <1>1, <2>7, <3>2, <3>4 DEF InOrder, OnlyRestOpen, Current, Stored, Succeeded
  <2>10. TasksOrdered'
    BY <1>1, <2>9, OrderedKept DEF OInv, Current, Stored, Succeeded
  <2>11. AcceptedSuccessStands'
    BY <2>1 DEF AcceptedSuccessStands, ForThisNotification
  <2>12. QED
    BY <2>2, <2>6, <2>10, <2>11 DEF OInv
<1>5. QED
  BY <1>3, <1>4 DEF NextSubscriber

LEMMA OrderTaskManager ==
    ASSUME IInv, OInv, ChannelStep \/ TaskManagerStep
    PROVE  OInv'
<1>1. CASE ChannelStep
  <2>1. UNCHANGED <<db, replays, tm>>
    BY <1>1 DEF ChannelStep, Enqueue, TimerFires, dbVars, tmVars
  <2>2. QED
    BY <1>1, <2>1, UniqueChannel, OrderMoves DEF OInv
<1>2. CASE Dequeue
  <2>1. UNCHANGED <<db, replays>> /\ tm'.pc # "got"
    BY <1>2 DEF Dequeue, TMIdle, dbVars
  <2>2. QED
    BY <1>2, <2>1, UniqueDequeue, OrderMoves DEF OInv
<1>3. CASE PublishBusy \/ StatusTimeout \/ RetrySubscriber
  <2>1. UNCHANGED <<db, replays, enq, queue>> /\ TMHolds /\ Requeue
    BY <1>3 DEF PublishBusy, StatusTimeout, RetrySubscriber, ForThisNotification, TMHolds, dbVars
  <2>2. tm'.pc # "got"
    BY <2>1 DEF Requeue, TMIdle
  <2>3. QED
    BY <2>1, <2>2, UniqueRequeue, OrderMoves DEF OInv
<1>4. CASE PublishDelivered \/ AwaitStatus \/ IgnoreStatus
  <2>1. /\ UNCHANGED <<db, replays, enq, timers, queue>> /\ tm'.pc # "got"
        /\ TMHolds /\ TMHolds' /\ tm'.task = tm.task /\ tm'.i = tm.i
    BY <1>4 DEF PublishDelivered, AwaitStatus, IgnoreStatus, taskVars, dbVars, TMHolds,
                IInv, TypeOK, TaskManager
  <2>2. LiveTasks' = LiveTasks
    BY <2>1 DEF LiveTasks, Waiting, RequeuedTask
  <2>3. OneTaskPerVersion'
    BY <2>1, UniqueHeld DEF OInv
  <2>4. QED
    BY <2>1, <2>2, <2>3, OrderMoves
<1>5. CASE DropTask
  <2>1. UNCHANGED <<db, replays, enq, timers, queue>> /\ tm'.pc # "got" /\ ~TMHolds'
    BY <1>5 DEF DropTask, TMIdle, taskVars, dbVars, TMHolds
  <2>2. LiveTasks' \subseteq LiveTasks
    BY <2>1 DEF LiveTasks, Waiting
  <2>3. OneTaskPerVersion'
    BY <2>1, UniqueHeld DEF OInv
  <2>4. QED
    BY <2>1, <2>2, <2>3, OrderMoves
<1>6. CASE NextSubscriber
  BY <1>6, OrderNextSubscriber
<1>7. QED
  BY <1>1, <1>2, <1>3, <1>4, <1>5, <1>6 DEF TaskManagerStep

-----------------------------------------------------------------------------
(* The handlers *)

LEMMA LiveWellFormed ==
    ASSUME IInv, NEW t \in LiveTasks
    PROVE  t \in Task /\ WellFormedTask(t)
<1>1. CASE t \in Waiting
  <2>1. t \in enq \/ t \in timers \/ t \in Range(queue)
    BY <1>1 DEF Waiting
  <2>2. t \in Task
    BY <2>1, RangeTyped DEF IInv, TypeOK
  <2>3. QED
    BY <1>1, <2>2 DEF IInv, TasksWellFormed
<1>2. CASE TMHolds /\ t = RequeuedTask
  BY <1>2, CurrentFacts DEF IInv
<1>3. QED
  BY <1>1, <1>2 DEF LiveTasks

\* Whoever works on the stored version is the next one the only task for it asks.
LEMMA WorkerIsNext ==
    ASSUME IInv, OInv, NEW s \in Subscriber, Working(s), IsCurrent(s)
    PROVE  \E u \in LiveTasks : /\ IsFor(u, hdl[s].obj, hdl[s].ver)
                               /\ u.subs[u.subIndex + 1] = s[1]
                               /\ u.subIndex + 1 \in DOMAIN u.subs
                               /\ \A t \in AllTasks : IsFor(t, hdl[s].obj, hdl[s].ver) => t = u
<1>1. AtSubscriber(hdl[s].obj, s[1]) /\ db[hdl[s].obj].ver = hdl[s].ver
  BY DEF IInv, WorkIsBacked, Backed, IsCurrent, Current
<1>2. PICK u \in LiveTasks : IsFor(u, hdl[s].obj, hdl[s].ver) /\ u.subs[u.subIndex + 1] = s[1]
  BY <1>1, AtSubscriberIs DEF IInv
<1>3. u \in Task /\ WellFormedTask(u)
  BY LiveWellFormed
<1>4. u.subIndex + 1 \in DOMAIN u.subs
  BY <1>3 DEF WellFormedTask, Task
<1>5. ASSUME NEW t \in AllTasks, IsFor(t, hdl[s].obj, hdl[s].ver)
      PROVE  t = u
  <2>1. CASE t \in LiveTasks
    BY <1>2, <1>5, <2>1, UniqueLive DEF OInv, IsFor
  <2>2. CASE t \in ReplayTasksOf(replays)
    BY <1>2, <1>5, <2>2 DEF OInv, ReplayTasksApart, ReplayTasksOf, IsFor
  <2>3. QED
    BY <1>5, <2>1, <2>2 DEF AllTasks
<1>6. QED
  BY <1>2, <1>4, <1>5

\* The steps in which a report of s changes the store.
Recorded(s) == UpdateStatus(s) \/ RemovalFails(s)

\* What they make of the object's record.
LEMMA UpdateStatusRecord ==
    ASSUME IInv, NEW s \in Subscriber, Recorded(s)
    PROVE  LET O == hdl[s].obj
               c == [db[O].comp EXCEPT ![s[1]] = hdl[s].comp]
           IN  /\ O \in Obj /\ Stored(O) /\ s[1] \in Range(Subs(O))
               /\ \A o \in Obj \ {O} : db'[o] = db[o]
               /\ checkForAllSuccess(O, c) /\ db[O].oper = "ToBeDeleted" => db'[O] = Absent
               /\ ~(checkForAllSuccess(O, c) /\ db[O].oper = "ToBeDeleted") =>
                     /\ db'[O].ver = db[O].ver /\ db'[O].comp = c
                     /\ db'[O].oper = IF checkForAllSuccess(O, c) THEN "Up" ELSE db[O].oper
<1> DEFINE O == hdl[s].obj
           c == [db[O].comp EXCEPT ![s[1]] = hdl[s].comp]
<1>1. O \in Obj /\ db \in [Obj -> Object] /\ Stored(O) /\ s[1] \in Range(Subs(O))
  BY DEF IInv, TypeOK, Recorded, UpdateStatus, RemovalFails, Handler, IsCurrent, Current, HandlersWellFormed,
         WellFormedHandler
<1>2. db' = [db EXCEPT ![O] = Reported(s)]
  BY DEF Recorded, UpdateStatus, RemovalFails
<1>3. db[O] \in Object
  BY <1>1
<1>4. checkForAllSuccess(O, c) /\ db[O].oper = "ToBeDeleted" => Reported(s) = Absent
  BY DEF Reported
<1>5. ~(checkForAllSuccess(O, c) /\ db[O].oper = "ToBeDeleted") =>
          /\ Reported(s).ver = db[O].ver /\ Reported(s).comp = c
          /\ Reported(s).oper = IF checkForAllSuccess(O, c) THEN "Up" ELSE db[O].oper
  <2> HIDE DEF c
  <2>1. CASE checkForAllSuccess(O, c)
    BY <1>3, <2>1 DEF Reported, Object, c
  <2>2. CASE ~checkForAllSuccess(O, c)
    BY <1>3, <2>2 DEF Reported, Object, c
  <2>3. QED
    BY <2>1, <2>2
<1>6. QED
  BY <1>1, <1>2, <1>4, <1>5

\* What all the steps of a handler leave alone.
LEMMA HandlerFrame ==
    ASSUME IInv, NEW s \in Subscriber, HandlerStep(s)
    PROVE  /\ UNCHANGED <<enq, timers, queue, clock>>
           /\ tm'.task = tm.task /\ tm'.i = tm.i /\ tm'.nid = tm.nid
           /\ tm' = tm \/ (tm.pc = "wait" /\ tm'.pc = "got")
           /\ Recorded(s) \/ UNCHANGED db
           /\ UpdateStatusReplay(s) \/ UNCHANGED replays
<1>1. CASE LoadObject(s) \/ LoadFails(s) \/ UpdateStatusFails(s) \/ HandlerParks(s)
  BY <1>1 DEF LoadObject, LoadFails, UpdateStatusFails, HandlerParks, taskVars, dbVars, tmVars
<1>2. CASE RealizeOk(s) \/ RealizeFails(s) \/ RealizeIsStuck(s)
  BY <1>2 DEF RealizeOk, RealizeFails, RealizeIsStuck, StopsHalfway, taskVars, dbVars, tmVars
<1>3. CASE UpdateStatusStale(s)
  BY <1>3, StatusUpdatedFacts DEF UpdateStatusStale, taskVars, dbVars
<1>4. CASE UpdateStatusReplay(s)
  BY <1>4, StatusUpdatedFacts DEF UpdateStatusReplay, taskVars, dbVars
<1>5. CASE Recorded(s)
  BY <1>5, StatusUpdatedFacts DEF Recorded, UpdateStatus, RemovalFails, taskVars, tmVars
<1>6. QED
  BY <1>1, <1>2, <1>3, <1>4, <1>5 DEF HandlerStep, Recorded

LEMMA OrderHandler ==
    ASSUME IInv, OInv, NEW s \in Subscriber, HandlerStep(s)
    PROVE  OInv'
<1> DEFINE O == hdl[s].obj
<1>1. /\ UNCHANGED <<enq, timers, queue>> /\ tm'.task = tm.task /\ tm'.i = tm.i
      /\ tm' = tm \/ (tm.pc = "wait" /\ tm'.pc = "got")
      /\ Recorded(s) \/ UNCHANGED db
      /\ UpdateStatusReplay(s) \/ UNCHANGED replays
  BY HandlerFrame
<1>2. LiveTasks' = LiveTasks /\ (TMHolds' <=> TMHolds) /\ CurrentModule' = CurrentModule
  BY <1>1 DEF LiveTasks, Waiting, TMHolds, RequeuedTask, CurrentModule
<1>3. OneTaskPerVersion'
  BY <1>1, <1>2, UniqueHeld DEF OInv
<1>4. \A r \in replays' : r \in replays \/ r.tasks = {}
  <2>1. CASE UpdateStatusReplay(s)
    BY <2>1 DEF UpdateStatusReplay
  <2>2. QED
    BY <1>1, <2>1
<1>5. \A r \in replays' : \A t \in r.tasks : r \in replays
  BY <1>4
<1>6. ReplayTasksApart'
  BY <1>2, <1>4, <1>5 DEF OInv, ReplayTasksApart
<1>7. AllTasks' \subseteq AllTasks
  BY <1>2, <1>5 DEF AllTasks, ReplayTasksOf
<1>8. Recorded(s) =>
          /\ hdl[s].pc = "report" /\ Working(s) /\ IsCurrent(s)
          /\ StatusUpdated(s, FALSE) \/ UNCHANGED tm
  BY DEF Recorded, UpdateStatus, RemovalFails, Working, tmVars
<1>9. ASSUME NEW o, NEW v, Current(o, v)', o \in Obj
      PROVE  /\ Current(o, v)
             /\ \A m \in Modules : Succeeded(o, m) /\ ~(Recorded(s) /\ o = O /\ m = s[1]) =>
                    Succeeded(o, m)'
             /\ Recorded(s) /\ o = O =>
                    v = hdl[s].ver /\ db'[o].comp[s[1]] = hdl[s].comp
  <2>1. CASE Recorded(s)
    <3>1. CASE o = O
      <4>1. db'[O] # Absent
        BY <1>9, <3>1 DEF Current, Stored, Absent
      <4>2. db'[O].ver = db[O].ver /\ db'[O].comp = [db[O].comp EXCEPT ![s[1]] = hdl[s].comp]
        BY <2>1, <4>1, UpdateStatusRecord
      <4>3. Stored(O) /\ db[O].ver = hdl[s].ver
        BY <1>8, <2>1 DEF IsCurrent, Current
      <4>4. s[1] \in Modules /\ db[O].comp \in [Modules -> Component]
        BY <1>9, <3>1 DEF IInv, TypeOK, Object, Subscriber
      <4>5. Current(o, v) /\ v = hdl[s].ver
        BY <1>9, <3>1, <4>2, <4>3 DEF Current
      <4>6. /\ db'[o].comp[s[1]] = hdl[s].comp
            /\ \A m \in Modules : m # s[1] => db'[o].comp[m] = db[o].comp[m]
        BY <3>1, <4>2, <4>4
      <4>7. QED
        BY <1>9, <2>1, <3>1, <4>5, <4>6 DEF Current, Succeeded
    <3>2. CASE o # O
      BY <1>9, <2>1, <3>2, UpdateStatusRecord DEF Current, Stored, Succeeded
    <3>3. QED
      BY <3>1, <3>2
  <2>2. CASE ~Recorded(s)
    BY <1>1, <1>9, <2>2 DEF Current, Stored, Succeeded
  <2>3. QED
    BY <2>1, <2>2
<1>10. TasksOrdered'
  <2>1. ASSUME NEW t \in AllTasks, Current(t.obj, t.ver)',
               NEW m \in Range(Subs(t.obj)) \ Rest(t), Succeeded(t.obj, m)
        PROVE  Succeeded(t.obj, m)'
    <3>1. t \in Task
      BY LiveWellFormed DEF AllTasks, ReplayTasksOf, IInv, TypeOK, Replay
    <3>2. t.obj \in Obj /\ m \in Modules
      BY <3>1, ConstTypes, RangeTyped DEF Task
    <3>3. ~(Recorded(s) /\ t.obj = O /\ m = s[1])
      <4>1. SUFFICES ASSUME Recorded(s), t.obj = O
                     PROVE  s[1] \in Rest(t)
        OBVIOUS
      <4>2. IsFor(t, O, hdl[s].ver)
        BY <1>9, <2>1, <3>2, <4>1 DEF IsFor
      <4>3. /\ t.subs[t.subIndex + 1] = s[1] /\ t.subIndex + 1 \in DOMAIN t.subs
        BY <1>8, <4>1, <4>2, WorkerIsNext
      <4>4. QED
        BY <3>1, <4>3 DEF Rest, Task
    <3>4. QED
      BY <1>9, <2>1, <3>2, <3>3
  <2>2. \A t \in AllTasks : t.obj \in Obj
    BY LiveWellFormed DEF AllTasks, ReplayTasksOf, IInv, TypeOK, Replay, Task
  <2>3. \A t \in AllTasks : Current(t.obj, t.ver)' => Current(t.obj, t.ver)
    BY <1>9, <2>2
  <2>4. QED
    BY <1>7, <2>1, <2>3, OrderedKept DEF OInv
<1>11. AcceptedSuccessStands'
  <2>1. SUFFICES ASSUME (ForThisNotification /\ ~tm.status.dropTask /\ tm.status.st = "Success")',
                        Current(tm.task.obj, tm.task.ver)'
                 PROVE  Succeeded(tm.task.obj, CurrentModule)'
    BY DEF AcceptedSuccessStands
  <2>2. /\ tm.task.obj \in Obj /\ CurrentModule \in Modules
    <3>1. TMHolds
      BY <1>2, <2>1 DEF ForThisNotification, TMHolds
    <3>2. QED
      BY <3>1, CurrentFacts DEF IInv, TypeOK, TaskManager, Task
  <2>3. Current(tm.task.obj, tm.task.ver)
    BY <1>1, <1>9, <2>1, <2>2
  <2>4. CASE tm' = tm
    <3>1. ForThisNotification /\ ~tm.status.dropTask /\ tm.status.st = "Success"
      BY <2>1, <2>4 DEF ForThisNotification
    <3>2. Succeeded(tm.task.obj, CurrentModule)
      BY <2>3, <3>1 DEF OInv, AcceptedSuccessStands
    <3>3. ~(Recorded(s) /\ tm.task.obj = O /\ CurrentModule = s[1])
      BY <1>8, <3>1, CurrentIsAnother
    <3>4. Succeeded(tm.task.obj, CurrentModule)'
      BY <1>1, <1>2, <1>9, <2>1, <2>2, <3>2, <3>3
    <3>5. QED
      BY <3>4
  <2>5. CASE tm.pc = "wait" /\ tm'.pc = "got"
    <3>1. Recorded(s)
      <4>1. CASE UpdateStatusStale(s) \/ UpdateStatusReplay(s)
        <5>1. StatusUpdated(s, TRUE)
          BY <4>1 DEF UpdateStatusStale, UpdateStatusReplay
        <5>2. tm'.status.dropTask = TRUE
          BY <2>5, <5>1, StatusUpdatedFacts
        <5>3. QED
          BY <2>1, <5>2
      <4>2. CASE LoadObject(s) \/ LoadFails(s) \/ RealizeOk(s) \/ RealizeFails(s) \/ RealizeIsStuck(s)
                 \/ UpdateStatusFails(s) \/ HandlerParks(s)
        BY <2>5, <4>2 DEF LoadObject, LoadFails, RealizeOk, RealizeFails, RealizeIsStuck, StopsHalfway, UpdateStatusFails,
                          HandlerParks, tmVars
      <4>3. QED
        BY <4>1, <4>2 DEF HandlerStep, Recorded
    <3>2. tm'.status.nid = hdl[s].nid /\ tm'.status.st = hdl[s].comp.st /\ tm'.nid = tm.nid
      BY <1>8, <2>5, <3>1, StatusUpdatedFacts
    <3>3. hdl[s].nid = tm.nid /\ hdl[s].comp.st = "Success"
      BY <2>1, <3>2 DEF ForThisNotification
    <3>4. s = CurrentSub /\ IsFor(tm.task, O, hdl[s].ver)
      BY <1>8, <2>5, <3>1, <3>3 DEF IInv, AnswerIsFromCurrent
    <3>5. s[1] = CurrentModule /\ tm.task.obj = O
      BY <3>4 DEF CurrentSub, IsFor
    <3>6. db'[O].comp[s[1]] = hdl[s].comp
      BY <1>1, <1>9, <2>1, <2>2, <3>1, <3>5
    <3>7. QED
      BY <1>1, <1>2, <2>1, <3>3, <3>5, <3>6 DEF Succeeded, Current
  <2>6. QED
    BY <1>1, <2>4, <2>5
<1>12. QED
  BY <1>3, <1>6, <1>10, <1>11 DEF OInv

-----------------------------------------------------------------------------
(* New versions and new tasks *)

\* No task is about a version that has not been generated yet.
LEMMA TasksAreOld ==
    ASSUME IInv, NEW t \in AllTasks
    PROVE  t \in Task /\ t.obj \in Obj /\ t.ver \in Nat /\ t.ver <= clock[t.obj]
<1>1. t \in Task /\ WellFormedTask(t)
  BY LiveWellFormed DEF AllTasks, ReplayTasksOf, IInv, TypeOK, Replay, TasksWellFormed
<1>2. t.obj \in Obj /\ clock[t.obj] \in Nat
  BY <1>1 DEF Task, IInv, TypeOK
<1>3. QED
  BY <1>1, <1>2 DEF WellFormedTask, Task

LEMMA UniqueAdd ==
    ASSUME IInv, OneTaskPerVersion, NEW N, enq' = enq \cup N, UNCHANGED <<timers, queue>>,
           TMHolds' => TMHolds /\ tm'.task = tm.task,
           \A t, u \in N : IsFor(t, u.obj, u.ver) => t = u,
           \A t \in N : \A u \in LiveTasks : ~IsFor(u, t.obj, t.ver)
    PROVE  OneTaskPerVersion'
<1>1. Waiting' = Waiting \cup N /\ Waiting \subseteq LiveTasks
  BY DEF Waiting, LiveTasks
<1>2. \A t \in N : \A u \in Waiting : ~IsFor(u, t.obj, t.ver) /\ ~IsFor(t, u.obj, u.ver)
  BY <1>1 DEF IsFor
<1>3. TMHolds => \A t \in N : ~IsFor(t, tm.task.obj, tm.task.ver)
  BY CurrentFacts DEF IInv, LiveTasks, IsFor
<1>4. N \cap Waiting = {}
  BY <1>2 DEF IsFor
<1>5. QED
  BY <1>1, <1>2, <1>3, <1>4 DEF OneTaskPerVersion, Waiting

\* The objects of R get new versions; no task there was is for one of them.
LEMMA OrderNewVersions ==
    ASSUME IInv, OInv, NEW R \in SUBSET Obj, UNCHANGED tm,
           \A o \in R : db'[o].ver = clock[o] + 1,
           \A o \in Obj \ R : db'[o] = db[o],
           \A t \in AllTasks' : t \in AllTasks \/ (InOrder(t) /\ OnlyRestOpen(t)')
    PROVE  TasksOrdered' /\ AcceptedSuccessStands'
<1>1. \A o \in R : clock[o] \in Nat
  BY DEF IInv, TypeOK
<1>2. ASSUME NEW t, t.obj \in Obj, t.ver \in Nat, t.ver <= clock[t.obj], Current(t.obj, t.ver)'
      PROVE  t.obj \notin R
  BY <1>1, <1>2 DEF Current
<1>3. \A t \in AllTasks : Current(t.obj, t.ver)' => t.obj \in Obj \ R
  BY <1>2, TasksAreOld
<1>4. TasksOrdered'
  BY <1>3, OrderedKept DEF OInv, Current, Stored, Succeeded
<1>5. AcceptedSuccessStands'
  <2>1. SUFFICES ASSUME (ForThisNotification /\ ~tm.status.dropTask /\ tm.status.st = "Success")',
                        Current(tm.task.obj, tm.task.ver)'
                 PROVE  Succeeded(tm.task.obj, CurrentModule)'
    BY DEF AcceptedSuccessStands
  <2>2. ForThisNotification /\ ~tm.status.dropTask /\ tm.status.st = "Success" /\ TMHolds
    BY <2>1 DEF ForThisNotification, TMHolds
  <2>3. RequeuedTask \in AllTasks /\ RequeuedTask.obj = tm.task.obj /\ RequeuedTask.ver = tm.task.ver
    BY <2>2, CurrentFacts DEF IInv, AllTasks, LiveTasks
  <2>4. tm.task.obj \in Obj /\ tm.task.ver \in Nat /\ tm.task.ver <= clock[tm.task.obj]
    BY <2>3, TasksAreOld
  <2>5. tm.task.obj \in Obj \ R
    BY <1>2, <2>1, <2>4
  <2>6. Succeeded(tm.task.obj, CurrentModule)
    BY <2>1, <2>2, <2>5 DEF OInv, AcceptedSuccessStands, Current, Stored
  <2>7. QED
    BY <2>5, <2>6 DEF Succeeded, Stored, CurrentModule
<1>6. QED
  BY <1>4, <1>5

LEMMA OrderApi ==
    ASSUME IInv, OInv, NEW o \in Obj,
           CreateObject(o) \/ CreateFails(o) \/ UpdateObject(o) \/ DeleteObject(o)
    PROVE  OInv'
<1>0. PICK t : t = newTask(o, clock[o] + 1, Subs(o))
  OBVIOUS
<1>a. PICK N : (N = {} \/ N = {t}) /\ enq' = enq \cup N
  <2>1. enq' = enq \cup {} \/ enq' = enq \cup {t}
    BY <1>0 DEF CreateObject, CreateFails, UpdateObject, DeleteObject, CreateTask
  <2>2. QED
    BY <2>1
<1>1. /\ clock[o] \in Nat /\ db \in [Obj -> Object]
      /\ UNCHANGED <<timers, queue, tm, replays>>
      /\ db' = [db EXCEPT ![o] = NewObject(o)] \/ db' = [db EXCEPT ![o] = ToBeDeletedObject(o)]
  BY DEF IInv, TypeOK, StoreNew, CreateObject, CreateFails, UpdateObject, DeleteObject, tmVars
<1>2. t.obj = o /\ t.ver = clock[o] + 1 /\ t.subs = Subs(o) /\ t.subIndex = 0
  BY <1>0 DEF newTask
<1>3. \A u \in AllTasks : ~IsFor(u, t.obj, t.ver)
  BY <1>1, <1>2, TasksAreOld DEF IsFor
<1>4. OneTaskPerVersion'
  <2>1. \A x \in N : \A u \in LiveTasks : ~IsFor(u, x.obj, x.ver)
    BY <1>a, <1>3 DEF AllTasks
  <2>2. /\ enq' = enq \cup N /\ \A x, u \in N : IsFor(x, u.obj, u.ver) => x = u
        /\ TMHolds' => TMHolds /\ tm'.task = tm.task
    BY <1>a, <1>1 DEF TMHolds
  <2>3. QED
    BY <1>1, <2>1, <2>2, UniqueAdd DEF OInv
<1>5. LiveTasks' = LiveTasks \cup N
  BY <1>a, <1>1 DEF LiveTasks, Waiting, TMHolds, RequeuedTask
<1>6. ReplayTasksApart'
  <2>1. \A r \in replays : \A u \in r.tasks : ~IsFor(t, u.obj, u.ver)
    BY <1>3 DEF AllTasks, ReplayTasksOf, IsFor
  <2>2. QED
    BY <1>a, <1>1, <1>5, <2>1 DEF OInv, ReplayTasksApart
<1>7. InOrder(t) /\ OnlyRestOpen(t)'
  <2>1. Rest(t) = Range(Subs(o))
    <3>1. Subs(o) \in Seq(Modules)
      BY ConstTypes
    <3>2. QED
      BY <1>2, <3>1 DEF Rest, Range
  <2>2. InOrder(t)
    BY <1>2 DEF InOrder
  <2>3. OnlyRestOpen(t)'
    BY <1>2, <2>1 DEF OnlyRestOpen
  <2>4. QED
    BY <2>2, <2>3
<1>8. db'[o].ver = clock[o] + 1 /\ \A p \in Obj \ {o} : db'[p] = db[p]
  <2>1. db[o] \in Object
    BY <1>1
  <2>2. NewObject(o).ver = clock[o] + 1 /\ ToBeDeletedObject(o).ver = clock[o] + 1
    BY <2>1 DEF NewObject, ToBeDeletedObject, Object
  <2>3. QED
    BY <1>1, <2>2
<1>9. \A u \in AllTasks' : u \in AllTasks \/ u = t
  BY <1>a, <1>1, <1>5 DEF AllTasks
<1>10. TasksOrdered' /\ AcceptedSuccessStands'
  <2> DEFINE R == {o}
  <2>1. /\ R \in SUBSET Obj /\ \A p \in R : db'[p].ver = clock[p] + 1
        /\ \A p \in Obj \ R : db'[p] = db[p]
    BY <1>8
  <2>2. \A u \in AllTasks' : u \in AllTasks \/ (InOrder(u) /\ OnlyRestOpen(u)')
    BY <1>7, <1>9
  <2> HIDE DEF R
  <2>3. QED
    BY <1>1, <2>1, <2>2, OrderNewVersions
<1>11. QED
  BY <1>4, <1>6, <1>10 DEF OInv

LEMMA OrderReplayFinished ==
    ASSUME IInv, OInv, NEW r \in replays, ReplayFinished(r)
    PROVE  OInv'
<1>1. /\ enq' = enq \cup r.tasks /\ replays' = replays \ {r} /\ UNCHANGED <<timers, queue, db>>
      /\ ~TMHolds /\ ~TMHolds' /\ tm'.pc = "idle"
  BY DEF ReplayFinished, TMHolds, TMIdle, dbVars
<1>2. LiveTasks' = LiveTasks \cup r.tasks
  BY <1>1 DEF LiveTasks, Waiting
<1>3. OneTaskPerVersion'
  BY <1>1, UniqueAdd DEF OInv, ReplayTasksApart
<1>4. ReplayTasksApart'
  <2>1. ASSUME NEW q \in replays', NEW t \in q.tasks, NEW u \in LiveTasks', IsFor(u, t.obj, t.ver)
        PROVE  FALSE
    BY <1>1, <1>2, <2>1 DEF OInv, ReplayTasksApart
  <2>2. QED
    BY <1>1, <2>1 DEF OInv, ReplayTasksApart
<1>5. AllTasks' \subseteq AllTasks
  BY <1>1, <1>2 DEF AllTasks, ReplayTasksOf
<1>6. TasksOrdered'
  BY <1>1, <1>5, OrderedKept DEF OInv, Current, Stored, Succeeded
<1>7. AcceptedSuccessStands'
  BY <1>1 DEF AcceptedSuccessStands, ForThisNotification
<1>8. QED
  BY <1>3, <1>4, <1>6, <1>7 DEF OInv

\* A replay goes from "start" to "finish" with the tasks N, for new versions
\* of the objects R.
LEMMA OrderReplay ==
    ASSUME IInv, OInv, NEW r \in replays, r.pc = "start", NEW q, q.pc = "finish",
           replays' = (replays \ {r}) \cup {q}, UNCHANGED <<enq, timers, queue, tm>>,
           NEW R \in SUBSET Obj,
           \A o \in R : db'[o].ver = clock[o] + 1,
           \A o \in Obj \ R : db'[o] = db[o],
           \A t \in q.tasks : t.obj \in R /\ t.ver = clock[t.obj] + 1
                              /\ InOrder(t) /\ OnlyRestOpen(t)',
           \A t, u \in q.tasks : t.obj = u.obj => t = u
    PROVE  OInv'
<1>1. LiveTasks' = LiveTasks /\ (TMHolds' <=> TMHolds)
  BY DEF LiveTasks, Waiting, TMHolds, RequeuedTask
<1>2. OneTaskPerVersion'
  BY <1>1, UniqueHeld DEF OInv
<1>3. \A t \in q.tasks : \A u \in AllTasks : ~IsFor(u, t.obj, t.ver)
  <2>1. \A o \in R : clock[o] \in Nat
    BY DEF IInv, TypeOK
  <2>2. QED
    BY <2>1, TasksAreOld DEF IsFor
<1>4. ReplayTasksApart'
  <2>1. \A x \in replays' : x = q \/ (x \in replays /\ x # r)
    OBVIOUS
  <2>2. ASSUME NEW x \in replays', NEW t \in x.tasks, NEW u \in LiveTasks'
        PROVE  ~IsFor(u, t.obj, t.ver)
    BY <1>1, <1>3, <2>1 DEF OInv, ReplayTasksApart, AllTasks
  <2>3. ASSUME NEW x \in replays', NEW y \in replays', NEW t \in x.tasks, NEW u \in y.tasks,
               IsFor(t, u.obj, u.ver)
        PROVE  x = y /\ t = u
    <3>1. CASE x = q /\ y = q
      BY <2>3, <3>1 DEF IsFor
    <3>2. CASE x = q /\ y # q
      <4>1. u \in AllTasks
        BY <2>1, <3>2 DEF AllTasks, ReplayTasksOf
      <4>2. QED
        BY <1>3, <2>3, <3>2, <4>1 DEF IsFor
    <3>3. CASE x # q /\ y = q
      <4>1. t \in AllTasks
        BY <2>1, <3>3 DEF AllTasks, ReplayTasksOf
      <4>2. QED
        BY <1>3, <2>3, <3>3, <4>1
    <3>4. CASE x # q /\ y # q
      BY <2>1, <2>3, <3>4 DEF OInv, ReplayTasksApart
    <3>5. QED
      BY <3>1, <3>2, <3>3, <3>4
  <2>4. \A x \in replays' : x.pc = "start" => x.tasks = {}
    BY <2>1 DEF OInv, ReplayTasksApart
  <2>5. QED
    BY <2>2, <2>3, <2>4 DEF ReplayTasksApart
<1>5. \A t \in AllTasks' : t \in AllTasks \/ t \in q.tasks
  BY <1>1 DEF AllTasks, ReplayTasksOf
<1>6. TasksOrdered' /\ AcceptedSuccessStands'
  BY <1>5, OrderNewVersions
<1>7. QED
  BY <1>2, <1>4, <1>6 DEF OInv

\* What a replay for module m makes of the records of the objects R.
LEMMA GatherRecords ==
    ASSUME IInv, NEW m \in Modules, NEW R \in SUBSET ToReplay(m), GatherObjects(m, R)
    PROVE  /\ R \in SUBSET Obj
           /\ \A o \in Obj \ R : db'[o] = db[o]
           /\ \A o \in R :
                 /\ Stored(o) /\ m \in Range(Subs(o))
                 /\ db'[o].ver = clock[o] + 1
                 /\ db'[o].oper = IF db[o].oper = "Up" THEN "Down" ELSE db[o].oper
                 /\ \A n \in Modules : db'[o].comp[n] =
                        IF n \in ReplaySet(m, o) THEN Fresh ELSE db[o].comp[n]
<1>1. R \in SUBSET Obj /\ \A o \in R : Stored(o) /\ m \in Range(Subs(o))
  BY DEF ToReplay, Named, ObjectsOf
<1>2. db \in [Obj -> Object]
  BY DEF IInv, TypeOK
<1>3. \A o \in Obj : db'[o] = IF o \in R THEN prepareObjectsForReplay(m, o) ELSE db[o]
  BY DEF GatherObjects
<1>4. ASSUME NEW o \in R
      PROVE  /\ db'[o].ver = clock[o] + 1
             /\ db'[o].oper = IF db[o].oper = "Up" THEN "Down" ELSE db[o].oper
             /\ db'[o].comp = [n \in Modules |-> IF n \in ReplaySet(m, o) THEN Fresh
                                                  ELSE db[o].comp[n]]
  <2>1. db[o] \in Object /\ db'[o] = prepareObjectsForReplay(m, o)
    BY <1>1, <1>2, <1>3
  <2>2. QED
    BY <2>1 DEF prepareObjectsForReplay, Object, ReplayVersion
<1>5. QED
  BY <1>1, <1>3, <1>4

LEMMA OrderReplayObjects ==
    ASSUME IInv, OInv, NEW r \in replays, ReplayObjects(r)
    PROVE  OInv'
<1> DEFINE R == ToReplay(r.mod)
<1>1. /\ r \in Replay /\ r.mod \in Modules /\ r.pc = "start"
      /\ GatherObjects(r.mod, R) /\ UNCHANGED <<enq, timers, queue, tm>>
  BY DEF IInv, TypeOK, Replay, ReplayObjects, taskVars, tmVars
<1>2. PICK subsOf \in [R -> SeqOf(Modules, Cardinality(Modules))] :
          /\ \A o \in R : IsSelection(subsOf[o], Subs(o), ReplaySet(r.mod, o))
          /\ replays' = (replays \ {r}) \cup
                {[r EXCEPT !.pc = "finish", !.tasks = ReplayTasks(R, subsOf)]}
  BY DEF ReplayObjects
<1> DEFINE q == [r EXCEPT !.pc = "finish", !.tasks = ReplayTasks(R, subsOf)]
<1>3. q.pc = "finish" /\ q.tasks = ReplayTasks(R, subsOf)
  BY <1>1 DEF Replay
<1> HIDE DEF q
<1>4. /\ R \in SUBSET Obj
      /\ \A o \in Obj \ R : db'[o] = db[o]
      /\ \A o \in R :
            /\ Stored(o) /\ db'[o].ver = clock[o] + 1
            /\ db'[o].oper = IF db[o].oper = "Up" THEN "Down" ELSE db[o].oper
            /\ \A n \in Modules : db'[o].comp[n] =
                   IF n \in ReplaySet(r.mod, o) THEN Fresh ELSE db[o].comp[n]
  BY <1>1, GatherRecords
<1>5. ASSUME NEW t \in q.tasks
      PROVE  /\ t.obj \in R /\ t.ver = clock[t.obj] + 1 /\ t.subs = subsOf[t.obj]
             /\ t.subIndex = 0
  BY <1>3 DEF ReplayTasks, newTask, ReplayVersion
<1>6. ASSUME NEW t \in q.tasks
      PROVE  InOrder(t) /\ OnlyRestOpen(t)'
  <2> DEFINE o == t.obj
  <2>1. o \in R /\ t.subs = subsOf[o] /\ t.subIndex = 0
        /\ IsSelection(subsOf[o], Subs(o), ReplaySet(r.mod, o))
    BY <1>2, <1>5
  <2>2. InOrder(t)
    BY <2>1 DEF InOrder, IsSelection
  <2>3. Rest(t) = Range(Subs(o)) \cap ReplaySet(r.mod, o)
    <3>1. subsOf[o] \in Seq(Modules)
      BY <1>2, <2>1 DEF SeqOf
    <3>2. Rest(t) = Range(subsOf[o])
      BY <2>1, <3>1 DEF Rest, Range
    <3>3. QED
      BY <2>1, <3>2 DEF IsSelection
  <2>4. ASSUME NEW m \in Range(Subs(o)) \ Rest(t)
        PROVE  Succeeded(o, m)'
    <3>1. m \in Modules
      BY <1>4, <2>1, ConstTypes, RangeTyped
    <3>2. m \notin ReplaySet(r.mod, o)
      BY <2>3
    <3>3. db[o].comp[m].st = "Success" /\ db'[o].comp[m] = db[o].comp[m]
      BY <1>4, <2>1, <3>1, <3>2 DEF ReplaySet
    <3>4. Stored(o)'
      BY <1>4, <2>1 DEF Stored
    <3>5. QED
      BY <3>3, <3>4 DEF Succeeded
  <2>5. QED
    BY <2>2, <2>4 DEF OnlyRestOpen
<1>7. \A t, u \in q.tasks : t.obj = u.obj => t = u
  BY <1>3 DEF ReplayTasks, newTask
<1>8. replays' = (replays \ {r}) \cup {q}
  BY <1>2 DEF q
<1>9. QED
  BY <1>1, <1>3, <1>4, <1>5, <1>6, <1>7, <1>8, OrderReplay

LEMMA OrderReplayGivesUp ==
    ASSUME IInv, OInv, NEW r \in replays, ReplayGatherFails(r) \/ ReplayFails(r)
    PROVE  OInv'
<1> DEFINE q == [r EXCEPT !.pc = "finish"]
<1>1. /\ r \in Replay /\ r.mod \in Modules /\ r.pc = "start"
      /\ UNCHANGED <<enq, timers, queue, tm>> /\ replays' = (replays \ {r}) \cup {q}
  BY DEF IInv, TypeOK, Replay, ReplayGatherFails, ReplayFails, ReplayGivesUp, taskVars, tmVars
<1>2. q.pc = "finish" /\ q.tasks = {}
  BY <1>1 DEF Replay, OInv, ReplayTasksApart
<1> HIDE DEF q
<1>3. \E R \in SUBSET Obj : /\ \A o \in R : db'[o].ver = clock[o] + 1
                            /\ \A o \in Obj \ R : db'[o] = db[o]
  <2>1. CASE ReplayGatherFails(r)
    <3>1. PICK R \in SUBSET ToReplay(r.mod) : GatherObjects(r.mod, R)
      BY <2>1 DEF ReplayGatherFails
    <3>2. QED
      BY <1>1, <3>1, GatherRecords
  <2>2. CASE ReplayFails(r)
    BY <2>2 DEF ReplayFails, dbVars
  <2>3. QED
    BY <2>1, <2>2
<1>4. QED
  BY <1>1, <1>2, <1>3, OrderReplay

-----------------------------------------------------------------------------
LEMMA OInvInit == Init => OInv
<1>1. SUFFICES ASSUME Init
               PROVE  OInv
  OBVIOUS
<1>2. /\ enq = {} /\ timers = {} /\ queue = <<>> /\ replays = {} /\ tm.pc = "idle"
  <2>1. TMIdle.pc = "idle"
    BY DEF TMIdle
  <2>2. QED
    BY <1>1, <2>1 DEF Init
<1>3. DOMAIN queue = {} /\ Range(queue) = {}
  BY <1>2 DEF Range
<1>4. LiveTasks = {} /\ AllTasks = {}
  BY <1>2, <1>3 DEF LiveTasks, AllTasks, ReplayTasksOf, Waiting, TMHolds
<1>5. OneTaskPerVersion
  BY <1>2, <1>3 DEF OneTaskPerVersion, TMHolds
<1>6. ReplayTasksApart /\ TasksOrdered /\ AcceptedSuccessStands
  BY <1>2, <1>4 DEF ReplayTasksApart, TasksOrdered, AcceptedSuccessStands, ForThisNotification,
                    AllTasks
<1>7. QED
  BY <1>5, <1>6 DEF OInv

LEMMA OInvStep == IInv /\ OInv /\ [Next]_vars => OInv'
<1>1. SUFFICES ASSUME IInv, OInv, [Next]_vars
               PROVE  OInv'
  OBVIOUS
<1>2. CASE ApiStep
  BY <1>1, <1>2, OrderApi DEF ApiStep
<1>3. CASE ChannelStep \/ TaskManagerStep
  BY <1>1, <1>3, OrderTaskManager
<1>4. CASE \E s \in Subscriber : HandlerStep(s)
  BY <1>1, <1>4, OrderHandler
<1>5. CASE \E r \in replays : ReplayStep(r)
  BY <1>1, <1>5, OrderReplayObjects, OrderReplayGivesUp, OrderReplayFinished DEF ReplayStep
<1>6. CASE UNCHANGED vars
  <2>1. UNCHANGED <<db, clock, enq, timers, queue, tm, hdl, replays>>
    BY <1>6 DEF vars
  <2>2. LiveTasks' = LiveTasks
    BY <2>1 DEF LiveTasks, Waiting, TMHolds, RequeuedTask
  <2>3. OneTaskPerVersion'
    BY <1>1, <2>1, UniqueHeld DEF OInv, TMHolds
  <2>4. QED
    BY <1>1, <2>1, <2>2, <2>3, OrderMoves
<1>7. QED
  BY <1>1, <1>2, <1>3, <1>4, <1>5, <1>6 DEF Next

\* The invariant of this module.
THEOREM OInvHolds == Spec => []OInv
<1>1. Init => OInv
  BY OInvInit
<1>2. IInv /\ OInv /\ [Next]_vars => OInv'
  BY OInvStep
<1>3. Spec => []IInv
  BY IInvHolds
<1>4. QED
  BY <1>1, <1>2, <1>3, PTL DEF Spec

-----------------------------------------------------------------------------
(* What follows at once *)

\* There is never a second copy of a task, whatever is requeued or overtaken.
THEOREM UniqueTasks == Spec => []OneTaskPerVersion
<1>1. OInv => OneTaskPerVersion
  BY DEF OInv
<1>2. QED
  BY <1>1, OInvHolds, PTL

\* Whoever works on the stored version: all before it in the list succeeded.
LEMMA WorkerHasPriority ==
    ASSUME IInv, OInv, NEW s \in Subscriber, Working(s), IsCurrent(s),
           NEW i \in DOMAIN Subs(hdl[s].obj), NEW j \in DOMAIN Subs(hdl[s].obj),
           i < j, Subs(hdl[s].obj)[j] = s[1]
    PROVE  Succeeded(hdl[s].obj, Subs(hdl[s].obj)[i])
<1> DEFINE o == hdl[s].obj
<1>2. o \in Obj
  BY DEF IInv, TypeOK, Handler
<1>3. TypeOf[o] \in Types /\ Subs(o) \in Seq(Modules)
  BY <1>2, ConstTypes
<1>4. \A k, l \in DOMAIN Subs(o) : Subs(o)[k] = Subs(o)[l] => k = l
  BY <1>3, SubsAssumption DEF Subs
<1>5. PICK u \in LiveTasks : /\ IsFor(u, o, hdl[s].ver) /\ u.subs[u.subIndex + 1] = s[1]
                             /\ u.subIndex + 1 \in DOMAIN u.subs
  BY WorkerIsNext
<1>6. u \in Task /\ u.obj = o /\ InOrder(u) /\ OnlyRestOpen(u) /\ Current(u.obj, u.ver)
  BY <1>5, LiveWellFormed DEF OInv, TasksOrdered, IsFor, IsCurrent
<1>7. Subs(o)[i] \notin Rest(u)
  <2>1. SUFFICES ASSUME NEW k \in u.subIndex + 1 .. Len(u.subs), u.subs[k] = Subs(o)[i]
                 PROVE  FALSE
    BY DEF Rest
  <2>2. u.subIndex \in Nat /\ DOMAIN u.subs = 1 .. Len(u.subs) /\ Len(u.subs) \in Nat
    BY <1>6 DEF Task
  <2>3. CASE k = u.subIndex + 1
    BY <1>3, <1>4, <1>5, <2>1, <2>3
  <2>4. CASE k # u.subIndex + 1
    <3>1. u.subIndex + 1 < k /\ k \in DOMAIN u.subs
      BY <2>2, <2>4
    <3>2. PICK a, b \in DOMAIN Subs(o) : a < b /\ Subs(o)[a] = s[1] /\ Subs(o)[b] = u.subs[k]
      BY <1>5, <1>6, <3>1 DEF InOrder
    <3>3. a = j /\ b = i
      BY <1>4, <2>1, <3>2
    <3>4. QED
      BY <1>3, <3>2, <3>3
  <2>5. QED
    BY <2>3, <2>4
<1>8. QED
  BY <1>6, <1>7 DEF OnlyRestOpen, Range

\* A module is at work on the stored version only when all before it succeeded.
THEOREM PriorityHolds == Spec => []PriorityOrder
<1>1. IInv /\ OInv => PriorityOrder
  BY WorkerHasPriority DEF PriorityOrder, Working
<1>2. QED
  BY <1>1, IInvHolds, OInvHolds, PTL

\* The steps that change a record.
LEMMA DbSteps ==
    ASSUME IInv, [Next]_vars
    PROVE  \/ UNCHANGED db
           \/ \E o \in Obj : StoreNew(o) \/ (Stored(o) /\ DeleteObject(o))
           \/ \E s \in Subscriber : Recorded(s)
           \/ \E m \in Modules : \E R \in SUBSET ToReplay(m) : GatherObjects(m, R)
<1>1. CASE ApiStep
  BY <1>1 DEF ApiStep, CreateObject, CreateFails, UpdateObject, DeleteObject
<1>2. CASE ChannelStep \/ TaskManagerStep
  BY <1>2 DEF ChannelStep, TaskManagerStep, Enqueue, TimerFires, Dequeue, PublishDelivered,
              PublishBusy, AwaitStatus, StatusTimeout, IgnoreStatus, DropTask, NextSubscriber,
              RetrySubscriber, dbVars
<1>3. CASE \E s \in Subscriber : HandlerStep(s)
  BY <1>3, HandlerFrame
<1>4. CASE \E r \in replays : ReplayStep(r)
  <2>1. PICK r \in replays : ReplayStep(r)
    BY <1>4
  <2>2. r.mod \in Modules
    BY DEF IInv, TypeOK, Replay
  <2>3. CASE ReplayObjects(r) \/ ReplayGatherFails(r)
    <3>1. PICK R \in SUBSET ToReplay(r.mod) : GatherObjects(r.mod, R)
      BY <2>3 DEF ReplayObjects, ReplayGatherFails
    <3>2. QED
      BY <2>2, <3>1
  <2>4. CASE ReplayFails(r) \/ ReplayFinished(r)
    BY <2>4 DEF ReplayFails, ReplayFinished, dbVars
  <2>5. QED
    BY <2>1, <2>3, <2>4 DEF ReplayStep
<1>5. CASE UNCHANGED vars
  BY <1>5 DEF vars
<1>6. QED
  BY <1>1, <1>2, <1>3, <1>4, <1>5 DEF Next

\* What the API makes of a record.
LEMMA ApiRecords ==
    ASSUME IInv, NEW o \in Obj, StoreNew(o) \/ DeleteObject(o)
    PROVE  /\ \A p \in Obj \ {o} : db'[p] = db[p]
           /\ db'[o].ver = clock[o] + 1
           /\ db'[o].oper = "Down" \/ (DeleteObject(o) /\ db'[o].oper = "ToBeDeleted")
           /\ \A m \in Modules : db'[o].comp[m].st = "Pending"
<1>1. db \in [Obj -> Object] /\ db[o] \in Object
  BY DEF IInv, TypeOK
<1>2. CASE StoreNew(o)
  <2>1. db'[o] = NewObject(o) /\ \A p \in Obj \ {o} : db'[p] = db[p]
    BY <1>1, <1>2 DEF StoreNew
  <2>2. QED
    BY <2>1 DEF NewObject, Fresh
<1>3. CASE DeleteObject(o)
  <2>1. db'[o] = ToBeDeletedObject(o) /\ \A p \in Obj \ {o} : db'[p] = db[p]
    BY <1>1, <1>3 DEF DeleteObject
  <2>2. /\ db'[o].ver = clock[o] + 1 /\ db'[o].oper = "ToBeDeleted"
        /\ db'[o].comp = [m \in Modules |-> [db[o].comp[m] EXCEPT !.st = "Pending"]]
    BY <1>1, <2>1 DEF ToBeDeletedObject, Object
  <2>3. \A m \in Modules : db[o].comp[m] \in Component
    BY <1>1 DEF Object
  <2>4. QED
    BY <1>3, <2>1, <2>2, <2>3 DEF Component
<1>4. QED
  BY <1>2, <1>3

\* Who, if anybody, removes an object, and what has succeeded by then.
LEMMA Removal ==
    ASSUME IInv, OInv, [Next]_vars, NEW o \in Obj, Stored(o), ~Stored(o)'
    PROVE  /\ db[o].oper = "ToBeDeleted"
           /\ \A m \in Range(Subs(o)) : <<m, o>> \notin unsure => done[m][o] = db[o].intent
<1>1. PICK s \in Subscriber : Recorded(s)
  <2>1. CASE \E p \in Obj : StoreNew(p) \/ DeleteObject(p)
    BY <2>1, ApiRecords DEF Stored
  <2>2. CASE \E m \in Modules : \E R \in SUBSET ToReplay(m) : GatherObjects(m, R)
    BY <2>2, GatherRecords DEF Stored
  <2>3. QED
    BY <2>1, <2>2, DbSteps DEF Stored
<1> DEFINE c == [db[o].comp EXCEPT ![s[1]] = hdl[s].comp]
<1>2. o = hdl[s].obj /\ checkForAllSuccess(o, c) /\ db[o].oper = "ToBeDeleted"
  BY <1>1, UpdateStatusRecord DEF Stored
<1>3. /\ Working(s) /\ IsCurrent(s) /\ hdl[s].pc = "report" /\ s[1] \in Modules
      /\ db[o].comp \in [Modules -> Component] /\ Subs(o) \in Seq(Modules)
  BY <1>1, ConstTypes DEF Recorded, UpdateStatus, RemovalFails, Working, Subscriber, IInv, TypeOK, Object
<1>4. PICK u \in LiveTasks : /\ u.subs[u.subIndex + 1] = s[1]
                             /\ \A t \in AllTasks : IsFor(t, o, hdl[s].ver) => t = u
  BY <1>2, <1>3, WorkerIsNext
<1>5. ASSUME NEW m \in Range(Subs(o)), <<m, o>> \notin unsure
      PROVE  done[m][o] = db[o].intent
  <2>1. m \in Modules /\ c[m].st = "Success"
    BY <1>2, <1>3, <1>5, RangeTyped DEF checkForAllSuccess
  <2>2. CASE m = s[1]
    <3>1. hdl[s].comp.st = "Success"
      BY <1>3, <2>1, <2>2
    <3>2. QED
      BY <1>2, <1>3, <1>5, <2>2, <3>1 DEF IInv, WorkIsBacked, Backed, Realised
  <2>3. CASE m # s[1]
    <3>1. Succeeded(o, m)
      BY <1>3, <2>1, <2>3 DEF Succeeded
    <3>2. SUFFICES ASSUME AtSubscriber(o, m)
                   PROVE  FALSE
      BY <1>5, <3>1 DEF IInv, SuccessMeansRealised
    <3>3. PICK t \in LiveTasks : IsFor(t, o, db[o].ver) /\ t.subs[t.subIndex + 1] = m
      BY <3>2, AtSubscriberIs DEF IInv
    <3>4. t = u
      BY <1>2, <1>3, <1>4, <3>3 DEF IsCurrent, Current, AllTasks
    <3>5. QED
      BY <1>4, <2>3, <3>3, <3>4
  <2>4. QED
    BY <2>2, <2>3
<1>6. QED
  BY <1>2, <1>5

\* An object leaves the store only when every module has torn it down.
THEOREM TornDownHolds == Spec => DeletedOnlyWhenTornDown
<1>1. IInv /\ OInv /\ [Next]_vars =>
          [\A o \in Obj : Stored(o) /\ ~Stored(o)' =>
              /\ db[o].oper = "ToBeDeleted"
              /\ \A m \in Range(Subs(o)) :
                    <<m, o>> \notin unsure => done[m][o] = db[o].intent]_vars
  BY Removal
<1>2. QED
  BY <1>1, IInvHolds, OInvHolds, PTL DEF Spec, DeletedOnlyWhenTornDown

-----------------------------------------------------------------------------
(* Nothing is brought back *)

\* A module that sets an object up keeps it in the store: it has not succeeded
\* in the tear-down that came meanwhile.
NotRevived ==
    \A s \in Subscriber : hdl[s].pc = "exec" /\ ~hdl[s].del =>
        /\ Stored(hdl[s].obj)
        /\ db[hdl[s].obj].oper = "ToBeDeleted" => ~Succeeded(hdl[s].obj, s[1])

\* A handler gets to work by loading its object only.
LEMMA HandlerMoves ==
    ASSUME IInv, [Next]_vars, NEW s \in Subscriber, hdl'[s].pc = "exec"
    PROVE  hdl'[s] = hdl[s] \/ (LoadObject(s) /\ IsCurrent(s) /\ hdl'[s] = Loaded(s))
<1>1. hdl \in [Subscriber -> Handler] /\ hdl[s] \in Handler
  BY DEF IInv, TypeOK
<1>2. CASE ApiStep \/ ChannelStep \/ UNCHANGED vars
  BY <1>2 DEF ApiStep, CreateObject, CreateFails, UpdateObject, StoreNew, DeleteObject, ChannelStep, Enqueue,
              TimerFires, vars
<1>3. CASE TaskManagerStep
  <2>1. CASE PublishDelivered
    <3>1. CurrentSub \in Subscriber
      BY <2>1, CurrentFacts DEF IInv, PublishDelivered, TMHolds
    <3>2. PICK h : h.pc = "notified" /\ hdl' = [hdl EXCEPT ![CurrentSub] = h]
      BY <2>1 DEF PublishDelivered, Parked
    <3>3. QED
      BY <1>1, <3>1, <3>2
  <2>2. QED
    BY <1>3, <2>1 DEF TaskManagerStep, Dequeue, PublishBusy, AwaitStatus, StatusTimeout,
                      IgnoreStatus, DropTask, NextSubscriber, RetrySubscriber
<1>4. CASE \E u \in Subscriber : HandlerStep(u)
  <2>1. PICK u \in Subscriber : HandlerStep(u)
    BY <1>4
  <2>2. PICK h : hdl' = [hdl EXCEPT ![u] = h]
              /\ (h.pc # "exec" \/ (LoadObject(u) /\ IsCurrent(u) /\ h = Loaded(u)))
    <3>1. hdl[u] \in Handler
      BY <1>1
    <3>2. CASE LoadObject(u) \/ LoadFails(u)
      <4>1. Unloaded(u).pc = "report"
        BY <3>1 DEF Unloaded, Handler
      <4>2. QED
        BY <3>2, <4>1 DEF LoadObject, LoadFails
    <3>3. CASE RealizeOk(u)
      <4>1. [hdl[u] EXCEPT !.pc = "report", !.comp = [st |-> "Success", errs |-> 0]].pc = "report"
        BY <3>1 DEF Handler
      <4>2. QED
        BY <3>3, <4>1 DEF RealizeOk
    <3>4. CASE RealizeFails(u) \/ RealizeIsStuck(u)
      <4> DEFINE errs == hdl[u].comp.errs + 1
                 h == [hdl[u] EXCEPT !.pc = "report",
                              !.comp = [st |-> "Error", errs |-> errs],
                              !.replay = (u[1] \in Replayers /\ errs >= ReplayErrs)]
      <4>1. h.pc = "report"
        BY <3>1 DEF Handler
      <4>2. hdl' = [hdl EXCEPT ![u] = h]
        BY <3>4 DEF RealizeFails, RealizeIsStuck, StopsHalfway
      <4> HIDE DEF h
      <4>3. QED
        BY <4>1, <4>2
    <3>5. CASE UpdateStatusStale(u) \/ UpdateStatusReplay(u) \/ Recorded(u)
               \/ UpdateStatusFails(u)
      <4>1. [hdl[u] EXCEPT !.pc = "return"].pc = "return"
        BY <3>1 DEF Handler
      <4>2. HandlerReturns(u)
        BY <3>5 DEF UpdateStatusStale, UpdateStatusReplay, Recorded, UpdateStatus, RemovalFails, UpdateStatusFails
      <4>3. hdl' = [hdl EXCEPT ![u] = [hdl[u] EXCEPT !.pc = "return"]]
        BY <4>2 DEF HandlerReturns
      <4>4. QED
        BY <4>1, <4>3
    <3>6. CASE HandlerParks(u)
      <4>1. Parked.pc = "idle"
        BY DEF Parked
      <4>2. QED
        BY <3>6, <4>1 DEF HandlerParks
    <3>7. QED
      BY <2>1, <3>2, <3>3, <3>4, <3>5, <3>6 DEF HandlerStep, Recorded
  <2>3. QED
    BY <1>1, <2>2
<1>5. CASE \E r \in replays : ReplayStep(r)
  BY <1>5 DEF ReplayStep, ReplayObjects, ReplayGatherFails, ReplayFails, ReplayFinished
<1>6. QED
  BY <1>2, <1>3, <1>4, <1>5 DEF Next

LEMMA NotRevivedStep == IInv /\ NotRevived /\ [Next]_vars => NotRevived'
<1>1. SUFFICES ASSUME IInv, NotRevived, [Next]_vars, NEW s \in Subscriber,
                      hdl'[s].pc = "exec", ~hdl'[s].del
               PROVE  /\ Stored(hdl[s].obj)'
                      /\ db'[hdl'[s].obj].oper = "ToBeDeleted" => ~Succeeded(hdl[s].obj, s[1])'
  BY DEF NotRevived
<1>2. CASE LoadObject(s) /\ IsCurrent(s) /\ hdl'[s] = Loaded(s)
  <2>1. hdl[s] \in Handler /\ UNCHANGED db
    BY <1>1, <1>2 DEF IInv, TypeOK, LoadObject, dbVars
  <2>2. hdl'[s].obj = hdl[s].obj /\ hdl'[s].del = (db[hdl[s].obj].oper = "ToBeDeleted")
    BY <1>2, <2>1 DEF Loaded, Handler
  <2>3. QED
    BY <1>1, <1>2, <2>1, <2>2 DEF IsCurrent, Current, Stored
<1>3. CASE hdl'[s] = hdl[s]
  <2>0. PICK o, m : o = hdl[s].obj /\ m = s[1]
    OBVIOUS
  <2>1. /\ o \in Obj /\ m \in Modules /\ Working(s) /\ m \in Range(Subs(o))
        /\ Stored(o) /\ (db[o].oper = "ToBeDeleted" => db[o].comp[m].st # "Success")
    BY <1>1, <1>3, <2>0 DEF NotRevived, IInv, TypeOK, Handler, Subscriber, Working,
                            HandlersWellFormed, WellFormedHandler, Succeeded
  <2>2. Stored(o)' /\ (db'[o].oper = "ToBeDeleted" => db'[o].comp[m].st # "Success")
    <3>1. CASE \E p \in Obj : StoreNew(p) \/ DeleteObject(p)
      BY <1>1, <2>1, <3>1, ApiRecords DEF Stored
    <3>2. CASE \E n \in Modules : \E R \in SUBSET ToReplay(n) : GatherObjects(n, R)
      <4>a. PICK n \in Modules : \E R \in SUBSET ToReplay(n) : GatherObjects(n, R)
        BY <3>2
      <4>b. PICK R \in SUBSET ToReplay(n) : GatherObjects(n, R)
        BY <4>a
      <4>1. /\ \A p \in Obj \ R : db'[p] = db[p]
            /\ \A p \in R :
                  /\ db'[p].oper = IF db[p].oper = "Up" THEN "Down" ELSE db[p].oper
                  /\ \A k \in Modules : db'[p].comp[k] =
                         IF k \in ReplaySet(n, p) THEN Fresh ELSE db[p].comp[k]
        BY <1>1, <4>b, GatherRecords
      <4>2. CASE o \in R
        BY <2>1, <4>1, <4>2 DEF Stored, Fresh
      <4>3. CASE o \notin R
        BY <2>1, <4>1, <4>3 DEF Stored
      <4>4. QED
        BY <4>2, <4>3
    <3>3. CASE \E u \in Subscriber : Recorded(u)
      <4>1. PICK u \in Subscriber : Recorded(u)
        BY <3>3
      <4>2. Working(u) /\ hdl[u].pc = "report" /\ u # s
        BY <1>1, <1>3, <4>1 DEF Recorded, UpdateStatus, RemovalFails, Working
      <4>3. CASE hdl[u].obj # o
        BY <1>1, <2>1, <4>1, <4>3, UpdateStatusRecord DEF Stored
      <4>4. CASE hdl[u].obj = o
        <5> DEFINE c == [db[o].comp EXCEPT ![u[1]] = hdl[u].comp]
        <5>1. u[1] # m
          BY <1>1, <2>0, <2>1, <4>2, <4>4, OneHandlerPerPair
        <5>2. db[o].comp \in [Modules -> Component]
          BY <1>1, <2>1 DEF IInv, TypeOK, Object
        <5>3. c[m] = db[o].comp[m]
          BY <2>1, <5>1, <5>2
        <5>4. ~(checkForAllSuccess(o, c) /\ db[o].oper = "ToBeDeleted")
          BY <2>1, <5>3 DEF checkForAllSuccess
        <5>5. /\ db'[o].comp = c
              /\ db'[o].oper = IF checkForAllSuccess(o, c) THEN "Up" ELSE db[o].oper
          BY <1>1, <4>1, <4>4, <5>4, UpdateStatusRecord
        <5>6. QED
          BY <2>1, <5>3, <5>5 DEF Stored
      <4>5. QED
        BY <4>3, <4>4
    <3>4. CASE UNCHANGED db
      BY <2>1, <3>4 DEF Stored
    <3>5. QED
      BY <1>1, <3>1, <3>2, <3>3, <3>4, DbSteps
  <2>3. QED
    BY <1>3, <2>0, <2>2 DEF Succeeded, Stored
<1>4. QED
  BY <1>1, <1>2, <1>3, HandlerMoves

\* Once an object has left the store nobody is still setting it up.
THEOREM NotBroughtBack == Spec => []NoResurrection
<1>1. Init => NotRevived
  BY DEF Init, NotRevived, Parked
<1>2. NotRevived => NoResurrection
  BY DEF NotRevived, NoResurrection
<1>3. QED
  BY <1>1, <1>2, NotRevivedStep, IInvHolds, PTL DEF Spec

-----------------------------------------------------------------------------
(* No intent is lost *)

\* A replay is about to give o a new version, or was and has failed.
Replaced(o) ==
    \/ \E r \in replays : r.pc = "start" /\ r.obj = o /\ r.ver = db[o].ver
    \/ <<o, db[o].ver>> \in lost

Held(o) == \E r \in replays : \E t \in r.tasks : IsFor(t, o, db[o].ver)

Taken(o) == Live(o, db[o].ver) \/ Replaced(o) \/ Held(o)

\* A task is dropped only if somebody else takes care of its object.
DroppedIsReplaced ==
    ForThisNotification /\ tm.status.dropTask /\ Current(tm.task.obj, tm.task.ver) =>
        Replaced(tm.task.obj)

LInv == NoLostIntent /\ DroppedIsReplaced

LEMMA NoLostIs ==
    NoLostIntent <=> \A o \in Obj : Stored(o) /\ ~checkForAllSuccess(o, db[o].comp) => Taken(o)
  BY DEF NoLostIntent, Taken, Replaced, Held

LEMMA NoLostIsNext ==
    NoLostIntent' <=>
        \A o \in Obj : Stored(o)' /\ ~checkForAllSuccess(o, db'[o].comp) => Taken(o)'
  BY DEF NoLostIntent, Taken, Replaced, Held, checkForAllSuccess

LEMMA LiveIs ==
    ASSUME IInv, NEW o, NEW v
    PROVE  Live(o, v) <=> \E t \in LiveTasks : IsFor(t, o, v)
  BY CurrentFacts DEF Live, LiveTasks, IsFor, IInv

LEMMA LiveIsNext ==
    ASSUME IInv', NEW o, NEW v
    PROVE  Live(o, v)' <=> \E t \in LiveTasks' : IsFor(t, o, v)
<1>1. (TMHolds => RequeuedTask.obj = tm.task.obj /\ RequeuedTask.ver = tm.task.ver)'
  <2>1. (TypeOK /\ TasksWellFormed)'
    BY DEF IInv
  <2>2. QED
    BY <2>1, CurrentFacts, PTL
<1>2. QED
  BY <1>1 DEF Live, LiveTasks, IsFor

\* Nothing changes but where the tasks are.
LEMMA LostMoves ==
    ASSUME IInv, IInv', LInv, UNCHANGED <<db, replays, lost>>, tm' = tm \/ tm'.pc # "got",
           \A o \in Obj : Live(o, db[o].ver) /\ Stored(o) =>
               \/ Live(o, db[o].ver)'
               \/ checkForAllSuccess(o, db[o].comp)
               \/ Replaced(o)
    PROVE  LInv'
<1>1. \A o \in Obj : (Replaced(o)' <=> Replaced(o)) /\ (Held(o)' <=> Held(o))
  BY DEF Replaced, Held
<1>2. NoLostIntent'
  <2>1. SUFFICES ASSUME NEW o \in Obj, Stored(o)', ~checkForAllSuccess(o, db'[o].comp)
                 PROVE  Taken(o)'
    BY NoLostIsNext
  <2>2. Stored(o) /\ ~checkForAllSuccess(o, db[o].comp) /\ Taken(o)
    BY <2>1, NoLostIs DEF LInv, Stored
  <2>3. Live(o, db[o].ver)' \/ Replaced(o) \/ Held(o)
    BY <2>2 DEF Taken
  <2>4. QED
    BY <1>1, <2>3 DEF Taken
<1>3. DroppedIsReplaced'
  BY DEF LInv, DroppedIsReplaced, ForThisNotification, Current, Stored, Replaced
<1>4. QED
  BY <1>2, <1>3 DEF LInv

LEMMA LostTaskManager ==
    ASSUME IInv, IInv', OInv, LInv, ChannelStep \/ TaskManagerStep
    PROVE  LInv'
<1>1. UNCHANGED <<db, replays, lost>>
  BY DEF ChannelStep, TaskManagerStep, Enqueue, TimerFires, Dequeue, PublishDelivered,
         PublishBusy, AwaitStatus, StatusTimeout, IgnoreStatus, DropTask, NextSubscriber,
         RetrySubscriber, dbVars, ghostVars
<1>2. tm' = tm \/ tm'.pc # "got"
  <2>1. CASE ChannelStep \/ Dequeue \/ DropTask
    <3>1. CASE ChannelStep
      BY <3>1 DEF ChannelStep, Enqueue, TimerFires, tmVars
    <3>2. CASE Dequeue
      BY <3>2 DEF Dequeue, TMIdle
    <3>3. CASE DropTask
      BY <3>3 DEF DropTask, TMIdle
    <3>4. QED
      BY <2>1, <3>1, <3>2, <3>3
  <2>2. CASE PublishBusy \/ StatusTimeout \/ RetrySubscriber
    BY <2>2 DEF PublishBusy, StatusTimeout, RetrySubscriber, Requeue, TMIdle
  <2>3. CASE PublishDelivered \/ AwaitStatus \/ IgnoreStatus \/ NextSubscriber
    <3>1. tm \in TaskManager /\ TMIdle.pc = "idle"
      BY DEF IInv, TypeOK, TMIdle
    <3>2. CASE PublishDelivered \/ AwaitStatus \/ IgnoreStatus
      BY <3>1, <3>2 DEF PublishDelivered, AwaitStatus, IgnoreStatus, TaskManager
    <3>3. CASE NextSubscriber
      <4>1. \/ tm' = TMIdle
            \/ tm' = [tm EXCEPT !.pc = "publish", !.i = @ + 1, !.nid = 0, !.status = NoStatus]
        BY <3>3 DEF NextSubscriber
      <4>2. QED
        BY <3>1, <4>1 DEF TaskManager
    <3>4. QED
      BY <2>3, <3>2, <3>3
  <2>4. QED
    BY <2>1, <2>2, <2>3 DEF TaskManagerStep
<1>3. ASSUME NEW o \in Obj, Live(o, db[o].ver), Stored(o), ~Live(o, db[o].ver)'
      PROVE  checkForAllSuccess(o, db[o].comp) \/ Replaced(o)
  <2>1. PICK t \in LiveTasks : IsFor(t, o, db[o].ver)
    BY <1>3, LiveIs
  <2>2. t \notin LiveTasks'
    <3>1. ~\E u \in LiveTasks' : IsFor(u, o, db'[o].ver)
      BY <1>3, LiveIsNext
    <3>2. QED
      BY <1>1, <2>1, <3>1
  <2>3. CASE ChannelStep
    BY <2>2, <2>3, UniqueChannel DEF OInv
  <2>4. CASE Dequeue
    BY <2>2, <2>4, UniqueDequeue DEF OInv
  <2>5. CASE PublishBusy \/ StatusTimeout \/ RetrySubscriber
    <3>1. UNCHANGED <<enq, queue>> /\ TMHolds /\ Requeue
      BY <2>5 DEF PublishBusy, StatusTimeout, RetrySubscriber, ForThisNotification, TMHolds
    <3>2. QED
      BY <2>2, <3>1, UniqueRequeue DEF OInv
  <2>6. CASE PublishDelivered \/ AwaitStatus \/ IgnoreStatus
    <3>1. /\ UNCHANGED <<enq, timers, queue>> /\ TMHolds /\ TMHolds'
          /\ tm'.task = tm.task /\ tm'.i = tm.i
      BY <2>6 DEF PublishDelivered, AwaitStatus, IgnoreStatus, taskVars, TMHolds, IInv, TypeOK,
                  TaskManager
    <3>2. QED
      BY <2>2, <3>1 DEF LiveTasks, Waiting, RequeuedTask
  <2>7. CASE DropTask \/ NextSubscriber
    <3>1. /\ UNCHANGED <<enq, timers, queue>> /\ TMHolds /\ ForThisNotification
      BY <2>7 DEF DropTask, NextSubscriber, taskVars, ForThisNotification, TMHolds
    <3>2. /\ t = RequeuedTask /\ t.obj = tm.task.obj /\ t.ver = tm.task.ver
          /\ t.subs[t.subIndex + 1] = CurrentModule
      BY <2>1, <2>2, <3>1, CurrentFacts DEF LiveTasks, Waiting, IInv
    <3>3. o = tm.task.obj /\ Current(tm.task.obj, tm.task.ver)
      BY <1>3, <2>1, <3>2 DEF IsFor, Current
    <3>4. CASE DropTask
      BY <3>1, <3>3, <3>4 DEF DropTask, LInv, DroppedIsReplaced
    <3>5. CASE NextSubscriber
      <4>1. /\ tm \in TaskManager /\ tm.task \in Task /\ tm.task.subIndex \in Nat /\ tm.i \in Nat
            /\ tm.task.subs \in Seq(Modules)
        BY DEF IInv, TypeOK, TaskManager, Task
      <4>2. ~(tm.task.subIndex + tm.i + 1 < Len(tm.task.subs))
        <5>1. SUFFICES ASSUME tm.task.subIndex + tm.i + 1 < Len(tm.task.subs)
                       PROVE  FALSE
          OBVIOUS
        <5>2. tm' = [tm EXCEPT !.pc = "publish", !.i = @ + 1, !.nid = 0, !.status = NoStatus]
          BY <3>5, <5>1 DEF NextSubscriber
        <5>3. TMHolds' /\ tm'.task = tm.task
          BY <4>1, <5>2 DEF TMHolds, TaskManager
        <5>4. Live(o, db[o].ver)'
          BY <1>1, <3>3, <5>3 DEF Live, Current, IsFor
        <5>5. QED
          BY <1>3, <5>4
      <4>3. t \in Task /\ WellFormedTask(t) /\ OnlyRestOpen(t) /\ t.subs = tm.task.subs
            /\ t.subIndex = tm.task.subIndex + tm.i
        BY <3>2, <4>1, LiveWellFormed DEF OInv, TasksOrdered, RequeuedTask, Task
      <4>4. Rest(t) \subseteq {CurrentModule}
        BY <3>2, <4>1, <4>2, <4>3 DEF Rest
      <4>5. Succeeded(o, CurrentModule)
        BY <3>1, <3>3, <3>5 DEF NextSubscriber, OInv, AcceptedSuccessStands
      <4>6. \A m \in Range(Subs(o)) : Succeeded(o, m)
        BY <3>2, <3>3, <4>3, <4>4, <4>5 DEF OnlyRestOpen
      <4>7. QED
        BY <4>6 DEF checkForAllSuccess, Succeeded
    <3>6. QED
      BY <2>7, <3>4, <3>5
  <2>8. QED
    BY <2>3, <2>4, <2>5, <2>6, <2>7 DEF TaskManagerStep
<1>4. QED
  BY <1>1, <1>2, <1>3, LostMoves

LEMMA LostHandler ==
    ASSUME IInv, IInv', LInv, NEW s \in Subscriber, HandlerStep(s)
    PROVE  LInv'
<1>1. /\ UNCHANGED <<enq, timers, queue>> /\ tm'.task = tm.task /\ tm'.i = tm.i
      /\ tm' = tm \/ (tm.pc = "wait" /\ tm'.pc = "got")
      /\ Recorded(s) \/ UNCHANGED db
      /\ UpdateStatusReplay(s) \/ UNCHANGED replays
  BY HandlerFrame
<1>2. UNCHANGED lost /\ \A r \in replays : r \in replays'
  BY <1>1 DEF HandlerStep, LoadObject, LoadFails, RealizeOk, RealizeFails, RealizeIsStuck, StopsHalfway, UpdateStatusStale,
              UpdateStatusReplay, Recorded, UpdateStatus, RemovalFails, UpdateStatusFails, HandlerParks, ghostVars
<1>3. LiveTasks' = LiveTasks
  BY <1>1 DEF LiveTasks, Waiting, TMHolds, RequeuedTask
<1>4. \A o \in Obj : Stored(o)' => Stored(o) /\ db'[o].ver = db[o].ver
  <2>1. CASE Recorded(s)
    <3>1. Absent.oper = "Absent"
      BY DEF Absent
    <3>2. QED
      BY <2>1, <3>1, UpdateStatusRecord DEF Stored
  <2>2. QED
    BY <1>1, <2>1 DEF Stored
<1>5. \A o \in Obj : Stored(o)' /\ Taken(o) => Taken(o)'
  <2>1. ASSUME NEW o \in Obj, Stored(o)', Live(o, db[o].ver)
        PROVE  Live(o, db[o].ver)'
    <3>1. \E t \in LiveTasks' : IsFor(t, o, db'[o].ver)
      BY <1>3, <1>4, <2>1, LiveIs
    <3>2. QED
      BY <3>1, LiveIsNext
  <2>2. \A o \in Obj : Stored(o)' => (Replaced(o) => Replaced(o)') /\ (Held(o) => Held(o)')
    BY <1>2, <1>4 DEF Replaced, Held
  <2>3. QED
    BY <2>1, <2>2 DEF Taken
<1>6. NoLostIntent'
  <2>1. SUFFICES ASSUME NEW o \in Obj, Stored(o)', ~checkForAllSuccess(o, db'[o].comp)
                 PROVE  Taken(o)'
    BY NoLostIsNext
  <2>2. CASE ~checkForAllSuccess(o, db[o].comp)
    BY <1>4, <1>5, <2>1, <2>2, NoLostIs DEF LInv
  <2>3. CASE checkForAllSuccess(o, db[o].comp)
    <3>1. Recorded(s) /\ hdl[s].obj = o
      BY <1>1, <2>1, <2>3, UpdateStatusRecord
    <3>2. AtSubscriber(o, s[1])
      BY <3>1 DEF Recorded, UpdateStatus, RemovalFails, IInv, WorkIsBacked, Backed, Working
    <3>3. Live(o, db[o].ver)
      BY <3>2, AtSubscriberIs, LiveIs DEF IInv
    <3>4. QED
      BY <1>5, <2>1, <3>3 DEF Taken
  <2>4. QED
    BY <2>2, <2>3
<1>7. DroppedIsReplaced'
  <2>1. SUFFICES ASSUME (ForThisNotification /\ tm.status.dropTask)',
                        Current(tm.task.obj, tm.task.ver)'
                 PROVE  Replaced(tm.task.obj)'
    BY DEF DroppedIsReplaced
  <2>2. TMHolds /\ tm.task.obj \in Obj
    BY <1>1, <2>1 DEF ForThisNotification, TMHolds, IInv, TypeOK, TaskManager, Task
  <2>3. Current(tm.task.obj, tm.task.ver)
    BY <1>1, <1>4, <2>1, <2>2 DEF Current
  <2>4. CASE tm' = tm
    <3>1. Replaced(tm.task.obj)
      BY <2>1, <2>3, <2>4 DEF LInv, DroppedIsReplaced, ForThisNotification
    <3>2. db'[tm.task.obj].ver = db[tm.task.obj].ver
      BY <1>1, <1>4, <2>1, <2>2 DEF Current
    <3>3. QED
      BY <1>1, <1>2, <3>1, <3>2 DEF Replaced
  <2>5. CASE tm.pc = "wait" /\ tm'.pc = "got"
    <3>1. CASE UpdateStatusStale(s) \/ UpdateStatusReplay(s)
      <4>1. /\ StatusUpdated(s, TRUE) /\ Working(s) /\ UNCHANGED db
            /\ IsCurrent(s) => UpdateStatusReplay(s)
        BY <3>1 DEF UpdateStatusStale, UpdateStatusReplay, Working, dbVars
      <4>2. tm'.status.nid = hdl[s].nid /\ tm'.nid = tm.nid
        BY <2>5, <4>1, StatusUpdatedFacts
      <4>3. IsFor(tm.task, hdl[s].obj, hdl[s].ver)
        BY <2>1, <2>5, <4>1, <4>2 DEF ForThisNotification, IInv, AnswerIsFromCurrent
      <4>4. IsCurrent(s) /\ UpdateStatusReplay(s)
        BY <2>3, <4>1, <4>3 DEF IsFor, IsCurrent
      <4>5. PICK r \in replays' : r.pc = "start" /\ r.obj = hdl[s].obj /\ r.ver = hdl[s].ver
        <5> DEFINE r0 == [nid |-> hdl[s].nid, mod |-> s[1], obj |-> hdl[s].obj,
                          ver |-> hdl[s].ver, pc |-> "start", tasks |-> {}]
        <5>1. r0 \in replays'
          BY <4>4 DEF UpdateStatusReplay
        <5>2. QED
          BY <5>1
      <4>6. r.obj = tm.task.obj /\ r.ver = db[tm.task.obj].ver
        BY <2>3, <4>3, <4>5 DEF IsFor, Current
      <4>7. QED
        BY <1>1, <4>1, <4>5, <4>6 DEF Replaced
    <3>2. CASE Recorded(s)
      <4>1. StatusUpdated(s, FALSE)
        BY <2>5, <3>2 DEF Recorded, UpdateStatus, RemovalFails, tmVars
      <4>2. tm'.status.dropTask = FALSE
        BY <2>5, <4>1, StatusUpdatedFacts
      <4>3. QED
        BY <2>1, <4>2
    <3>3. CASE LoadObject(s) \/ LoadFails(s) \/ RealizeOk(s) \/ RealizeFails(s) \/ RealizeIsStuck(s)
               \/ UpdateStatusFails(s) \/ HandlerParks(s)
      BY <2>5, <3>3 DEF LoadObject, LoadFails, RealizeOk, RealizeFails, RealizeIsStuck, StopsHalfway, UpdateStatusFails,
                        HandlerParks, tmVars
    <3>4. QED
      BY <3>1, <3>2, <3>3 DEF HandlerStep, Recorded
  <2>6. QED
    BY <1>1, <2>4, <2>5
<1>8. QED
  BY <1>6, <1>7 DEF LInv

\* The objects of R get new versions, and new tasks or an entry in lost; what
\* took care of the others still does.
LEMMA LostNewVersions ==
    ASSUME IInv, IInv', LInv, NEW R \in SUBSET Obj, UNCHANGED tm,
           \A o \in R : Taken(o)',
           \A o \in R : db'[o].ver = clock[o] + 1,
           \A o \in Obj \ R : db'[o] = db[o] /\ (Replaced(o) => Replaced(o)') /\ (Held(o) => Held(o)'),
           LiveTasks \subseteq LiveTasks'
    PROVE  LInv'
<1>1. NoLostIntent'
  <2>1. SUFFICES ASSUME NEW o \in Obj \ R, Stored(o)', ~checkForAllSuccess(o, db'[o].comp)
                 PROVE  Taken(o)'
    BY NoLostIsNext
  <2>2. Taken(o)
    BY <2>1, NoLostIs DEF LInv, Stored
  <2>3. CASE Live(o, db[o].ver)
    <3>1. \E t \in LiveTasks' : IsFor(t, o, db'[o].ver)
      BY <2>3, LiveIs
    <3>2. QED
      BY <3>1, LiveIsNext DEF Taken
  <2>4. QED
    BY <2>2, <2>3 DEF Taken
<1>2. DroppedIsReplaced'
  <2>1. SUFFICES ASSUME (ForThisNotification /\ tm.status.dropTask)',
                        Current(tm.task.obj, tm.task.ver)'
                 PROVE  Replaced(tm.task.obj)'
    BY DEF DroppedIsReplaced
  <2>2. /\ ForThisNotification /\ tm.status.dropTask /\ TMHolds
    BY <2>1 DEF ForThisNotification, TMHolds
  <2>3. tm.task.obj \in Obj /\ tm.task.ver \in Nat /\ tm.task.ver <= clock[tm.task.obj]
    <3>1. RequeuedTask \in AllTasks /\ RequeuedTask.obj = tm.task.obj /\ RequeuedTask.ver = tm.task.ver
      BY <2>2, CurrentFacts DEF IInv, AllTasks, LiveTasks
    <3>2. QED
      BY <3>1, TasksAreOld
  <2>4. tm.task.obj \notin R
    BY <2>1, <2>3 DEF Current, IInv, TypeOK
  <2>5. Replaced(tm.task.obj)
    BY <2>1, <2>2, <2>3, <2>4 DEF LInv, DroppedIsReplaced, Current, Stored
  <2>6. Replaced(tm.task.obj)'
    <3>1. PICK o : o = tm.task.obj
      OBVIOUS
    <3>2. Replaced(o)'
      BY <2>3, <2>4, <2>5, <3>1
    <3>3. QED
      BY <3>1, <3>2 DEF Replaced
  <2>7. QED
    BY <2>6
<1>3. QED
  BY <1>1, <1>2 DEF LInv

LEMMA LostApi ==
    ASSUME IInv, IInv', LInv, NEW o \in Obj,
           CreateObject(o) \/ CreateFails(o) \/ UpdateObject(o) \/ DeleteObject(o)
    PROVE  LInv'
<1>0. PICK t : t = newTask(o, clock[o] + 1, Subs(o))
  OBVIOUS
<1>1. /\ UNCHANGED <<timers, queue, tm, replays>> /\ (StoreNew(o) \/ DeleteObject(o))
      /\ \/ enq' = enq \cup {t} /\ lost' = lost
         \/ enq' = enq /\ lost' = lost \cup {<<o, clock[o] + 1>>}
  BY <1>0 DEF StoreNew, CreateObject, CreateFails, UpdateObject, DeleteObject, CreateTask, tmVars
<1>2. db'[o].ver = clock[o] + 1 /\ \A p \in Obj \ {o} : db'[p] = db[p]
  BY <1>1, ApiRecords
<1>3. LiveTasks \subseteq LiveTasks' /\ (t \in LiveTasks' \/ <<o, clock[o] + 1>> \in lost')
  BY <1>1 DEF LiveTasks, Waiting, TMHolds, RequeuedTask
<1>4. IsFor(t, o, db'[o].ver)
  BY <1>0, <1>2 DEF newTask, IsFor
<1>5. Taken(o)'
  BY <1>2, <1>3, <1>4, LiveIsNext DEF Taken, Replaced
<1>6. \A p \in Obj \ {o} : (Replaced(p) => Replaced(p)') /\ (Held(p) => Held(p)')
  BY <1>1, <1>2 DEF Replaced, Held
<1> DEFINE R == {o}
<1>7. /\ R \in SUBSET Obj /\ \A p \in R : Taken(p)' /\ db'[p].ver = clock[p] + 1
      /\ \A p \in Obj \ R : db'[p] = db[p] /\ (Replaced(p) => Replaced(p)') /\ (Held(p) => Held(p)')
  BY <1>2, <1>5, <1>6
<1> HIDE DEF R
<1>8. QED
  BY <1>1, <1>3, <1>7, LostNewVersions

\* A replay r is done with the objects R: they have tasks or are lost, and so
\* is the object r was for if it is none of them.
LEMMA LostReplay ==
    ASSUME IInv, IInv', OInv, LInv, NEW r \in replays, r.pc = "start", NEW q,
           replays' = (replays \ {r}) \cup {q}, UNCHANGED <<enq, timers, queue, tm>>,
           NEW R \in SUBSET Obj, lost \subseteq lost',
           \A o \in R : db'[o].ver = clock[o] + 1,
           \A o \in Obj \ R : db'[o] = db[o],
           \A o \in R : <<o, clock[o] + 1>> \in lost' \/ \E t \in q.tasks : IsFor(t, o, clock[o] + 1),
           r.obj \in R \/ <<r.obj, r.ver>> \in lost'
    PROVE  LInv'
<1>1. LiveTasks' = LiveTasks
  BY DEF LiveTasks, Waiting, TMHolds, RequeuedTask
<1>2. \A o \in R : Taken(o)'
  BY DEF Taken, Replaced, Held
<1>3. \A o \in Obj \ R : Replaced(o) => Replaced(o)'
  BY DEF Replaced
<1>4. \A o \in Obj \ R : Held(o) => Held(o)'
  BY DEF Held, OInv, ReplayTasksApart
<1>5. QED
  BY <1>1, <1>2, <1>3, <1>4, LostNewVersions

LEMMA LostReplayObjects ==
    ASSUME IInv, IInv', OInv, LInv, NEW r \in replays, ReplayObjects(r)
    PROVE  LInv'
<1> DEFINE R == ToReplay(r.mod)
<1>1. /\ r \in Replay /\ r.mod \in Modules /\ r.pc = "start" /\ r.obj \in Obj /\ r.ver \in Nat
      /\ GatherObjects(r.mod, R) /\ UNCHANGED <<enq, timers, queue, tm>>
      /\ lost' = lost \cup ({<<r.obj, r.ver>>} \cap ((Obj \ R) \X Nat))
  BY DEF IInv, TypeOK, Replay, ReplayObjects, taskVars, tmVars
<1>2. PICK subsOf : replays' = (replays \ {r}) \cup
                {[r EXCEPT !.pc = "finish", !.tasks = ReplayTasks(R, subsOf)]}
  BY DEF ReplayObjects
<1> DEFINE q == [r EXCEPT !.pc = "finish", !.tasks = ReplayTasks(R, subsOf)]
<1>3. q.tasks = ReplayTasks(R, subsOf) /\ replays' = (replays \ {r}) \cup {q}
  BY <1>1, <1>2 DEF Replay
<1> HIDE DEF q
<1>4. ASSUME NEW o \in R
      PROVE  \E t \in q.tasks : IsFor(t, o, clock[o] + 1)
  <2>1. newTask(o, ReplayVersion(o), subsOf[o]) \in q.tasks
    BY <1>3 DEF ReplayTasks
  <2>2. IsFor(newTask(o, ReplayVersion(o), subsOf[o]), o, clock[o] + 1)
    BY DEF newTask, ReplayVersion, IsFor
  <2>3. QED
    BY <2>1, <2>2
<1>5. /\ R \in SUBSET Obj /\ \A o \in Obj \ R : db'[o] = db[o]
      /\ \A o \in R : db'[o].ver = clock[o] + 1
  BY <1>1, GatherRecords
<1>6. r.obj \in R \/ <<r.obj, r.ver>> \in lost'
  BY <1>1
<1>7. QED
  BY <1>1, <1>3, <1>4, <1>5, <1>6, LostReplay

LEMMA LostReplayGivesUp ==
    ASSUME IInv, IInv', OInv, LInv, NEW r \in replays, ReplayGatherFails(r) \/ ReplayFails(r)
    PROVE  LInv'
<1> DEFINE q == [r EXCEPT !.pc = "finish"]
<1>1. /\ r \in Replay /\ r.mod \in Modules /\ r.pc = "start"
      /\ UNCHANGED <<enq, timers, queue, tm>> /\ replays' = (replays \ {r}) \cup {q}
  BY DEF IInv, TypeOK, Replay, ReplayGatherFails, ReplayFails, ReplayGivesUp, taskVars, tmVars
<1> HIDE DEF q
<1>2. CASE ReplayGatherFails(r)
  <2>1. PICK R \in SUBSET ToReplay(r.mod) :
            /\ GatherObjects(r.mod, R)
            /\ lost' = lost \cup {<<r.obj, r.ver>>} \cup {<<o, ReplayVersion(o)>> : o \in R}
    BY <1>2 DEF ReplayGatherFails
  <2>2. \A o \in R : <<o, clock[o] + 1>> \in lost'
    BY <2>1 DEF ReplayVersion
  <2>3. /\ R \in SUBSET Obj /\ \A o \in Obj \ R : db'[o] = db[o]
        /\ \A o \in R : db'[o].ver = clock[o] + 1
    BY <1>1, <2>1, GatherRecords
  <2>4. lost \subseteq lost' /\ <<r.obj, r.ver>> \in lost'
    BY <2>1
  <2>5. QED
    BY <1>1, <2>2, <2>3, <2>4, LostReplay
<1>3. CASE ReplayFails(r)
  <2>1. UNCHANGED db /\ lost' = lost \cup {<<r.obj, r.ver>>}
    BY <1>3 DEF ReplayFails, dbVars
  <2> DEFINE R == {}
  <2>2. R \in SUBSET Obj /\ \A o \in R : FALSE
    OBVIOUS
  <2> HIDE DEF R
  <2>3. QED
    BY <1>1, <2>1, <2>2, LostReplay
<1>4. QED
  BY <1>2, <1>3

LEMMA LostReplayFinished ==
    ASSUME IInv, IInv', OInv, LInv, NEW r \in replays, ReplayFinished(r)
    PROVE  LInv'
<1>1. /\ enq' = enq \cup r.tasks /\ replays' = replays \ {r} /\ UNCHANGED <<timers, queue, db, lost>>
      /\ ~TMHolds /\ ~TMHolds' /\ tm'.pc = "idle" /\ r.pc = "finish"
  BY DEF ReplayFinished, TMHolds, TMIdle, dbVars, ghostVars
<1>2. LiveTasks' = LiveTasks \cup r.tasks
  BY <1>1 DEF LiveTasks, Waiting
<1>3. \A o \in Obj : Replaced(o) => Replaced(o)'
  BY <1>1 DEF Replaced
<1>4. ASSUME NEW o \in Obj, Held(o), ~Held(o)'
      PROVE  \E t \in LiveTasks' : IsFor(t, o, db'[o].ver)
  BY <1>1, <1>2, <1>4 DEF Held
<1>5. ASSUME NEW o \in Obj, Live(o, db[o].ver)
      PROVE  \E t \in LiveTasks' : IsFor(t, o, db'[o].ver)
  BY <1>1, <1>2, <1>5, LiveIs
<1>6. NoLostIntent'
  <2>1. SUFFICES ASSUME NEW o \in Obj, Stored(o)', ~checkForAllSuccess(o, db'[o].comp)
                 PROVE  Taken(o)'
    BY NoLostIsNext
  <2>2. Taken(o)
    BY <1>1, <2>1, NoLostIs DEF LInv, Stored
  <2>3. QED
    BY <1>3, <1>4, <1>5, <2>2, LiveIsNext DEF Taken
<1>7. DroppedIsReplaced'
  BY <1>1 DEF DroppedIsReplaced, ForThisNotification
<1>8. QED
  BY <1>6, <1>7 DEF LInv

LEMMA LInvStep == IInv /\ IInv' /\ OInv /\ LInv /\ [Next]_vars => LInv'
<1>1. SUFFICES ASSUME IInv, IInv', OInv, LInv, [Next]_vars
               PROVE  LInv'
  OBVIOUS
<1>2. CASE ApiStep
  BY <1>1, <1>2, LostApi DEF ApiStep
<1>3. CASE ChannelStep \/ TaskManagerStep
  BY <1>1, <1>3, LostTaskManager
<1>4. CASE \E s \in Subscriber : HandlerStep(s)
  BY <1>1, <1>4, LostHandler
<1>5. CASE \E r \in replays : ReplayStep(r)
  BY <1>1, <1>5, LostReplayObjects, LostReplayGivesUp, LostReplayFinished DEF ReplayStep
<1>6. CASE UNCHANGED vars
  BY <1>1, <1>6 DEF vars, LInv, NoLostIntent, DroppedIsReplaced, Live, Waiting, TMHolds, Replaced,
                    Current, Stored, ForThisNotification, checkForAllSuccess
<1>7. QED
  BY <1>1, <1>2, <1>3, <1>4, <1>5, <1>6 DEF Next

\* A stored intent that is not realised is being worked on.  The versions in
\* lost are those of a CreateX that returned an error after its Set, and those
\* a replay dropped; no other step of the code loses one.
THEOREM NothingLost == Spec => []NoLostIntent
<1>1. Init => LInv
  <2>1. SUFFICES ASSUME Init
                 PROVE  LInv
    OBVIOUS
  <2>2. \A o \in Obj : ~Stored(o)
    BY <2>1 DEF Init, Stored, Absent
  <2>3. tm.pc = "idle"
    <3>1. TMIdle.pc = "idle"
      BY DEF TMIdle
    <3>2. QED
      BY <2>1, <3>1 DEF Init
  <2>4. QED
    BY <2>2, <2>3 DEF LInv, NoLostIntent, DroppedIsReplaced, ForThisNotification
<1>2. LInv => NoLostIntent
  BY DEF LInv
<1>3. QED
  BY <1>1, <1>2, LInvStep, IInvHolds, OInvHolds, PTL DEF Spec

-----------------------------------------------------------------------------
(* The promise is kept *)

LEMMA PromiseInit == Init => Promise!Init
<1>1. SUFFICES ASSUME Init
               PROVE  Promise!Init
  OBVIOUS
<1>2. \A o \in Obj : db[o].oper = "Absent" /\ \A m \in Modules : db[o].comp[m].st = "Pending"
  BY <1>1 DEF Init, Absent, Fresh
<1>3. \A o \in Obj : Range(Subs(o)) \subseteq Modules
  BY ConstTypes, RangeTyped
<1>4. Opers = [o \in Obj |-> "Absent"]
  BY <1>2 DEF Opers
<1>5. Acked = [o \in Obj |-> {}]
  <2>1. \A o \in Obj : {m \in Range(Subs(o)) : db[o].comp[m].st = "Success"} = {}
    BY <1>2, <1>3
  <2>2. QED
    BY <2>1 DEF Acked
<1>6. QED
  BY <1>4, <1>5 DEF Promise!Init

LEMMA PromiseApi ==
    ASSUME IInv, NEW o \in Obj, StoreNew(o) \/ (Stored(o) /\ DeleteObject(o))
    PROVE  Promise!AskFor(o) \/ Promise!AskToGo(o)
<1>1. /\ \A p \in Obj \ {o} : db'[p] = db[p]
      /\ db'[o].oper = "Down" \/ (DeleteObject(o) /\ db'[o].oper = "ToBeDeleted")
      /\ \A m \in Modules : db'[o].comp[m].st = "Pending"
  BY ApiRecords
<1>2. \A p \in Obj : Range(Subs(p)) \subseteq Modules
  BY ConstTypes, RangeTyped
<1>3. Acked' = [Acked EXCEPT ![o] = {}]
  BY <1>1, <1>2 DEF Acked
<1>4. Opers' = [Opers EXCEPT ![o] = db'[o].oper]
  BY <1>1 DEF Opers
<1>5. CASE db'[o].oper = "Down"
  BY <1>3, <1>4, <1>5 DEF Promise!AskFor
<1>6. CASE DeleteObject(o) /\ db'[o].oper = "ToBeDeleted"
  <2>1. Opers[o] # "Absent"
    BY <1>6 DEF Opers, DeleteObject, Stored
  <2>2. QED
    BY <1>3, <1>4, <1>6, <2>1 DEF Promise!AskToGo
<1>7. QED
  BY <1>1, <1>5, <1>6

LEMMA PromiseUpdateStatus ==
    ASSUME IInv, OInv, NEW s \in Subscriber, Recorded(s)
    PROVE  Promise!Acknowledge(hdl[s].obj, s[1]) \/ Promise!TakeBack(hdl[s].obj, s[1])
<1>0. PICK o, m : o = hdl[s].obj /\ m = s[1]
  OBVIOUS
<1> DEFINE c == [db[o].comp EXCEPT ![m] = hdl[s].comp]
<1>1. /\ o \in Obj /\ Stored(o) /\ m \in Range(Subs(o)) /\ m \in Modules
      /\ \A p \in Obj \ {o} : db'[p] = db[p]
      /\ checkForAllSuccess(o, c) /\ db[o].oper = "ToBeDeleted" => db'[o] = Absent
      /\ ~(checkForAllSuccess(o, c) /\ db[o].oper = "ToBeDeleted") =>
            /\ db'[o].comp = c
            /\ db'[o].oper = IF checkForAllSuccess(o, c) THEN "Up" ELSE db[o].oper
  BY <1>0, UpdateStatusRecord DEF Subscriber
<1>2. \A p \in Obj : Range(Subs(p)) \subseteq Modules
  BY ConstTypes, RangeTyped
<1>3. db[o].comp \in [Modules -> Component]
  BY <1>1 DEF IInv, TypeOK, Object
<1>4. c[m] = hdl[s].comp /\ \A n \in Modules \ {m} : c[n] = db[o].comp[n]
  BY <1>1, <1>3
<1> HIDE DEF c
<1>5. Promise!Turn(o, m)
  <2>1. Opers[o] # "Absent"
    BY <1>1 DEF Opers, Stored
  <2>2. m \in Range(Listed[o])
    BY <1>1 DEF Listed
  <2>3. Promise!Before(o, m) \subseteq Acked[o]
    <3>1. SUFFICES ASSUME NEW i \in DOMAIN Listed[o], NEW j \in DOMAIN Listed[o],
                          i < j, Listed[o][j] = m
                   PROVE  Listed[o][i] \in Acked[o]
      BY DEF Promise!Before
    <3>2. Listed[o] = Subs(o) /\ Acked[o] = {n \in Range(Subs(o)) : db[o].comp[n].st = "Success"}
      BY <1>1 DEF Listed, Acked
    <3>3. Succeeded(o, Subs(o)[i])
      BY <1>0, <3>1, <3>2, WorkerHasPriority DEF Recorded, UpdateStatus, RemovalFails, Working
    <3>4. Subs(o)[i] \in Range(Subs(o))
      BY <3>1, <3>2 DEF Range
    <3>5. QED
      BY <3>2, <3>3, <3>4 DEF Succeeded
  <2>4. QED
    BY <2>1, <2>2, <2>3 DEF Promise!Turn, Promise!Range, Range
<1>6. /\ Opers[o] = db[o].oper /\ Listed[o] = Subs(o)
      /\ Acked[o] = {n \in Range(Subs(o)) : db[o].comp[n].st = "Success"}
      /\ Opers' = [Opers EXCEPT ![o] = db'[o].oper]
      /\ Acked' = [Acked EXCEPT ![o] = {n \in Range(Subs(o)) : db'[o].comp[n].st = "Success"}]
  BY <1>1 DEF Opers, Acked, Listed
<1>7. CASE hdl[s].comp.st = "Success"
  <2>1. Acked[o] \cup {m} = {n \in Range(Subs(o)) : c[n].st = "Success"}
    BY <1>1, <1>2, <1>4, <1>6, <1>7
  <2>2. checkForAllSuccess(o, c) <=> Acked[o] \cup {m} = Promise!Range(Listed[o])
    <3>1. Promise!Range(Listed[o]) = Range(Subs(o))
      BY <1>6 DEF Promise!Range, Range
    <3>2. QED
      BY <2>1, <3>1 DEF checkForAllSuccess
  <2>3. CASE ~checkForAllSuccess(o, c)
    <3>1. Acked' = [Acked EXCEPT ![o] = @ \cup {m}]
      BY <1>1, <1>6, <2>1, <2>3
    <3>2. Opers' = Opers
      BY <1>1, <1>6, <2>3 DEF Opers
    <3>3. QED
      BY <1>0, <1>5, <2>2, <2>3, <3>1, <3>2 DEF Promise!Acknowledge
  <2>4. CASE checkForAllSuccess(o, c) /\ db[o].oper = "ToBeDeleted"
    <3>1. db'[o] = Absent
      BY <1>1, <2>4
    <3>2. db'[o].oper = "Absent" /\ \A n \in Modules : db'[o].comp[n].st = "Pending"
      BY <3>1 DEF Absent, Fresh
    <3>3. Acked' = [Acked EXCEPT ![o] = {}] /\ Opers' = [Opers EXCEPT ![o] = "Absent"]
      BY <1>1, <1>2, <1>6, <3>2
    <3>4. QED
      BY <1>0, <1>5, <1>6, <2>2, <2>4, <3>3 DEF Promise!Acknowledge
  <2>5. CASE checkForAllSuccess(o, c) /\ db[o].oper # "ToBeDeleted"
    <3>1. db'[o].comp = c /\ db'[o].oper = "Up"
      BY <1>1, <2>5
    <3>2. Acked' = [Acked EXCEPT ![o] = @ \cup {m}] /\ Opers' = [Opers EXCEPT ![o] = "Up"]
      BY <1>6, <2>1, <3>1
    <3>3. QED
      BY <1>0, <1>5, <1>6, <2>2, <2>5, <3>2 DEF Promise!Acknowledge
  <2>6. QED
    BY <2>3, <2>4, <2>5
<1>8. CASE hdl[s].comp.st # "Success"
  <2>1. ~checkForAllSuccess(o, c)
    BY <1>1, <1>4, <1>8 DEF checkForAllSuccess
  <2>2. Acked[o] \ {m} = {n \in Range(Subs(o)) : c[n].st = "Success"}
    BY <1>1, <1>2, <1>4, <1>6, <1>8
  <2>3. Acked' = [Acked EXCEPT ![o] = @ \ {m}]
    BY <1>1, <1>6, <2>1, <2>2
  <2>4. Opers' = Opers
    BY <1>1, <1>6, <2>1 DEF Opers
  <2>5. QED
    BY <1>0, <1>5, <2>3, <2>4 DEF Promise!TakeBack
<1>9. QED
  BY <1>7, <1>8

LEMMA PromiseReplay ==
    ASSUME IInv, NEW m \in Modules, NEW R \in SUBSET ToReplay(m), GatherObjects(m, R)
    PROVE  Promise!Renew(m, R)
<1>1. /\ R \in SUBSET Obj
      /\ \A o \in Obj \ R : db'[o] = db[o]
      /\ \A o \in R :
            /\ Stored(o) /\ m \in Range(Subs(o))
            /\ db'[o].oper = IF db[o].oper = "Up" THEN "Down" ELSE db[o].oper
            /\ \A n \in Modules : db'[o].comp[n] =
                   IF n \in ReplaySet(m, o) THEN Fresh ELSE db[o].comp[n]
  BY GatherRecords
<1>2. \A o \in Obj : Range(Subs(o)) \subseteq Modules
  BY ConstTypes, RangeTyped
<1>3. \A o \in R : Opers[o] # "Absent" /\ m \in Range(Listed[o])
  BY <1>1 DEF Opers, Listed, Stored
<1>4. Opers' = [o \in Obj |-> IF o \in R /\ Opers[o] = "Up" THEN "Down" ELSE Opers[o]]
  BY <1>1 DEF Opers
<1>5. ASSUME NEW o \in R
      PROVE  {n \in Range(Subs(o)) : db'[o].comp[n].st = "Success"} =
             {n \in Range(Subs(o)) : db[o].comp[n].st = "Success"} \ {m}
  <2>1. \A n \in Modules : db'[o].comp[n].st = "Success" <=>
                               n # m /\ db[o].comp[n].st = "Success"
    BY <1>1 DEF ReplaySet, Fresh
  <2>2. QED
    BY <1>1, <1>2, <2>1
<1>6. Acked' = [o \in Obj |-> IF o \in R THEN Acked[o] \ {m} ELSE Acked[o]]
  BY <1>1, <1>5 DEF Acked
<1>7. QED
  BY <1>3, <1>4, <1>6 DEF Promise!Renew, Promise!Range, Range

LEMMA PromiseStep == IInv /\ OInv /\ [Next]_vars => [Promise!Next]_(Promise!vars)
<1>1. SUFFICES ASSUME IInv, OInv, [Next]_vars
               PROVE  Promise!Next \/ UNCHANGED Promise!vars
  OBVIOUS
<1>2. CASE \E o \in Obj : StoreNew(o) \/ (Stored(o) /\ DeleteObject(o))
  BY <1>1, <1>2, PromiseApi DEF Promise!Next
<1>3. CASE \E s \in Subscriber : Recorded(s)
  <2>1. PICK s \in Subscriber : Recorded(s)
    BY <1>3
  <2>2. hdl[s].obj \in Obj /\ s[1] \in Modules
    BY <1>1 DEF IInv, TypeOK, Handler, Subscriber
  <2>3. QED
    BY <1>1, <2>1, <2>2, PromiseUpdateStatus DEF Promise!Next
<1>4. CASE \E m \in Modules : \E R \in SUBSET ToReplay(m) : GatherObjects(m, R)
  <2>1. PICK m \in Modules : \E R \in SUBSET ToReplay(m) : GatherObjects(m, R)
    BY <1>4
  <2>2. PICK R \in SUBSET ToReplay(m) : GatherObjects(m, R)
    BY <2>1
  <2>3. R \in SUBSET Obj
    BY <1>1, <2>2, GatherRecords
  <2>4. QED
    BY <1>1, <2>2, <2>3, PromiseReplay DEF Promise!Next
<1>5. CASE UNCHANGED db
  BY <1>5 DEF Promise!vars, Opers, Acked
<1>6. QED
  BY <1>1, <1>2, <1>3, <1>4, <1>5, DbSteps

\* The TaskManager, the subscribers and the replays implement Intent.
THEOREM PromiseKept == Spec => KeepsPromise
  BY PromiseInit, PromiseStep, IInvHolds, OInvHolds, PTL DEF Spec, KeepsPromise, Promise!Spec
=============================================================================
