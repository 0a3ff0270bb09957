--------------------------- MODULE ShutdownProofs ---------------------------
(***************************************************************************)
(* Proof, for every choice of objects, kinds, references and subscribers    *)
(* that agrees with the assumptions of Shutdown, that its state keeps its   *)
(* type, that DeleteAllResources leaves nothing behind and is not refused,  *)
(* and that no object leaves the store before it is torn down.              *)
(***************************************************************************)
EXTENDS Shutdown, FiniteSetTheorems, SequenceTheorems, TLAPS

-----------------------------------------------------------------------------
(* The inductive invariant *)

TaskOK(t) == t \in Task /\ t.at \in 1 .. t.len /\ t.len <= Len(Subscribers[KindOf[t.obj]])

\* What waits, and what the TaskManager is at, is a task on its way.
TasksSound ==
    /\ \A t \in tasks : TaskOK(t)
    /\ IF tm.pc = "idle" THEN tm.task = NoTask ELSE TaskOK(tm.task)

\* The array of a kind holds its subscribers only, and starts with those that
\* are still subscribed: the last ones of the configuration, in their order.
BusSound ==
    /\ DOMAIN list = Kinds /\ DOMAIN size = Kinds
    /\ \A k \in Kinds :
          /\ list[k] \in [DOMAIN Subscribers[k] -> Range(Subscribers[k])]
          /\ \A i \in 1 .. size[k] : list[k][i] = Subscribers[k][Len(Subscribers[k]) - size[k] + i]

\* A module that cleanUp is done with is not subscribed to anything.
StoppedAreOut == \A a \in 1 .. main.stop - 1 : Subscribed(Stops[a]) = {}

\* A handler works on an object of its kind, none works behind a closed channel,
\* and the TaskManager waits for one handler at most.
HandlersSound ==
    /\ \A s \in Channel : hdl[s].busy => KindOf[hdl[s].obj] = s[2]
    /\ \A s \in closed : ~hdl[s].busy
    /\ \A s \in Channel : hdl[s].awaited => hdl[s].busy /\ tm.pc = "wait"
    /\ \A s, r \in Channel : hdl[s].awaited /\ hdl[r].awaited => s = r

\* Until the modules are unsubscribed everybody is subscribed, and what is
\* still to be deleted is of the kind of the phase.
CleanUpSound ==
    /\ main.pc \in {"serving", "list", "delete", "wait"} =>
          /\ main.phase <= Len(Phases) /\ main.result = "none"
          /\ closed = {} /\ \A k \in Kinds : size[k] = Len(Subscribers[k])
    /\ main.pc = "serving" => main.phase = 1
    /\ main.pc # "delete" => main.todo = {}
    /\ \A o \in main.todo : KindOf[o] = Kind
    /\ main.result = "nil" => main.phase = Len(Phases) + 1

\* A stored object lists subscribers of its kind, as many as there are now; if
\* it lists more, the first of them is unsubscribed.
ComponentsSound(o) ==
    LET comps == db[o].comps
        k     == KindOf[o]
    IN  /\ comps # <<>> /\ Range(comps) \subseteq Range(Subscribers[k])
        /\ db[o].ok \subseteq Range(comps)
        /\ Len(comps) >= size[k]
        /\ Len(comps) = size[k] => comps[1] = list[k][1]
        /\ Len(comps) > size[k] => <<comps[1], k>> \in closed

\* Whoever has reported success on an object that is being deleted has torn it
\* down, or the object waits for a module that is gone.
TornDownOrStuck(o) ==
    \/ db[o].ok \subseteq down[o]
    \/ \E m \in Range(db[o].comps) \ db[o].ok : <<m, KindOf[o]>> \in closed

StoreSound ==
    \A o \in Obj : /\ Stored(o) => ComponentsSound(o)
                   /\ Leaving(o) => TornDownOrStuck(o)

\* As long as nobody interferes, the kinds of the earlier phases are gone, and
\* what is still to be deleted is as it was listed.
DeletesInOrder ==
    ~raced /\ ~blind =>
        /\ \A o \in Obj : Stored(o) => \E i \in main.phase .. Len(Phases) : Phases[i] = KindOf[o]
        /\ \A o \in main.todo : db[o].oper = "Present"
        /\ main.result # "refused"

IInv ==
    /\ TypeOK /\ TasksSound /\ BusSound /\ StoppedAreOut /\ HandlersSound
    /\ CleanUpSound /\ StoreSound /\ DeletesInOrder

-----------------------------------------------------------------------------
(* The constants *)

\* A list of subscribers names nobody twice.
LEMMA SubscribedOnce ==
    ASSUME NEW k \in Kinds, NEW i \in DOMAIN Subscribers[k], NEW j \in DOMAIN Subscribers[k],
           Subscribers[k][i] = Subscribers[k][j]
    PROVE  i = j
<1>1. Subscribers[k] \in Seq(Modules)
  BY ShutdownAssumption
<1>2. DOMAIN Subscribers[k] = 1 .. Len(Subscribers[k]) /\ Subscribers[k][i] \in Modules
  BY <1>1
<1>3. PICK a \in DOMAIN Stops : Stops[a] = Subscribers[k][i]
  BY <1>2 DEF Modules, Range
<1>4. a \in Nat
  BY ShutdownAssumption
<1>5. ~(i < j) /\ ~(j < i)
  BY <1>3, <1>4, PrioritiesFollowStops
<1>6. QED
  BY <1>2, <1>5

LEMMA ModulesAreFinite == IsFiniteSet(Modules) /\ Cardinality(Modules) \in Nat
<1>1. Stops \in Seq(Modules) /\ DOMAIN Stops = 1 .. Len(Stops) /\ Len(Stops) \in Nat
  BY ShutdownAssumption
<1>2. IsFiniteSet(DOMAIN Stops)
  BY <1>1, FS_Interval
<1>3. Stops \in Surjection(DOMAIN Stops, Modules)
  BY <1>1 DEF Surjection, Modules, Range
<1>4. QED
  BY <1>2, <1>3, FS_Surjection, FS_CardinalityType

\* A kind has no more subscribers than there are modules.
LEMMA FewSubscribers ==
    ASSUME NEW k \in Kinds
    PROVE  /\ Subscribers[k] \in Seq(Modules) /\ Len(Subscribers[k]) \in Nat
           /\ DOMAIN Subscribers[k] = 1 .. Len(Subscribers[k])
           /\ Len(Subscribers[k]) <= Cardinality(Modules)
<1>1. /\ Subscribers[k] \in Seq(Modules) /\ Len(Subscribers[k]) \in Nat
      /\ DOMAIN Subscribers[k] = 1 .. Len(Subscribers[k])
      /\ Subscribers[k] \in [DOMAIN Subscribers[k] -> Modules]
  BY ShutdownAssumption
<1>2. Subscribers[k] \in Injection(DOMAIN Subscribers[k], Modules)
  BY <1>1, SubscribedOnce DEF Injection, IsInjective
<1>3. Cardinality(DOMAIN Subscribers[k]) <= Cardinality(Modules)
  BY <1>2, ModulesAreFinite, FS_Injection
<1>4. Cardinality(DOMAIN Subscribers[k]) = Len(Subscribers[k])
  BY <1>1, FS_Interval
<1>5. QED
  BY <1>1, <1>3, <1>4

\* A list of components of an object's type.
Components == UNION {[1..n -> Modules] : n \in 0..Cardinality(Modules)}

LEMMA ComponentsType ==
    ASSUME NEW k \in Kinds, NEW n \in 0 .. Len(Subscribers[k]), NEW f \in [1..n -> Modules]
    PROVE  f \in Components
<1>1. n \in 0 .. Cardinality(Modules)
  BY FewSubscribers, ModulesAreFinite
<1>2. QED
  BY <1>1 DEF Components

LEMMA ComponentsFacts ==
    ASSUME NEW f \in Components
    PROVE  /\ f \in Seq(Modules) /\ Len(f) \in Nat /\ DOMAIN f = 1 .. Len(f)
           /\ f # <<>> <=> Len(f) > 0
           /\ Range(f) \subseteq Modules
<1>1. PICK n \in 0..Cardinality(Modules) : f \in [1..n -> Modules]
  BY DEF Components
<1>2. n \in Nat
  BY <1>1, ModulesAreFinite
<1>3. f \in Seq(Modules) /\ Len(f) = n
  BY <1>1, <1>2
<1>4. QED
  BY <1>3 DEF Range

LEMMA KindFacts == \A o \in Obj : KindOf[o] \in Kinds
  BY ShutdownAssumption

LEMMA NothingFacts == /\ NoTask.obj \in Obj /\ NoTask \in Task /\ Idle \in Job
                      /\ Idle.busy = FALSE /\ Idle.awaited = FALSE
                      /\ TMIdle.pc = "idle" /\ TMIdle.task = NoTask
                      /\ TMIdle \in [pc : {"idle", "publish", "wait"}, task : Task]
                      /\ Absent \in Object /\ Absent.oper = "Absent"
<1>1. NoTask.obj \in Obj
  BY ShutdownAssumption DEF NoTask
<1>2. NoTask \in Task
  BY <1>1 DEF NoTask, Task
<1>3. Idle \in Job
  BY <1>1 DEF Idle, Job
<1>4. <<>> \in Components
  <2>1. 0 \in 0..Cardinality(Modules) /\ <<>> \in [1..0 -> Modules]
    BY ModulesAreFinite
  <2>2. QED
    BY <2>1 DEF Components
<1>5. Absent \in Object
  BY <1>4 DEF Absent, Object, Components
<1>6. QED
  BY <1>1, <1>2, <1>3, <1>5 DEF Idle, TMIdle, Absent

-----------------------------------------------------------------------------
(* The event bus *)

LEMMA ChannelFacts ==
    ASSUME NEW m, NEW k \in Kinds, m \in Range(Subscribers[k])
    PROVE  <<m, k>> \in Channel /\ m \in Modules
<1>1. m \in Modules
  BY FewSubscribers DEF Range
<1>2. QED
  BY <1>1 DEF Channel

LEMMA ListFacts ==
    ASSUME TypeOK, BusSound, NEW k \in Kinds
    PROVE  /\ size[k] \in 0 .. Len(Subscribers[k]) /\ size[k] \in Nat
           /\ list[k] \in Seq(Modules) /\ Len(list[k]) = Len(Subscribers[k])
           /\ DOMAIN list[k] = 1 .. Len(Subscribers[k])
           /\ \A i \in DOMAIN list[k] : list[k][i] \in Range(Subscribers[k])
<1>1. /\ Subscribers[k] \in Seq(Modules) /\ Len(Subscribers[k]) \in Nat
      /\ DOMAIN Subscribers[k] = 1 .. Len(Subscribers[k])
  BY FewSubscribers
<1>2. Range(Subscribers[k]) \subseteq Modules
  BY <1>1 DEF Range
<1>3. size[k] \in 0 .. Len(Subscribers[k])
  BY DEF TypeOK
<1>4. list[k] \in [1 .. Len(Subscribers[k]) -> Range(Subscribers[k])]
  BY <1>1 DEF BusSound
<1>5. list[k] \in [1 .. Len(Subscribers[k]) -> Modules]
  BY <1>2, <1>4
<1>6. QED
  BY <1>1, <1>3, <1>4, <1>5

LEMMA PrefixFacts ==
    ASSUME NEW S, NEW s \in Seq(S), NEW n \in Nat, n <= Len(s)
    PROVE  /\ SubSeq(s, 1, n) \in [1..n -> S] /\ Len(SubSeq(s, 1, n)) = n
           /\ \A i \in 1..n : SubSeq(s, 1, n)[i] = s[i]
<1>1. \A i \in 1..n : s[i] \in S
  OBVIOUS
<1> DEFINE q == SubSeq(s, 1, n)
<1>2. q \in Seq(S) /\ Len(q) = IF 1 <= n THEN n - 1 + 1 ELSE 0
  BY <1>1, SubSeqProperties
<1>3. \A i \in 1 .. n - 1 + 1 : q[i] = s[1 + i - 1]
  BY <1>1, SubSeqProperties
<1> HIDE DEF q
<1>4. Len(q) = n
  BY <1>2
<1>5. \A i \in 1..n : q[i] = s[i]
  BY <1>3
<1>6. q \in [1..n -> S]
  BY <1>2, <1>4
<1>7. QED
  BY <1>4, <1>5, <1>6 DEF q

LEMMA SubsNowFacts ==
    ASSUME TypeOK, BusSound, NEW k \in Kinds
    PROVE  /\ SubsNow(k) \in Components /\ Len(SubsNow(k)) = size[k]
           /\ DOMAIN SubsNow(k) = 1 .. size[k]
           /\ \A i \in 1 .. size[k] : SubsNow(k)[i] = list[k][i]
           /\ Range(SubsNow(k)) \subseteq Range(Subscribers[k])
<1>1. /\ SubsNow(k) \in [1 .. size[k] -> Modules] /\ Len(SubsNow(k)) = size[k]
      /\ \A i \in 1 .. size[k] : SubsNow(k)[i] = list[k][i]
  BY ListFacts, FewSubscribers, PrefixFacts DEF SubsNow
<1>2. SubsNow(k) \in Components
  BY <1>1, ListFacts, ComponentsType
<1>3. \A i \in 1 .. size[k] : i \in DOMAIN list[k]
  BY ListFacts, FewSubscribers
<1>4. Range(SubsNow(k)) \subseteq Range(Subscribers[k])
  BY <1>1, <1>3, ListFacts DEF Range
<1>5. QED
  BY <1>1, <1>2, <1>4

\* The module that cleanUp is at is the first of the subscribers there still are.
LEMMA StopsTheFirst ==
    ASSUME TypeOK, BusSound, StoppedAreOut, NEW k \in Kinds,
           main.stop <= Len(Stops), k \in Subscribed(Stops[main.stop])
    PROVE  /\ size[k] > 0 /\ list[k][1] = Stops[main.stop]
           /\ Stops[main.stop] \in Range(Subscribers[k])
           /\ \A i \in 1 .. size[k] : list[k][i] = Stops[main.stop] => i = 1
<1> DEFINE m == Stops[main.stop]
           n == Len(Subscribers[k])
<1>1. /\ n \in Nat /\ DOMAIN Subscribers[k] = 1 .. n /\ size[k] \in 0 .. n
      /\ Subscribers[k] \in Seq(Modules)
  BY FewSubscribers, ListFacts
<1>2. PICK i \in 1 .. size[k] : list[k][i] = m
  BY SubsNowFacts DEF Subscribed, Range
<1>3. \A j \in 1 .. size[k] : /\ n - size[k] + j \in DOMAIN Subscribers[k]
                              /\ list[k][j] = Subscribers[k][n - size[k] + j]
  BY <1>1 DEF BusSound
<1>4. main.stop \in DOMAIN Stops /\ DOMAIN Stops = 1 .. Len(Stops)
  <2>1. main \in Main
    BY DEF TypeOK
  <2>2. main.stop \in 1 .. Len(Stops) + 1
    BY <2>1 DEF Main
  <2>3. QED
    BY <2>2, ShutdownAssumption
<1>5. size[k] > 0 /\ 1 \in 1 .. size[k]
  BY <1>1, <1>2
<1>6. PICK a \in DOMAIN Stops : Stops[a] = list[k][1]
  <2>1. n - size[k] + 1 \in 1 .. n /\ list[k][1] = Subscribers[k][n - size[k] + 1]
    BY <1>1, <1>3, <1>5
  <2>2. list[k][1] \in Modules
    BY <1>1, <2>1
  <2>3. QED
    BY <2>2 DEF Modules, Range
<1>7. a >= main.stop
  <2>1. list[k][1] \in Range(SubsNow(k))
    BY <1>5, SubsNowFacts DEF Range
  <2>2. k \in Subscribed(Stops[a])
    BY <1>6, <2>1 DEF Subscribed
  <2>3. ~(a \in 1 .. main.stop - 1)
    BY <2>2 DEF StoppedAreOut
  <2>4. QED
    BY <1>4, <2>3
<1>8. ASSUME NEW j \in 1 .. size[k], list[k][j] = m
      PROVE  j = 1
  <2>1. SUFFICES ASSUME j # 1 PROVE FALSE
    OBVIOUS
  <2>2. n - size[k] + 1 < n - size[k] + j
    BY <1>1, <2>1
  <2>3. Subscribers[k][n - size[k] + j] = Stops[main.stop] /\ Subscribers[k][n - size[k] + 1] = Stops[a]
    BY <1>3, <1>5, <1>6, <1>8
  <2>4. n - size[k] + 1 \in DOMAIN Subscribers[k] /\ n - size[k] + j \in DOMAIN Subscribers[k]
    BY <1>3, <1>5
  <2>5. a < main.stop
    BY <1>4, <1>6, <2>2, <2>3, <2>4, PrioritiesFollowStops
  <2>6. QED
    BY <1>4, <1>7, <2>5
<1>9. list[k][1] = m
  BY <1>2, <1>8
<1>10. m \in Range(Subscribers[k])
  BY <1>3, <1>5, <1>9 DEF Range
<1>11. QED
  BY <1>5, <1>8, <1>9, <1>10

LEMMA RemovedFacts ==
    ASSUME TypeOK, BusSound, StoppedAreOut, NEW k \in Kinds,
           main.stop <= Len(Stops), k \in Subscribed(Stops[main.stop])
    PROVE  /\ Removed(k, Stops[main.stop]) \in [DOMAIN Subscribers[k] -> Range(Subscribers[k])]
           /\ \A j \in 1 .. size[k] - 1 : Removed(k, Stops[main.stop])[j] = list[k][j + 1]
<1> DEFINE m == Stops[main.stop]
           i == CHOOSE j \in 1 .. size[k] : list[k][j] = m
<1>1. size[k] \in Nat /\ 1 \in 1 .. size[k] /\ list[k][1] = m
  BY StopsTheFirst, ListFacts
<1>2. i \in 1 .. size[k] /\ list[k][i] = m
  BY <1>1
<1>3. i = 1
  BY <1>2, StopsTheFirst
<1> HIDE DEF i
<1>4. Removed(k, m) = [j \in DOMAIN list[k] |-> IF i <= j /\ j < size[k] THEN list[k][j + 1] ELSE list[k][j]]
  BY DEF Removed, i
<1>5. /\ DOMAIN list[k] = 1 .. Len(Subscribers[k]) /\ size[k] <= Len(Subscribers[k])
      /\ DOMAIN Subscribers[k] = 1 .. Len(Subscribers[k]) /\ Len(Subscribers[k]) \in Nat
      /\ \A j \in DOMAIN list[k] : list[k][j] \in Range(Subscribers[k])
  BY ListFacts, FewSubscribers
<1>6. \A j \in DOMAIN list[k] : j < size[k] => j + 1 \in DOMAIN list[k]
  BY <1>1, <1>5
<1>7. QED
  BY <1>1, <1>3, <1>4, <1>5, <1>6

-----------------------------------------------------------------------------
(* The initial states *)

LEMMA InitInvariant == Init => IInv
<1> SUFFICES ASSUME Init PROVE IInv
  OBVIOUS
<1>1. PICK S \in SUBSET Obj :
         /\ \A o \in S : Uses[o] \subseteq S /\ Subscribers[KindOf[o]] # <<>>
         /\ db = [o \in Obj |-> IF o \in S
                                THEN [oper |-> "Present", ver |-> 1, comps |-> Subscribers[KindOf[o]],
                                      ok |-> Range(Subscribers[KindOf[o]])]
                                ELSE Absent]
         /\ clock = [o \in Obj |-> IF o \in S THEN 1 ELSE 0]
  BY DEF Init
<1>2. /\ list = Subscribers /\ size = [k \in Kinds |-> Len(Subscribers[k])] /\ closed = {}
      /\ hdl = [s \in Channel |-> Idle] /\ tasks = {} /\ tm = TMIdle
      /\ main = [pc |-> "serving", phase |-> 1, todo |-> {}, result |-> "none", stop |-> 1]
      /\ alive = TRUE /\ calls = 0 /\ faults = 0 /\ raced = FALSE /\ blind = FALSE
      /\ down = [o \in Obj |-> {}]
  BY DEF Init
<1>3. \A k \in Kinds : Subscribers[k] \in Components /\ Range(Subscribers[k]) \subseteq Modules
  <2>1. SUFFICES ASSUME NEW k \in Kinds
                 PROVE  Subscribers[k] \in Components /\ Range(Subscribers[k]) \subseteq Modules
    OBVIOUS
  <2>2. /\ Subscribers[k] \in [1 .. Len(Subscribers[k]) -> Modules]
        /\ Len(Subscribers[k]) \in 0 .. Len(Subscribers[k])
    BY FewSubscribers
  <2>3. Subscribers[k] \in Components
    BY <2>2, ComponentsType
  <2>4. QED
    BY <2>3, ComponentsFacts
<1>4. \A o \in Obj : db[o] \in Object
  <2>1. SUFFICES ASSUME NEW o \in Obj PROVE db[o] \in Object
    OBVIOUS
  <2>2. CASE o \in S
    BY <1>1, <1>3, <2>2, KindFacts DEF Object, Components
  <2>3. CASE o \notin S
    BY <1>1, <2>3, NothingFacts
  <2>4. QED
    BY <2>2, <2>3
<1>5. Phases # <<>> /\ 1 <= Len(Phases) /\ Len(Phases) \in Nat /\ DOMAIN Phases = 1 .. Len(Phases)
  <2>1. PICK o \in Obj : TRUE
    BY ShutdownAssumption
  <2>2. Phases \in Seq(Kinds) /\ KindOf[o] \in Range(Phases)
    BY <2>1, ShutdownAssumption DEF Kinds
  <2>3. QED
    BY <2>2 DEF Range
<1>6. main \in Main
  <2>1. Len(Stops) \in Nat
    BY ShutdownAssumption
  <2>2. QED
    BY <1>2, <1>5, <2>1 DEF Main, Results
<1>7. TasksSound
  BY <1>2, NothingFacts DEF TasksSound
<1>8. BusSound
  <2>1. SUFFICES ASSUME NEW k \in Kinds
                 PROVE  /\ list[k] \in [DOMAIN Subscribers[k] -> Range(Subscribers[k])]
                        /\ \A i \in 1 .. size[k] :
                              list[k][i] = Subscribers[k][Len(Subscribers[k]) - size[k] + i]
    BY <1>2, ShutdownAssumption DEF BusSound
  <2>2. list[k] = Subscribers[k] /\ size[k] = Len(Subscribers[k]) /\ Len(Subscribers[k]) \in Nat
    BY <1>2, FewSubscribers
  <2>3. \A i \in 1 .. size[k] : Len(Subscribers[k]) - size[k] + i = i
    BY <2>2
  <2>4. Subscribers[k] \in [DOMAIN Subscribers[k] -> Range(Subscribers[k])]
    BY FewSubscribers DEF Range
  <2>5. QED
    BY <2>2, <2>3, <2>4
<1>9. StoppedAreOut
  BY <1>2 DEF StoppedAreOut
<1>10. HandlersSound
  BY <1>2, NothingFacts DEF HandlersSound
<1>11. CleanUpSound
  BY <1>2, <1>5 DEF CleanUpSound
<1>12. StoreSound
  <2>1. SUFFICES ASSUME NEW o \in Obj
                 PROVE  (Stored(o) => ComponentsSound(o)) /\ ~Leaving(o)
    BY DEF StoreSound
  <2>2. CASE o \in S
    <3> DEFINE k == KindOf[o]
    <3>1. /\ db[o].comps = Subscribers[k] /\ db[o].ok = Range(Subscribers[k]) /\ db[o].oper = "Present"
          /\ k \in Kinds /\ Subscribers[k] # <<>>
      BY <1>1, <2>2, KindFacts
    <3>2. size[k] = Len(Subscribers[k]) /\ list[k] = Subscribers[k] /\ Len(Subscribers[k]) \in Nat
      BY <1>2, <3>1, FewSubscribers
    <3> HIDE DEF k
    <3>3. QED
      BY <3>1, <3>2 DEF ComponentsSound, Leaving, k
  <2>3. CASE o \notin S
    BY <1>1, <2>3, NothingFacts DEF Stored, Leaving
  <2>4. QED
    BY <2>2, <2>3
<1>13. DeletesInOrder
  <2>1. SUFFICES ASSUME NEW o \in Obj PROVE \E i \in 1 .. Len(Phases) : Phases[i] = KindOf[o]
    BY <1>2 DEF DeletesInOrder
  <2>2. KindOf[o] \in Range(Phases)
    BY KindFacts DEF Kinds
  <2>3. QED
    BY <1>5, <2>2 DEF Range
<1>14. TypeOK
  <2>1. db \in [Obj -> Object] /\ clock \in [Obj -> Nat]
    BY <1>1, <1>4
  <2>2. \A k \in Kinds : DOMAIN list[k] = DOMAIN Subscribers[k] /\ size[k] \in 0 .. Len(Subscribers[k])
    BY <1>2, FewSubscribers
  <2>3. closed \subseteq Channel /\ hdl \in [Channel -> Job]
    BY <1>2, NothingFacts
  <2>4. /\ tasks \subseteq Task /\ tm \in [pc : {"idle", "publish", "wait"}, task : Task]
        /\ tasks \cup ({tm.task} \ {NoTask}) = {}
    BY <1>2, NothingFacts
  <2>5. /\ {alive, raced, blind} \subseteq BOOLEAN /\ calls \in Nat /\ faults \in Nat
        /\ down \in [Obj -> SUBSET Modules]
    BY <1>2
  <2>6. QED
    BY <1>6, <2>1, <2>2, <2>3, <2>4, <2>5 DEF TypeOK
<1>15. QED
  BY <1>7, <1>8, <1>9, <1>10, <1>11, <1>12, <1>13, <1>14 DEF IInv

-----------------------------------------------------------------------------
(* Objects and tasks *)

LEMMA ObjectFacts ==
    ASSUME TypeOK, NEW o \in Obj
    PROVE  /\ db[o] \in Object /\ db[o].oper \in {"Absent", "Present", "ToBeDeleted"}
           /\ db[o].ver \in Nat /\ db[o].comps \in Components /\ db[o].ok \subseteq Modules
           /\ clock[o] \in Nat /\ down[o] \subseteq Modules
           /\ Leaving(o) => Stored(o)
<1>1. db[o] \in Object /\ clock[o] \in Nat /\ down[o] \subseteq Modules
  BY DEF TypeOK
<1>2. QED
  BY <1>1 DEF Object, Components, Leaving, Stored

LEMMA NewTaskFacts ==
    ASSUME TypeOK, BusSound, NEW o \in Obj, NEW v \in Nat, size[KindOf[o]] > 0
    PROVE  TaskOK(NewTask(o, v)) /\ NewTask(o, v) \in Task
<1>1. size[KindOf[o]] \in Nat /\ size[KindOf[o]] <= Len(Subscribers[KindOf[o]])
  BY ListFacts, KindFacts, FewSubscribers
<1>2. QED
  BY <1>1 DEF TaskOK, NewTask, Task

\* A deletion sets every component to Pending, or the first one never succeeds.
LEMMA DeletedFacts ==
    ASSUME TypeOK, BusSound, StoreSound, NEW o \in Obj, CanDelete(o)
    PROVE  /\ Deleted(o) \in Object /\ Deleted(o).oper = "ToBeDeleted"
           /\ Deleted(o).comps = db[o].comps /\ Deleted(o).ok \subseteq db[o].ok
           /\ \/ Deleted(o).ok = {}
              \/ /\ db[o].comps[1] \in Range(db[o].comps) \ Deleted(o).ok
                 /\ <<db[o].comps[1], KindOf[o]>> \in closed
<1> DEFINE comps == db[o].comps
           n == size[KindOf[o]]
           q == SubSeq(comps, 1, n)
<1>1. /\ ComponentsSound(o) /\ n > 0 /\ n \in Nat
      /\ db[o] \in Object /\ clock[o] \in Nat /\ comps \in Components /\ db[o].ok \subseteq Modules
  BY ObjectFacts, ListFacts, KindFacts DEF StoreSound, CanDelete
<1>2. /\ comps \in Seq(Modules) /\ Len(comps) \in Nat /\ DOMAIN comps = 1 .. Len(comps)
      /\ n <= Len(comps) /\ db[o].ok \subseteq Range(comps)
  BY <1>1, ComponentsFacts DEF ComponentsSound
<1>3. DOMAIN q = 1 .. n /\ \A i \in 1 .. n : q[i] = comps[i]
  BY <1>1, <1>2, PrefixFacts
<1>4. Deleted(o) = [db[o] EXCEPT !.oper = "ToBeDeleted", !.ver = clock[o] + 1, !.ok = @ \ Range(q)]
  BY DEF Deleted
<1> HIDE DEF q
<1>5. Deleted(o) = [oper |-> "ToBeDeleted", ver |-> clock[o] + 1, comps |-> comps,
                    ok |-> db[o].ok \ Range(q)]
  BY <1>1, <1>4 DEF Object
<1>6. Deleted(o) \in Object
  BY <1>1, <1>5 DEF Object, Components
<1>7. \A i \in 1 .. n : comps[i] \in Range(q)
  BY <1>3 DEF Range
<1>8. CASE n = Len(comps)
  <2>1. Range(comps) \subseteq Range(q)
    BY <1>2, <1>7, <1>8 DEF Range
  <2>2. Deleted(o).ok = {}
    BY <1>2, <1>5, <2>1
  <2>3. QED
    BY <1>5, <1>6, <2>2
<1>9. CASE n < Len(comps)
  <2>1. comps[1] \in Range(q)
    BY <1>1, <1>7
  <2>2. comps[1] \in Range(comps)
    BY <1>1, <1>2, <1>9 DEF Range
  <2>3. <<comps[1], KindOf[o]>> \in closed
    BY <1>1, <1>9 DEF ComponentsSound
  <2>4. QED
    BY <1>5, <1>6, <2>1, <2>2, <2>3
<1>10. QED
  BY <1>1, <1>2, <1>8, <1>9

\* What a deletion does to the store and to the tasks.
LEMMA DeleteStep ==
    ASSUME IInv, NEW o \in Obj, CanDelete(o), Delete(o), UNCHANGED <<busVars, tm, down>>
    PROVE  /\ db' \in [Obj -> Object] /\ clock' \in [Obj -> Nat]
           /\ \A p \in Obj \ {o} : db'[p] = db[p]
           /\ db'[o].oper = "ToBeDeleted" /\ Stored(o)
           /\ StoreSound' /\ TasksSound'
<1>1. /\ TypeOK /\ BusSound /\ StoreSound /\ TasksSound
      /\ db' = [db EXCEPT ![o] = Deleted(o)] /\ clock' = [clock EXCEPT ![o] = @ + 1]
      /\ tasks' = tasks \cup {NewTask(o, clock[o] + 1)}
      /\ UNCHANGED <<list, size, closed, tm, down>>
      /\ Stored(o) /\ size[KindOf[o]] > 0
  BY DEF IInv, Delete, CanDelete, busVars
<1>2. db \in [Obj -> Object] /\ clock \in [Obj -> Nat]
  BY <1>1 DEF TypeOK
<1>3. db' \in [Obj -> Object] /\ clock' \in [Obj -> Nat]
  <2>1. Deleted(o) \in Object
    BY <1>1, DeletedFacts
  <2>2. clock[o] + 1 \in Nat
    BY <1>2
  <2>3. QED
    BY <1>1, <1>2, <2>1, <2>2
<1>4. db'[o] = Deleted(o) /\ \A p \in Obj \ {o} : db'[p] = db[p]
  BY <1>1, <1>2
<1>5. TasksSound'
  <2>1. TaskOK(NewTask(o, clock[o] + 1))
    BY <1>1, <1>2, NewTaskFacts
  <2>2. QED
    BY <1>1, <2>1 DEF TasksSound, TaskOK
<1>6. ASSUME NEW p \in Obj
      PROVE  (Stored(p) => ComponentsSound(p))' /\ (Leaving(p) => TornDownOrStuck(p))'
  <2>1. CASE p # o
    <3>1. db'[p] = db[p]
      BY <1>4, <2>1
    <3>2. (Stored(p) => ComponentsSound(p)) /\ (Leaving(p) => TornDownOrStuck(p))
      BY <1>1 DEF StoreSound
    <3>3. (Stored(p)' <=> Stored(p)) /\ (Leaving(p)' <=> Leaving(p))
      BY <3>1 DEF Stored, Leaving
    <3>4. ComponentsSound(p)' <=> ComponentsSound(p)
      BY <1>1, <3>1 DEF ComponentsSound
    <3>5. TornDownOrStuck(p)' <=> TornDownOrStuck(p)
      BY <1>1, <3>1 DEF TornDownOrStuck
    <3>6. QED
      BY <3>2, <3>3, <3>4, <3>5
  <2>2. CASE p = o
    <3>1. ComponentsSound(o)
      BY <1>1 DEF StoreSound
    <3>2. db'[o].comps = db[o].comps /\ db'[o].ok \subseteq db[o].ok
      BY <1>1, <1>4, DeletedFacts
    <3>3. ComponentsSound(o)'
      BY <1>1, <3>1, <3>2 DEF ComponentsSound
    <3>4. TornDownOrStuck(o)'
      BY <1>1, <1>4, <3>2, DeletedFacts DEF TornDownOrStuck
    <3>5. QED
      BY <2>2, <3>3, <3>4
  <2>3. QED
    BY <2>1, <2>2
<1>7. StoreSound'
  BY <1>6 DEF StoreSound
<1>8. QED
  BY <1>1, <1>3, <1>4, <1>5, <1>7, DeletedFacts

-----------------------------------------------------------------------------
(* What a step leaves alone *)

LEMMA BusFrame ==
    ASSUME BusSound, StoppedAreOut, UNCHANGED <<list, size>>, main'.stop = main.stop
    PROVE  BusSound' /\ StoppedAreOut'
  BY DEF BusSound, StoppedAreOut, Subscribed, SubsNow

LEMMA HandlersFrame ==
    ASSUME HandlersSound, UNCHANGED <<hdl, closed, tm>>
    PROVE  HandlersSound'
  BY DEF HandlersSound

LEMMA CleanUpFrame ==
    ASSUME CleanUpSound, UNCHANGED <<main, size, closed>>
    PROVE  CleanUpSound'
  BY DEF CleanUpSound, Kind

LEMMA StoreFrame ==
    ASSUME StoreSound, UNCHANGED <<db, down, list, size, closed>>
    PROVE  StoreSound'
  BY DEF StoreSound, Stored, Leaving, ComponentsSound, TornDownOrStuck

LEMMA OrderFrame ==
    ASSUME DeletesInOrder, UNCHANGED <<db, main, raced, blind>>
    PROVE  DeletesInOrder'
  BY DEF DeletesInOrder, Stored

LEMMA TasksFrame ==
    ASSUME TasksSound, UNCHANGED <<tasks, tm>>
    PROVE  TasksSound'
  BY DEF TasksSound, TaskOK

\* The part of the type invariant that is about tasks.
LEMMA TasksTyped ==
    TasksSound => \A t \in tasks \cup ({tm.task} \ {NoTask}) :
                     t.at \in 1 .. t.len /\ t.len <= Len(Subscribers[KindOf[t.obj]])
  BY DEF TasksSound, TaskOK

LEMMA PhaseOfKind == \A o \in Obj : \E i \in 1 .. Len(Phases) : Phases[i] = KindOf[o]
<1>1. Phases \in Seq(Kinds)
  BY ShutdownAssumption
<1>2. QED
  BY <1>1, KindFacts DEF Kinds, Range

-----------------------------------------------------------------------------
(* Clients *)

LEMMA ClientOrder ==
    ASSUME IInv, Call
    PROVE  DeletesInOrder'
<1>1. SUFFICES ASSUME ~raced', ~blind'
               PROVE  /\ \A o \in Obj : \E i \in main.phase .. Len(Phases) : Phases[i] = KindOf[o]
                      /\ main.todo = {} /\ main.result = "none"
  BY DEF Call, DeletesInOrder
<1>2. main.pc = "serving"
  BY <1>1 DEF Call
<1>3. main.phase = 1 /\ main.todo = {} /\ main.result = "none"
  BY <1>2 DEF IInv, CleanUpSound
<1>4. QED
  BY <1>3, PhaseOfKind

LEMMA CallFrame ==
    ASSUME IInv, Call
    PROVE  /\ BusSound' /\ StoppedAreOut' /\ HandlersSound' /\ CleanUpSound' /\ DeletesInOrder'
           /\ main' \in Main /\ closed' \subseteq Channel /\ hdl' \in [Channel -> Job]
           /\ \A k \in Kinds : DOMAIN list'[k] = DOMAIN Subscribers[k] /\ size'[k] \in 0 .. Len(Subscribers[k])
           /\ {alive', raced', blind'} \subseteq BOOLEAN /\ calls' \in Nat /\ faults' \in Nat
           /\ tm' \in [pc : {"idle", "publish", "wait"}, task : Task]
           /\ UNCHANGED <<list, size, closed, tm>>
<1>1. /\ UNCHANGED <<list, size, closed, hdl, tm, main, alive, faults, blind>>
      /\ calls' = calls + 1 /\ raced' = (raced \/ main.pc # "serving")
  BY DEF Call, busVars
<1>2. /\ main \in Main /\ closed \subseteq Channel /\ hdl \in [Channel -> Job]
      /\ \A k \in Kinds : DOMAIN list[k] = DOMAIN Subscribers[k] /\ size[k] \in 0 .. Len(Subscribers[k])
      /\ {alive, raced, blind} \subseteq BOOLEAN /\ calls \in Nat /\ faults \in Nat
      /\ tm \in [pc : {"idle", "publish", "wait"}, task : Task]
  BY DEF IInv, TypeOK
<1>3. BusSound' /\ StoppedAreOut' /\ HandlersSound' /\ CleanUpSound'
  BY <1>1, BusFrame, HandlersFrame, CleanUpFrame DEF IInv
<1>4. calls' \in Nat /\ {alive', raced', blind'} \subseteq BOOLEAN
  BY <1>1, <1>2
<1>5. QED
  BY <1>1, <1>2, <1>3, <1>4, ClientOrder

LEMMA ClientCreatesStep ==
    ASSUME IInv, NEW o \in Obj, ClientCreates(o)
    PROVE  IInv'
<1> DEFINE k == KindOf[o]
           new == [oper |-> "Present", ver |-> clock[o] + 1, comps |-> SubsNow(k), ok |-> {}]
<1>1. /\ TypeOK /\ BusSound /\ StoreSound /\ TasksSound /\ Call
      /\ k \in Kinds /\ size[k] > 0 /\ ~Stored(o)
      /\ db' = [db EXCEPT ![o] = new] /\ clock' = [clock EXCEPT ![o] = @ + 1]
      /\ tasks' = tasks \cup {NewTask(o, clock[o] + 1)}
      /\ down' = [down EXCEPT ![o] = {}]
  BY KindFacts DEF IInv, ClientCreates
<1>2. /\ db \in [Obj -> Object] /\ clock \in [Obj -> Nat] /\ down \in [Obj -> SUBSET Modules]
      /\ tasks \subseteq Task
  BY <1>1 DEF TypeOK
<1>3. clock[o] + 1 \in Nat
  BY <1>2
<1>4. new \in Object
  BY <1>1, <1>3, SubsNowFacts DEF Object, Components
<1>5. /\ db' \in [Obj -> Object] /\ clock' \in [Obj -> Nat] /\ down' \in [Obj -> SUBSET Modules]
      /\ db'[o] = new /\ \A p \in Obj \ {o} : db'[p] = db[p] /\ down'[p] = down[p]
  BY <1>1, <1>2, <1>3, <1>4
<1>6. TaskOK(NewTask(o, clock[o] + 1)) /\ NewTask(o, clock[o] + 1) \in Task
  BY <1>1, <1>3, NewTaskFacts
<1>7. UNCHANGED <<list, size, closed, tm>>
  BY <1>1, CallFrame
<1>8. TasksSound'
  BY <1>1, <1>6, <1>7 DEF TasksSound, TaskOK
<1>9. StoreSound'
  <2>1. SUFFICES ASSUME NEW p \in Obj
                 PROVE  (Stored(p) => ComponentsSound(p))' /\ (Leaving(p) => TornDownOrStuck(p))'
    BY DEF StoreSound
  <2>2. CASE p # o
    <3>1. db'[p] = db[p] /\ down'[p] = down[p]
      BY <1>5, <2>2
    <3>2. (Stored(p) => ComponentsSound(p)) /\ (Leaving(p) => TornDownOrStuck(p))
      BY <1>1 DEF StoreSound
    <3>3. (Stored(p)' <=> Stored(p)) /\ (Leaving(p)' <=> Leaving(p))
      BY <3>1 DEF Stored, Leaving
    <3>4. ComponentsSound(p)' <=> ComponentsSound(p)
      BY <1>7, <3>1 DEF ComponentsSound
    <3>5. TornDownOrStuck(p)' <=> TornDownOrStuck(p)
      BY <1>7, <3>1 DEF TornDownOrStuck
    <3>6. QED
      BY <3>2, <3>3, <3>4, <3>5
  <2>3. CASE p = o
    <3>1. /\ db'[o].comps = SubsNow(k) /\ db'[o].ok = {} /\ ~Leaving(o)'
      BY <1>5 DEF Leaving
    <3>2. /\ SubsNow(k) # <<>> /\ Len(SubsNow(k)) = size[k] /\ SubsNow(k)[1] = list[k][1]
          /\ Range(SubsNow(k)) \subseteq Range(Subscribers[k]) /\ size[k] \in Nat
      BY <1>1, SubsNowFacts, ListFacts, ComponentsFacts
    <3> HIDE DEF k
    <3>3. ComponentsSound(o)'
      BY <1>7, <3>1, <3>2 DEF ComponentsSound, k
    <3>4. QED
      BY <2>3, <3>1, <3>3
  <2>4. QED
    BY <2>2, <2>3
<1>10. tasks' \subseteq Task
  BY <1>1, <1>2, <1>6
<1>11. TypeOK'
  BY <1>1, <1>5, <1>8, <1>10, CallFrame DEF TypeOK, TasksSound, TaskOK
<1>12. QED
  BY <1>1, <1>8, <1>9, <1>11, CallFrame DEF IInv

LEMMA ClientDeletesStep ==
    ASSUME IInv, NEW o \in Obj, ClientDeletes(o)
    PROVE  IInv'
<1>1. Call /\ CanDelete(o) /\ Delete(o) /\ UNCHANGED down
  BY DEF ClientDeletes
<1>2. UNCHANGED <<list, size, closed, tm>>
  BY <1>1, CallFrame
<1>3. db' \in [Obj -> Object] /\ clock' \in [Obj -> Nat] /\ StoreSound' /\ TasksSound'
  BY <1>1, <1>2, DeleteStep DEF busVars
<1>4. down' \in [Obj -> SUBSET Modules]
  BY <1>1 DEF IInv, TypeOK
<1>5. tasks' \subseteq Task
  BY <1>3 DEF TasksSound, TaskOK
<1>6. TypeOK'
  BY <1>1, <1>3, <1>4, <1>5, CallFrame DEF TypeOK, TasksSound, TaskOK
<1>7. QED
  BY <1>1, <1>3, <1>6, CallFrame DEF IInv

-----------------------------------------------------------------------------
(* The TaskManager *)

LEMMA TargetFacts ==
    ASSUME TypeOK, BusSound, NEW t, TaskOK(t)
    PROVE  /\ Target(t) \in Channel /\ Target(t)[2] = KindOf[t.obj]
           /\ t \in Task /\ t.obj \in Obj /\ t.ver \in Nat
<1>1. t.obj \in Obj /\ t.ver \in Nat /\ t.len \in Nat /\ t.at \in 1 .. t.len /\ t \in Task
  BY DEF TaskOK, Task
<1>2. KindOf[t.obj] \in Kinds /\ t.len <= Len(Subscribers[KindOf[t.obj]])
  BY <1>1, KindFacts DEF TaskOK
<1>3. t.at \in 1 .. Len(Subscribers[KindOf[t.obj]])
  BY <1>1, <1>2, FewSubscribers
<1>4. list[KindOf[t.obj]][t.at] \in Range(Subscribers[KindOf[t.obj]])
  BY <1>2, <1>3, ListFacts
<1>5. QED
  BY <1>1, <1>2, <1>4, ChannelFacts DEF Target

\* The invariants that only cleanUp and the clients can disturb.
LEMMA TaskFrame ==
    ASSUME IInv, UNCHANGED <<db, clock, list, size, closed, main, calls, raced, blind, down>>
    PROVE  /\ BusSound' /\ StoppedAreOut' /\ CleanUpSound' /\ StoreSound' /\ DeletesInOrder'
           /\ main' \in Main /\ closed' \subseteq Channel
           /\ db' \in [Obj -> Object] /\ clock' \in [Obj -> Nat] /\ down' \in [Obj -> SUBSET Modules]
           /\ \A k \in Kinds : DOMAIN list'[k] = DOMAIN Subscribers[k] /\ size'[k] \in 0 .. Len(Subscribers[k])
           /\ {raced', blind'} \subseteq BOOLEAN /\ calls' \in Nat
<1>1. /\ main \in Main /\ closed \subseteq Channel
      /\ db \in [Obj -> Object] /\ clock \in [Obj -> Nat] /\ down \in [Obj -> SUBSET Modules]
      /\ \A k \in Kinds : DOMAIN list[k] = DOMAIN Subscribers[k] /\ size[k] \in 0 .. Len(Subscribers[k])
      /\ {raced, blind} \subseteq BOOLEAN /\ calls \in Nat
  BY DEF IInv, TypeOK
<1>2. BusSound' /\ StoppedAreOut'
  BY BusFrame DEF IInv
<1>3. CleanUpSound' /\ StoreSound' /\ DeletesInOrder'
  BY CleanUpFrame, StoreFrame, OrderFrame DEF IInv
<1>4. QED
  BY <1>1, <1>2, <1>3

LEMMA PublishStep ==
    ASSUME IInv, NEW t \in tasks \cup {tm.task}, Publish(t)
    PROVE  IInv'
<1> DEFINE s == Target(t)
           job == [busy |-> TRUE, obj |-> t.obj, ver |-> t.ver, awaited |-> TRUE]
           Kept == /\ TasksSound' /\ HandlersSound' /\ hdl' \in [Channel -> Job]
                   /\ tasks' \subseteq Task /\ tm' \in [pc : {"idle", "publish", "wait"}, task : Task]
<1>1. /\ TypeOK /\ BusSound /\ TasksSound /\ HandlersSound
      /\ tasks \subseteq Task /\ hdl \in [Channel -> Job]
      /\ alive \in BOOLEAN /\ faults \in Nat
  BY DEF IInv, TypeOK
<1>2. /\ UNCHANGED <<db, clock, list, size, closed, main, calls, raced, blind, down, faults>>
      /\ alive' = (s \notin closed) /\ AtTask(t)
  BY DEF Publish, TaskVars, busVars
<1>3. TaskOK(t) /\ tm.pc # "wait"
  BY <1>1, <1>2 DEF AtTask, TasksSound
<1>4. /\ s \in Channel /\ s[2] = KindOf[t.obj] /\ t \in Task /\ job \in Job
  BY <1>1, <1>3, TargetFacts DEF Job
<1>5. \A r \in Channel : ~hdl[r].awaited
  BY <1>1, <1>3 DEF HandlersSound
<1>6. ASSUME hdl[s].busy \/ s \in closed PROVE Kept
  <2>1. tasks' = tasks \cup {t} /\ tm' = TMIdle /\ UNCHANGED hdl
    BY <1>6 DEF Publish, Requeued
  <2>2. TasksSound'
    BY <1>1, <1>3, <2>1, NothingFacts DEF TasksSound, TaskOK
  <2>3. HandlersSound'
    BY <1>1, <1>2, <1>5, <2>1 DEF HandlersSound
  <2>4. /\ tasks' \subseteq Task /\ tm' \in [pc : {"idle", "publish", "wait"}, task : Task]
        /\ hdl' \in [Channel -> Job]
    BY <1>1, <1>4, <2>1, NothingFacts
  <2>5. QED
    BY <2>2, <2>3, <2>4
<1>7. ASSUME ~(hdl[s].busy \/ s \in closed) PROVE Kept
  <2>1. /\ hdl' = [hdl EXCEPT ![s] = job] /\ tm' = [pc |-> "wait", task |-> t]
        /\ tasks' = tasks \ {t}
    BY <1>7 DEF Publish
  <2>2. TasksSound'
    BY <1>1, <1>3, <2>1 DEF TasksSound, TaskOK
  <2>3. /\ hdl' \in [Channel -> Job] /\ hdl'[s] = job
        /\ \A r \in Channel \ {s} : hdl'[r] = hdl[r]
    BY <1>1, <1>4, <2>1
  <2>4. HandlersSound'
    BY <1>1, <1>2, <1>4, <1>5, <1>7, <2>1, <2>3 DEF HandlersSound, TypeOK
  <2>5. tasks' \subseteq Task /\ tm' \in [pc : {"idle", "publish", "wait"}, task : Task]
    BY <1>1, <1>4, <2>1
  <2>6. QED
    BY <2>2, <2>3, <2>4, <2>5
<1>8. Kept
  BY <1>6, <1>7
<1>9. {alive'} \subseteq BOOLEAN /\ faults' \in Nat
  BY <1>1, <1>2
<1>10. TypeOK'
  BY <1>2, <1>8, <1>9, TaskFrame DEF TypeOK, TasksSound, TaskOK
<1>11. QED
  BY <1>2, <1>8, <1>10, TaskFrame DEF IInv

LEMMA TimeoutStep ==
    ASSUME IInv, Timeout
    PROVE  IInv'
<1>1. /\ TypeOK /\ TasksSound /\ HandlersSound
      /\ tasks \subseteq Task /\ hdl \in [Channel -> Job] /\ closed \subseteq Channel
      /\ alive \in BOOLEAN /\ faults \in Nat
  BY DEF IInv, TypeOK
<1>2. /\ UNCHANGED <<db, clock, list, size, closed, main, calls, raced, blind, down, alive>>
      /\ tm.pc = "wait" /\ faults' = faults + 1
      /\ hdl' = [s \in Channel |-> [hdl[s] EXCEPT !.awaited = FALSE]]
      /\ tasks' = tasks \cup {tm.task} /\ tm' = TMIdle
  BY DEF Timeout, TaskVars, busVars, Fault, Requeued
<1>3. TaskOK(tm.task)
  BY <1>1, <1>2 DEF TasksSound
<1>4. \A s \in Channel : /\ hdl'[s] \in Job /\ hdl'[s].busy = hdl[s].busy /\ hdl'[s].obj = hdl[s].obj
                         /\ ~hdl'[s].awaited
  BY <1>1, <1>2 DEF Job
<1>5. TasksSound'
  BY <1>1, <1>2, <1>3, NothingFacts DEF TasksSound, TaskOK
<1>6. HandlersSound'
  BY <1>1, <1>2, <1>4 DEF HandlersSound
<1>7. /\ hdl' \in [Channel -> Job] /\ tasks' \subseteq Task
      /\ tm' \in [pc : {"idle", "publish", "wait"}, task : Task]
      /\ {alive'} \subseteq BOOLEAN /\ faults' \in Nat
  BY <1>1, <1>2, <1>3, <1>4, NothingFacts DEF TaskOK
<1>8. TypeOK'
  BY <1>2, <1>5, <1>7, TaskFrame DEF TypeOK, TasksSound, TaskOK
<1>9. QED
  BY <1>2, <1>5, <1>6, <1>8, TaskFrame DEF IInv

-----------------------------------------------------------------------------
(* The subscribers *)

LEMMA ReturnsStep ==
    ASSUME IInv, NEW s \in Channel, hdl[s].busy, UNCHANGED closed,
           hdl' = [hdl EXCEPT ![s] = Idle],
           IF hdl[s].awaited
           THEN NextSubscriber \/ (tm' = TMIdle /\ UNCHANGED tasks) \/ Requeued(tm.task)
           ELSE UNCHANGED <<tm, tasks>>
    PROVE  /\ TasksSound' /\ HandlersSound' /\ hdl' \in [Channel -> Job]
           /\ tasks' \subseteq Task /\ tm' \in [pc : {"idle", "publish", "wait"}, task : Task]
<1>1. /\ TasksSound /\ HandlersSound /\ hdl \in [Channel -> Job] /\ closed \subseteq Channel
      /\ tasks \subseteq Task /\ tm \in [pc : {"idle", "publish", "wait"}, task : Task]
  BY DEF IInv, TypeOK
<1>2. /\ hdl' \in [Channel -> Job] /\ ~hdl'[s].busy /\ ~hdl'[s].awaited
      /\ \A r \in Channel \ {s} : hdl'[r] = hdl[r]
  BY <1>1, NothingFacts
<1>3. CASE hdl[s].awaited
  <2>1. tm.pc = "wait" /\ TaskOK(tm.task)
    BY <1>1, <1>3 DEF HandlersSound, TasksSound
  <2>2. \A r \in Channel : ~hdl'[r].awaited
    BY <1>1, <1>2, <1>3 DEF HandlersSound
  <2>3. HandlersSound'
    BY <1>1, <1>2, <2>2 DEF HandlersSound
  <2>4. CASE NextSubscriber
    <3>1. CASE tm.task.at < tm.task.len
      <4> DEFINE next == [tm.task EXCEPT !.at = @ + 1]
      <4>1. tm' = [pc |-> "publish", task |-> next] /\ UNCHANGED tasks
        BY <2>4, <3>1 DEF NextSubscriber
      <4>2. /\ tm.task \in Task /\ next \in Task /\ next.obj = tm.task.obj /\ next.len = tm.task.len
            /\ next.at = tm.task.at + 1
        BY <2>1 DEF TaskOK, Task
      <4>3. next.at \in 1 .. next.len
        BY <2>1, <3>1, <4>2 DEF TaskOK, Task
      <4>4. TaskOK(next)
        BY <2>1, <4>2, <4>3 DEF TaskOK
      <4> HIDE DEF next
      <4>5. TasksSound'
        BY <1>1, <4>1, <4>4 DEF TasksSound, TaskOK
      <4>6. QED
        BY <1>1, <1>2, <2>3, <4>1, <4>2, <4>5
    <3>2. CASE ~(tm.task.at < tm.task.len)
      <4>1. tm' = TMIdle /\ UNCHANGED tasks
        BY <2>4, <3>2 DEF NextSubscriber
      <4>2. QED
        BY <1>1, <1>2, <2>3, <4>1, NothingFacts DEF TasksSound, TaskOK
    <3>3. QED
      BY <3>1, <3>2
  <2>5. CASE tm' = TMIdle /\ UNCHANGED tasks
    BY <1>1, <1>2, <2>3, <2>5, NothingFacts DEF TasksSound, TaskOK
  <2>6. CASE Requeued(tm.task)
    <3>1. tm' = TMIdle /\ tasks' = tasks \cup {tm.task}
      BY <2>6 DEF Requeued
    <3>2. TasksSound'
      BY <1>1, <2>1, <3>1, NothingFacts DEF TasksSound, TaskOK
    <3>3. QED
      BY <1>1, <1>2, <2>3, <3>1, <3>2, NothingFacts
  <2>7. QED
    BY <1>3, <2>4, <2>5, <2>6
<1>4. CASE ~hdl[s].awaited
  <2>1. UNCHANGED <<tm, tasks>>
    BY <1>4
  <2>2. HandlersSound'
    BY <1>1, <1>2, <2>1 DEF HandlersSound
  <2>3. TasksSound'
    BY <1>1, <2>1, TasksFrame
  <2>4. QED
    BY <1>1, <1>2, <2>1, <2>2, <2>3
<1>5. QED
  BY <1>3, <1>4

\* A handler that is busy is not unsubscribed, and works on its kind.
LEMMA BusyFacts ==
    ASSUME TypeOK, HandlersSound, NEW s \in Channel, hdl[s].busy
    PROVE  /\ hdl[s].obj \in Obj /\ s \notin closed /\ s = <<s[1], KindOf[hdl[s].obj]>>
           /\ s[1] \in Modules
<1>1. hdl[s] \in Job /\ closed \subseteq Channel
  BY DEF TypeOK
<1>2. s = <<s[1], s[2]>> /\ s[1] \in Modules
  BY DEF Channel
<1>3. KindOf[hdl[s].obj] = s[2] /\ s \notin closed
  BY DEF HandlersSound
<1>4. QED
  BY <1>1, <1>2, <1>3 DEF Job

\* What a report of success does to the object.
LEMMA ReportedFacts ==
    ASSUME TypeOK, HandlersSound, StoreSound, NEW s \in Channel, hdl[s].busy, Current(s)
    PROVE  LET o  == hdl[s].obj
               ok == db[o].ok \cup ({s[1]} \cap Range(db[o].comps))
           IN  /\ Reported(s) \in Object
               /\ \/ /\ Reported(s) = Absent /\ Leaving(o)
                     /\ Range(db[o].comps) \subseteq down[o] \cup {s[1]}
                  \/ Reported(s) = [db[o] EXCEPT !.ok = ok]
               /\ Leaving(o) => \/ ok \subseteq down[o] \cup {s[1]}
                                \/ \E m \in Range(db[o].comps) \ ok : <<m, KindOf[o]>> \in closed
<1> DEFINE o  == hdl[s].obj
           ok == db[o].ok \cup ({s[1]} \cap Range(db[o].comps))
<1>1. o \in Obj /\ s \notin closed /\ s = <<s[1], KindOf[o]>> /\ s[1] \in Modules
  BY BusyFacts
<1>2. /\ db[o] \in Object /\ db[o].comps \in Components /\ db[o].ok \subseteq Modules
      /\ Stored(o)
  BY <1>1, ObjectFacts DEF Current
<1>3. Leaving(o) => \/ ok \subseteq down[o] \cup {s[1]}
                    \/ \E m \in Range(db[o].comps) \ ok : <<m, KindOf[o]>> \in closed
  <2>1. SUFFICES ASSUME Leaving(o)
                 PROVE  \/ ok \subseteq down[o] \cup {s[1]}
                        \/ \E m \in Range(db[o].comps) \ ok : <<m, KindOf[o]>> \in closed
    OBVIOUS
  <2>2. TornDownOrStuck(o)
    BY <1>1, <2>1 DEF StoreSound
  <2>3. CASE db[o].ok \subseteq down[o]
    BY <2>3
  <2>4. CASE \E m \in Range(db[o].comps) \ db[o].ok : <<m, KindOf[o]>> \in closed
    <3>1. PICK m \in Range(db[o].comps) \ db[o].ok : <<m, KindOf[o]>> \in closed
      BY <2>4
    <3>2. m # s[1]
      BY <1>1, <3>1
    <3>3. QED
      BY <3>1, <3>2
  <2>5. QED
    BY <2>2, <2>3, <2>4 DEF TornDownOrStuck
<1>4. Reported(s) = IF ok = Range(db[o].comps) /\ Leaving(o) THEN Absent ELSE [db[o] EXCEPT !.ok = ok]
  BY DEF Reported
<1>5. ok \subseteq Modules
  BY <1>1, <1>2
<1> HIDE DEF ok
<1>6. CASE ok = Range(db[o].comps) /\ Leaving(o)
  <2>1. Range(db[o].comps) \subseteq down[o] \cup {s[1]}
    BY <1>3, <1>6
  <2>2. QED
    BY <1>3, <1>4, <1>6, <2>1, NothingFacts DEF ok
<1>7. CASE ~(ok = Range(db[o].comps) /\ Leaving(o))
  <2>1. Reported(s) = [db[o] EXCEPT !.ok = ok]
    BY <1>4, <1>7
  <2>2. Reported(s) \in Object
    BY <1>2, <1>5, <2>1 DEF Object
  <2>3. QED
    BY <1>3, <2>1, <2>2 DEF ok
<1>8. QED
  BY <1>6, <1>7

\* The store after an object has changed whose operational status stays or goes
\* to Absent: the invariants of the store follow from those of this object.
LEMMA ReportFrame ==
    ASSUME IInv, NEW o \in Obj, NEW x \in Object, NEW D \in SUBSET Modules,
           UNCHANGED <<list, size, closed, main, raced, blind>>,
           db' = [db EXCEPT ![o] = x], down' = [down EXCEPT ![o] = D],
           x.oper = db[o].oper \/ (x.oper = "Absent" /\ Leaving(o)),
           x.oper # "Absent" => ComponentsSound(o)',
           x.oper = "ToBeDeleted" => TornDownOrStuck(o)'
    PROVE  /\ StoreSound' /\ DeletesInOrder'
           /\ db' \in [Obj -> Object] /\ down' \in [Obj -> SUBSET Modules]
<1>1. /\ db \in [Obj -> Object] /\ down \in [Obj -> SUBSET Modules] /\ StoreSound /\ DeletesInOrder
      /\ main \in Main
  BY DEF IInv, TypeOK
<1>2. /\ db' \in [Obj -> Object] /\ down' \in [Obj -> SUBSET Modules] /\ db'[o] = x
      /\ \A p \in Obj \ {o} : db'[p] = db[p] /\ down'[p] = down[p]
  BY <1>1
<1>3. \A p \in Obj : /\ Stored(p)' => Stored(p)
                     /\ db[p].oper = "Present" => db'[p].oper = "Present"
  BY <1>2 DEF Stored, Leaving
<1>4. ASSUME NEW p \in Obj
      PROVE  (Stored(p) => ComponentsSound(p))' /\ (Leaving(p) => TornDownOrStuck(p))'
  <2>1. CASE p # o
    <3>1. db'[p] = db[p] /\ down'[p] = down[p]
      BY <1>2, <2>1
    <3>2. (Stored(p) => ComponentsSound(p)) /\ (Leaving(p) => TornDownOrStuck(p))
      BY <1>1 DEF StoreSound
    <3>3. (Stored(p)' <=> Stored(p)) /\ (Leaving(p)' <=> Leaving(p))
      BY <3>1 DEF Stored, Leaving
    <3>4. ComponentsSound(p)' <=> ComponentsSound(p)
      BY <3>1 DEF ComponentsSound
    <3>5. TornDownOrStuck(p)' <=> TornDownOrStuck(p)
      BY <3>1 DEF TornDownOrStuck
    <3>6. QED
      BY <3>2, <3>3, <3>4, <3>5
  <2>2. CASE p = o
    BY <1>2, <2>2 DEF Stored, Leaving
  <2>3. QED
    BY <2>1, <2>2
<1>5. StoreSound'
  BY <1>4 DEF StoreSound
<1>6. DeletesInOrder'
  <2>1. main.todo \subseteq Obj
    BY <1>1 DEF Main
  <2>2. QED
    BY <1>1, <1>3, <2>1 DEF DeletesInOrder
<1>7. QED
  BY <1>2, <1>5, <1>6

LEMMA HandlerSucceedsStep ==
    ASSUME IInv, NEW s \in Channel, HandlerSucceeds(s)
    PROVE  /\ IInv'
           /\ \A p \in Obj : Stored(p) /\ ~Stored(p)' => Range(db[p].comps) \subseteq down'[p]
<1> DEFINE Kept == /\ TasksSound' /\ HandlersSound' /\ hdl' \in [Channel -> Job]
                   /\ tasks' \subseteq Task /\ tm' \in [pc : {"idle", "publish", "wait"}, task : Task]
           Store == /\ StoreSound' /\ DeletesInOrder'
                    /\ db' \in [Obj -> Object] /\ down' \in [Obj -> SUBSET Modules]
                    /\ \A p \in Obj : Stored(p) /\ ~Stored(p)' => Range(db[p].comps) \subseteq down'[p]
<1>1. /\ TypeOK /\ HandlersSound /\ StoreSound /\ BusSound /\ StoppedAreOut /\ CleanUpSound /\ DeletesInOrder
      /\ db \in [Obj -> Object] /\ down \in [Obj -> SUBSET Modules]
      /\ clock \in [Obj -> Nat] /\ closed \subseteq Channel /\ main \in Main
      /\ \A k \in Kinds : DOMAIN list[k] = DOMAIN Subscribers[k] /\ size[k] \in 0 .. Len(Subscribers[k])
      /\ {alive, raced, blind} \subseteq BOOLEAN /\ calls \in Nat /\ faults \in Nat
  BY DEF IInv, TypeOK
<1>2. /\ hdl[s].busy
      /\ UNCHANGED <<clock, list, size, closed, main, alive, calls, faults, raced, blind>>
  BY DEF HandlerSucceeds, busVars
<1>3. PICK o \in Obj : /\ o = hdl[s].obj /\ s \notin closed
                       /\ s = <<s[1], KindOf[o]>> /\ s[1] \in Modules
  BY <1>1, <1>2, BusyFacts
<1>4. ASSUME Current(s)
      PROVE  Kept /\ Store
  <2>1. /\ db' = [db EXCEPT ![o] = Reported(s)]
        /\ down' = [down EXCEPT ![o] = IF Leaving(o) THEN @ \cup {s[1]} ELSE @]
        /\ Returns(s, NextSubscriber)
    BY <1>3, <1>4 DEF HandlerSucceeds
  <2>2. Kept
    BY <1>2, <2>1, ReturnsStep DEF Returns
  <2> DEFINE ok == db[o].ok \cup ({s[1]} \cap Range(db[o].comps))
             D == IF Leaving(o) THEN down[o] \cup {s[1]} ELSE down[o]
  <2>3. /\ db[o] \in Object /\ down[o] \subseteq Modules /\ Stored(o)
        /\ ComponentsSound(o) /\ D \in SUBSET Modules
    BY <1>1, <1>3, <1>4 DEF Current, StoreSound
  <2>4. /\ Reported(s) \in Object
        /\ \/ /\ Reported(s) = Absent /\ Leaving(o)
              /\ Range(db[o].comps) \subseteq down[o] \cup {s[1]}
           \/ Reported(s) = [db[o] EXCEPT !.ok = ok]
        /\ Leaving(o) => \/ ok \subseteq down[o] \cup {s[1]}
                         \/ \E m \in Range(db[o].comps) \ ok : <<m, KindOf[o]>> \in closed
    BY <1>1, <1>2, <1>3, <1>4, ReportedFacts
  <2>5. /\ db'[o] = Reported(s) /\ down'[o] = D /\ down' = [down EXCEPT ![o] = D]
        /\ \A p \in Obj \ {o} : db'[p] = db[p]
    BY <1>1, <1>3, <2>1
  <2> HIDE DEF D
  <2>6. CASE Reported(s) = Absent /\ Leaving(o) /\ Range(db[o].comps) \subseteq down[o] \cup {s[1]}
    <3>1. Reported(s).oper = "Absent" /\ Range(db[o].comps) \subseteq D
      BY <2>6, NothingFacts DEF D
    <3>2. StoreSound' /\ DeletesInOrder' /\ db' \in [Obj -> Object] /\ down' \in [Obj -> SUBSET Modules]
      BY <1>2, <1>3, <2>1, <2>3, <2>4, <2>5, <2>6, <3>1, ReportFrame
    <3>3. \A p \in Obj : Stored(p) /\ ~Stored(p)' => Range(db[p].comps) \subseteq down'[p]
      BY <2>5, <3>1 DEF Stored
    <3>4. QED
      BY <2>2, <3>2, <3>3
  <2>7. CASE Reported(s) = [db[o] EXCEPT !.ok = ok]
    <3>1. /\ db'[o].oper = db[o].oper /\ db'[o].comps = db[o].comps /\ db'[o].ok = ok
      BY <2>3, <2>5, <2>7 DEF Object
    <3>2. ok \subseteq Range(db[o].comps)
      BY <2>3 DEF ComponentsSound
    <3>3. ComponentsSound(o)'
      BY <1>2, <2>3, <3>1, <3>2 DEF ComponentsSound
    <3>4. Leaving(o) => TornDownOrStuck(o)'
      <4>1. CASE Leaving(o) /\ ok \subseteq down[o] \cup {s[1]}
        BY <2>5, <3>1, <4>1 DEF TornDownOrStuck, D
      <4>2. CASE \E m \in Range(db[o].comps) \ ok : <<m, KindOf[o]>> \in closed
        BY <1>2, <3>1, <4>2 DEF TornDownOrStuck
      <4>3. QED
        BY <2>4, <4>1, <4>2
    <3>5. StoreSound' /\ DeletesInOrder' /\ db' \in [Obj -> Object] /\ down' \in [Obj -> SUBSET Modules]
      <4> DEFINE x == Reported(s)
      <4>1. /\ x \in Object /\ x.oper = db[o].oper /\ db' = [db EXCEPT ![o] = x]
            /\ UNCHANGED <<list, size, closed, main, raced, blind>>
        BY <1>2, <2>1, <2>4, <2>5, <3>1
      <4>2. x.oper = "ToBeDeleted" => TornDownOrStuck(o)'
        BY <3>4, <4>1 DEF Leaving
      <4> HIDE DEF x
      <4>3. QED
        BY <2>3, <2>5, <3>3, <4>1, <4>2, ReportFrame
    <3>6. \A p \in Obj : Stored(p) /\ ~Stored(p)' => Range(db[p].comps) \subseteq down'[p]
      BY <2>5, <3>1 DEF Stored
    <3>7. QED
      BY <2>2, <3>5, <3>6
  <2>8. QED
    BY <2>4, <2>6, <2>7
<1>5. ASSUME ~Current(s)
      PROVE  Kept /\ Store
  <2>1. UNCHANGED <<db, down>> /\ Returns(s, tm' = TMIdle /\ UNCHANGED tasks)
    BY <1>5 DEF HandlerSucceeds
  <2>2. Kept
    BY <1>2, <2>1, ReturnsStep DEF Returns
  <2>3. StoreSound' /\ DeletesInOrder'
    BY <1>1, <1>2, <2>1, StoreFrame, OrderFrame
  <2>4. QED
    BY <1>1, <2>1, <2>2, <2>3 DEF Stored
<1>6. Kept /\ Store
  BY <1>4, <1>5
<1>7. BusSound' /\ StoppedAreOut' /\ CleanUpSound'
  BY <1>1, <1>2, BusFrame, CleanUpFrame
<1>8. TypeOK'
  BY <1>1, <1>2, <1>6 DEF TypeOK, TasksSound, TaskOK
<1>9. QED
  BY <1>6, <1>7, <1>8 DEF IInv

LEMMA HandlerFailsStep ==
    ASSUME IInv, NEW s \in Channel, HandlerFails(s)
    PROVE  IInv' /\ \A p \in Obj : Stored(p)' <=> Stored(p)
<1>1. /\ TypeOK /\ HandlersSound /\ StoreSound /\ BusSound /\ StoppedAreOut /\ CleanUpSound /\ DeletesInOrder
      /\ db \in [Obj -> Object] /\ down \in [Obj -> SUBSET Modules]
      /\ clock \in [Obj -> Nat] /\ closed \subseteq Channel /\ main \in Main
      /\ \A k \in Kinds : DOMAIN list[k] = DOMAIN Subscribers[k] /\ size[k] \in 0 .. Len(Subscribers[k])
      /\ {alive, raced, blind} \subseteq BOOLEAN /\ calls \in Nat /\ faults \in Nat
  BY DEF IInv, TypeOK
<1>2. /\ hdl[s].busy /\ Current(s) /\ faults' = faults + 1
      /\ UNCHANGED <<clock, list, size, closed, main, alive, calls, raced, blind, down>>
      /\ db' = [db EXCEPT ![hdl[s].obj].ok = @ \ {s[1]}]
      /\ Returns(s, Requeued(tm.task))
  BY DEF HandlerFails, busVars, Fault
<1>3. PICK o \in Obj : o = hdl[s].obj /\ s[1] \in Modules
  BY <1>1, <1>2, BusyFacts
<1> DEFINE x == [db[o] EXCEPT !.ok = @ \ {s[1]}]
<1>4. /\ db[o] \in Object /\ ComponentsSound(o) /\ (Leaving(o) => TornDownOrStuck(o))
      /\ Stored(o) /\ down[o] \in SUBSET Modules
  BY <1>1, <1>2, <1>3 DEF Current, StoreSound
<1>5. x \in Object /\ x.oper = db[o].oper /\ x.comps = db[o].comps /\ x.ok = db[o].ok \ {s[1]}
  BY <1>3, <1>4 DEF Object
<1>6. /\ db'[o] = x /\ db' = [db EXCEPT ![o] = x] /\ down' = [down EXCEPT ![o] = down[o]]
      /\ \A p \in Obj \ {o} : db'[p] = db[p]
  BY <1>1, <1>2, <1>3
<1> HIDE DEF x
<1>7. ComponentsSound(o)'
  BY <1>2, <1>4, <1>5, <1>6 DEF ComponentsSound
<1>8. Leaving(o) => TornDownOrStuck(o)'
  BY <1>2, <1>4, <1>5, <1>6 DEF TornDownOrStuck
<1>9. StoreSound' /\ DeletesInOrder' /\ db' \in [Obj -> Object] /\ down' \in [Obj -> SUBSET Modules]
  <2>1. x.oper = "ToBeDeleted" => TornDownOrStuck(o)'
    BY <1>5, <1>8 DEF Leaving
  <2>2. UNCHANGED <<list, size, closed, main, raced, blind>>
    BY <1>2
  <2>3. QED
    BY <1>4, <1>5, <1>6, <1>7, <2>1, <2>2, ReportFrame
<1>10. /\ TasksSound' /\ HandlersSound' /\ hdl' \in [Channel -> Job]
       /\ tasks' \subseteq Task /\ tm' \in [pc : {"idle", "publish", "wait"}, task : Task]
  BY <1>2, ReturnsStep DEF Returns
<1>11. BusSound' /\ StoppedAreOut' /\ CleanUpSound'
  BY <1>1, <1>2, BusFrame, CleanUpFrame
<1>12. faults' \in Nat
  BY <1>1, <1>2
<1>13. TypeOK'
  BY <1>1, <1>2, <1>9, <1>10, <1>12 DEF TypeOK, TasksSound, TaskOK
<1>14. \A p \in Obj : Stored(p)' <=> Stored(p)
  BY <1>5, <1>6 DEF Stored
<1>15. QED
  BY <1>9, <1>10, <1>11, <1>13, <1>14 DEF IInv

-----------------------------------------------------------------------------
(* cleanUp *)

LEMMA MainFacts ==
    ASSUME TypeOK
    PROVE  /\ main = [pc |-> main.pc, phase |-> main.phase, todo |-> main.todo,
                      result |-> main.result, stop |-> main.stop]
           /\ main.phase \in 1 .. Len(Phases) + 1 /\ main.phase \in Nat
           /\ main.todo \subseteq Obj /\ main.stop \in 1 .. Len(Stops) + 1 /\ main.stop \in Nat
           /\ main.result \in Results
           /\ main \in Main /\ Len(Phases) \in Nat /\ Len(Stops) \in Nat
<1>1. main \in Main /\ Len(Phases) \in Nat /\ Len(Stops) \in Nat
  BY ShutdownAssumption DEF TypeOK
<1>2. QED
  BY <1>1 DEF Main

\* The invariants that a step of cleanUp keeps if it only moves on.
LEMMA MainFrame ==
    ASSUME IInv, UNCHANGED <<CleanUpVars, db, clock, tasks>>,
           main' \in Main, {raced', blind'} \subseteq BOOLEAN, faults' \in Nat
    PROVE  /\ TypeOK' /\ TasksSound' /\ BusSound' /\ HandlersSound' /\ StoreSound'
           /\ main'.stop = main.stop => StoppedAreOut'
<1>1. /\ UNCHANGED <<list, size, closed, hdl, tm, alive, calls, down, db, clock, tasks>>
      /\ TypeOK /\ TasksSound /\ BusSound /\ HandlersSound /\ StoreSound /\ StoppedAreOut
  BY DEF CleanUpVars, IInv
<1>2. TasksSound' /\ HandlersSound' /\ StoreSound'
  BY <1>1, TasksFrame, HandlersFrame, StoreFrame
<1>3. BusSound' /\ (main'.stop = main.stop => StoppedAreOut')
  BY <1>1, BusFrame DEF BusSound
<1>4. TypeOK'
  BY <1>1 DEF TypeOK
<1>5. QED
  BY <1>2, <1>3, <1>4

LEMMA SignalStep == ASSUME IInv, Signal PROVE IInv'
<1>1. /\ TypeOK /\ CleanUpSound /\ DeletesInOrder
      /\ main.pc = "serving" /\ main' = [main EXCEPT !.pc = "list"]
      /\ UNCHANGED <<CleanUpVars, db, clock, tasks, faults, raced, blind>>
  BY DEF Signal, IInv
<1>2. /\ main' = [pc |-> "list", phase |-> main.phase, todo |-> main.todo,
                  result |-> main.result, stop |-> main.stop]
      /\ main' \in Main /\ main'.stop = main.stop
  BY <1>1, MainFacts DEF Main
<1>3. {raced', blind'} \subseteq BOOLEAN /\ faults' \in Nat
  BY <1>1 DEF TypeOK
<1>4. CleanUpSound'
  BY <1>1, <1>2 DEF CleanUpSound, CleanUpVars, Kind
<1>5. DeletesInOrder'
  BY <1>1, <1>2 DEF DeletesInOrder, Stored
<1>6. QED
  BY <1>1, <1>2, <1>3, <1>4, <1>5, MainFrame DEF IInv

LEMMA ListKindStep == ASSUME IInv, ListKind PROVE IInv'
<1>1. /\ TypeOK /\ CleanUpSound /\ DeletesInOrder /\ main.pc = "list"
      /\ UNCHANGED <<CleanUpVars, db, clock, tasks>>
  BY DEF ListKind, IInv
<1>2. {raced, blind} \subseteq BOOLEAN /\ faults \in Nat
  BY <1>1 DEF TypeOK
<1>3. /\ main.phase <= Len(Phases) /\ main.result = "none" /\ main.todo = {}
      /\ closed = {} /\ \A k \in Kinds : size[k] = Len(Subscribers[k])
  BY <1>1 DEF CleanUpSound
<1>4. ASSUME main' = [main EXCEPT !.pc = "delete", !.todo = OfKind(Kind)],
             raced' = (raced \/ \E o \in OfKind(Kind) : Leaving(o)),
             UNCHANGED <<faults, blind>>
      PROVE  IInv'
  <2>1. /\ main' = [pc |-> "delete", phase |-> main.phase, todo |-> OfKind(Kind),
                    result |-> main.result, stop |-> main.stop]
        /\ OfKind(Kind) \subseteq Obj /\ main' \in Main /\ main'.stop = main.stop
    BY <1>1, <1>4, MainFacts DEF Main, OfKind
  <2>2. {raced', blind'} \subseteq BOOLEAN /\ faults' \in Nat
    BY <1>2, <1>4
  <2>3. CleanUpSound'
    BY <1>1, <1>3, <2>1 DEF CleanUpSound, CleanUpVars, Kind, OfKind
  <2>4. ASSUME ~raced', ~blind' PROVE \A o \in main'.todo : db'[o].oper = "Present"
    <3>1. \A o \in OfKind(Kind) : o \in Obj /\ Stored(o) /\ ~Leaving(o)
      BY <1>4, <2>4 DEF OfKind
    <3>2. \A o \in OfKind(Kind) : db[o].oper = "Present"
      BY <1>1, <3>1, ObjectFacts DEF Stored, Leaving
    <3>3. QED
      BY <1>1, <2>1, <3>2
  <2>5. DeletesInOrder'
    BY <1>1, <1>3, <1>4, <2>1, <2>4 DEF DeletesInOrder, Stored
  <2>6. QED
    BY <1>1, <2>1, <2>2, <2>3, <2>5, MainFrame DEF IInv
<1>5. ASSUME Fault, blind' = TRUE, main' = [main EXCEPT !.pc = "wait"], UNCHANGED raced
      PROVE  IInv'
  <2>1. /\ main' = [pc |-> "wait", phase |-> main.phase, todo |-> main.todo,
                    result |-> main.result, stop |-> main.stop]
        /\ main' \in Main /\ main'.stop = main.stop
    BY <1>1, <1>5, MainFacts DEF Main
  <2>2. {raced', blind'} \subseteq BOOLEAN /\ faults' \in Nat
    BY <1>2, <1>5 DEF Fault
  <2>3. CleanUpSound'
    BY <1>1, <1>3, <2>1 DEF CleanUpSound, CleanUpVars, Kind
  <2>4. DeletesInOrder'
    BY <1>5 DEF DeletesInOrder
  <2>5. QED
    BY <1>1, <2>1, <2>2, <2>3, <2>4, MainFrame DEF IInv
<1>6. QED
  BY <1>4, <1>5 DEF ListKind

LEMMA AllAskedStep == ASSUME IInv, AllAsked PROVE IInv'
<1>1. /\ TypeOK /\ CleanUpSound /\ DeletesInOrder /\ main.pc = "delete" /\ main.todo = {}
      /\ main' = [main EXCEPT !.pc = "wait"]
      /\ UNCHANGED <<CleanUpVars, db, clock, tasks, faults, raced, blind>>
  BY DEF AllAsked, IInv
<1>2. /\ main' = [pc |-> "wait", phase |-> main.phase, todo |-> main.todo,
                  result |-> main.result, stop |-> main.stop]
      /\ main' \in Main /\ main'.stop = main.stop
  BY <1>1, MainFacts DEF Main
<1>3. {raced', blind'} \subseteq BOOLEAN /\ faults' \in Nat
  BY <1>1 DEF TypeOK
<1>4. CleanUpSound'
  BY <1>1, <1>2 DEF CleanUpSound, CleanUpVars, Kind
<1>5. DeletesInOrder'
  BY <1>1, <1>2 DEF DeletesInOrder, Stored
<1>6. QED
  BY <1>1, <1>2, <1>3, <1>4, <1>5, MainFrame DEF IInv

LEMMA WaitExpiresStep == ASSUME IInv, WaitExpires PROVE IInv'
<1>1. /\ TypeOK /\ CleanUpSound /\ DeletesInOrder /\ main.pc = "wait"
      /\ main' = [main EXCEPT !.pc = "unsubscribe", !.result = "late"]
      /\ UNCHANGED <<CleanUpVars, db, clock, tasks, faults, raced, blind>>
  BY DEF WaitExpires, IInv
<1>2. /\ main' = [pc |-> "unsubscribe", phase |-> main.phase, todo |-> main.todo,
                  result |-> "late", stop |-> main.stop]
      /\ main' \in Main /\ main'.stop = main.stop
  BY <1>1, MainFacts DEF Main, Results
<1>3. {raced', blind'} \subseteq BOOLEAN /\ faults' \in Nat
  BY <1>1 DEF TypeOK
<1>4. CleanUpSound'
  BY <1>1, <1>2 DEF CleanUpSound, CleanUpVars, Kind
<1>5. DeletesInOrder'
  BY <1>1, <1>2 DEF DeletesInOrder, Stored
<1>6. QED
  BY <1>1, <1>2, <1>3, <1>4, <1>5, MainFrame DEF IInv

LEMMA ExitStep == ASSUME IInv, Exit PROVE IInv'
<1>1. /\ TypeOK /\ CleanUpSound /\ DeletesInOrder /\ main.pc = "unsubscribe"
      /\ main' = [main EXCEPT !.pc = "exited"]
      /\ UNCHANGED <<CleanUpVars, db, clock, tasks, faults, raced, blind>>
  BY DEF Exit, IInv
<1>2. /\ main' = [pc |-> "exited", phase |-> main.phase, todo |-> main.todo,
                  result |-> main.result, stop |-> main.stop]
      /\ main' \in Main /\ main'.stop = main.stop
  BY <1>1, MainFacts DEF Main
<1>3. {raced', blind'} \subseteq BOOLEAN /\ faults' \in Nat
  BY <1>1 DEF TypeOK
<1>4. CleanUpSound'
  BY <1>1, <1>2 DEF CleanUpSound, CleanUpVars, Kind
<1>5. DeletesInOrder'
  BY <1>1, <1>2 DEF DeletesInOrder, Stored
<1>6. QED
  BY <1>1, <1>2, <1>3, <1>4, <1>5, MainFrame DEF IInv

LEMMA NextStopStep == ASSUME IInv, NextStop PROVE IInv'
<1>1. /\ TypeOK /\ CleanUpSound /\ DeletesInOrder /\ StoppedAreOut /\ main.pc = "unsubscribe"
      /\ main.stop <= Len(Stops) /\ Subscribed(Stops[main.stop]) = {}
      /\ main' = [main EXCEPT !.stop = @ + 1]
      /\ UNCHANGED <<CleanUpVars, db, clock, tasks, faults, raced, blind>>
  BY DEF NextStop, IInv
<1>2. /\ main' = [pc |-> main.pc, phase |-> main.phase, todo |-> main.todo,
                  result |-> main.result, stop |-> main.stop + 1]
      /\ main' \in Main
  BY <1>1, MainFacts DEF Main
<1>3. {raced', blind'} \subseteq BOOLEAN /\ faults' \in Nat
  BY <1>1 DEF TypeOK
<1>4. CleanUpSound'
  BY <1>1, <1>2 DEF CleanUpSound, CleanUpVars, Kind
<1>5. DeletesInOrder'
  BY <1>1, <1>2 DEF DeletesInOrder, Stored
<1>6. StoppedAreOut'
  <2>1. \A m : Subscribed(m)' = Subscribed(m)
    BY <1>1 DEF Subscribed, SubsNow, CleanUpVars
  <2>2. \A a \in 1 .. main'.stop - 1 : a \in 1 .. main.stop - 1 \/ a = main.stop
    BY <1>1, <1>2, MainFacts
  <2>3. QED
    BY <1>1, <2>1, <2>2 DEF StoppedAreOut
<1>7. QED
  BY <1>1, <1>2, <1>3, <1>4, <1>5, <1>6, MainFrame DEF IInv

LEMMA WaitEndsStep == ASSUME IInv, WaitEnds PROVE IInv'
<1>1. /\ TypeOK /\ CleanUpSound /\ DeletesInOrder /\ main.pc = "wait" /\ NextKind
      /\ UNCHANGED <<CleanUpVars, db, clock, tasks, raced>>
  BY DEF WaitEnds, IInv
<1>2. {raced, blind} \subseteq BOOLEAN /\ faults \in Nat
  BY <1>1 DEF TypeOK
<1>3. /\ main.phase <= Len(Phases) /\ main.result = "none" /\ main.todo = {}
      /\ closed = {} /\ \A k \in Kinds : size[k] = Len(Subscribers[k])
  BY <1>1 DEF CleanUpSound
<1>4. \/ Gone(Kind) /\ UNCHANGED <<faults, blind>>
      \/ Fault /\ blind' = TRUE
  BY DEF WaitEnds
<1>5. {raced', blind'} \subseteq BOOLEAN /\ faults' \in Nat
  <2>1. faults' \in Nat
    BY <1>2, <1>4 DEF Fault
  <2>2. blind' = blind \/ blind' = TRUE
    BY <1>4
  <2>3. raced' = raced
    BY <1>1
  <2>4. QED
    BY <1>2, <2>1, <2>2, <2>3
<1>6. /\ main' \in Main /\ main'.stop = main.stop /\ main'.todo = {}
      /\ main'.phase = main.phase + 1
      /\ \/ main'.pc = "unsubscribe" /\ main'.result = "nil" /\ main.phase = Len(Phases)
         \/ main'.pc = "list" /\ main'.result = "none" /\ main.phase # Len(Phases)
  <2>1. CASE main.phase = Len(Phases)
    <3>1. main' = [pc |-> "unsubscribe", phase |-> main.phase + 1, todo |-> main.todo,
                   result |-> "nil", stop |-> main.stop]
      BY <1>1, <2>1, MainFacts DEF NextKind
    <3>2. QED
      BY <1>1, <1>3, <2>1, <3>1, MainFacts DEF Main, Results
  <2>2. CASE main.phase # Len(Phases)
    <3>1. main' = [pc |-> "list", phase |-> main.phase + 1, todo |-> main.todo,
                   result |-> main.result, stop |-> main.stop]
      BY <1>1, <2>2, MainFacts DEF NextKind
    <3>2. main.phase + 1 \in 1 .. Len(Phases) + 1
      BY <1>1, <1>3, MainFacts
    <3>3. QED
      BY <1>1, <1>3, <2>2, <3>1, <3>2, MainFacts DEF Main
  <2>3. QED
    BY <2>1, <2>2
<1>7. CleanUpSound'
  <2>1. main'.pc = "list" => main'.phase <= Len(Phases)
    BY <1>1, <1>3, <1>6, MainFacts
  <2>2. main'.result = "nil" => main'.phase = Len(Phases) + 1
    BY <1>6
  <2>3. UNCHANGED <<size, closed>>
    BY <1>1 DEF CleanUpVars
  <2>4. QED
    BY <1>3, <1>6, <2>1, <2>2, <2>3 DEF CleanUpSound
<1>8. DeletesInOrder'
  <2>1. SUFFICES ASSUME ~raced', ~blind', NEW o \in Obj, Stored(o)
                 PROVE  \E i \in main.phase + 1 .. Len(Phases) : Phases[i] = KindOf[o]
    BY <1>1, <1>6 DEF DeletesInOrder, Stored
  <2>2. Gone(Kind) /\ ~blind /\ ~raced
    BY <1>1, <1>4, <2>1
  <2>3. PICK i \in main.phase .. Len(Phases) : Phases[i] = KindOf[o]
    BY <1>1, <2>1, <2>2 DEF DeletesInOrder
  <2>4. i # main.phase
    BY <2>1, <2>2, <2>3 DEF Gone, OfKind, Kind
  <2>5. i \in main.phase + 1 .. Len(Phases)
    BY <1>1, <2>3, <2>4, MainFacts
  <2>6. QED
    BY <2>3, <2>5
<1>9. QED
  BY <1>1, <1>5, <1>6, <1>7, <1>8, MainFrame DEF IInv

\* An object of the phase is refused only if the order of the phases is broken:
\* what refers to it is gone, and its kind has its subscribers.
LEMMA ListedCanBeDeleted ==
    ASSUME IInv, main.pc = "delete", NEW o \in main.todo, ~raced, ~blind
    PROVE  CanDelete(o)
<1>1. /\ TypeOK /\ CleanUpSound /\ DeletesInOrder /\ StoreSound /\ o \in Obj
      /\ main.phase \in Nat /\ main.phase >= 1 /\ Len(Phases) \in Nat
  <2>1. TypeOK /\ CleanUpSound /\ DeletesInOrder /\ StoreSound
    BY DEF IInv
  <2>2. QED
    BY <2>1, MainFacts
<1>2. KindOf[o] = Phases[main.phase] /\ main.phase <= Len(Phases)
  BY <1>1 DEF CleanUpSound, Kind
<1>3. Stored(o)
  BY <1>1 DEF DeletesInOrder, Stored
<1>4. ~InUse(o)
  <2>1. SUFFICES ASSUME NEW p \in Obj, Stored(p), o \in Uses[p]
                 PROVE  FALSE
    BY DEF InUse
  <2>2. PICK i \in main.phase .. Len(Phases) : Phases[i] = KindOf[p]
    BY <1>1, <2>1 DEF DeletesInOrder
  <2>3. DOMAIN Phases = 1 .. Len(Phases)
    BY ShutdownAssumption
  <2>4. i \in DOMAIN Phases /\ main.phase \in DOMAIN Phases
    BY <1>1, <1>2, <2>3
  <2>5. i < main.phase
    BY <1>1, <1>2, <2>1, <2>2, <2>4, ReferencesFollowPhases
  <2>6. QED
    BY <1>1, <2>2, <2>5
<1>5. size[KindOf[o]] > 0
  <2>1. KindOf[o] \in Kinds /\ size[KindOf[o]] = Len(Subscribers[KindOf[o]])
    BY <1>1, KindFacts DEF CleanUpSound
  <2>2. db[o].comps \in Components /\ db[o].comps # <<>>
        /\ Range(db[o].comps) \subseteq Range(Subscribers[KindOf[o]])
    BY <1>1, <1>3, ObjectFacts DEF StoreSound, ComponentsSound
  <2>3. 1 \in DOMAIN db[o].comps
    BY <2>2, ComponentsFacts
  <2>4. db[o].comps[1] \in Range(Subscribers[KindOf[o]])
    BY <2>2, <2>3 DEF Range
  <2>5. QED
    BY <2>1, <2>4, FewSubscribers DEF Range
<1>6. QED
  BY <1>3, <1>4, <1>5 DEF CanDelete

LEMMA DeleteListedStep == ASSUME IInv, NEW o \in Obj, DeleteListed(o)
                          PROVE  IInv' /\ \A p \in Obj : Stored(p) => Stored(p)'
<1>1. /\ TypeOK /\ CleanUpSound /\ DeletesInOrder /\ main.pc = "delete" /\ o \in main.todo
      /\ HandlersSound /\ BusSound /\ StoppedAreOut
      /\ UNCHANGED <<CleanUpVars, raced, blind>>
      /\ UNCHANGED <<list, size, closed, hdl, tm, alive, calls, down>>
  BY DEF DeleteListed, CleanUpVars, IInv
<1>2. {raced', blind'} \subseteq BOOLEAN /\ faults' \in Nat
  BY <1>1 DEF TypeOK, DeleteListed, Fault
<1>3. CASE CanDelete(o) /\ Delete(o) /\ main' = [main EXCEPT !.todo = @ \ {o}]
  <2>1. Delete(o) /\ main' = [main EXCEPT !.todo = @ \ {o}]
    BY <1>3
  <2>2. /\ main' = [pc |-> main.pc, phase |-> main.phase, todo |-> main.todo \ {o},
                    result |-> main.result, stop |-> main.stop]
        /\ main' \in Main
    BY <1>1, <2>1, MainFacts DEF Main
  <2>3. UNCHANGED <<busVars, tm, down>>
    BY <1>1 DEF busVars
  <2>4. /\ db' \in [Obj -> Object] /\ clock' \in [Obj -> Nat] /\ StoreSound' /\ TasksSound'
        /\ \A p \in Obj \ {o} : db'[p] = db[p]
        /\ db'[o].oper = "ToBeDeleted" /\ Stored(o)
    BY <1>3, <2>1, <2>3, DeleteStep
  <2>5. BusSound' /\ StoppedAreOut' /\ HandlersSound'
    BY <1>1, <2>2, BusFrame, HandlersFrame
  <2>6. CleanUpSound'
    BY <1>1, <2>2 DEF CleanUpSound, Kind
  <2>7. \A p \in Obj : Stored(p)' <=> Stored(p)
    BY <2>4 DEF Stored
  <2>8. DeletesInOrder'
    <3>1. main.todo \ {o} \subseteq Obj \ {o}
      BY <1>1, MainFacts
    <3>2. \A p \in main.todo \ {o} : db'[p] = db[p]
      BY <2>4, <3>1
    <3>3. QED
      BY <1>1, <2>2, <2>7, <3>2 DEF DeletesInOrder
  <2>9. tasks' \subseteq Task
    BY <2>4 DEF TasksSound, TaskOK
  <2>10. /\ closed' \subseteq Channel /\ hdl' \in [Channel -> Job]
         /\ \A k \in Kinds : DOMAIN list'[k] = DOMAIN Subscribers[k] /\ size'[k] \in 0 .. Len(Subscribers[k])
         /\ {alive'} \subseteq BOOLEAN /\ calls' \in Nat
         /\ tm' \in [pc : {"idle", "publish", "wait"}, task : Task]
         /\ down' \in [Obj -> SUBSET Modules]
    BY <1>1 DEF TypeOK
  <2>11. TypeOK'
    BY <1>2, <2>2, <2>4, <2>9, <2>10 DEF TypeOK, TasksSound, TaskOK
  <2>12. QED
    BY <2>4, <2>5, <2>6, <2>7, <2>8, <2>11 DEF IInv
<1>4. ASSUME NEW r \in {"refused", "error"}, GivesUp(r), UNCHANGED <<db, clock, tasks>>,
             r = "refused" => ~CanDelete(o)
      PROVE  IInv' /\ \A p \in Obj : Stored(p) => Stored(p)'
  <2>1. main' = [main EXCEPT !.pc = "unsubscribe", !.todo = {}, !.result = r]
    BY <1>4 DEF GivesUp
  <2>2. /\ main' = [pc |-> "unsubscribe", phase |-> main.phase, todo |-> {},
                    result |-> r, stop |-> main.stop]
        /\ main' \in Main /\ main'.stop = main.stop
    BY <1>1, <2>1, MainFacts DEF Main, Results
  <2>3. CleanUpSound'
    BY <1>1, <2>2 DEF CleanUpSound
  <2>4. DeletesInOrder'
    <3>1. ~raced /\ ~blind => r # "refused"
      BY <1>1, <1>4, ListedCanBeDeleted DEF DeletesInOrder
    <3>2. \A p \in Obj : Stored(p)' <=> Stored(p)
      BY <1>4 DEF Stored
    <3>3. main'.todo = {} /\ main'.phase = main.phase /\ main'.result = r
      BY <2>2
    <3>4. QED
      BY <1>1, <3>1, <3>2, <3>3 DEF DeletesInOrder
  <2>5. QED
    BY <1>1, <1>2, <1>4, <2>2, <2>3, <2>4, MainFrame DEF IInv, Stored
<1>5. QED
  BY <1>3, <1>4 DEF DeleteListed

\* The first subscriber goes, the others move up.
LEMMA UnsubscribeStep == ASSUME IInv, NEW k \in Kinds, Unsubscribe(k)
                         PROVE  IInv' /\ UNCHANGED db
<1> DEFINE m == Stops[main.stop]
           n == Len(Subscribers[k])
           rest == Removed(k, m)
<1>1. /\ TypeOK /\ TasksSound /\ BusSound /\ StoppedAreOut /\ HandlersSound
      /\ CleanUpSound /\ StoreSound /\ DeletesInOrder
      /\ main.pc = "unsubscribe" /\ main.stop <= Len(Stops)
      /\ k \in Subscribed(m) /\ ~hdl[<<m, k>>].busy
      /\ closed' = closed \cup {<<m, k>>} /\ list' = [list EXCEPT ![k] = rest]
      /\ size' = [size EXCEPT ![k] = @ - 1]
      /\ UNCHANGED <<db, clock, hdl, tasks, tm, main, alive, calls, faults, raced, blind, down>>
  BY DEF Unsubscribe, IInv
<1>2. /\ size[k] > 0 /\ list[k][1] = m /\ m \in Range(Subscribers[k])
      /\ size[k] \in 0 .. n /\ size[k] \in Nat /\ n \in Nat
  BY <1>1, StopsTheFirst, ListFacts, FewSubscribers
<1>3. /\ rest \in [DOMAIN Subscribers[k] -> Range(Subscribers[k])]
      /\ \A j \in 1 .. size[k] - 1 : rest[j] = list[k][j + 1]
  BY <1>1, RemovedFacts
<1> HIDE DEF rest
<1>4. /\ DOMAIN list' = Kinds /\ DOMAIN size' = Kinds
      /\ list'[k] = rest /\ size'[k] = size[k] - 1
      /\ \A i \in Kinds \ {k} : list'[i] = list[i] /\ size'[i] = size[i]
  BY <1>1 DEF BusSound
<1>5. BusSound'
  <2>1. ASSUME NEW j \in 1 .. size[k] - 1
        PROVE  rest[j] = Subscribers[k][n - (size[k] - 1) + j]
    <3>1. rest[j] = list[k][j + 1] /\ j + 1 \in 1 .. size[k]
      BY <1>2, <1>3
    <3>2. list[k][j + 1] = Subscribers[k][n - size[k] + (j + 1)]
      BY <1>1, <3>1 DEF BusSound
    <3>3. n - size[k] + (j + 1) = n - (size[k] - 1) + j
      BY <1>2
    <3>4. QED
      BY <3>1, <3>2, <3>3
  <2>2. /\ list'[k] \in [DOMAIN Subscribers[k] -> Range(Subscribers[k])]
        /\ \A i \in 1 .. size'[k] : list'[k][i] = Subscribers[k][Len(Subscribers[k]) - size'[k] + i]
    BY <1>3, <1>4, <2>1
  <2>3. \A i \in Kinds \ {k} :
          /\ list'[i] \in [DOMAIN Subscribers[i] -> Range(Subscribers[i])]
          /\ \A j \in 1 .. size'[i] : list'[i][j] = Subscribers[i][Len(Subscribers[i]) - size'[i] + j]
    BY <1>1, <1>4 DEF BusSound
  <2>4. QED
    BY <1>4, <2>2, <2>3 DEF BusSound
<1>6. StoppedAreOut'
  <2>1. Range(SubsNow(k)') \subseteq Range(SubsNow(k))
    <3>1. /\ DOMAIN Subscribers[k] = 1 .. n /\ Range(Subscribers[k]) \subseteq Modules
          /\ Subscribers[k] \in Seq(Modules)
      BY <1>2, FewSubscribers DEF Range
    <3>2. rest \in Seq(Modules) /\ Len(rest) = n /\ size[k] - 1 \in Nat /\ size[k] - 1 <= Len(rest)
      BY <1>2, <1>3, <3>1
    <3>3. /\ DOMAIN SubSeq(rest, 1, size[k] - 1) = 1 .. size[k] - 1
          /\ \A i \in 1 .. size[k] - 1 : SubSeq(rest, 1, size[k] - 1)[i] = rest[i]
      BY <3>2, PrefixFacts
    <3>4. SubsNow(k)' = SubSeq(rest, 1, size[k] - 1)
      BY <1>4 DEF SubsNow
    <3>5. \A i \in 1 .. size[k] - 1 : /\ i + 1 \in 1 .. size[k]
                                      /\ SubsNow(k)'[i] = SubsNow(k)[i + 1]
      BY <1>1, <1>2, <1>3, <3>3, <3>4, SubsNowFacts
    <3>6. DOMAIN SubsNow(k) = 1 .. size[k] /\ DOMAIN SubsNow(k)' = 1 .. size[k] - 1
      BY <1>1, <3>3, <3>4, SubsNowFacts
    <3>7. QED
      BY <3>5, <3>6 DEF Range
  <2>2. \A i \in Kinds : Range(SubsNow(i)') \subseteq Range(SubsNow(i))
    BY <1>4, <2>1 DEF SubsNow
  <2>3. \A a : Subscribed(a)' \subseteq Subscribed(a)
    BY <2>2 DEF Subscribed
  <2>4. QED
    BY <1>1, <2>3 DEF StoppedAreOut
<1>7. HandlersSound'
  BY <1>1 DEF HandlersSound
<1>8. CleanUpSound'
  BY <1>1 DEF CleanUpSound, Kind
<1>9. StoreSound'
  <2>1. SUFFICES ASSUME NEW o \in Obj
                 PROVE  (Stored(o) => ComponentsSound(o))' /\ (Leaving(o) => TornDownOrStuck(o))'
    BY DEF StoreSound
  <2>2. (Stored(o) => ComponentsSound(o)) /\ (Leaving(o) => TornDownOrStuck(o))
    BY <1>1 DEF StoreSound
  <2>3. (Stored(o)' <=> Stored(o)) /\ (Leaving(o)' <=> Leaving(o))
    BY <1>1 DEF Stored, Leaving
  <2>4. TornDownOrStuck(o) => TornDownOrStuck(o)'
    BY <1>1 DEF TornDownOrStuck
  <2>5. ASSUME Stored(o) PROVE ComponentsSound(o)'
    <3>1. ComponentsSound(o)
      BY <2>2, <2>5
    <3>2. CASE KindOf[o] # k
      <4>1. list'[KindOf[o]] = list[KindOf[o]] /\ size'[KindOf[o]] = size[KindOf[o]]
        BY <1>4, <3>2, KindFacts
      <4>2. QED
        BY <1>1, <3>1, <4>1 DEF ComponentsSound
    <3>3. CASE KindOf[o] = k
      <4>1. Len(db[o].comps) \in Nat
        BY <1>1, ObjectFacts, ComponentsFacts
      <4>2. <<db[o].comps[1], k>> \in closed'
        BY <1>1, <1>2, <3>1, <3>3, <4>1 DEF ComponentsSound
      <4>3. Len(db[o].comps) > size'[k]
        BY <1>2, <1>4, <3>1, <3>3, <4>1 DEF ComponentsSound
      <4>4. QED
        BY <1>1, <1>2, <1>4, <3>1, <3>3, <4>1, <4>2, <4>3 DEF ComponentsSound
    <3>4. QED
      BY <3>2, <3>3
  <2>6. QED
    BY <2>2, <2>3, <2>4, <2>5
<1>10. DeletesInOrder'
  BY <1>1, OrderFrame
<1>11. TasksSound'
  BY <1>1, TasksFrame
<1>12. TypeOK'
  <2>1. <<m, k>> \in Channel
    BY <1>2, ChannelFacts
  <2>2. closed' \subseteq Channel
    BY <1>1, <2>1 DEF TypeOK
  <2>3. \A i \in Kinds : DOMAIN list'[i] = DOMAIN Subscribers[i] /\ size'[i] \in 0 .. Len(Subscribers[i])
    BY <1>1, <1>2, <1>3, <1>4 DEF TypeOK
  <2>4. QED
    BY <1>1, <2>2, <2>3 DEF TypeOK
<1>13. QED
  BY <1>1, <1>5, <1>6, <1>7, <1>8, <1>9, <1>10, <1>11, <1>12 DEF IInv

-----------------------------------------------------------------------------
(* The theorems *)

LEMMA StutterStep == ASSUME IInv, UNCHANGED vars PROVE IInv' /\ UNCHANGED db
<1>1. /\ TypeOK /\ TasksSound /\ BusSound /\ StoppedAreOut /\ HandlersSound
      /\ CleanUpSound /\ StoreSound /\ DeletesInOrder
      /\ UNCHANGED <<db, clock, list, size, closed, hdl, tasks, tm, main, alive, calls, faults,
                     raced, blind, down>>
  BY DEF IInv, vars, busVars
<1>2. /\ TasksSound' /\ BusSound' /\ StoppedAreOut' /\ HandlersSound'
      /\ CleanUpSound' /\ StoreSound' /\ DeletesInOrder'
  BY <1>1, TasksFrame, BusFrame, HandlersFrame, CleanUpFrame, StoreFrame, OrderFrame
<1>3. TypeOK'
  BY <1>1 DEF TypeOK
<1>4. QED
  BY <1>1, <1>2, <1>3 DEF IInv

\* An object that leaves the store in a step.
Leaves(o) == Stored(o) /\ ~Stored(o)'

LEMMA InvariantStep ==
    ASSUME IInv, [Next]_vars
    PROVE  IInv' /\ \A o \in Obj : Leaves(o) => Range(db[o].comps) \subseteq down'[o]
<1>1. ASSUME NEW o \in Obj, ClientCreates(o)
      PROVE  IInv' /\ \A p \in Obj : ~Leaves(p)
  <2>1. db' = [db EXCEPT ![o] = [oper |-> "Present", ver |-> clock[o] + 1,
                                 comps |-> SubsNow(KindOf[o]), ok |-> {}]]
    BY <1>1 DEF ClientCreates
  <2>2. db \in [Obj -> Object]
    BY DEF IInv, TypeOK
  <2>3. \A p \in Obj : ~Leaves(p)
    BY <2>1, <2>2 DEF Leaves, Stored
  <2>4. QED
    BY <1>1, <2>3, ClientCreatesStep
<1>2. ASSUME NEW o \in Obj, ClientDeletes(o)
      PROVE  IInv' /\ \A p \in Obj : ~Leaves(p)
  <2>1. Call /\ CanDelete(o) /\ Delete(o) /\ UNCHANGED down
    BY <1>2 DEF ClientDeletes
  <2>2. db'[o].oper = "ToBeDeleted" /\ \A p \in Obj \ {o} : db'[p] = db[p]
    BY <2>1, CallFrame, DeleteStep DEF busVars
  <2>3. \A p \in Obj : ~Leaves(p)
    BY <2>2 DEF Leaves, Stored
  <2>4. QED
    BY <1>2, <2>3, ClientDeletesStep
<1>3. ASSUME TaskStep PROVE IInv' /\ \A p \in Obj : ~Leaves(p)
  <2>1. IInv'
    BY <1>3, PublishStep, TimeoutStep DEF TaskStep
  <2>2. UNCHANGED db
    BY <1>3 DEF TaskStep, Publish, Timeout, TaskVars
  <2>3. QED
    BY <2>1, <2>2 DEF Leaves, Stored
<1>4. ASSUME NEW s \in Channel, HandlerStep(s)
      PROVE  IInv' /\ \A o \in Obj : Leaves(o) => Range(db[o].comps) \subseteq down'[o]
  BY <1>4, HandlerSucceedsStep, HandlerFailsStep DEF HandlerStep, Leaves
<1>5. ASSUME Signal PROVE IInv' /\ \A p \in Obj : ~Leaves(p)
  BY <1>5, SignalStep DEF Signal, Leaves, Stored
<1>6. ASSUME CleanUpStep PROVE IInv' /\ \A p \in Obj : ~Leaves(p)
  <2>1. CASE ListKind \/ AllAsked \/ WaitEnds \/ WaitExpires \/ NextStop \/ Exit
    <3>1. IInv'
      BY <2>1, ListKindStep, AllAskedStep, WaitEndsStep, WaitExpiresStep, NextStopStep, ExitStep
    <3>2. UNCHANGED db
      BY <2>1 DEF ListKind, AllAsked, WaitEnds, WaitExpires, NextStop, Exit
    <3>3. QED
      BY <3>1, <3>2 DEF Leaves, Stored
  <2>2. CASE \E o \in Obj : DeleteListed(o)
    BY <2>2, DeleteListedStep DEF Leaves
  <2>3. CASE \E k \in Kinds : Unsubscribe(k)
    BY <2>3, UnsubscribeStep DEF Leaves, Stored
  <2>4. QED
    BY <1>6, <2>1, <2>2, <2>3 DEF CleanUpStep
<1>7. CASE UNCHANGED vars
  BY <1>7, StutterStep DEF Leaves, Stored
<1>8. QED
  BY <1>1, <1>2, <1>3, <1>4, <1>5, <1>6, <1>7 DEF Next

LEMMA Invariant == Spec => []IInv
<1>1. Init => IInv
  BY InitInvariant
<1>2. IInv /\ [Next]_vars => IInv'
  BY InvariantStep
<1>3. QED
  BY <1>1, <1>2, PTL DEF Spec

\* The store, the bus, the handlers and cleanUp keep their types whatever
\* clients do while the process ends: infradb.go's objects, the slices of
\* eventbus.go, the TaskManager and the loop of DeleteAllResources.
THEOREM ShutdownTypeCorrect == Spec => []TypeOK
<1>1. IInv => TypeOK
  BY DEF IInv
<1>2. QED
  BY <1>1, Invariant, PTL

\* When DeleteAllResources returns without an error the store is empty, unless
\* a client interfered or a store error was taken for an empty list.
THEOREM CleanUpLeavesNothing == Spec => []NothingRemains
<1>1. IInv => NothingRemains
  <2>1. SUFFICES ASSUME IInv, main.result = "nil", ~raced, ~blind, NEW o \in Obj, Stored(o)
                 PROVE  FALSE
    BY DEF NothingRemains
  <2>2. TypeOK /\ main.phase = Len(Phases) + 1
    BY <2>1 DEF IInv, CleanUpSound
  <2>3. \E i \in main.phase .. Len(Phases) : TRUE
    BY <2>1 DEF IInv, DeletesInOrder
  <2>4. QED
    BY <2>2, <2>3, MainFacts
<1>2. QED
  BY <1>1, Invariant, PTL

\* DeleteVrf, DeleteLB, DeleteBP and DeleteSvi refuse DeleteAllResources a
\* deletion only when a client interfered or a store error hid an object that
\* refers to it; what they return when the store itself fails is told apart.
THEOREM CleanUpIsNotRefused == Spec => []RefusedOnlyByOthers
<1>1. IInv => RefusedOnlyByOthers
  BY DEF IInv, DeletesInOrder, RefusedOnlyByOthers
<1>2. QED
  BY <1>1, Invariant, PTL

\* An object that leaves the store has been torn down by every module on its
\* list, although its components are set to Pending by position and its tasks
\* are sent to places of an array that UnsubscribeModule rewrites under them.
THEOREM NothingLeavesBeforeItsTearDown == Spec => GoneIsTornDown
<1>1. IInv /\ [Next]_vars =>
        [\A o \in Obj : Stored(o) /\ ~Stored(o)' => Range(db[o].comps) \subseteq down'[o]]_vars
  BY InvariantStep DEF Leaves
<1>2. QED
  BY <1>1, Invariant, PTL DEF Spec, GoneIsTornDown
=============================================================================
