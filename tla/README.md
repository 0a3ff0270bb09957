# A verification development for opi-evpn-bridge

TLA+ modules that model the OPI EVPN bridge, from its gRPC servers to what it
configures and watches in the kernel, TLC configurations that model-check them
on small instances, and theorems about them that TLAPS proves for every instance. Paths below are relative to the
repository.

    tlc -workers 2 -config Realization_retry.cfg MCRealization.tla
    tlapm RealizationProofs.tla    # and OrderProofs, InfraDBProofs, DevicesProofs,
                                   # NetlinkProofs, ShutdownProofs, ListingProofs, SequenceFacts

## 1. The system

The bridge offers gRPC servers for four kinds of EVPN objects: VRFs, SVIs,
logical bridges (LB) and bridge ports (BP). A request becomes an *intent*: an
object with a name, a specification and a resource version, stored in InfraDB.
Subscribed modules realise the intent in the kernel and in FRR, one after the
other, driven by a TaskManager.

    gRPC client
       |  Create / Delete / Update / Get / List
    gRPC servers (pkg/vrf, pkg/bridge, pkg/port, pkg/svi)
       |  calls
    InfraDB (pkg/infradb) --- store (pkg/storage: redis or in memory)
       |  CreateTask                     ^  UpdateXStatus, GetX
    TaskManager (taskmanager)            |
       |  Publish (event bus)            |
    modules LGM, LCI, FRR ---------------+
       |  netlink, FRR telnet
    kernel, FRR  --->  netlink watcher (pkg/netlink)

### Inventory

| Component | State | Operations | Interactions | What is hard |
|---|---|---|---|---|
| **TaskManager** `pkg/infradb/taskmanager` | task channel (200 places), status and replay channels (unbuffered), the task in hand, per-task `subIndex` and timer | `CreateTask`, `StatusUpdated`, `ReplayFinished`, the loop `processTasks` | called by InfraDB under its lock; publishes on the event bus; requeues through `time.AfterFunc` | lost, late and stale statuses; timeouts that overtake answers; index arithmetic on requeue; waiting for a replay |
| **Event bus** `subscriberframework/eventbus` | subscribers per event type, sorted by priority; one unbuffered channel and goroutine per subscriber | `StartSubscriber`, `Subscribe`, `Publish`, `UnsubscribeModule` | `Publish` is a non-blocking send: a busy subscriber refuses | refused notifications; unsubscribing while tasks hold the subscriber slices |
| **Action bus** `subscriberframework/actionbus` | as above, per action | `Publish`, and a blocking wait for the handler's error | the `preReplay` round trip of a replay | a busy or absent handler |
| **InfraDB** `pkg/infradb/infradb.go` | objects by name, per-kind name indexes, VNI map `vpns`, routing-table numbers | Create, Delete, Update, Get, GetAll and UpdateStatus of each kind, `DeleteAllResources` | every operation under `globalLock`; objects refer to each other (SVI to VRF and LB, BP to LBs) and count who refers to them | stale versions; several store writes in one operation that can fail in the middle; references to objects being deleted |
| **Objects** `vrf.go`, `svi.go`, `bridge.go`, `port.go` | specification, component statuses, operational status, version, references | constructors, `setComponentState`, `checkForAllSuccess`, `prepareObjectsForReplay` | - | rebuilt from the request on update |
| **Replay** `replay.go` | one goroutine per request | `startReplayProcedure`: pre-replay, gather and write the objects, unblock the TaskManager, create tasks | holds `globalLock` up to `ReplayFinished` | runs against the TaskManager, handlers and API calls; partial failure |
| **Modules** `LinuxGeneralModule`, `LinuxCIModule`, `frr` | the module's configuration in kernel and FRR, routing table pools | one handler per kind: load, compare versions, set up or tear down, report | called on their subscriber's goroutine | work half done; reporting for a version that was replaced |
| **gRPC servers** `pkg/{vrf,bridge,port,svi}` | pagination tokens | Create, Delete, Update, Get, List | look the object up, then call InfraDB, without a lock around both | check-then-act; idempotent creates; `AllowMissing` |
| **Identifier pool** `utils/idpool.go` | free, used and released identifiers, reference sets | `GetID`, `ReleaseID` and their reference-counting forms | used by modules for numbers of tables, VLANs | reuse of released identifiers |
| **Pagination** `utils/pagination.go` | token to offset | `ExtractPagination`, `LimitPagination` | List | listings that change between pages |
| **Start-up, shutdown** `cmd/main.go` | - | subscribe modules, create the GRD VRF; `DeleteAllResources` and teardown | all of the above | a restart with a persistent store; bounded waits |
| **Netlink watcher** `pkg/netlink` | the latest kernel state as maps of routes, next hops, neighbours, FDB entries | periodic resynchronisation, notifications of the differences | its own event bus | sends under a mutex; diffs |
| Storage, kernel and FRR access, configuration, tracing, mocks | - | adapters | - | - |

### What makes each part correct

- *TaskManager, event bus, modules, replay*: no intent is lost and no task is
  duplicated; modules realise an intent in priority order; a component is
  recorded as `Success` only if its module has realised what is stored; an
  object leaves the store only after every module has torn it down; what is
  asked for is eventually in place.
- *InfraDB*: references are mutual and never dangle; a VNI belongs to one
  object; the indexes list exactly what is stored; a failed operation leaves
  nothing behind.
- *Modules on the host*: what is reported as done is in place and stays there;
  what has left the store has left the host; an attempt can be repeated from
  wherever the last one stopped.
- *Identifier pool*: an identifier is never in use twice.
- *Pagination*: a walk through a listing repeats nothing and skips nothing.
- *Shutdown*: what the process says it has removed is torn down; it ends.
- *Netlink watcher*: its subscriber holds what the watcher believes it holds,
  and in the end what the kernel has; no entry refers to one that is missing.

## 2. Plan

The modules, in order of importance. All of these are written.

1. `Realization` (`RealizationProofs`, `OrderProofs`): the life of an intent from
   the store through TaskManager, subscribers and replay; `Intent`: what it
   promises of one object, which `Realization` implements (section 3).
2. `InfraDB` (`InfraDBProofs`): the contents of the store, with the references
   between objects, the VNI map and the maps of names, under racing calls and
   store errors half-way through a function (section 5).
3. `Devices` (`DevicesProofs`): what the modules do to the kernel and to FRR,
   call by call (section 6).
4. `Netlink` (`NetlinkProofs`): the watcher that reads the kernel back
   (section 7).
5. `Shutdown` (`ShutdownProofs`): `DeleteAllResources`, `UnsubscribeModule` and
   the end of the process (section 8).
6. `Listing` (`ListingProofs`): the List calls and their page tokens
   (section 9).

`SequenceFacts` has the lemmas about sequences and recursive functions that
several proofs need.

Each module has an `MC` module that gives its constants values for TLC, and each
run a `.cfg`. The modules divide the system along what their properties relate;
where two of them show the same step, each keeps the half that matters to it:

| Step | `Realization` | `InfraDB` | `Devices` | `Shutdown` |
|---|---|---|---|---|
| Create, Delete | version, components, task | references, VNI, maps of names, single writes | who refers to whom | who refers to whom |
| a handler | notified, loads, succeeds or fails as a whole | - | each call to kernel and FRR | succeeds or fails as a whole |
| UpdateStatus | version, status, when it reaches the TaskManager | what removal writes to the store | version, status, routing table | version, status, removal |
| a task | channel, timers, statuses that get lost | has one or not | handled until it succeeds | slice of subscribers that is rewritten |

What is left of the plan:

- `Devices` under the full TaskManager of `Realization` (the product is out of
  TLC's reach beyond one object; a refinement of the handler would take its
  place);
- a start on a store that survived, should the code ever look for objects
  without a task (section 10);
- instances of `Netlink` with several nexthops of a route (`EnableEcmp`), which
  the module allows and no run explores. `NetlinkTypeCorrect` holds of them;
  `Mirror` does not (section 7).

## 3. Realization

One module holds the store records, the TaskManager, the subscribers and the
replay goroutines, since each of its properties relates at least two of them.

| Variable | Code |
|---|---|
| `db` | an object's `ResourceVersion`, `Status.VrfOperStatus`, `Status.Components` (`vrf.go`, and the same fields of the other kinds). `intent` is the version of the last create, update or delete: a replay gives a new version to the same intent |
| `clock` | the versions `generateVersion` has produced |
| `listed` | the objects in the maps of names (`vrfs`, `lbs`, `svis`, `bps`), which a replay goes through |
| `enq`, `timers`, `queue` | goroutines of `CreateTask` and of fired timers at `Enqueue`; tasks in `time.AfterFunc`; the channel |
| `tm` | `processTasks`: at the channel, at `Publish`, between `Publish` and the select, in the select, with a received status, in `<-replayChan` |
| `hdl` | a subscriber's goroutine: parked on its channel, notified, in `setUpX`/`tearDownX`, about to call `UpdateXStatus`, back in the event bus |
| `replays` | goroutines of `startReplayProcedure`, before and in `ReplayFinished` |
| `done`, `unsure`, `lost` | history, read by the properties only: what each module realised last; realisations a replay threw away or overtook; versions that a create stored before it returned an error, or whose task a replay dropped without a successor |
| `stuck` | the set-ups and tear-downs that cannot succeed on what earlier attempts of the module have left on the host |

Steps. Every InfraDB function runs under `globalLock` and is one step. The
status channel and the subscribers' channels are unbuffered and written by a
`select` with a default, so a message arrives only if its reader is parked
there: `PublishBusy` is the refused notification, and `StatusUpdated` loses the
status unless `tm.pc = "wait"`. The gap between `Publish` and the select is a
state of its own (`"sent"`). `UpdateXStatus` chooses between a stale version, a
replay request and a normal report, and its store error is
`UpdateStatusFails`. A handler whose load fails or finds another version
reports an error (`Unloaded`).

Two functions write to the store more than once, and each error in between is a
step of its own. `CreateFails`: a create stores the object, fails at the map of
VNIs or of names and returns before `CreateTask` (`infradb.go:766-797`).
`RemovalFails`: a removal deletes the object and fails at the maps
(`infradb.go:972-1003`), so that a name stays without an object; the same
happens without a fault to an object whose name was never written. A replay that
meets such a name fails (`ReplayGatherFails`).

Repeating is not always of use. A module in `Sticky` (LGM) may leave on the host
what is in the way of its own next attempt: `RealizeFails` and a set-up that
succeeded may add the set-up or the tear-down of the object to `stuck`, in any
combination; what is in `stuck` does not succeed (`RealizeOk`) and a tear-down
that runs to its end clears the way for the set-up. Section 6 shows for which
calls of the code this is so. An attempt at a stuck job on the *stored* version
would fail for ever; `MaxFaults` bounds these failures like the others. One on
an older version ends when its task is dropped (`RealizeIsStuck`).

The four kinds of objects go through the same control, so a kind is only its
list of subscribers, and whether a replay reaches it: `replay.go:217` looks for
`"bp"` where the list says `"bridge-port"`, so ports would be in `NotReplayed`
(none of the shipped modules asks for replays of ports). The references between
objects are not in this module.

Bounds. `MaxOps` bounds the API operations and `MaxFaults` the failures of
loads, realisations, store writes and replays, the timeouts while an answer is
still outstanding, and the statuses that come before the select. Versions and
notification numbers are bounded by these. A timeout after a lost status is not
a fault: it has to happen. `ReplayErrs` is the number of consecutive errors at
which the doubling timer exceeds the module's threshold; 2 in the runs that
replay.

### The promise

`Intent` is what a user of InfraDB may rely on, without tasks, notifications,
versions, timers and channels. It has two variables: the operational status of
each object and the set of modules that have acknowledged it. An object is asked
for or asked to go; a module whose predecessors have acknowledged may
acknowledge (or take its acknowledgement back, or do it again); the last
acknowledgement makes the object Up or removes it *in that step*; a replay takes
back the acknowledgements of one module on a set of objects.

`Realization` implements it under the refinement mapping

| `Intent` | `Realization` |
|---|---|
| `oper` | `Opers`: `db[o].oper`, which is `VrfOperStatus` and its like |
| `acks` | `Acked`: the subscribers of the object whose component is `Success` |
| `Order` | `Listed`: the object's list of subscribers |

`KeepsPromise` (`Promise!Spec`) is checked by the runs `retry` and `shared` and
proved. A create or update is `AskFor`, a delete `AskToGo`, an `UpdateXStatus`
for the stored version `Acknowledge` or `TakeBack`, `ReplayObjects` is `Renew`;
everything that TaskManager, timers, channels and handlers do besides is a
stutter. What makes this more than a restatement of `UpdateXStatus` is the guard
of `Turn`: nothing in `UpdateXStatus` looks at the other components before it
records a report, so that the order rests on the TaskManager alone, through
retries, late answers and replays.

### Runs

| Run | Instance | Shows |
|---|---|---|
| `retry` | 1 VRF, lgm then frr, 3 operations, 2 faults | types, `SuccessMeansRealised`, `NoLostIntent`, `PriorityOrder`, `NoResurrection`, `DeletedOnlyWhenTornDown`, `KeepsPromise` without replays |
| `shared` | 2 VRFs, a task channel of one place, replays, 2 operations, 3 faults | `IInv`, `NoLostIntent`, `OneTaskPerVersion`, `DeletedOnlyWhenTornDown`, `KeepsPromise` when a replay renews objects under their tasks, whoever asked for it, and may fail between them |
| `converge` | 1 VRF, lgm (sticky) then frr, 2 operations, 2 faults, no replays | `Converges`, under fairness |
| `orphan` | 1 VRF, replays | the first of the disagreements below |

Why these bounds are enough to be interesting: three operations allow create,
update and delete of one object to be all on their way at once, so that two
outdated tasks meet a current one; two faults allow a lost status followed by
a failing retry; three are what a replay takes (two errors of the module that
asks, and one more for a late status or a failed replay). Two objects are
needed for a task to wait behind another and for a replay to renew an object
that did not ask for it.

Fairness (`FairSpec`, liveness runs only): each goroutine that can step does
(the Go scheduler), a started timer fires, and each goroutine blocked in a send
on the task channel is served (Go's channel queues are first-in first-out).
The API is never obliged to call and nothing is obliged to fail. Retries are
unbounded; the faults are not, so `Converges` says that a finite number of
failures is overcome, but for the objects that are `BeyondRetry`: a create lost
their version, or a module has left what stands in the way of its next job. It
is checked with one object: a handler that fails for ever would otherwise keep
the faults (which bound it here) from the others.

### What the code does against its documentation

- `orphan`: a replay request that finds its version outdated reaches the
  TaskManager with `Replay` set, but no replay was started: the TaskManager
  waits on `replayChan` for a replay that does not run.
- Without a run of their own: when the status that asks for a replay is not
  received by the TaskManager, the replay runs all the same and `ReplayFinished`
  blocks for ever on a channel that nobody reads, so that the tasks of the
  objects it renewed are not created. When the pre-replay step or the gathering of objects
  fails, the task of the object that asked has been dropped already, and a
  create whose store fails between its first write and `CreateTask` leaves an
  object without a task, although `docs/opi-evpn-bridge-arch.md:47` promises one
  for each stored intent (the model reaches both, and keeps such versions in
  `lost`); a lost status of the *last*
  subscriber makes it run again after the VRF was set Up, and if that second run
  fails the object stays Up with a component in Error, where
  `docs/CreateVRF-overview.md` draws Up as the final success.

`NoLostIntent` excepts the versions in `lost`. Three steps of the code put one
there, and the property says that nothing else loses an intent: a create that
fails half-way, a replay that fails, and a replay that does not reach the object
that asked for it. `SuccessMeansRealised` and `DeletedOnlyWhenTornDown` except
the realisations that a replay resets or overtakes, through `unsure`. Only
replay steps add to `unsure`, so the `retry` run, which has no replayers, checks
these two unexcepted; in it, `lost` holds what failing creates have lost.

## 4. Proofs

`RealizationProofs` proves, for any set of objects, kinds, subscriber lists and
any bounds that satisfy `ConstAssumption` and `SubsAssumption` (a kind lists a
module once, and at least one):

- `TypesHold`: `Spec => []TypeOK`.
- `IInvHolds`: `Spec => []IInv`.
- `SuccessHolds`: `Spec => []SuccessMeansRealised`.

`SuccessMeansRealised` alone is not inductive. A `Success` is written by
`UpdateStatus` from what a handler carries, and is passed by the TaskManager
because of a status it received; so `IInv` also says

- `TasksWellFormed`, `RecordsWellFormed`, `HandlersWellFormed`: versions and
  notification numbers were handed out before (which makes the new ones
  fresh), and indexes stay inside their lists;
- `AnswerIsFromCurrent`: whoever works for the notification the TaskManager
  waits for is the current subscriber, on the current task. This is why a late
  answer to an older notification cannot be taken for this one;
- `AcceptedStatusIsTrue`: what a received status means for the stored object;
- `WorkIsBacked`: a handler at work on the stored version has a live task at
  its position in the list, and what it loaded is what the store still says.

The proof has one lemma per group of actions and part of `IInv`: steps that
move a task between its places keep `AtSubscriber`; steps that renew a version
make older tasks and handlers outdated; the others change one component.
`IInv` was model-checked first (run `shared`).

`OrderProofs` builds on it. From `IInv` and a second inductive invariant `OInv` it
proves the rest of what the runs check:

| Theorem | States |
|---|---|
| `UniqueTasks` | `Spec => []OneTaskPerVersion` |
| `PriorityHolds` | `Spec => []PriorityOrder` |
| `TornDownHolds` | `Spec => DeletedOnlyWhenTornDown` |
| `NotBroughtBack` | `Spec => []NoResurrection` |
| `NothingLost` | `Spec => []NoLostIntent` |
| `PromiseKept` | `Spec => KeepsPromise` |

`OInv` says which tasks there are and what they stand for:

- `OneTaskPerVersion`: no two copies of a task, wherever tasks may be;
- `ReplayTasksApart`: the tasks a replay holds back until `ReplayFinished` are
  nobody else's. They would be duplicates otherwise the moment they are created;
- `TasksOrdered`: the subscribers of a task are in the order of the object's
  list (a replay leaves some out), and whoever the task of the stored version
  will *not* ask any more has succeeded. This is what ties `subIndex` to the
  component statuses through the three ways of requeueing;
- `AcceptedSuccessStands`: when the TaskManager goes on to the next subscriber,
  the stored object says that this one has succeeded.

With `IInv` (a handler at work on the stored version has a live task at its
place) these say that a handler's predecessors have succeeded (`WorkerHasPriority`),
which is `PriorityOrder`, the guard `Turn` of `Intent`, and, for the last
subscriber, the reason why an object that leaves the store has been torn down
everywhere. `NotRevived` and `LInv` are each inductive on top: a handler that is
still setting an object up finds it stored, and has not succeeded if the object
is to be deleted; and a status that makes the TaskManager drop the current task
means that the version has a replay that replaces the task, or has lost it. A
version without a task from the start is one that `CreateFails` has put into
`lost`, until an update, a delete or a replay gives the object a new one.
`PromiseStep` maps each action to a step of `Intent` or to a stutter.

So every safety property that the runs check on `Realization`, and the
refinement, is proved. Only model-checked is `Converges`, since liveness under
fairness is beyond the proof system.

## 5. InfraDB

`Realization` follows one object through the modules; this module follows all
objects through InfraDB. It keeps what the other leaves out (references, VNIs,
maps of names, the single writes of a function) and leaves out what the other
keeps (versions, components, notifications): an object has a task or has none.

| Variable | Code |
|---|---|
| `db` | the objects by name: operational status, VNI, the port's address; `refs` is what an SVI or a port names (`Svi.Spec.Vrf` and `LogicalBridge`, `BridgePort.Spec.LogicalBridges`), `users` who is listed in a VRF or a bridge (`Vrf.Svis`, `LogicalBridge.Svi` and `BridgePorts`), `macs` is `LogicalBridge.MacTable` |
| `vpns` | the keys of the map stored under `vpns`: VNIs in use |
| `index` | the keys of the maps stored under `vrfs`, `lbs`, `svis`, `bps`, in one set (names carry their kind) |
| `found` | which of these five maps have ever been written: InfraDB treats a missing one differently from an empty one |
| `tasks` | objects whose stored version has a live task |
| `calls` | requests between the server's unlocked look-up and the InfraDB function |
| `ops`, `faults`, `updates` | counters for the bounds, and for the premises of the properties |
| `spoilt` | history, read by the properties only: VRFs and bridges that got a reference while they were leaving, were created or updated over, or lost references in a deletion that stopped half-way |

Steps. A gRPC call is two steps, the look-up (`LookupForX`) and the InfraDB
function. The function is one step, because of `globalLock`, with a parameter
`k`: how many of its writes to the store were made. `Writes(k, n)` says that
fewer than the `n` this state calls for takes a store error. `n` itself depends
on the state: `CreateSvi` stores the VRF before the bridge can refuse a second
SVI (1 of 4), `CreateBP` has stored some bridges `D` when another one refuses,
`removeVniFromVpns` gives up without a `vpns` map. A port made without bridges
(a transparent trunk) joins every listed bridge; Go iterates over that map in
any order, hence any subset `D`. The four `UpdateXStatus` functions are modelled
where they change the object: all components set up (`SetUp`), or all torn down
(`VpnGone`, `SviGone`, `BpGone`), with the references taken back in the order of
the code. A task whose object is gone is dropped (`Dropped`).

The order and the number of the bridges a port names twice are abstracted to a
set. Updates rebuild the object from the request and store it, whatever else
holds; the source declares them incorrect (`infradb.go:577`), so properties
that they break for good have the premise `updates = 0`.

### Runs

| Run | Instance | Shows |
|---|---|---|
| `refs` | 2 SVIs and 2 ports (trunks among them) over a VRF and a bridge that compete for a VNI, 2 addresses, 2 calls in flight, 1 update, 1 store error | `TypeOK`, `RefersToStored`, `MacTableAgrees`, `VniExclusive`, `ListedIsStored`, `AnnouncedIsListed`, `IInv` |
| `dangling` | one VRF, one bridge, one SVI | the first of the disagreements below |

The bounds: two calls in flight are what a race takes; a VRF and a bridge are
what a VNI takes to be claimed twice; two SVIs and two ports are what a bridge
can refuse one of; one store error is enough to stop any function at any of its writes; the number of calls lets an
object be created, deleted and created again while something refers to it. In
the passing runs the system comes to rest when the calls are used up, so
deadlock is not checked there. With two bridges a port can be refused by one
after the other has been written: `Lb = {l1, l2}` has 1,150,313 states, was checked by hand, and
holds too.

### What the code does against its documentation

- `dangling`: `CreateSvi` and `CreateBP` accept a VRF or a bridge that is
  `ToBeDeleted`; it is removed under the new reference.

Without a run of their own, all reachable in the model:

- A creation that is refused half-way leaves its reference in the VRF (or in the
  bridges already written). The VRF can never be deleted.
- After a store error in `UpdateSviStatus` each retry fails on the reference the
  first attempt has removed; the SVI is never deleted. A port has the same fate,
  and worse: if its address was given to another port meanwhile, the retry
  removes the other port's entry from the MAC table.
- `UpdateVrfStatus` removes the VRF before its entries in `vpns` and `vrfs`
  (`infradb.go:972`). After a store error in between, the retry finds no VRF and
  gives up; the VNI stays in use and `GetAllVrfs` fails from then on, and so do
  replays (`RemovalFails` in `Realization`).
- After a store error in a creation the object is stored without a task, and the
  repeated request is answered as a success. What that means for the intent is in
  `Realization` (`CreateFails`, section 3).

`RefersToStored` and `MacTableAgrees` say what still holds in spite of all this:
they except the objects in `spoilt` only, which takes one of the events above,
an update, or two creations of the same object that race. `VniExclusive` and `ListedIsStored` hold until the first store error or
update.

### Proofs

`InfraDBProofs` proves, for any sets of names, VNIs and addresses that satisfy
`NamesAssumption` (names carry their kind) and any bounds,
`StoreInvariant`: `Spec => []IInv`, and from it `StoreIsTyped`,
`VniIsExclusive`, `StoreIsListed`, `AnnouncedStaysListed`, `ReferencesHold` and
`TablesAgree`, which is every invariant that the passing runs check.

`IInv` joins these properties with what makes them inductive:

- `UpdatesCounted`: a state without updates has no update in flight either;
- `VniReserved`: a stored VNI is in `vpns` (so the check of `CreateVrf` and
  `CreateLB` is enough) and `vpns` was written (so `removeVniFromVpns` does not
  give up);
- `MapsWritten`: the map of a stored object was written, so that deleting the
  object gets as far as its map;
- `LeavingUnused`: what is leaving has no users, so its removal cuts no
  reference;
- `AddressKept`: a bridge knows a port by the port's own address, so that
  `DeleteBridgePort` removes this port's entry and no other.

`NextSteps` reduces a step to one of nine that write to the store or to one that
leaves it alone. Each part of `IInv` then has a lemma with one case per writing
step. What the steps on SVIs and ports write is first restated object by object
and field by field (`SviAddedFields`, `BpGoneFields`, ...), because the provers
do not look through nested `EXCEPT`s well.

## 6. Devices

What `Realization` takes for one step, a module that realises an object, is here
a sequence of calls to the kernel (`pkg/utils/netlink.go`) and to FRR (vtysh),
any of which may fail and leave the rest undone.

| Variable | Code |
|---|---|
| `db` | the store: operational status, version, component statuses, and `Metadata.RoutingTable` of a VRF (`table`) |
| `host` | the kernel's links with their state, addresses, masters, VLANs, routing tables and throw routes; the items of FRR's configuration |
| `ids` | `RouteTableGen`: the routing table that a VRF's name has |
| `reports` | handlers that have done their calls and not yet called `UpdateXStatus` |
| `alive`, `dropped` | the process has not panicked; objects whose task a failed replay dropped |
| `spoilt` | history: tear-downs that took a failed look-up for absence, and VRFs and bridges that were referred to while leaving |
| `emptied` | history: objects whose configuration FRR lost to a replay that failed afterwards, until FRR has handled them again |

Steps. Each set-up and tear-down is an operator that returns its calls in the
order of the code (`lgm_setUpVrf`, `lci_tearDownBp`, `frr_setUpSvi`, ...).
`Possible` says when the host lets a call succeed (a link is added once, an
address is added once, a link must exist to be looked up), `Effect` what it does.
`Handle` runs the calls up to the first that is not possible, or up to one that
fails without reason (a fault), and leaves the host as it is then. Look-ups whose
error the code takes for absence are calls of their own (`LinkOrGone`,
`ShowOrGone`): their failure ends a tear-down in *success*. `Report` compares
versions and finishes the object. The TaskManager is reduced to what matters
here: a stored object is handled again until every component is a success, in
the order of the list. `Replay` is `handlePreReplay` of FRR, after which its
configuration is empty and every object has a new task. It may fail before FRR
is restarted (`ReplayFails`) or after its configuration has been replaced
(`ReplayBreaksOff`: the restart itself, `frr.go:178`, or a call to the store
while the objects are gathered, `replay.go:72`). In the second case FRR is empty,
the objects gathered so far are Pending without a task, and the others keep
their `Success`.

| Run | Instance | Shows |
|---|---|---|
| `hosts` | 2 VRFs (one without VNI), a bridge, an SVI with BGP, a port, 2 routing tables, 4 operations, 1 fault, 1 replay | `TypeOK`, `SuccessIsInPlace`, `GoneWithoutTrace`, `TearDownCanBeRepeated`, `TablesAreExclusive` |
| `halfsetup` | the same, one VRF is the GRD, no faults | the first disagreement below |

Four operations set up an SVI with its VRF and its bridge and start to take it
down again; one fault stops any call of any attempt, and the attempts after it
meet what it left. Five operations (797,942 states) were checked by hand and
hold too. The system rests when the operations are used up, so deadlock is not
checked.

What the code does:

- `halfsetup`: an SVI's set-up adds its VLAN device before it looks for the VRF's
  device (`lgm.go:675`). If the VRF is not there yet, the attempt fails, the
  device stays, and `LinkAdd` fails in each later attempt.
  `docs/opi-evpn-bridge-arch.md:47` says that a task drives the whole realization,
  and `taskmanager.go:212` that it starts again where an error was returned; no
  such retry succeeds.
- Without a run of their own: the set-up of a VRF is not re-entrant either. A
  tear-down of a VRF that stopped after the VXLAN device never finishes, since
  it looks for that device again (`lgm.go:790`); that is why
  `TearDownCanBeRepeated` leaves VRFs out. A VRF that is deleted before a
  set-up of LGM has reported has no routing table, and `RoutingTable[0]` panics
  (`lgm.go:788`); after a set-up that failed it is table 0, which the kernel
  takes for all tables when the routes are flushed. FRR reads `*Spec.Vni`
  without asking whether there is a VNI (`frr.go:630`) and takes what follows
  "json" in an answer without asking whether it is there (`frr.go:513`). A port
  whose interface is gone cannot be torn down. `idpool.go:65` returns 0 where it
  should return a released identifier, but nothing releases any.

  A replay that fails after FRR was restarted leaves objects with a `Success` of
  FRR whose configuration is gone, and makes no task that would bring it back.

These are in the model (`Deref` and `Show` end the process, `RouteFlush(0)` empties
every table), so the properties say what holds in spite of them. `Sound` in
`SuccessIsInPlace` and `GoneWithoutTrace` excepts an object in `spoilt` only, and
`SuccessIsInPlace` what FRR should have of an object in `emptied`.

### Proofs

`DevicesProofs` proves, for any objects and bounds that satisfy
`DevicesAssumption` (the kinds are disjoint, references are of the right kind,
bridges are finitely many), `DevicesTypeCorrect`, `RoutingTablesAreExclusive` and
`TearDownsCanBeRepeated`, and, where names on the host differ,
`SuccessStaysInPlace` and `GoneLeavesNoTrace`.

The invariant of the first two has two halves. What a handler leaves on the host depends on how
many of its calls succeeded, so the first half, `HostOK`, is proved of *every*
call (`EffectFacts`: a call that is possible keeps it) and carried along a
handler's calls (`HostAfter`) up to any number within `Reach`. The second half
says why a table is never given twice: the names that have an identifier have
the identifiers up to their number, each its own (`IdsSound`; `GetID` counts them),
and the host has tables for these names only (`TablesSound`). For the latter the
calls of all twelve functions are gone through for those that assign a table.

`TypeOK` takes from the versions that what is stored has been created
(`VersionsSound`), without which a report could name version 0.

The other three rest on what the calls of a handler may be at all. `Own` collects
the calls that a module may make for an object (it makes, moves and removes
only the object's own links, `LinksOf`; FRR's commands name the object's own
items, `ConfOf`, apart from the BGP instance of an SVI's VRF), and `HandleIs`
shows that every call of every set-up and tear-down function is one of them.
`EffectIs` says which items of the host a call gives and which it takes, and
`HandlerKeeps` carries both along the calls that a handler got through.

`TearDownsCanBeRepeated` goes through the tear-downs of a bridge, an SVI and a
port call by call: each is possible whatever the host looks like, if the tenant
bridge exists and the bridges that the object refers to are in the store.
The second is `RefsInv`: while an object is stored, what it refers to is stored
and not leaving, unless it was leaving when the object was created (`spoilt`).
That takes the check of users in the Delete calls and their order of checks.

`SuccessStaysInPlace` is the invariant `PlacedInv`: of an object that is wanted and
has been set up by a module, *reported or not* (`Done`), everything that module
put there (`Needed`) is on the host. A handler that has just succeeded put it
there: its last call that gives an item is followed by none that takes it
(`Lasts`, proved function by function). After that nobody takes it. Its own
handlers do not run unless it is deleted or replayed; others reach only their
own links (`LinksDiffer`), SVIs of one bridge exclude each other (`OneSvi`), a
VRF's link stays while an SVI is enslaved to it (`RefsInv`), and only FRR's
items go in a replay, which sets FRR's components to Pending, or fails and puts
the objects it has not reached into `emptied`. `TableSound` adds
that the table in the object is the one `GetID` gave to the name, also in reports
that are still under way. The hypothesis `VlansDiffer` (different bridges, different
VLANs; and no VRF has a VLAN's number for a name) is needed: a VXLAN device is
named after the VLAN, so of two bridges with one VLAN the tear-down of the one
removes the device of the other. The code does not compare the VLANs of bridges
(`CreateLB` compares VNIs only), so this is a condition on its clients; the instance
of `hosts` satisfies it.

`GoneLeavesNoTrace` is the invariant `GoneInv`: when an object is not stored, or is
leaving and a module has torn it down, reported or not (`Over`), nothing that
this module puts on the host for it is there (`Bare`). It is kept because

- a tear-down that runs to its end removes all of it, whatever an earlier
  attempt left (`BridgeLeavesNothing` and its siblings; `Ends`: what the last call about an
  item removes is gone). One that stops at a look-up that finds nothing has
  succeeded too. Of a bridge or an SVI nothing else is left then. Of a VRF that
  takes `VrfFirst`: the bridge and the VXLAN device of a VRF and the throw route
  of its table come after the VRF's own link and go before it, in every set-up and
  tear-down and wherever they stop, so without the link there is none of them;
- nobody puts it back (`NothingGiven`): the own set-up does not run while the object
  is leaving, and of others only an SVI gives something to the VRF or bridge it
  refers to, the BGP instance and the tenant bridge's VLAN, and it cannot be
  stored while they leave (`RefsInv`);
- the table that a tear-down flushes is the one the set-up filled: `Known` says
  that the table in the store or in a report is none, 0 or the name's own, and
  that every link, item and throw route belongs to some object.

Its hypothesis `NamesDiffer` is `VlansDiffer`, at most one SVI name for each bridge
and no SVI with BGP on the GRD. Each is needed, and the code checks none of
them: a VXLAN device is named after its VLAN; two SVIs of a bridge share
the tenant bridge's VLAN and, on one VRF, an interface and a neighbor, so the one that is gone has a trace while the
other is stored; and the tear-down of the GRD leaves FRR alone, so the BGP instance
that the SVI's set-up created stays. The instance of `hosts` satisfies all three.

## 7. Netlink

The watcher polls the kernel, resolves what it has read against InfraDB,
compares the result with the last poll and tells one subscriber (the vendor's
module) what has changed.

| Variable | Code |
|---|---|
| `kernel` | neighbours, routes, forwarding entries, devices of the VRFs and how often they were made |
| `vrfs`, `rmac`, `ports` | InfraDB: status of the VRFs, VRFs whose router MAC FRR has reported, addresses in the bridge's `MacTable` |
| `pc`, `todo`, `cur`, `leaving` | where `monitorNetlink` is, VRFs that are still to be read, the one that is being read, the VRFs that were being deleted when the poll listed them (the poll keeps pointers to what it got) |
| `deaf` | addresses that `ip route get` does not resolve while the routes of `cur` are read |
| `names` | `nameIndex` |
| `latest` | `latestNeighbors`, `latestRoutes`, `latestNexthop`, `latestFDB`, `latestL2Nexthop` |
| `db` | `routes`, `nexthops`, `fDB`, `l2Nexthops` |
| `sub` | what the subscriber has been told |
| `stop` | `stopMonitoring` |

Steps. A poll is a step per command or look-up: list a VRF's neighbours
(`readNeighbors`), its routes (`readRoutes`, with `tryResolve` and `addNexthop`),
the VRFs (`listVrfs`), the forwarding entries (`readFDB`), `annotate` with the
install filters, `notifyDBChanges`. Between any two of them the kernel and
InfraDB change (`Environment`). A command that fails reads as an empty table, as
in the code. Where the code does not check a look-up, `Die` ends the process.

What goes wrong without a change of the kernel is a `Disturbed` step, and counts
as an event: a command that fails; a gateway or VTEP that cannot be looked up
(`deaf`); a neighbour on a physical port whose route is not found (OTHER) or
leads over another port (IGNORE), where it is PHY otherwise; and the deaths that
need no tear-down. The last are a neighbour that zebra installed on an SVI
(`neighbor.go:248`: the pattern is matched against a field that is never set, and
`s[0]` panics), the device of a neighbour or of a route that is gone when it is
looked up (`neighbor.go:90`, `route.go:283`), and a store error where the object
of a VRF or a device is taken for granted (`route.go:243` and `:351`,
`nexthop.go:258` and `:310`). A VRF that is torn down or leaves the store in the
middle of a poll kills the watcher without any disturbance (`Fatal`, and `Taken`
in `readRoutes`). Neighbours that zebra installed are represented by this death
only. `annotate` looks the underlay's gateway up a second time (`nexthop.go:345`)
for the addresses of the packet; whether that succeeds is chosen with `deaf`.

No property says that the watcher lives: it dies of too many things. What is
checked holds as long as it does, and `Settles` is about a watcher that has not
died.

| Run | Instance | Shows |
|---|---|---|
| `netlink` | the GRD and a tenant's VRF, one gateway, one VTEP, one host, 2 MACs, one change or disturbance, one tear-down with a new set-up | `TypeOK`, `Mirror`, `ReferencesHeld`, `Settles` |
| `tunnels` | two VTEPs behind one gateway | the first disagreement below |

The VRF's life is not bounded by `MaxEvents`: its set-up, report, deletion and
tear-down fall into any poll. The invariants were also checked by hand with two
changes or disturbances and no second life (`MaxEvents = 2`, `MaxLives = 0`:
2,361,167 states).

Fairness: the monitor's goroutine goes on and its commands return. It is stated
as `WF_pc(Turn)`, a step that changes `pc`: exactly the monitor's steps do, and
one is possible until the goroutine has ended. `Settles` needs no fairness of
the environment: it says what follows *once* it is quiet, since changes are
finitely many.

What the code does:

- `tunnels`: a nexthop into a tunnel gets the key of the underlay's nexthop
  (`nexthop.go:123`: the VRF, the *underlay's* gateway and device). Two VTEPs
  behind one gateway have the same key, the second route is linked to the first
  tunnel.
- Without a run of their own: `addNexthop` returns nil for a second nexthop
  unless `enableEcmp` is set (`nexthop.go:174`), and its caller goes on with it
  (`route.go:229`, a panic; `TakesNil`). The address of an L2 nexthop is taken
  as raw bytes of its text (`l2nexthop.go:64`), so that no VXLAN L2 nexthop is
  ever resolved and no remote MAC address announced; all remote MACs of a VLAN
  share one L2 nexthop anyhow. The final clean-up withdraws no L2 nexthops, and
  "One final netlink poll" (`netlink_watcher.go:156`) polls nothing. Of routes
  to one destination the first one read stays, whatever its metric
  (`route.go:216`), although the message speaks of precedence.
  `deepEqual` of a route compares the first of its nexthops only. A failed read
  of the GRD withdraws everything until the next poll. `netlink.Initialize` has
  no caller in `cmd/main.go`.

### Proofs

`NetlinkProofs` proves, for any VRFs, gateways, VTEPs, hosts, MACs and bounds that
satisfy `NetlinkAssumption` (a route has at least one gateway; hops, VTEPs and
hosts are different addresses):

| Theorem | States | Hypotheses |
|---|---|---|
| `NetlinkTypeCorrect` | `Spec => []TypeOK` | - |
| `SubscriberIsMirrored` | `Spec => []Mirror` | `~EnableEcmp` |
| `SubscriberIsConsistent` | `Spec => []ReferencesHeld` | `~EnableEcmp` |

`Tables` says what every map holds wherever a poll is: routes and nexthops refer
to each other under their own keys and in one VRF (`Linked`), forwarding entries
refer to L2 nexthops that were read (`Forwards`), and until the VRFs are listed only
the GRD has been read (`OnlyGrd`).

`Mirror` excepts the entries of VRFs that are being deleted, since those are not
announced. What makes it inductive is that such an exception does not outlive
the VRF: `Lacks` says that whatever the subscriber lacks was read of devices
that are `Doomed`, that is, they are gone or of a VRF that is leaving and cannot
come back under the same index. So either the next poll does not find it, and
the difference disappears, or the VRF was set up anew, its devices have another
index, and `deepEqual` sees a change and announces the entry. For the latter the
references of a nexthop carry the index of their route's device (`gen`):
`nexthop.go:383` compares nexthops with their route references, and these differ
in `Route0.LinkIndex` (`route.go:569`). `overtaken` excepts a VRF that is deleted
and set up within one poll, which holds pointers to the old object.

The hypothesis is needed. With ECMP, `Mirror` is false: `deepEqual` of a route
compares the first nexthop only, so a change of the second is never announced.

`Settles` stays with TLC.

## 8. Shutdown

On a signal `cleanUp` deletes all objects, kind by kind, waits for each kind to
disappear, unsubscribes the modules and exits, while servers, TaskManager and
handlers go on.

| Variable | Code |
|---|---|
| `db`, `clock` | the store, with the components an object got at its creation |
| `list`, `size` | `eventHandlers` of the event bus: the *array* behind the slice of a kind's subscribers, and its length |
| `closed` | subscribers whose channels `UnsubscribeModule` has closed |
| `hdl` | the subscribers' goroutines |
| `tasks`, `tm` | tasks on their way, each with a length and a place in the array of its kind; the TaskManager |
| `main` | where `cleanUp` is, the kind it is at, what it has listed, what `DeleteAllResources` returned |
| `raced`, `blind`, `down` | history: a client interfered; a store error was taken for an empty list; who has torn an object down |

The array is a variable of its own because `UnsubscribeModule` edits it in place
(`append(subs[:i], subs[i+1:]...)`) under slices that tasks hold: a task for
lgm, then frr, finds frr at lgm's place. `Deleted` sets statuses by position,
from the subscribers there are *now*. `DeleteListed` has the three outcomes of
`DeleteX`: the deletion is accepted, refused (in use, gone, nobody subscribed), or
its store fails; the last two end `DeleteAllResources`, with the results
"refused" and "error" (`infradb.go:816-838`, `:1213`). The store at the start is
one that no failing call has spoilt: the references that a half-finished
creation leaves behind (section 5) would refuse a deletion too.

| Run | Instance | Shows |
|---|---|---|
| `cleanup` | an SVI on a VRF and a bridge, the subscribers of `config.yaml`, 1 client call, 2 faults | `TypeOK`, `NothingRemains`, `RefusedOnlyByOthers`, `GoneIsTornDown`, `Exits` |

Every subset of the objects that is closed under references may be there at the
start. Two calls with one fault (1.26 million states) were checked by hand.

Fairness: the goroutine of `cleanUp` and those of the subscribers go on; a
subscriber that is never free would block `UnsubscribeModule`. Nothing is
assumed of the TaskManager or of clients: the limits of ten seconds are what
`Exits` rests on, as the mutant `TimeLimit_Never` shows.

What the code does, without a run of its own: a client's deletion that finishes
between `GetAllX` and `DeleteX` makes `DeleteAllResources` return
`ErrKeyNotFound` and leave the rest (`raced`); errors of `GetAllX` are ignored
(`blind`); a task that is published after `UnsubscribeModule` meets a closed
channel and the process panics instead of exiting, for which `Exits` allows.

### Proofs

`ShutdownProofs` proves, for any objects, kinds, subscriber lists and bounds,
`ShutdownTypeCorrect`, `CleanUpLeavesNothing` (`NothingRemains`),
`CleanUpIsNotRefused` (`RefusedOnlyByOthers`) and `NothingLeavesBeforeItsTearDown`
(`GoneIsTornDown`), that is, all that the run checks except `Exits`. The
assumptions about the constants are what the code and `config.yaml` give:

- `ReferencesFollowPhases`: who refers to an object is deleted in an earlier
  phase (`DeleteAllResources` goes from SVIs and ports to bridges and VRFs);
- `PrioritiesFollowStops`: modules are stopped in the order of their priorities,
  and nobody is subscribed to a kind twice.

The second one carries `GoneIsTornDown`. Since the modules leave in their order,
what is left of a kind's slice is a *suffix* of the configured list, and what
stands before it in the array are subscribers that are gone (`BusSound`). A task
that looks for its place in an array that was rewritten can skip a subscriber
only by passing over to a later one, and the one it skipped is closed, so the
object waits for a module that is gone and never leaves the store (`StoreSound`:
`TornDownOrStuck`). With subscribers in the other order (`svi`: frr, lgm) TLC
finds objects that leave without having been torn down.

`DeletesInOrder` is behind the other two: as long as no client interferes and no
list is lost, every stored object is of the kind of this phase or a later one,
and what was listed is still there and not yet leaving.

## 9. Listing

The List calls of the four servers are one algorithm. Names are numbers in their
order, a token is identified with the offset it stands for (which never
changes), `Pagination` is the server's set of tokens, `mapped` says that the map
of names exists. A client (`walks`) lists page by page in sizes of its choice;
`start`, `seen`, `twice`, `created` and `deleted` are history. An answer may get
lost (`answered = FALSE`), upon which the client asks again with the same token,
and the process may restart and forget its tokens.

| Run | Instance | Shows |
|---|---|---|
| `listing` | 4 names, 2 clients, sizes -1, 0, 1 and 4 (refused, default, small, too large), 3 events | `TypeOK`, `NothingTwice`, `NothingSkipped`, `DiesOnlyOfDeletion`, `WalksEnd` |

Fairness: each client goes on until its walk has ended, and its calls are
handled. Four objects in pages of one to three give walks of up to four pages;
three events let one walk meet a creation, a deletion and a lost answer.

`ListingProofs` proves, for any set of names, clients, sizes and bounds,
`ListingIsTyped`, `WalksDoNotRepeat`, `WalksAreComplete` and `OnlyDeletionsKill`,
which are the invariants of the run. The invariant behind them follows where a
token stands: without creations, what a walk has seen and is still there stands
*before* its token (`SeenBefore`: a deletion moves objects forward only);
without deletions, what it has not seen stands at the token or after it, and the
token within the listing (`UnseenAfter`). The premises cannot be dropped: a
creation moves seen objects behind the token, a deletion moves unseen ones
before it. `Rank` and its companions say how `Position`, the number of smaller
names, changes with the set.

What the code does, without a run of its own: after deletions a stored offset
can lie behind the end of the listing, and `result[offset:end]`
(`pagination.go:52`) panics, without an interceptor that would recover;
`DiesOnlyOfDeletion` says that it takes a deletion. Tokens are never removed, and
the map is used by concurrent calls without a lock (which TLC cannot see: a
call is one step here).

## 10. Not modelled

- A start on a redis store that kept its objects. The task queue is not
  persistent and nothing in the code looks for objects without a task, so there
  is no recovery to model: objects that were not finished stay as they are, and
  `createGrdVrf` stores the GRD anew, with its components Pending.
- `generateVersion` as a clock: versions are taken to be distinct, although two
  changes within a microsecond would share one.
- Nothing is proved of liveness (`Converges`, `Settles`, `WalksEnd`, `Exits`), which
  is beyond the proof system: these are only model-checked.
- The netlink event bus under a subscriber that does not read: its `Publish`
  blocks with the mutex held, and the subscriber is the vendor's code.
  `Netlink` takes it to keep up.
- Identifiers of nexthops, the metadata that a vendor adds to entries, the
  text of commands and answers, and the telnet session.
- Start-up of FRR's daemons and of the tenant bridge, Get calls, field masks and
  the validation of requests: they change no state that the properties speak of.
- The encoding of objects in the store, the storage wrapper (atomic reads and
  writes that may fail stand for it), logging, tracing, TLS, gRPC transport,
  configuration and generated mocks.
- The functions of InfraDB and of the identifier pool that have no caller
  (routing tables of VRFs, released identifiers).
