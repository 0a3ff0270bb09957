------------------------------- MODULE InfraDB -------------------------------
(***************************************************************************)
(* The contents of the store: VRFs, logical bridges, SVIs and bridge ports,  *)
(* what they refer to in each other, the VNIs in use (vpns) and the maps of  *)
(* names (vrfs, lbs, svis, bps).                                             *)
(*                                                                          *)
(* Every InfraDB function runs under globalLock, so it is one step; but it   *)
(* is a series of store accesses, each of which may fail, and what was       *)
(* written before the failure stays.  The gRPC servers look an object up     *)
(* before they call InfraDB, without the lock: a call is in flight between   *)
(* the two.                                                                  *)
(*                                                                          *)
(* Versions, components and the way of a task through the modules are the   *)
(* subject of module Realization.  Here an object has a task (for its stored *)
(* version) or has none, and a task ends when its last component succeeds.   *)
(***************************************************************************)
EXTENDS Naturals, FiniteSets

CONSTANTS
    Vrf, Lb, Svi, Bp,  \* names of the four kinds of objects
    Vni,               \* VNIs
    NoVni,             \* no VNI was given
    Mac,               \* MAC addresses of bridge ports
    NoMac,             \* not a bridge port
    MaxCalls,          \* bound on the calls in flight
    MaxOps,            \* bound on the calls of a behaviour
    MaxFaults,         \* bound on the store errors of a behaviour
    MaxUpdates         \* bound on the updates of a behaviour

\* Full names carry the kind of the object (resourceIDToFullName).
ASSUME NamesAssumption ==
    /\ Vrf \cap Lb = {} /\ Vrf \cap Svi = {} /\ Vrf \cap Bp = {}
    /\ Lb \cap Svi = {} /\ Lb \cap Bp = {} /\ Svi \cap Bp = {}
    /\ NoVni \notin Vni /\ NoMac \notin Mac

VARIABLES
    db,       \* the objects by name
    vpns,     \* the VNIs in use
    index,    \* the names in the maps vrfs, lbs, svis and bps
    found,    \* which of vpns and the maps of names have ever been written
    tasks,    \* objects whose stored version has a live task, or had one
    calls,    \* gRPC calls between their look-up and their InfraDB function
    ops, faults, updates,
    spoilt    \* history: VRFs and bridges that were referred to when they were
              \* already leaving, were written over by a create or an update,
              \* or lost references in a deletion that stopped half-way

vars == <<db, vpns, index, found, tasks, calls, ops, faults, updates, spoilt>>

-----------------------------------------------------------------------------

Vpn == Vrf \cup Lb
Obj == Vpn \cup Svi \cup Bp

Oper == {"Absent", "Down", "Up", "ToBeDeleted"}

\* users and macs: Svis of a VRF; Svi, BridgePorts and MacTable of a bridge.
\* refs: Vrf and LogicalBridge of an SVI, LogicalBridges of a bridge port.
Object == [oper : Oper, vni : Vni \cup {NoVni}, mac : Mac \cup {NoMac},
           refs : SUBSET Vpn,
           users : SUBSET (Svi \cup Bp), macs : SUBSET (Mac \X Bp)]

Absent == [oper |-> "Absent", vni |-> NoVni, mac |-> NoMac, refs |-> {},
           users |-> {}, macs |-> {}]

MapOf(o) == IF o \in Vrf THEN "vrfs" ELSE IF o \in Lb THEN "lbs"
            ELSE IF o \in Svi THEN "svis" ELSE "bps"

Stored(o)  == db[o].oper # "Absent"
Leaving(o) == db[o].oper = "ToBeDeleted"

\* Faulty variant: the operational status is left unset.
New_Unset(c) == [oper |-> "Unspecified", vni |-> c.vni, mac |-> c.mac, refs |-> c.refs,
                 users |-> {}, macs |-> {}]

\* NewVrf, NewLogicalBridge, NewSvi, NewBridgePort: built from the request.
New(c) == [oper |-> "Down", vni |-> c.vni, mac |-> c.mac, refs |-> c.refs,
           users |-> {}, macs |-> {}]

\* What a client may ask for.
Requests(op) ==
    [op : {op}, obj : Vpn, vni : Vni \cup {NoVni}, mac : {NoMac}, refs : {{}}]
    \cup [op : {op}, obj : Svi, vni : {NoVni}, mac : {NoMac},
          refs : {{v, l} : v \in Vrf, l \in Lb}]
    \cup [op : {op}, obj : Bp, vni : {NoVni}, mac : Mac, refs : SUBSET Lb]

Removal(o) == [op |-> "Delete", obj |-> o, vni |-> NoVni, mac |-> NoMac, refs |-> {}]

-----------------------------------------------------------------------------
(* gRPC servers: the look-up before the call *)

InFlight(c) ==
    /\ ops < MaxOps
    /\ Cardinality(calls) < MaxCalls
    /\ calls' = calls \cup {c}
    /\ ops' = ops + 1
    /\ UNCHANGED <<db, vpns, index, found, tasks, faults, spoilt>>

\* An object that is there already is returned as it is.
LookupForCreate(c) ==
    /\ c \in Requests("Create")
    /\ ~Stored(c.obj)
    /\ InFlight(c)
    /\ UNCHANGED updates

LookupForDelete(o) ==
    /\ Stored(o)
    /\ InFlight(Removal(o))
    /\ UNCHANGED updates

\* Whichever fields the mask changes, the object is built anew from the
\* result; fields that are not modelled may be the only ones that change.
LookupForUpdate(c) ==
    /\ c \in Requests("Update")
    /\ Stored(c.obj) /\ ~Leaving(c.obj)
    /\ updates < MaxUpdates /\ updates' = updates + 1
    /\ InFlight(c)

-----------------------------------------------------------------------------
(* InfraDB functions.  Each makes k writes; fewer than the n that it would    *)
(* make in this state only because of a store error.                         *)

Answered(c) == c \in calls /\ calls' = calls \ {c} /\ UNCHANGED <<ops, updates>>

Writes(k, n) ==
    IF k = n THEN UNCHANGED faults
             ELSE k < n /\ faults < MaxFaults /\ faults' = faults + 1

\* Faulty variant: the task is created with the object.
Announced_Early(o, k, at, n) == tasks' = IF k >= at THEN tasks \cup {o} ELSE tasks

\* CreateTask comes after the last write.  A version that was written (by
\* write number at) has no task before.
Announced(o, k, at, n) ==
    tasks' = IF k = n THEN tasks \cup {o} ELSE IF k >= at THEN tasks \ {o} ELSE tasks

\* The references to the objects of S cannot be relied upon any more.
Spoil(S) == spoilt' = spoilt \cup S

\* An error before the first write.
Refused(c) == Answered(c) /\ UNCHANGED <<db, vpns, index, found, tasks, faults, spoilt>>

\* Faulty variant: vpns is written, but not looked at.
VniInUse_Never(c) == FALSE

VniInUse(c) == c.vni # NoVni /\ c.vni \in vpns

CreateVpn(c, k) ==
    /\ Answered(c)
    /\ ~VniInUse(c)
    /\ db' = IF k >= 1 THEN [db EXCEPT ![c.obj] = New(c)] ELSE db
    /\ vpns' = IF k >= 2 THEN vpns \cup ({c.vni} \ {NoVni}) ELSE vpns
    /\ index' = IF k >= 3 THEN index \cup {c.obj} ELSE index
    /\ found' = found \cup (IF k >= 2 /\ c.vni # NoVni THEN {"vpns"} ELSE {})
                     \cup (IF k >= 3 THEN {MapOf(c.obj)} ELSE {})
    /\ Announced(c.obj, k, 1, 3)
    /\ Writes(k, 3)
    /\ Spoil(IF k >= 1 /\ Stored(c.obj) THEN {c.obj} ELSE {})

CreateVrf(c, k) == c.obj \in Vrf /\ CreateVpn(c, k)
CreateLB(c, k)  == c.obj \in Lb /\ CreateVpn(c, k)

\* AddSvi of a VRF and of a bridge, AddBridgePort.
TakesSvi(o, s) == IF o \in Vrf THEN s \notin db[o].users ELSE db[o].users \cap Svi = {}

\* Faulty variant: the addresses in use are not looked at.
TakesPort_AnyMac(l, b, m) == b \notin db[l].users

TakesPort(l, b, m) == b \notin db[l].users /\ ~\E x \in Bp : <<m, x>> \in db[l].macs

\* The bridge refuses a second SVI only after the VRF has been written.
CreateSvi(c, k) ==
    /\ Answered(c)
    /\ c.obj \in Svi
    /\ \E v \in c.refs \cap Vrf, l \in c.refs \cap Lb :
          /\ Stored(v) /\ Stored(l) /\ TakesSvi(v, c.obj)
          /\ db' = [db EXCEPT ![v].users = IF k >= 1 THEN @ \cup {c.obj} ELSE @,
                              ![l].users = IF k >= 2 THEN @ \cup {c.obj} ELSE @,
                              ![c.obj]   = IF k >= 3 THEN New(c) ELSE @]
          /\ Writes(k, IF TakesSvi(l, c.obj) THEN 4 ELSE 1)
          /\ Spoil({o \in (IF k >= 1 THEN {v} ELSE {}) \cup (IF k >= 2 THEN {l} ELSE {}) : Leaving(o)})
    /\ index' = IF k >= 4 THEN index \cup {c.obj} ELSE index
    /\ found' = IF k >= 4 THEN found \cup {"svis"} ELSE found
    /\ Announced(c.obj, k, 3, 4)
    /\ UNCHANGED vpns

\* The bridges a port is put on: all, if it names none (a transparent trunk).
BridgesOf(c) == IF c.refs = {} THEN index \cap Lb ELSE c.refs

NoBridges(c) == c.refs = {} /\ "lbs" \notin found

\* The bridges D have been written when the port itself is (k writes).
CreateBP(c, D, k) ==
    /\ Answered(c)
    /\ c.obj \in Bp /\ ~NoBridges(c)
    /\ D \subseteq BridgesOf(c)
    /\ \A l \in D : Stored(l) /\ TakesPort(l, c.obj, c.mac)
    /\ IF D = BridgesOf(c) THEN Writes(k, 2)
       ELSE k = 0 /\ IF \E l \in BridgesOf(c) \ D : ~(Stored(l) /\ TakesPort(l, c.obj, c.mac))
                     THEN UNCHANGED faults ELSE Writes(0, 1)
    /\ db' = [o \in Obj |->
                 IF o \in D THEN [db[o] EXCEPT !.users = @ \cup {c.obj},
                                               !.macs = @ \cup {<<c.mac, c.obj>>}]
                 ELSE IF o = c.obj /\ k >= 1 THEN [New(c) EXCEPT !.refs = D]
                 ELSE db[o]]
    /\ index' = IF k >= 2 THEN index \cup {c.obj} ELSE index
    /\ found' = IF k >= 2 THEN found \cup {"bps"} ELSE found
    /\ Announced(c.obj, k, 1, 2)
    /\ Spoil({l \in D : Leaving(l)})
    /\ UNCHANGED vpns

\* Refusals before anything is written.
CreateRefused(c) ==
    /\ c.op = "Create"
    /\ Refused(c)
    /\ \/ c.obj \in Vpn /\ VniInUse(c)
       \/ c.obj \in Svi /\ \E v \in c.refs \cap Vrf, l \in c.refs \cap Lb :
             ~Stored(v) \/ ~Stored(l) \/ ~TakesSvi(v, c.obj)
       \/ c.obj \in Bp /\ NoBridges(c)

\* The four updates: neither references nor vpns nor the maps are looked at.
Update(c, k) ==
    /\ Answered(c)
    /\ c.op = "Update"
    /\ db' = IF k = 1 THEN [db EXCEPT ![c.obj] = New(c)] ELSE db
    /\ Announced(c.obj, k, 1, 1)
    /\ Writes(k, 1)
    /\ Spoil(IF k = 1 THEN ({c.obj} \cap Vpn) \cup c.refs ELSE {})
    /\ UNCHANGED <<vpns, index, found>>

\* Faulty variant: the users are not looked at.
InUse_Never(o) == FALSE

InUse(o) == db[o].users # {} \/ db[o].macs # {}

Delete(c, k) ==
    /\ Answered(c)
    /\ c.op = "Delete"
    /\ Stored(c.obj) /\ ~InUse(c.obj)
    /\ db' = IF k = 1 THEN [db EXCEPT ![c.obj].oper = "ToBeDeleted"] ELSE db
    /\ Announced(c.obj, k, 1, 1)
    /\ Writes(k, 1)
    /\ UNCHANGED <<vpns, index, found, spoilt>>

DeleteRefused(c) ==
    /\ c.op = "Delete"
    /\ ~Stored(c.obj) \/ InUse(c.obj)
    /\ Refused(c)

-----------------------------------------------------------------------------
(* UpdateXStatus, when the last component of the stored version succeeds     *)

Finishes(o) ==
    /\ o \in tasks /\ Stored(o)
    /\ UNCHANGED <<found, calls, ops, updates>>

\* Faulty variant: the name stays in its map.
Unlisted_Kept(o) == index

\* The name is deleted from its map.
Unlisted(o) == index \ {o}

\* The TaskManager is told only after the last write; until then it retries.
Done(o, k, n) == tasks' = IF k = n THEN tasks \ {o} ELSE tasks

SetUp(o) ==
    /\ Finishes(o)
    /\ ~Leaving(o)
    /\ db' = [db EXCEPT ![o].oper = "Up"]
    /\ Done(o, 1, 1)
    /\ UNCHANGED <<vpns, index, faults, spoilt>>

\* The last of n writes is to the map of names, and is not reached if the map
\* was never written.
Reached(o, n) == IF MapOf(o) \in found THEN n ELSE n - 1

\* UpdateVrfStatus and UpdateLBStatus.  removeVniFromVpns gives up if vpns was
\* never written.
VpnGone(o, k) ==
    /\ Finishes(o)
    /\ o \in Vpn /\ Leaving(o)
    /\ db' = [db EXCEPT ![o] = Absent]
    /\ vpns' = IF k >= 2 THEN vpns \ {db[o].vni} ELSE vpns
    /\ index' = IF k >= 3 THEN Unlisted(o) ELSE index
    /\ Done(o, k, 3)
    /\ Writes(k, IF db[o].vni = NoVni \/ "vpns" \in found THEN Reached(o, 3) ELSE 1)
    /\ UNCHANGED spoilt

\* UpdateSviStatus: the bridge's DeleteSvi is called after the VRF is written.
SviGone(s, k) ==
    /\ Finishes(s)
    /\ s \in Svi /\ Leaving(s)
    /\ \E v \in db[s].refs \cap Vrf, l \in db[s].refs \cap Lb :
          /\ s \in db[v].users
          /\ db' = [db EXCEPT ![v].users = @ \ {s},
                              ![l].users = IF k >= 2 THEN @ \ {s} ELSE @,
                              ![s]       = IF k >= 3 THEN Absent ELSE @]
          /\ Writes(k, IF s \in db[l].users THEN Reached(s, 4) ELSE 1)
    /\ index' = IF k >= 4 THEN Unlisted(s) ELSE index
    /\ Done(s, k, 4)
    /\ Spoil(IF k < 3 THEN db[s].refs ELSE {})
    /\ UNCHANGED vpns

\* DeleteBridgePort of a bridge; a missing one has an empty table.
ListsPort(l, b) == b \in db[l].users /\ \E x \in Bp : <<db[b].mac, x>> \in db[l].macs

\* UpdateBPStatus: the bridges D have been written when the port is (k).
BpGone(b, D, k) ==
    /\ Finishes(b)
    /\ b \in Bp /\ Leaving(b)
    /\ D \subseteq db[b].refs
    /\ \A l \in D : ListsPort(l, b)
    /\ IF D = db[b].refs THEN Writes(k, Reached(b, 2))
       ELSE k = 0 /\ IF \E l \in db[b].refs \ D : ~ListsPort(l, b)
                     THEN UNCHANGED faults ELSE Writes(0, 1)
    /\ db' = [o \in Obj |->
                 IF o \in D THEN [db[o] EXCEPT !.users = @ \ {b},
                                               !.macs = @ \ ({db[b].mac} \X Bp)]
                 ELSE IF o = b /\ k >= 1 THEN Absent
                 ELSE db[o]]
    /\ index' = IF k >= 2 THEN Unlisted(b) ELSE index
    /\ Done(b, k, 2)
    /\ Spoil(IF k = 0 THEN D ELSE {})
    /\ UNCHANGED vpns

\* A retry that finds the object gone: the task is dropped.
Dropped(o) ==
    /\ o \in tasks /\ ~Stored(o)
    /\ tasks' = tasks \ {o}
    /\ UNCHANGED <<db, vpns, index, found, calls, ops, faults, updates, spoilt>>

-----------------------------------------------------------------------------

Init ==
    /\ db = [o \in Obj |-> Absent]
    /\ vpns = {} /\ index = {} /\ found = {} /\ tasks = {} /\ calls = {}
    /\ ops = 0 /\ faults = 0 /\ updates = 0
    /\ spoilt = {}

Lookup ==
    \/ \E c \in Requests("Create") : LookupForCreate(c)
    \/ \E c \in Requests("Update") : LookupForUpdate(c)
    \/ \E o \in Obj : LookupForDelete(o)

CreateStep(c) ==
    /\ c.op = "Create"
    /\ \/ \E k \in 0 .. 3 : CreateVrf(c, k)
       \/ \E k \in 0 .. 3 : CreateLB(c, k)
       \/ \E k \in 0 .. 4 : CreateSvi(c, k)
       \/ \E D \in SUBSET Lb, k \in 0 .. 2 : CreateBP(c, D, k)
       \/ CreateRefused(c)

CallStep(c) ==
    \/ CreateStep(c)
    \/ \E k \in 0 .. 1 : Update(c, k)
    \/ \E k \in 0 .. 1 : Delete(c, k)
    \/ DeleteRefused(c)

StatusStep(o) ==
    \/ SetUp(o)
    \/ \E k \in 1 .. 3 : VpnGone(o, k)
    \/ \E k \in 1 .. 4 : SviGone(o, k)
    \/ \E D \in SUBSET Lb, k \in 0 .. 2 : BpGone(o, D, k)
    \/ Dropped(o)

Next ==
    \/ Lookup
    \/ \E c \in calls : CallStep(c)
    \/ \E o \in Obj : StatusStep(o)

Spec == Init /\ [][Next]_vars

-----------------------------------------------------------------------------
(* Properties *)

TypeOK ==
    /\ db \in [Obj -> Object]
    /\ vpns \subseteq Vni
    /\ index \subseteq Obj /\ tasks \subseteq Obj /\ spoilt \subseteq Vpn
    /\ found \subseteq {"vpns", "vrfs", "lbs", "svis", "bps"}
    /\ calls \subseteq Requests("Create") \cup Requests("Update") \cup {Removal(o) : o \in Obj}
    /\ ops \in Nat /\ faults \in Nat /\ updates \in Nat

\* No store error and no update so far.
Undisturbed == faults = 0 /\ updates = 0

(* No two VRFs or logical bridges have the same VNI (CreateVrf, CreateLB,     *)
(* removeVniFromVpns), whatever calls race with each other and with the      *)
(* modules' reports.  Updates do not look at vpns, and a store error can     *)
(* leave it behind the objects.                                              *)
VniExclusive ==
    Undisturbed => \A o, p \in Vpn :
        o # p /\ Stored(o) /\ Stored(p) /\ db[o].vni = db[p].vni => db[o].vni = NoVni

(* The maps list exactly what is stored, so that GetAllX finds what it lists *)
(* and lists all of it, also when calls for one object race.                 *)
ListedIsStored == Undisturbed => index = {o \in Obj : Stored(o)}

(* CreateX makes a task only when all it writes is written: in spite of store *)
(* errors nothing is realised that GetAllX and a replay cannot find.         *)
AnnouncedIsListed ==
    updates = 0 => \A o \in tasks : Stored(o) /\ ~Leaving(o) => o \in index

(* As long as something refers to a VRF or a bridge it is stored and knows   *)
(* of it, through racing creations and deletions (CreateSvi, CreateBP,       *)
(* DeleteX, UpdateXStatus); for what is spoilt this is lost.                 *)
RefersToStored ==
    \A u \in Svi \cup Bp : Stored(u) =>
        \A o \in db[u].refs \ spoilt : Stored(o) /\ u \in db[o].users

(* BridgePorts and MacTable of a bridge say the same: every port has one     *)
(* address there and every address belongs to a port (AddBridgePort,         *)
(* DeleteBridgePort), also for ports created twice, updated or refused       *)
(* half-way.  A bridge that is spoilt can lose another port's address.       *)
MacTableAgrees ==
    \A l \in Lb \ spoilt :
        /\ \A p, q \in db[l].macs : p[1] = q[1] \/ p[2] = q[2] => p = q
        /\ {p[2] : p \in db[l].macs} = db[l].users \cap Bp

(* Calls for updates are counted in updates.                                 *)
UpdatesCounted == updates = 0 => \A c \in calls : c.op # "Update"

(* A stored VNI is in vpns, and vpns has been written.                       *)
VniReserved ==
    Undisturbed => \A o \in Vpn : Stored(o) /\ db[o].vni # NoVni =>
        db[o].vni \in vpns /\ "vpns" \in found

(* The map that lists a stored object has been written.                      *)
MapsWritten == Undisturbed => \A o \in Obj : Stored(o) => MapOf(o) \in found

(* What is leaving is not referred to.                                       *)
LeavingUnused == \A o \in Vpn \ spoilt : Leaving(o) => db[o].users = {}

(* A bridge knows its port by the address that the port has.                 *)
AddressKept ==
    \A b \in Bp : Stored(b) => \A l \in db[b].refs \ spoilt : <<db[b].mac, b>> \in db[l].macs

(* The inductive invariant behind the properties above: what CreateX checks  *)
(* and UpdateXStatus undoes is recorded in vpns, the maps and the references *)
(* as long as nothing has spoilt them.                                       *)
IInv ==
    /\ TypeOK /\ UpdatesCounted
    /\ VniExclusive /\ VniReserved
    /\ ListedIsStored /\ MapsWritten
    /\ AnnouncedIsListed
    /\ RefersToStored /\ LeavingUnused
    /\ MacTableAgrees /\ AddressKept

(* What is in use is not deleted (DeleteVrf, DeleteLB): no reference to an    *)
(* object that is gone.                                                      *)
NoDanglingReference ==
    Undisturbed => \A u \in Svi \cup Bp : Stored(u) => \A o \in db[u].refs : Stored(o)

=============================================================================
