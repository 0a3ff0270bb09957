------------------------------ MODULE Devices ------------------------------
(***************************************************************************)
(* What the modules do to the host: the set-up and tear-down functions of   *)
(* LGM, LCI and FRR as sequences of calls to the kernel (through the        *)
(* netlink wrapper) and to the FRR daemons (through vtysh), any of which    *)
(* may fail, together with the handlers that run them and report to InfraDB *)
(* and with the retries of the TaskManager.                                 *)
(*                                                                          *)
(* How a notification reaches a handler is the subject of Realization; here *)
(* a stored object whose component is not in Success is handled again until *)
(* it is.  A handler called for a version that is not the stored one only   *)
(* sends a report that InfraDB drops, so such calls are left out.           *)
(***************************************************************************)
EXTENDS Naturals, Sequences, FiniteSets, SequencesExt

CONSTANTS
    Vrf, Lb, Svi, Bp,  \* names of the four kinds of objects
    Grd,               \* the VRF that stands for the global routing domain
    WithVni,           \* the VRFs and bridges that have a VNI
    VlanOf,            \* the VLAN of a bridge
    VrfOf, LbOf,       \* Vrf and LogicalBridge of an SVI
    LbsOf,             \* LogicalBridges of a bridge port
    EnableBgp,         \* the SVIs with EnableBgp
    Plugged,           \* the ports whose interface exists at the start
    MaxTable,          \* routing tables 1..MaxTable (1000..4000 in the code)
    MaxOps,            \* bound on the creates and deletes of a behaviour
    MaxFaults,         \* bound on the failed calls of a behaviour
    MaxReplays         \* bound on the replays of a behaviour

Vpn == Vrf \cup Lb
Obj == Vpn \cup Svi \cup Bp

ASSUME DevicesAssumption ==
    /\ Vrf \cap Lb = {} /\ Vrf \cap Svi = {} /\ Vrf \cap Bp = {}
    /\ Lb \cap Svi = {} /\ Lb \cap Bp = {} /\ Svi \cap Bp = {}
    /\ WithVni \subseteq Vpn /\ EnableBgp \subseteq Svi /\ Plugged \subseteq Bp
    /\ VlanOf \in [Lb -> Nat] /\ VrfOf \in [Svi -> Vrf] /\ LbOf \in [Svi -> Lb]
    /\ LbsOf \in [Bp -> SUBSET Lb] /\ IsFiniteSet(Lb)
    /\ MaxTable \in Nat /\ MaxOps \in Nat /\ MaxFaults \in Nat /\ MaxReplays \in Nat

VARIABLES
    db,       \* the objects as InfraDB stores them
    host,     \* the kernel's links, VLANs, addresses and routes; FRR's configuration
    ids,      \* RouteTableGen: the routing table of a VRF name
    reports,  \* handlers that have done their work and not yet reported
    alive,    \* the process has not panicked
    dropped,  \* objects whose task was dropped for a replay that failed
    ops, faults, replays,
    spoilt,   \* history: objects whose tear-down took a failed look-up for
              \* absence, and VRFs and bridges that were referred to when they
              \* were already leaving
    emptied   \* history: objects whose FRR configuration went with a replay that
              \* failed afterwards, until FRR handles them again

vars == <<db, host, ids, reports, alive, dropped, ops, faults, replays, spoilt, emptied>>

-----------------------------------------------------------------------------
(* InfraDB *)

Modules == {"lgm", "lci", "frr"}

\* The modules of an object, in the order of their priorities.
Subs(o) == IF o \in Vrf \cup Svi THEN <<"lgm", "frr">>
           ELSE IF o \in Lb THEN <<"lgm">> ELSE <<"lci">>

KindOf(o) == IF o \in Vrf THEN "vrf" ELSE IF o \in Lb THEN "logical-bridge"
             ELSE IF o \in Svi THEN "svi" ELSE "bridge-port"

\* table: Metadata.RoutingTable[0]; NoTable: RoutingTable is empty.
NoTable == MaxTable + 1
Object  == [oper : {"Absent", "Down", "Up", "ToBeDeleted"}, ver : 0..MaxOps + MaxReplays,
            st : [Modules -> {"Pending", "Success", "Error"}], table : 0..NoTable]
Fresh   == [m \in Modules |-> "Pending"]

Stored(o)  == db[o].oper # "Absent"
Leaving(o) == db[o].oper = "ToBeDeleted"
Wanted(o)  == Stored(o) /\ ~Leaving(o)

RefsOf(o)  == IF o \in Svi THEN {VrfOf[o], LbOf[o]} ELSE IF o \in Bp THEN LbsOf[o] ELSE {}
UsersOf(o) == {u \in Svi \cup Bp : Stored(u) /\ o \in RefsOf(u)}

Request(o) ==
    /\ alive
    /\ ops < MaxOps /\ ops' = ops + 1
    /\ dropped' = dropped \ {o}
    /\ UNCHANGED <<host, ids, reports, alive, faults, replays, emptied>>

\* CreateVrf, CreateLB, CreateSvi, CreateBP: what is referred to must be there,
\* though it may be leaving, and a bridge takes one SVI.
Create(o) ==
    /\ Request(o)
    /\ ~Stored(o)
    /\ \A r \in RefsOf(o) : Stored(r)
    /\ o \in Svi => UsersOf(LbOf[o]) \cap Svi = {}
    /\ db' = [db EXCEPT ![o] = [oper |-> "Down", ver |-> @.ver + 1, st |-> Fresh,
                                table |-> NoTable]]
    /\ spoilt' = spoilt \cup {r \in RefsOf(o) : Leaving(r)}

\* DeleteVrf, DeleteLB, DeleteSvi, DeleteBP: every component is Pending again.
Delete(o) ==
    /\ Request(o)
    /\ Stored(o) /\ UsersOf(o) = {}
    /\ db' = [db EXCEPT ![o].oper = "ToBeDeleted", ![o].ver = @ + 1, ![o].st = Fresh]
    /\ UNCHANGED spoilt

-----------------------------------------------------------------------------
(* The host.  A call is a record; Possible says when it can succeed at all   *)
(* and Effect what it does then.                                             *)

Tenant       == <<"br-tenant">>
VrfLink(v)   == <<"vrf", v>>
BrLink(v)    == <<"br", v>>
VxlanLink(x) == <<"vxlan", x>>     \* x: a VRF, or the VLAN of a bridge
SviLink(s)   == <<"svi", VrfOf[s], VlanOf[LbOf[s]]>>
Port(b)      == <<"port", b>>

\* links: what exists; up, addr: links that are up, that have their address;
\* master: <<link, master>>; vlans: <<link, VLAN>>; tables: <<VRF, routing table>>;
\* throw: tables with the default throw route; conf: FRR's configuration
EmptyHost == [links |-> {Tenant} \cup {Port(b) : b \in Plugged}, up |-> {Tenant},
              addr |-> {}, master |-> {}, vlans |-> {}, tables |-> {}, throw |-> {},
              conf |-> {}]

Call(op, link, arg) == [op |-> op, link |-> link, arg |-> arg]

LinkByName(n)       == Call("LinkByName", n, 0)
LinkOrGone(n)       == Call("LinkOrGone", n, 0)  \* an error ends the tear-down in success
LinkAdd(n)          == Call("LinkAdd", n, 0)
LinkAddVrf(v, t)    == Call("LinkAddVrf", v, t)
LinkDel(n)          == Call("LinkDel", n, 0)
LinkSetMaster(n, m) == Call("LinkSetMaster", n, m)
LinkSetUp(n)        == Call("LinkSetUp", n, 0)
LinkSetDown(n)      == Call("LinkSetDown", n, 0)
LinkSetAttr(n)      == Call("LinkSetAttr", n, 0) \* MTU, hardware address, neigh_suppress
BridgeVlanAdd(n, x) == Call("BridgeVlanAdd", n, x)
BridgeVlanDel(n, x) == Call("BridgeVlanDel", n, x)
AddrAdd(n)          == Call("AddrAdd", n, 0)
RouteList(t)        == Call("RouteList", t, 0)   \* needs nothing, may fail
RouteAdd(t)         == Call("RouteAdd", t, 0)
RouteFlush(t)       == Call("RouteFlush", t, 0)
GetLB(l)            == Call("GetLB", l, 0)
Conf(item)          == Call("Conf", item, 0)
NoConf(item)        == Call("NoConf", item, 0)
Show(item)          == Call("Show", item, 0)         \* the text after "json" is taken unasked
ShowOrGone(item)    == Call("ShowOrGone", item, 0)   \* an error ends the tear-down in success
Parse(item)         == Call("Parse", item, 0)
Deref(isNil)        == Call("Deref", isNil, 0)

\* BridgeVlanAdd, BridgeVlanDel and FRR's commands can be repeated, as can the
\* settings of a link.  The kernel has no VRF with table 0, and takes table 0
\* for all tables in a flush.
Possible(h, c) ==
    CASE c.op = "LinkAdd"       -> c.link \notin h.links
      [] c.op = "LinkAddVrf"    -> VrfLink(c.link) \notin h.links /\ c.arg # 0
      [] c.op = "LinkSetMaster" -> {c.link, c.arg} \subseteq h.links
      [] c.op = "AddrAdd"       -> c.link \in h.links \ h.addr
      [] c.op = "RouteAdd"      -> c.link \notin h.throw
      [] c.op = "GetLB"         -> Stored(c.link)
      [] c.op = "Deref"         -> ~c.link
      [] c.op \in {"LinkByName", "LinkOrGone", "LinkDel", "LinkSetUp", "LinkSetDown",
                   "LinkSetAttr", "BridgeVlanAdd", "BridgeVlanDel"} -> c.link \in h.links
      [] OTHER -> TRUE

\* A link that goes takes what it has along, and frees the links enslaved to it.
Without(h, n) ==
    [h EXCEPT !.links = @ \ {n}, !.up = @ \ {n}, !.addr = @ \ {n},
              !.vlans = {p \in @ : p[1] # n}, !.tables = {p \in @ : VrfLink(p[1]) # n},
              !.master = {p \in @ : p[1] # n /\ p[2] # n}]

\* Removing a BGP instance removes its neighbors.
Effect(h, c) ==
    CASE c.op = "LinkAdd"       -> [h EXCEPT !.links = @ \cup {c.link}]
      [] c.op = "LinkAddVrf"    -> [h EXCEPT !.links = @ \cup {VrfLink(c.link)},
                                             !.tables = @ \cup {<<c.link, c.arg>>}]
      [] c.op = "LinkDel"       -> Without(h, c.link)
      [] c.op = "LinkSetMaster" -> [h EXCEPT !.master = {p \in @ : p[1] # c.link}
                                                            \cup {<<c.link, c.arg>>}]
      [] c.op = "LinkSetUp"     -> [h EXCEPT !.up = @ \cup {c.link}]
      [] c.op = "LinkSetDown"   -> [h EXCEPT !.up = @ \ {c.link}]
      [] c.op = "BridgeVlanAdd" -> [h EXCEPT !.vlans = @ \cup {<<c.link, c.arg>>}]
      [] c.op = "BridgeVlanDel" -> [h EXCEPT !.vlans = @ \ {<<c.link, c.arg>>}]
      [] c.op = "AddrAdd"       -> [h EXCEPT !.addr = @ \cup {c.link}]
      [] c.op = "RouteAdd"      -> [h EXCEPT !.throw = @ \cup {c.link}]
      [] c.op = "RouteFlush"    -> [h EXCEPT !.throw = {t \in @ : c.link # 0 /\ t # c.link}]
      [] c.op = "Conf"          -> [h EXCEPT !.conf = @ \cup {c.link}]
      [] c.op = "NoConf"        -> [h EXCEPT !.conf = {i \in @ : i # c.link /\
                                        ~(c.link[1] = "bgp" /\ i[1] = "neighbor" /\ i[2] = c.link[2])}]
      [] OTHER -> h

-----------------------------------------------------------------------------
(* The set-up and tear-down functions, up to their first failing call.       *)

\* Faulty variant: an identifier stays among the unused ones.
GetID_Lowest(v) == 1

\* IDPool.GetID: the identifier the name has, or the lowest unused one; LGM
\* never gives one back.
GetID(v) == LET used == Cardinality({w \in Vrf : ids[w] # 0})
            IN  IF ids[v] # 0 THEN ids[v] ELSE IF used < MaxTable THEN used + 1 ELSE 0

VlanLink(l) == VxlanLink(VlanOf[l])

lgm_setUpBridge(l) ==
    IF l \notin WithVni THEN <<>>
    ELSE << LinkByName(Tenant), LinkAdd(VlanLink(l)), LinkSetMaster(VlanLink(l), Tenant),
            LinkSetUp(VlanLink(l)), BridgeVlanAdd(VlanLink(l), VlanOf[l]),
            LinkSetAttr(VlanLink(l)) >>

\* Faulty variant: a link that is not there is an error.
lgm_tearDownBridge_Strict(l) ==
    IF l \notin WithVni THEN <<>> ELSE << LinkByName(VlanLink(l)), LinkDel(VlanLink(l)) >>

lgm_tearDownBridge(l) ==
    IF l \notin WithVni THEN <<>> ELSE << LinkOrGone(VlanLink(l)), LinkDel(VlanLink(l)) >>

lgm_setUpVrf(v) ==
    IF v = Grd THEN <<>>
    ELSE << RouteList(GetID(v)), RouteList("local"), LinkAddVrf(v, GetID(v)),
            LinkByName(VrfLink(v)), LinkSetAttr(VrfLink(v)), LinkSetUp(VrfLink(v)),
            AddrAdd(VrfLink(v)), RouteAdd(GetID(v)) >>
         \o IF v \notin WithVni THEN <<>>
            ELSE << LinkAdd(BrLink(v)), LinkByName(BrLink(v)), LinkSetAttr(BrLink(v)),
                    LinkByName(VrfLink(v)), LinkSetMaster(BrLink(v), VrfLink(v)),
                    LinkSetUp(BrLink(v)), LinkAdd(VxlanLink(v)), LinkByName(VxlanLink(v)),
                    LinkSetMaster(VxlanLink(v), BrLink(v)), LinkSetUp(VxlanLink(v)) >>

\* RoutingTable[0] is read before anything is deleted.
lgm_tearDownVrf(v) ==
    << LinkOrGone(VrfLink(v)) >>
    \o IF v = Grd THEN <<>>
       ELSE << Deref(db[v].table = NoTable) >>
            \o (IF v \notin WithVni THEN <<>>
                ELSE << LinkByName(VxlanLink(v)), LinkDel(VxlanLink(v)),
                        LinkByName(BrLink(v)), LinkDel(BrLink(v)) >>)
            \o << RouteFlush(db[v].table), LinkDel(VrfLink(v)) >>

lgm_setUpSvi(s) ==
    << GetLB(LbOf[s]), LinkByName(Tenant), BridgeVlanAdd(Tenant, VlanOf[LbOf[s]]),
       LinkAdd(SviLink(s)), LinkSetAttr(SviLink(s)), LinkByName(VrfLink(VrfOf[s])),
       LinkSetMaster(SviLink(s), VrfLink(VrfOf[s])), LinkSetUp(SviLink(s)),
       LinkSetAttr(SviLink(s)), AddrAdd(SviLink(s)) >>

lgm_tearDownSvi(s) ==
    << GetLB(LbOf[s]), LinkByName(Tenant), BridgeVlanDel(Tenant, VlanOf[LbOf[s]]),
       LinkOrGone(SviLink(s)), LinkDel(SviLink(s)) >>

\* One list of calls per bridge of a port.
PerBridge(b, calls) == FlattenSeq([i \in 1..Cardinality(LbsOf[b]) |-> calls[SetToSeq(LbsOf[b])[i]]])

lci_setUpBp(b) ==
    LET onBridge == [l \in Lb |-> << GetLB(l), BridgeVlanAdd(Port(b), VlanOf[l]) >>]
    IN  << LinkByName(Tenant), LinkByName(Port(b)), LinkSetMaster(Port(b), Tenant) >>
        \o PerBridge(b, onBridge) \o << LinkSetUp(Port(b)) >>

lci_tearDownBp(b) ==
    LET offBridge == [l \in Lb |-> << GetLB(l), BridgeVlanDel(Port(b), VlanOf[l]) >>]
    IN  << LinkByName(Port(b)), LinkSetDown(Port(b)) >>
        \o PerBridge(b, offBridge) \o << LinkDel(Port(b)) >>

Neighbor(s) == <<"neighbor", VrfOf[s], VlanOf[LbOf[s]]>>

frr_setUpVrf(v) ==
    IF v = Grd \/ v \notin WithVni THEN <<>>
    ELSE << Conf(<<"vni", v>>), Conf(<<"bgp", v>>), Show(v), Parse(v), Show(v), Parse(v) >>

\* *vrf.Spec.Vni is read whether or not there is a VNI.
frr_tearDownVrf(v) ==
    IF v = Grd THEN <<>>
    ELSE << ShowOrGone(v), Deref(v \notin WithVni), NoConf(<<"bgp", v>>), NoConf(<<"vni", v>>) >>

\* Entering "router bgp" creates the instance of the VRF.
frr_setUpSvi(s) ==
    << GetLB(LbOf[s]) >>
    \o IF s \notin EnableBgp THEN <<>> ELSE << Conf(<<"bgp", VrfOf[s]>>), Conf(Neighbor(s)) >>

frr_tearDownSvi(s) ==
    << GetLB(LbOf[s]) >>
    \o IF s \notin EnableBgp THEN <<>> ELSE << Conf(<<"bgp", VrfOf[s]>>), NoConf(Neighbor(s)) >>

-----------------------------------------------------------------------------
(* Handlers *)

\* Which function a handler runs on the object it has loaded.
lgm_handleLB(l)  == IF Leaving(l) THEN lgm_tearDownBridge(l) ELSE lgm_setUpBridge(l)
lgm_handlevrf(v) == IF Leaving(v) THEN lgm_tearDownVrf(v) ELSE lgm_setUpVrf(v)
lgm_handlesvi(s) == IF Leaving(s) THEN lgm_tearDownSvi(s) ELSE lgm_setUpSvi(s)
frr_handlevrf(v) == IF Leaving(v) THEN frr_tearDownVrf(v) ELSE frr_setUpVrf(v)
frr_handlesvi(s) == IF Leaving(s) THEN frr_tearDownSvi(s) ELSE frr_setUpSvi(s)
lci_handlebp(b)  == IF Leaving(b) THEN lci_tearDownBp(b) ELSE lci_setUpBp(b)

\* HandleEvent of a module.
Calls(m, o) ==
    CASE m = "lgm" /\ o \in Lb  -> lgm_handleLB(o)
      [] m = "lgm" /\ o \in Vrf -> lgm_handlevrf(o)
      [] m = "lgm" /\ o \in Svi -> lgm_handlesvi(o)
      [] m = "frr" /\ o \in Vrf -> frr_handlevrf(o)
      [] m = "frr" /\ o \in Svi -> frr_handlesvi(o)
      [] m = "lci" -> lci_handlebp(o)

\* The host after the first n calls, for each n.
HostAfter(calls) ==
    LET hs[n \in 0..Len(calls)] == IF n = 0 THEN host ELSE Effect(hs[n - 1], calls[n])
    IN  hs

\* The number of calls that succeed if none fails by itself.
Reach(calls) ==
    LET hs == HostAfter(calls)
    IN  Min({Len(calls)} \cup {n \in 0..Len(calls) - 1 : ~Possible(hs[n], calls[n + 1])})

\* What ends a handler whose first n calls succeed.
Stops(calls, n, Ops) == n < Len(calls) /\ calls[n + 1].op \in Ops

Succeeds(calls, n) == n = Len(calls) \/ Stops(calls, n, {"LinkOrGone", "ShowOrGone"})
Panics(calls, n)   == Stops(calls, n, {"Show", "Deref"})

\* The subscriber goroutine of a module and an event type is busy.
Busy(m, o) == \E r \in reports : r.mod = m /\ KindOf(r.obj) = KindOf(o)

\* The table a VRF's set-up reports: 0 until it has succeeded.
TableOf(m, o, done) ==
    IF m # "lgm" \/ o \notin Vrf \ {Grd} \/ Leaving(o) THEN NoTable
    ELSE IF done THEN GetID(o) ELSE 0

\* A handler: n calls succeed, and the next one, if any, fails; fewer than can
\* succeed only because of a failure.
Handle(m, o) ==
    /\ alive
    /\ Stored(o) /\ o \notin dropped
    /\ \E i \in DOMAIN Subs(o) :
          /\ m = Subs(o)[i] /\ db[o].st[m] # "Success"
          /\ \A j \in 1..i - 1 : db[o].st[Subs(o)[j]] = "Success"
    /\ ~Busy(m, o)
    /\ LET calls == Calls(m, o)
           reach == Reach(calls)
       IN  \E n \in 0..reach :
            /\ IF n = reach THEN UNCHANGED faults
               ELSE /\ faults < MaxFaults /\ faults' = faults + 1
                    /\ calls[n + 1].op # "Deref"
            /\ host' = HostAfter(calls)[n]
            /\ alive' = ~Panics(calls, n)
            /\ reports' = reports \cup {[obj |-> o, mod |-> m, ver |-> db[o].ver,
                                         ok |-> Succeeds(calls, n),
                                         table |-> TableOf(m, o, Succeeds(calls, n))]}
            /\ spoilt' = IF n < reach /\ Succeeds(calls, n) THEN spoilt \cup {o} ELSE spoilt
            /\ emptied' = IF m = "frr" /\ Succeeds(calls, n) THEN emptied \ {o} ELSE emptied
    /\ ids' = IF TableOf(m, o, TRUE) = NoTable THEN ids ELSE [ids EXCEPT ![o] = GetID(o)]
    /\ UNCHANGED <<db, dropped, ops, replays>>

-----------------------------------------------------------------------------
(* UpdateVrfStatus, UpdateLBStatus, UpdateSviStatus, UpdateBPStatus *)

\* Faulty variant: the version is not compared.
Current_ByName(r) == Stored(r.obj)

Current(r) == Stored(r.obj) /\ db[r.obj].ver = r.ver

\* Faulty variant: a failure leaves the status unset.
Updated_Unset(r) == [db[r.obj] EXCEPT !.st[r.mod] = IF r.ok THEN "Success" ELSE "Unspecified",
                                      !.table = IF r.table = NoTable THEN @ ELSE r.table]

Updated(r) == [db[r.obj] EXCEPT !.st[r.mod] = IF r.ok THEN "Success" ELSE "Error",
                                !.table = IF r.table = NoTable THEN @ ELSE r.table]

AllSuccess(x, o) == \A i \in DOMAIN Subs(o) : x.st[Subs(o)[i]] = "Success"

Report(r) ==
    /\ alive
    /\ reports' = reports \ {r}
    /\ db' = IF ~Current(r) THEN db
             ELSE [db EXCEPT ![r.obj] =
                     IF ~AllSuccess(Updated(r), r.obj) THEN Updated(r)
                     ELSE IF Leaving(r.obj)
                          THEN [@ EXCEPT !.oper = "Absent", !.st = Fresh, !.table = NoTable]
                     ELSE [Updated(r) EXCEPT !.oper = "Up"]]
    /\ UNCHANGED <<host, ids, alive, dropped, ops, faults, replays, spoilt, emptied>>

\* A report of FRR that asks for a replay: its task is dropped.
AsksForReplay(r) ==
    /\ alive
    /\ r.mod = "frr" /\ ~r.ok /\ Current(r)
    /\ replays < MaxReplays /\ replays' = replays + 1
    /\ reports' = reports \ {r}
    /\ UNCHANGED <<ids, alive, ops, faults, spoilt>>

\* Faulty variant: only who has not succeeded is asked again.
Prepared_Failed(x) ==
    [x EXCEPT !.oper = IF @ = "Up" THEN "Down" ELSE @, !.ver = @ + 1,
              !.st = [m \in Modules |-> IF @[m] # "Success" THEN "Pending" ELSE @[m]]]

\* prepareObjectsForReplay: FRR, and whoever has not succeeded, is asked again.
Prepared(x) ==
    [x EXCEPT !.oper = IF @ = "Up" THEN "Down" ELSE @, !.ver = @ + 1,
              !.st = [m \in Modules |-> IF m = "frr" \/ @[m] # "Success" THEN "Pending" ELSE @[m]]]

\* What gatherObjectsAndSubsToReplay collects for FRR, kind by kind.
Configured == {o \in Vrf \cup Svi : Stored(o)}

\* handlePreReplay: FRR restarts with its basic configuration; the objects in R
\* are stored as prepared.
Restarted(r, R) ==
    /\ AsksForReplay(r)
    /\ host' = [host EXCEPT !.conf = {}]
    /\ db' = [o \in Obj |-> IF o \in R THEN Prepared(db[o]) ELSE db[o]]
    /\ emptied' = emptied \cup (Configured \ R)

\* startReplayProcedure: every object gets a task.
Replay(r) == Restarted(r, Configured) /\ UNCHANGED dropped

\* The restart or a call to the store fails after FRR's configuration has been
\* replaced: no object gets a task, those stored as prepared so far included.
ReplayBreaksOff(r) ==
    \E R \in SUBSET Configured :
        /\ R # Configured
        /\ \E first \in {Vrf, Svi} : R \subseteq first \/ Configured \cap first \subseteq R
        /\ Restarted(r, R)
        /\ dropped' = dropped \cup {r.obj} \cup R

\* handlePreReplay gives up before FRR has been restarted.
ReplayFails(r) ==
    /\ AsksForReplay(r)
    /\ dropped' = dropped \cup {r.obj}
    /\ UNCHANGED <<host, db, emptied>>

\* The interface of a port (a representor) appears.
Plug(b) ==
    /\ alive
    /\ Port(b) \notin host.links
    /\ host' = [host EXCEPT !.links = @ \cup {Port(b)}]
    /\ UNCHANGED <<db, ids, reports, alive, dropped, ops, faults, replays, spoilt, emptied>>

-----------------------------------------------------------------------------

Init ==
    /\ db = [o \in Obj |-> [oper |-> "Absent", ver |-> 0, st |-> Fresh, table |-> NoTable]]
    /\ host = EmptyHost
    /\ ids = [v \in Vrf |-> 0]
    /\ reports = {} /\ alive = TRUE /\ dropped = {} /\ spoilt = {} /\ emptied = {}
    /\ ops = 0 /\ faults = 0 /\ replays = 0

Next ==
    \/ \E o \in Obj : Create(o) \/ Delete(o) \/ \E m \in Modules : Handle(m, o)
    \/ \E r \in reports : Report(r) \/ Replay(r) \/ ReplayBreaksOff(r) \/ ReplayFails(r)
    \/ \E b \in Bp : Plug(b)

Spec == Init /\ [][Next]_vars

-----------------------------------------------------------------------------
(* Properties *)

\* The contents of the store, the host and the reports keep their types.
TypeOK ==
    /\ db \in [Obj -> Object]
    /\ ids \in [Vrf -> 0..MaxTable]
    /\ \A r \in reports : /\ r.obj \in Obj /\ r.mod \in Range(Subs(r.obj))
                          /\ r.ver \in 1..db[r.obj].ver /\ r.ok \in BOOLEAN
                          /\ r.table \in 0..NoTable
    /\ alive \in BOOLEAN /\ dropped \subseteq Obj /\ spoilt \subseteq Obj /\ emptied \subseteq Obj
    /\ host.up \cup host.addr \subseteq host.links
    /\ \A p \in host.master : {p[1], p[2]} \subseteq host.links
    /\ \A p \in host.vlans : p[1] \in host.links
    /\ ops \in 0..MaxOps /\ faults \in 0..MaxFaults /\ replays \in 0..MaxReplays

\* A link that is up and enslaved to another.
Serves(n, m) == n \in host.up /\ <<n, m>> \in host.master

\* What is there when a module has set up an object.
InPlace(m, o) ==
    /\ m = "lgm" /\ o \in Lb \cap WithVni =>
          Serves(VlanLink(o), Tenant) /\ <<VlanLink(o), VlanOf[o]>> \in host.vlans
    /\ m = "lgm" /\ o \in Vrf \ {Grd} =>
          /\ VrfLink(o) \in host.up \cap host.addr
          /\ <<o, db[o].table>> \in host.tables
          /\ o \in WithVni => Serves(BrLink(o), VrfLink(o)) /\ Serves(VxlanLink(o), BrLink(o))
    /\ m = "lgm" /\ o \in Svi =>
          /\ Serves(SviLink(o), VrfLink(VrfOf[o])) /\ SviLink(o) \in host.addr
          /\ <<Tenant, VlanOf[LbOf[o]]>> \in host.vlans
    /\ m = "lci" =>
          Serves(Port(o), Tenant) /\ \A l \in LbsOf[o] : <<Port(o), VlanOf[l]>> \in host.vlans
    /\ m = "frr" /\ o \in Vrf \ {Grd} /\ o \in WithVni =>
          {<<"vni", o>>, <<"bgp", o>>} \subseteq host.conf
    /\ m = "frr" /\ o \in EnableBgp => {<<"bgp", VrfOf[o]>>, Neighbor(o)} \subseteq host.conf

Sound(o) == ({o} \cup RefsOf(o)) \cap spoilt = {}

\* Whatever other objects come, go and fail half-way meanwhile, what a module
\* reported as set up stays complete on the host until the object is deleted,
\* but for FRR's part of it after a replay that emptied FRR and then failed.
SuccessIsInPlace ==
    \A o \in Obj : Wanted(o) /\ Sound(o) =>
        \A i \in DOMAIN Subs(o) :
            /\ db[o].st[Subs(o)[i]] = "Success"
            /\ ~(Subs(o)[i] = "frr" /\ o \in emptied)
            => InPlace(Subs(o)[i], o)

\* What belongs to an object on the host.
LeftOver(o) ==
    \/ o \in Lb /\ VlanLink(o) \in host.links
    \/ o \in Vrf /\ \/ {VrfLink(o), BrLink(o), VxlanLink(o)} \cap host.links # {}
                    \/ ids[o] \in host.throw
                    \/ {<<"vni", o>>, <<"bgp", o>>} \cap host.conf # {}
    \/ o \in Svi /\ \/ SviLink(o) \in host.links
                    \/ <<Tenant, VlanOf[LbOf[o]]>> \in host.vlans
                    \/ Neighbor(o) \in host.conf
    \/ o \in Bp /\ \/ Port(o) \in host.up
                   \/ \E p \in host.master : p[1] = Port(o)
                   \/ \E p \in host.vlans : p[1] = Port(o)

\* An object disappears from the store only when nothing of it is left on the
\* host, although its set-up may have stopped anywhere and its tear-down may
\* have taken several attempts, unless a failed look-up was taken for absence.
GoneWithoutTrace == \A o \in Obj : ~Stored(o) /\ Sound(o) => ~LeftOver(o)

\* The tear-down of a bridge, of an SVI and of a port whose interface exists
\* can be repeated from wherever an earlier set-up or tear-down stopped, unless
\* the object was put on one that was already leaving.
TearDownCanBeRepeated ==
    \A o \in Lb \cup Svi \cup Bp : Leaving(o) /\ Sound(o) /\ (o \in Bp => Port(o) \in host.links) =>
        LET calls == Calls(Subs(o)[1], o) IN Succeeds(calls, Reach(calls))

\* Two VRFs never share a routing table, although tables are assigned to names
\* in set-ups that may fail afterwards.
TablesAreExclusive == \A p, q \in host.tables : p[2] = q[2] => p = q

\* A set-up that is retried can succeed as soon as what the object refers to
\* has been set up.
SetUpCanBeRetried ==
    \A o \in Obj : /\ alive /\ Wanted(o) /\ db[o].st[Subs(o)[1]] = "Error"
                   /\ \A r \in RefsOf(o) : db[r].oper = "Up"
                   /\ o \in Bp => Port(o) \in host.links
        => LET calls == Calls(Subs(o)[1], o) IN Succeeds(calls, Reach(calls))
=============================================================================
