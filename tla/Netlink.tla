------------------------------ MODULE Netlink ------------------------------
(***************************************************************************)
(* The netlink watcher: it polls the kernel's neighbors, routes and         *)
(* forwarding entries, resolves them against each other and against         *)
(* InfraDB, compares the result with the previous poll and tells the        *)
(* subscriber (the vendor's module) what has been added, changed and        *)
(* deleted.  A poll takes many commands, between which the kernel and       *)
(* InfraDB go on changing.                                                  *)
(*                                                                          *)
(* Left out: default routes and routes of unknown types (dropped when they  *)
(* are read), the order in which a list is read where nothing depends on    *)
(* it, and the forwarding entries without a VLAN, of which only the address *)
(* of the VTEP is used.  The identifier of a nexthop is a function of its   *)
(* key (nhIDCache never forgets), so the key stands for it.  A reference of *)
(* a nexthop to a route is the route as it was made: its key, its gateway   *)
(* and the index of its device, which deepEqual compares too.               *)
(***************************************************************************)
EXTENDS Naturals, Sequences, FiniteSets, Functions, SequencesExt

CONSTANTS
    Vrf, Grd,       \* tenant VRFs (with a VNI), and the global routing domain
    Hop, Vtep,      \* gateways on the physical ports, and remote VTEPs
    Host,           \* gateways on the SVIs of the tenants
    NoGw,           \* no gateway: the route ends on a device
    Learnable,      \* the routes the kernel may have: [vrf, dst, gws]
    Mac, Port,      \* MAC addresses, and the ports of the bridge
    Nowhere,        \* a MAC address that is not in the forwarding table
    EnableEcmp,     \* config: more than one nexthop per route
    MaxLives,       \* bound on the times a VRF is set up anew
    MaxEvents       \* bound on the changes of the traffic and of the ports and on
                    \* the commands and look-ups that go wrong, together

Gateway == Hop \cup Vtep \cup Host

ASSUME NetlinkAssumption ==
    /\ Grd \notin Vrf /\ NoGw \notin Gateway /\ Nowhere \notin Port \cup Vtep
    /\ Hop \cap Vtep = {} /\ Hop \cap Host = {} /\ Vtep \cap Host = {}
    /\ \A r \in Learnable : r \in [vrf : Vrf \cup {Grd}, dst : {r.dst},
                                  gws : Seq(Gateway \cup {NoGw}) \ {<< >>}]
    /\ EnableEcmp \in BOOLEAN /\ MaxLives \in Nat /\ MaxEvents \in Nat

VARIABLES
    kernel,   \* neighbors, routes, forwarding entries, devices of the VRFs
    vrfs,     \* InfraDB: status of the VRFs
    rmac,     \* InfraDB: VRFs whose router MAC is in the details of FRR's status
    ports,    \* InfraDB: addresses in the MacTable of the bridge
    pc,       \* where monitorNetlink is
    todo,     \* VRFs that are still to be read in this poll
    cur,      \* the VRF that is being read
    leaving,  \* the VRFs that were being deleted when this poll listed them
    deaf,     \* addresses that cannot be looked up while the routes of cur are read
    names,    \* nameIndex: the SVI devices (VRF and index) that have been seen
    latest,   \* latestNeighbors, latestRoutes, latestNexthop, latestFDB, latestL2Nexthop
    db,       \* routes, nexthops, fDB, l2Nexthops
    sub,      \* what the subscriber has been told
    stop,     \* stopMonitoring
    overtaken,  \* history: VRFs set up anew while a poll had the old object
    events

env  == <<kernel, vrfs, rmac, ports, overtaken>>
poll == <<pc, todo, cur, leaving, deaf, names, latest, db, sub>>
vars == <<env, poll, stop, events>>

-----------------------------------------------------------------------------
(* The kernel and InfraDB *)

Kinds == {"route", "nh", "fdb", "l2"}

Empty == << >>      \* the map without keys

\* neigh: [vrf, addr, mac] of the usable neighbors; fdb: where a MAC is;
\* gen: the interface indices of a VRF's devices, anew each time they are made.
Neighbor == [vrf : {Grd}, addr : Hop, mac : Mac] \cup [vrf : Vrf, addr : Vtep \cup Host, mac : Mac]

Unique(rs) == \A r, s \in rs : <<r.vrf, r.dst>> = <<s.vrf, s.dst>> => r = s

Changes ==
    /\ events < MaxEvents /\ events' = events + 1
    /\ UNCHANGED <<overtaken, poll, stop>>

BeingDeleted == {v \in Vrf : vrfs[v] = "ToBeDeleted"}

HasDevice(v) == v = Grd \/ v \in kernel.devs

LearnRoute(r) ==
    /\ Changes
    /\ HasDevice(r.vrf) /\ Unique(kernel.routes \cup {r})
    /\ kernel' = [kernel EXCEPT !.routes = @ \cup {r}]
    /\ UNCHANGED <<vrfs, rmac, ports>>

WithdrawRoute(r) ==
    /\ Changes
    /\ kernel' = [kernel EXCEPT !.routes = @ \ {r}]
    /\ UNCHANGED <<vrfs, rmac, ports>>

\* A neighbor is learned or its address changes.
LearnNeighbor(n) ==
    /\ Changes
    /\ HasDevice(n.vrf) /\ n \notin kernel.neigh
    /\ kernel' = [kernel EXCEPT !.neigh = {m \in @ : <<m.vrf, m.addr>> # <<n.vrf, n.addr>>} \cup {n}]
    /\ UNCHANGED <<vrfs, rmac, ports>>

LoseNeighbor(n) ==
    /\ Changes
    /\ kernel' = [kernel EXCEPT !.neigh = @ \ {n}]
    /\ UNCHANGED <<vrfs, rmac, ports>>

MoveMac(m, where) ==
    /\ Changes
    /\ kernel.fdb[m] # where
    /\ kernel' = [kernel EXCEPT !.fdb[m] = where]
    /\ UNCHANGED <<vrfs, rmac, ports>>

\* A bridge port with this address is created or deleted.
TogglePort(m) ==
    /\ Changes
    /\ ports' = IF m \in ports THEN ports \ {m} ELSE ports \cup {m}
    /\ UNCHANGED <<kernel, vrfs, rmac>>

\* A tenant's VRF goes from one status to the next.
VrfStep(v, from, to) ==
    /\ vrfs[v] = from /\ vrfs' = [vrfs EXCEPT ![v] = to]
    /\ UNCHANGED <<ports, poll, stop>>

\* In the store, without a routing table yet.
CreateVrf(v) ==
    /\ kernel.gen[v] <= MaxLives
    /\ VrfStep(v, "Absent", "Created")
    /\ UNCHANGED <<kernel, rmac, overtaken, events>>

\* Set up by LGM; the name keeps the number of the routing table.
SetUpVrf(v) ==
    /\ VrfStep(v, "Created", "Down")
    /\ kernel' = [kernel EXCEPT !.devs = @ \cup {v}]
    /\ overtaken' = IF pc \in {"neighbors", "routes"} /\ v \in leaving
                    THEN overtaken \cup {v} ELSE overtaken
    /\ UNCHANGED <<rmac, events>>

\* Set up by FRR, which reports the router MAC.
VrfUp(v) ==
    /\ VrfStep(v, "Down", "Up") /\ rmac' = rmac \cup {v}
    /\ UNCHANGED <<kernel, overtaken, events>>

\* Replayed after a restart of FRR: the details of its status are cleared.
ReplayVrf(v) ==
    /\ events < MaxEvents /\ events' = events + 1
    /\ VrfStep(v, "Up", "Down") /\ rmac' = rmac \ {v}
    /\ UNCHANGED <<kernel, overtaken>>

\* The details of the statuses stay.
DeleteVrf(v) ==
    /\ \E status \in {"Created", "Down", "Up"} : VrfStep(v, status, "ToBeDeleted")
    /\ UNCHANGED <<kernel, rmac, overtaken, events>>

\* Torn down by LGM: the kernel drops what belongs to the devices.
TearDownVrf(v) ==
    /\ v \in kernel.devs
    /\ VrfStep(v, "ToBeDeleted", "ToBeDeleted")
    /\ kernel' = [kernel EXCEPT !.devs = @ \ {v}, !.gen[v] = @ + 1,
                                !.routes = {r \in @ : r.vrf # v}, !.neigh = {n \in @ : n.vrf # v}]
    /\ UNCHANGED <<rmac, overtaken, events>>

\* Torn down by FRR, and removed from the store.
VrfGone(v) ==
    /\ v \notin kernel.devs /\ VrfStep(v, "ToBeDeleted", "Absent") /\ rmac' = rmac \ {v}
    /\ UNCHANGED <<kernel, overtaken, events>>

-----------------------------------------------------------------------------
(* Reading the kernel *)

PCs == {"idle", "neighbors", "routes", "list", "dump", "annotate", "notify", "done", "dead"}

NothingRead == [neigh |-> {}, route |-> Empty, nh |-> Empty, fdb |-> Empty, l2 |-> Empty]

Disturbed(step) == step /\ events < MaxEvents /\ events' = events + 1

\* A command that fails, or that finds nothing, is as good as an empty table.
May(ok, failed) == (ok /\ UNCHANGED events) \/ Disturbed(failed)

\* resyncWithKernel starts; without the GRD nothing is read.
StartPoll ==
    /\ pc = "idle" /\ ~stop
    /\ May(pc' = "neighbors" /\ todo' = {Grd}, pc' = "annotate" /\ todo' = {})
    /\ UNCHANGED <<env, stop, cur, leaving, deaf, names, latest, db, sub>>

\* A look-up whose result is used without a check has failed: the process ends.
Die == pc' = "dead" /\ UNCHANGED <<latest, names>>

SviSeen(v) == <<v, kernel.gen[v]>> \in names

\* neighborAnnotate: the type of a neighbor that zebra has not installed.  One
\* on a physical port is PHY, unless the route to it cannot be looked up (OTHER)
\* or leads elsewhere (IGNORE): unrouted says which.
NeighborType(n, unrouted) ==
    CASE n.addr \in Hop -> IF n.addr \in DOMAIN unrouted THEN unrouted[n.addr] ELSE "PHY"
      [] n.addr \in Host /\ SviSeen(n.vrf) -> IF n.mac \in ports THEN "SVI" ELSE "IGNORE"
      [] OTHER -> "OTHER"

\* neighborAnnotate takes the VLAN of a neighbor that zebra has installed on an
\* SVI from the name of a device that is never set; parseNeigh uses the device
\* of each neighbor without asking whether it is still there.
DiesReading(seen) == SviSeen(cur') \/ seen # {}

Addresses(seen) == {n.addr : n \in seen}

readNeighbors ==
    /\ pc = "neighbors"
    /\ cur' \in todo /\ todo' = todo \ {cur'}
    /\ LET seen == {n \in kernel.neigh : n.vrf = cur'}
           Add(unrouted) ==
               latest' = [latest EXCEPT !.neigh = @ \cup {[vrf |-> n.vrf, addr |-> n.addr, mac |-> n.mac,
                             type |-> NeighborType(n, unrouted), gen |-> kernel.gen[n.vrf]] : n \in seen}]
       IN  \/ /\ May(Add(Empty) /\ deaf' = {},
                     \/ latest' = latest /\ deaf' = {}
                     \/ Add(Empty) /\ deaf' \in SUBSET (Vtep \cup Hop) \ {{}}
                     \/ \E to \in SUBSET (Addresses(seen) \cap Hop) \ {{}} :
                           \E unrouted \in [to -> {"IGNORE", "OTHER"}] : Add(unrouted) /\ deaf' = {})
              /\ pc' = "routes" /\ UNCHANGED names
           \/ DiesReading(seen) /\ Disturbed(Die) /\ UNCHANGED deaf
    /\ UNCHANGED <<env, stop, leaving, db, sub>>

\* A nexthop under its NexthopKey; vtep, mac (the address of the neighbor, or for
\* a tunnel that of the VTEP and of the underlay's neighbor) and nb (the type of
\* the neighbor, NONE without one) stand for its metadata.
Nexthop(v, gw, type, vtep, mac, nb) ==
    [key |-> <<v, gw, kernel.gen[v]>>, type |-> type, vtep |-> vtep, mac |-> mac, nb |-> nb]

\* NeighKey: the neighbors that were read, under the index of their device.
NeighborsAt(db1, v, gw) == {n \in db1.neigh : <<n.vrf, n.addr, n.gen>> = <<v, gw, kernel.gen[v]>>}

\* tryResolve of a nexthop that ends on a physical port or an SVI, or on a
\* device of its own.
Direct(db1, v, gw) ==
    IF gw = NoGw THEN << Nexthop(v, gw, "ACC", NoGw, NoGw, "NONE") >>
    ELSE IF NeighborsAt(db1, v, gw) = {} THEN << >>
    ELSE LET n == CHOOSE m \in NeighborsAt(db1, v, gw) : TRUE
         IN  << Nexthop(v, gw, IF gw \in Hop THEN "PHY" ELSE "SVI", NoGw,
                        IF n.type \in {"PHY", "SVI"} THEN n.mac ELSE NoGw, n.type) >>

\* lookupRoute asks the kernel, and then prefers what this poll has read.
GatewaysTo(db1, x) ==
    LET live == {r \in kernel.routes : r.vrf = Grd /\ r.dst = x}
    IN  IF live = {} \/ x \in deaf THEN << >>
        ELSE IF <<Grd, x>> \in DOMAIN db1.route
             THEN [i \in DOMAIN db1.route[<<Grd, x>>].nhs |-> db1.route[<<Grd, x>>].nhs[i].key[2]]
             ELSE (CHOOSE r \in live : TRUE).gws

\* Faulty variant: the nexthop keeps the key of the underlay's.
Over_SameKey(v, n, under) == [under EXCEPT !.type = "VXLAN", !.vtep = n.addr, !.mac = <<n.mac, @>>]

\* A tunnel to a VTEP, neighbor n, over a nexthop of the GRD, under the key of its
\* gateway.  annotate adds the address of the underlay's neighbor, if it can look
\* up its gateway.
Over(v, n, under) ==
    [under EXCEPT !.key = <<v, under.key[2], under.key[3]>>, !.type = "VXLAN", !.vtep = n.addr,
                  !.mac = <<n.mac, IF under.key[2] \in deaf THEN NoGw ELSE @>>]

\* tryResolve of a nexthop behind a VTEP: one nexthop for each nexthop of the
\* route to the VTEP in the GRD.
Tunnel(db1, v, x) ==
    LET under == FlattenSeq([i \in DOMAIN GatewaysTo(db1, x) |-> Direct(db1, Grd, GatewaysTo(db1, x)[i])])
        n     == CHOOSE m \in NeighborsAt(db1, v, x) : TRUE
    IN  IF NeighborsAt(db1, v, x) = {} THEN << >> ELSE [i \in DOMAIN under |-> Over(v, n, under[i])]

tryResolve(db1, v, gw) == IF gw \in Vtep THEN Tunnel(db1, v, gw) ELSE Direct(db1, v, gw)

\* addNexthop returns no route for another nexthop without ECMP, and its
\* caller goes on with it.
TakesNil(db1, r) ==
    ~EnableEcmp /\ \E i \in DOMAIN r.gws :
        LET nhs == tryResolve(db1, r.vrf, r.gws[i])
        IN  Len(nhs) > 1 \/ (nhs # << >> /\ i < Len(r.gws))

\* The nexthops of a route, one gateway after the other.
Nexthops(db1, r) == FlattenSeq([i \in DOMAIN r.gws |-> tryResolve(db1, r.vrf, r.gws[i])])

Key(r) == <<r.vrf, r.dst>>

\* addRoute for the routes of one table: the route that already has the key
\* stays, whatever its metric.  addNexthop: so does the nexthop, to which the
\* route is added.  gone: the VRFs that are being deleted, as the routes know them.
addRoutes(db1, rs, gone) ==
    LET new   == {r \in rs : Key(r) \notin DOMAIN db1.route}
        found == UNION {Range(Nexthops(db1, r)) : r \in new}
        Pick(k) == IF k \in DOMAIN db1.nh THEN db1.nh[k].nh ELSE CHOOSE nh \in found : nh.key = k
        Refs(k) == {[key |-> Key(r), gw |-> Last(r.gws), gen |-> kernel.gen[r.vrf]] :
                        r \in {x \in new : \E nh \in Range(Nexthops(db1, x)) : nh.key = k}}
        Route(r) == LET nhs == Nexthops(db1, r)
                    IN  [gw |-> Last(r.gws), gen |-> kernel.gen[r.vrf],
                         leaving |-> r.vrf \in gone,
                         nhs |-> [i \in DOMAIN nhs |-> Pick(nhs[i].key)]]
    IN  [db1 EXCEPT
            !.route = [k \in DOMAIN @ \cup {Key(r) : r \in new} |->
                          IF k \in DOMAIN @ THEN @[k] ELSE Route(CHOOSE r \in new : Key(r) = k)],
            !.nh = [k \in DOMAIN @ \cup {nh.key : nh \in found} |->
                       [nh |-> Pick(k), refs |-> Refs(k) \cup IF k \in DOMAIN @ THEN @[k].refs ELSE {}]]]

\* getNeighborRoutes: a route to each neighbor on a physical port or an SVI.
NeighborRoutes(db1) ==
    {[vrf |-> n.vrf, dst |-> n.addr, gws |-> <<n.addr>>] : n \in {m \in db1.neigh : m.type \in {"PHY", "SVI"}}}

\* The routing table and the device of a neighbor are taken for granted, and so
\* are the objects of the VRFs and the devices of the routes.
readRoutes ==
    /\ pc = "routes"
    /\ \E ok \in BOOLEAN :
        /\ May(ok, ~ok)
        /\ LET rs == {r \in kernel.routes : ok /\ r.vrf = cur}
               Taken ==
                   \/ \E r \in rs : TakesNil(latest, r)
                   \/ \E r \in NeighborRoutes(latest) : ~HasDevice(r.vrf)
           IN  \/ Taken /\ Die
               \/ ~ok /\ {r \in kernel.routes : r.vrf = cur} \cup NeighborRoutes(latest) # {} /\ Die
               \/ /\ ~Taken
                  /\ latest' = addRoutes(addRoutes(latest, rs, leaving), NeighborRoutes(latest), BeingDeleted)
                  /\ names' = names \cup {<<v, kernel.gen[v]>> : v \in {u \in {cur} \ {Grd} : ok /\ HasDevice(u)}}
                  /\ pc' = IF cur = Grd THEN "list" ELSE IF todo = {} THEN "dump" ELSE "neighbors"
    /\ deaf' = {}
    /\ UNCHANGED <<env, stop, todo, cur, leaving, db, sub>>

\* GetAllVrfs
listVrfs ==
    /\ pc = "list"
    /\ leaving' = BeingDeleted
    /\ May(todo' = {v \in Vrf : vrfs[v] # "Absent"}, todo' = {})
    /\ pc' = IF todo' = {} THEN "dump" ELSE "neighbors"
    /\ UNCHANGED <<env, stop, cur, deaf, names, latest, db, sub>>

\* ParseFdb, ParseL2NH: the type of an entry and of its nexthop.
FdbType(m) ==
    IF kernel.fdb[m] \in Vtep THEN "VXLAN" ELSE IF m \in ports THEN "BRIDGEPORT" ELSE "None"

\* L2NexthopKey: one nexthop per port, and one for all VTEPs, since the entry
\* with the VLAN comes without an address.
L2Key(m) == IF kernel.fdb[m] \in Vtep THEN "vxlan" ELSE kernel.fdb[m]

\* A nexthop takes its type from the first entry of the dump, and the one of
\* the VTEPs its address from the last that is annotated.
readFDB ==
    /\ pc = "dump" /\ pc' = "annotate"
    /\ LET all  == {m \in Mac : kernel.fdb[m] # Nowhere}
           keys == {L2Key(m) : m \in all}
       IN  \E first \in [keys -> all], last \in [keys -> all] :
            /\ \A k \in keys : L2Key(first[k]) = k /\ L2Key(last[k]) = k
            /\ May(latest' = [latest EXCEPT
                      !.l2  = [k \in keys |-> [type |-> FdbType(first[k]),
                                               dst  |-> IF k = "vxlan" THEN kernel.fdb[last[k]] ELSE NoGw]],
                      !.fdb = [m \in all |-> [type |-> FdbType(m), l2 |-> L2Key(m)]]],
                   latest' = latest)
    /\ UNCHANGED <<env, stop, todo, cur, leaving, deaf, names, db, sub>>

-----------------------------------------------------------------------------
(* Annotation and filters *)

\* What annotate takes for granted and is not there: the device of an SVI, the
\* object and the underlay neighbor of a tunnel.
Fatal(nh) ==
    LET v == nh.key[1]
    IN  \/ nh.type = "SVI" /\ nh.nb = "SVI" /\ (~HasDevice(v) \/ nh.key[3] # kernel.gen[v])
        \/ nh.type = "VXLAN" /\ (vrfs[v] = "Absent" \/ nh.nb = "NONE")

\* Resolved after annotate: an SVI's neighbor must be behind a bridge port, and
\* a tunnel needs the router MAC that FRR has reported.
Resolved(nh) ==
    CASE nh.type = "SVI"   -> nh.nb = "SVI"
      [] nh.type = "VXLAN" -> nh.key[1] \in rmac
      [] OTHER -> TRUE

\* Faulty variant: nexthops that could not be resolved are kept.
installFilterRoute_All(r) == r

\* installFilterRoute drops the nexthops that are not resolved.
installFilterRoute(r) ==
    [r EXCEPT !.nhs = FlattenSeq([i \in DOMAIN @ |-> IF Resolved(@[i]) THEN << @[i] >> ELSE << >>])]

KeptRoutes   == {k \in DOMAIN latest.route : installFilterRoute(latest.route[k]).nhs # << >>}
KeptNexthops == {k \in DOMAIN latest.nh : Resolved(latest.nh[k].nh)}
\* The address of a VTEP is not parsed, so that no tunnel is ever resolved.
KeptEntries  == {m \in DOMAIN latest.fdb : latest.fdb[m].type = "BRIDGEPORT"}

\* What is there, but is looked up for each of these without a check.
LookedUp == {k \in DOMAIN latest.nh : latest.nh[k].nh.type \in {"SVI", "VXLAN"}}

\* annotateDBEntries and applyInstallFilters
annotate ==
    /\ pc = "annotate"
    /\ \/ (\E k \in DOMAIN latest.nh : Fatal(latest.nh[k].nh)) /\ Die /\ UNCHANGED events
       \/ LookedUp # {} /\ Disturbed(Die)
       \/ /\ ~\E k \in DOMAIN latest.nh : Fatal(latest.nh[k].nh)
          /\ pc' = "notify"
          /\ latest' = [latest EXCEPT !.route = [k \in KeptRoutes |-> installFilterRoute(@[k])],
                                      !.nh = Restrict(@, KeptNexthops),
                                      !.fdb = Restrict(@, KeptEntries)]
          /\ UNCHANGED <<names, events>>
    /\ UNCHANGED <<env, stop, todo, cur, leaving, deaf, db, sub>>

-----------------------------------------------------------------------------
(* Telling the subscriber *)

\* deepEqual of a route: of its nexthops the number and the first are compared.
SameRoute(r, s) == r.gw = s.gw /\ r.gen = s.gen /\ Len(r.nhs) = Len(s.nhs) /\ r.nhs[1] = s.nhs[1]

\* deepCheck
Same(kind, new, old) == IF kind = "route" THEN SameRoute(new, old) ELSE new = old

\* The VRF of a route or a nexthop is being deleted, as far as this poll knows.
\* notify_changes tells the subscriber of a change only that the entry is gone.
LeavingVrf(kind, k) ==
    \/ kind = "route" /\ latest.route[k].leaving
    \/ kind = "nh" /\ k[1] \in leaving

Changed(kind) == {k \in DOMAIN latest[kind] \cap DOMAIN db[kind] :
                     ~Same(kind, latest[kind][k], db[kind][k])}

\* Faulty variant: entries that are gone are forgotten without notice.
Deleted_None(kind) == {}

Deleted(kind) == DOMAIN db[kind] \ DOMAIN latest[kind]

\* notify_changes: what the subscriber holds afterwards.
Told(kind) ==
    LET withdrawn == {k \in Changed(kind) : LeavingVrf(kind, k)} \cup Deleted(kind)
        new       == (Changed(kind) \ withdrawn) \cup (DOMAIN latest[kind] \ DOMAIN db[kind])
    IN  [k \in (DOMAIN sub[kind] \ withdrawn) \cup new |->
            IF k \in new THEN latest[kind][k] ELSE sub[kind][k]]

\* Faulty variant: the latest snapshot is not reset.
deleteLatestDB_Routes == [NothingRead EXCEPT !.route = latest.route]

deleteLatestDB == NothingRead

\* notifyDBChanges, one kind after the other; Publish waits for the subscriber,
\* and nothing is read meanwhile.
notifyDBChanges ==
    /\ pc = "notify" /\ pc' = "idle"
    /\ sub' = [kind \in Kinds |-> Told(kind)]
    /\ db' = [kind \in Kinds |-> latest[kind]]
    /\ latest' = deleteLatestDB
    /\ cur' = Grd
    /\ UNCHANGED <<env, stop, todo, leaving, deaf, names, events>>

DeInitialize ==
    /\ ~stop /\ stop' = TRUE
    /\ UNCHANGED <<env, poll, events>>

\* notifyUpdates: what is known is withdrawn, the L2 nexthops excepted.
finish ==
    /\ pc = "idle" /\ stop
    /\ pc' = "done"
    /\ sub' = [kind \in Kinds |->
                  IF kind = "l2" THEN sub[kind]
                  ELSE [k \in DOMAIN sub[kind] \ DOMAIN db[kind] |-> sub[kind][k]]]
    /\ UNCHANGED <<env, stop, todo, cur, leaving, deaf, names, latest, db, events>>

-----------------------------------------------------------------------------

Nothing == [kind \in Kinds |-> Empty]

\* The watcher is started on a host that carries as many routes as it can.
Init ==
    /\ kernel \in [routes : {rs \in SUBSET Learnable : Unique(rs) /\ \A r \in Learnable \ rs : ~Unique(rs \cup {r})},
                   neigh : {{n \in Neighbor : n.mac = CHOOSE m \in Mac : TRUE}},
                   fdb : {[m \in Mac |-> p] : p \in Port}, devs : {Vrf},
                   gen : {[v \in Vrf \cup {Grd} |-> 0]}]
    /\ vrfs = [v \in Vrf |-> "Down"] /\ rmac = {} /\ ports = Mac
    /\ pc = "idle" /\ todo = {} /\ cur = Grd /\ leaving = {} /\ deaf = {}
    /\ names = Vrf \X {0} /\ overtaken = {}
    /\ latest = NothingRead /\ db = Nothing /\ sub = Nothing
    /\ stop = FALSE /\ events = 0

Environment ==
    \/ \E r \in Learnable : LearnRoute(r)
    \/ \E r \in kernel.routes : WithdrawRoute(r)
    \/ \E n \in Neighbor : LearnNeighbor(n)
    \/ \E n \in kernel.neigh : LoseNeighbor(n)
    \/ \E m \in Mac, where \in Port \cup Vtep \cup {Nowhere} : MoveMac(m, where)
    \/ \E m \in Mac : TogglePort(m)
    \/ \E v \in Vrf : CreateVrf(v) \/ SetUpVrf(v) \/ VrfUp(v) \/ ReplayVrf(v)
                       \/ DeleteVrf(v) \/ TearDownVrf(v) \/ VrfGone(v)

Monitor ==
    \/ StartPoll \/ readNeighbors \/ readRoutes \/ listVrfs \/ readFDB
    \/ annotate \/ notifyDBChanges \/ finish

Next == Environment \/ Monitor \/ DeInitialize

Spec == Init /\ [][Next]_vars

\* The monitor's goroutine keeps running and its commands return: whatever it
\* does next, it gets there.  (Every step of Monitor changes pc, nothing else
\* does, and there is such a step until the goroutine has ended.)
Ended == {"done", "dead"}
Turn == pc \notin Ended /\ pc' \in PCs \ {pc}

FairSpec == Spec /\ WF_pc(Turn)
-----------------------------------------------------------------------------
(* Properties *)

\* The tables keep their types; a nexthop is in the table of the VRF of its
\* routes, under its own key, and a forwarding entry's nexthop has been read.
TypeOK ==
    /\ kernel.neigh \subseteq Neighbor /\ kernel.routes \subseteq Learnable /\ Unique(kernel.routes)
    /\ vrfs \in [Vrf -> {"Absent", "Created", "Down", "Up", "ToBeDeleted"}] /\ leaving \cup overtaken \cup rmac \subseteq Vrf
    /\ pc \in PCs
    /\ todo \subseteq Vrf \cup {Grd} /\ cur \in Vrf \cup {Grd} /\ deaf \subseteq Vtep \cup Hop
    /\ \A k \in DOMAIN latest.nh :
          latest.nh[k].nh.key = k /\ \A ref \in latest.nh[k].refs : ref.key[1] = k[1]
    /\ \A m \in DOMAIN latest.fdb : latest.fdb[m].l2 \in DOMAIN latest.l2
    /\ events \in 0..MaxEvents

\* Entries of VRFs that were being deleted when the last poll read them, or
\* whose deletion was over before the poll that knew of it.
Excepted(kind, k) ==
    /\ kind \in {"route", "nh"} /\ k[1] \in Vrf
    /\ \/ k[1] \in overtaken
       \/ k[1] \in leaving
       \/ \E i \in DOMAIN db.route : i[1] = k[1] /\ db.route[i].leaving

\* What the watcher takes the subscriber to hold, it holds: between two polls,
\* and after the clean-up, except for L2 nexthops that are not cleaned up and
\* for entries of VRFs that are being deleted.
Mirror ==
    /\ pc = "idle" => \A kind \in Kinds :
          /\ DOMAIN sub[kind] \subseteq DOMAIN db[kind]
          /\ \A k \in DOMAIN db[kind] :
                \/ k \in DOMAIN sub[kind] /\ sub[kind][k] = db[kind][k]
                \/ Excepted(kind, k)
    /\ pc = "done" => \A kind \in Kinds \ {"l2"} : sub[kind] = Empty

\* Between two polls the subscriber holds the nexthops of its routes and of its
\* forwarding entries, as they are, and no nexthop whose routes it lacks,
\* although the tables are filtered, compared and announced one by one.
ReferencesHeld ==
    pc = "idle" =>
        /\ \A k \in DOMAIN sub.route : ~Excepted("route", k) =>
              \A nh \in Range(sub.route[k].nhs) :
                  nh.key \in DOMAIN sub.nh /\ sub.nh[nh.key].nh = nh
        /\ \A k \in DOMAIN sub.nh : ~Excepted("nh", k) =>
              \A ref \in sub.nh[k].refs : ref.key \in DOMAIN sub.route
        /\ \A m \in DOMAIN sub.fdb : sub.fdb[m].l2 \in DOMAIN sub.l2

\* A gateway that can be reached, seen from the kernel and InfraDB alone.
Known(v, gw) == \E n \in kernel.neigh : n.vrf = v /\ n.addr = gw

Reachable(v, gw) ==
    \/ gw = NoGw
    \/ gw \in Hop /\ v = Grd /\ Known(v, gw)
    \/ gw \in Host /\ \E n \in kernel.neigh : n.vrf = v /\ n.addr = gw /\ n.mac \in ports
    \/ /\ gw \in Vtep /\ v \in Vrf /\ Known(v, gw) /\ v \in rmac
       /\ \E r \in kernel.routes : r.vrf = Grd /\ r.dst = gw /\ \E h \in Range(r.gws) : (h = NoGw \/ Known(Grd, h))

Expected ==
    {<<r.vrf, r.dst>> : r \in {x \in kernel.routes : \E gw \in Range(x.gws) : Reachable(x.vrf, gw)}}
    \cup {<<n.vrf, n.addr>> : n \in {m \in kernel.neigh : m.addr \notin Vtep /\ Reachable(m.vrf, m.addr)}}

Staying(keys) == {k \in keys : k[1] \in Vrf => vrfs[k[1]] # "ToBeDeleted" /\ k[1] \notin overtaken}

\* Once the kernel and InfraDB stay as they are, the subscriber ends up with
\* exactly the routes that lead somewhere and the MAC addresses behind bridge
\* ports, whatever polls saw half of a change and whatever commands failed.
Settles ==
    <>[](~stop /\ pc # "dead" =>
            /\ Staying(DOMAIN sub.route) = Staying(Expected)
            /\ DOMAIN sub.fdb = {m \in ports : kernel.fdb[m] \in Port})

\* The tunnel of a route leads to the gateway that the kernel's route has.
TunnelsLeadToTheirVtep ==
    pc = "idle" => \A k \in DOMAIN sub.route : \A nh \in Range(sub.route[k].nhs) :
        nh.type = "VXLAN" => nh.vtep = sub.route[k].gw
=============================================================================
