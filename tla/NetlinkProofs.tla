--------------------------- MODULE NetlinkProofs ---------------------------
(***************************************************************************)
(* Proofs about Netlink: the tables keep their types and refer to each       *)
(* other; without ECMP the subscriber holds what the watcher takes it to     *)
(* hold, and the nexthops of its routes.                                     *)
(***************************************************************************)
EXTENDS Netlink, SequenceFacts

-----------------------------------------------------------------------------
(* The inductive invariant: what is read *)

Domain == Vrf \cup {Grd}

\* The neighbors that have been read.
Read == {n \in [vrf : Domain, addr : Gateway, mac : Mac,
                type : {"PHY", "SVI", "IGNORE", "OTHER"}, gen : Nat] :
            /\ n.vrf = Grd => n.addr \in Hop
            /\ n.type \in {"PHY", "SVI"} => n.addr \notin Vtep}

Address == Mac \cup {NoGw}

Type == {"PHY", "SVI", "IGNORE", "OTHER", "NONE"}

\* The nexthops that the routes of VRF v may have.  Only tenants have tunnels.
Via(v) ==
    {nh \in [key : Domain \X (Gateway \cup {NoGw}) \X Nat, type : {"ACC", "PHY", "SVI", "VXLAN"},
             vtep : Vtep \cup {NoGw}, mac : Address \cup (Mac \X Address), nb : Type] :
        /\ nh.key[1] = v
        /\ nh.type = "VXLAN" => v \in Vrf}

\* A route of VRF v; without ECMP it has one nexthop at most.
RouteOf(v) ==
    {r \in [gw : Gateway \cup {NoGw}, gen : Nat, leaving : BOOLEAN, nhs : Seq(Via(v))] :
        /\ r.leaving => v \in Vrf
        /\ EnableEcmp \/ Len(r.nhs) <= 1}

\* The nexthops of a route are in the table of the nexthops, as they are, and a
\* nexthop refers to the routes that have it, of which there is one.
Linked(route, nh) ==
    /\ \A k \in DOMAIN route :
          /\ k[1] \in Domain /\ route[k] \in RouteOf(k[1])
          /\ \A h \in Range(route[k].nhs) : h.key \in DOMAIN nh /\ nh[h.key].nh = h
    /\ \A k \in DOMAIN nh :
          /\ k[1] \in Domain /\ nh[k].nh \in Via(k[1]) /\ nh[k].nh.key = k /\ nh[k].refs # {}
          /\ \A ref \in nh[k].refs :
                /\ ref.gen \in Nat /\ ref.key \in DOMAIN route /\ ref.key[1] = k[1]
                /\ nh[k].nh \in Range(route[ref.key].nhs)

\* The nexthops of the forwarding entries have been read.
Forwards(fdb, l2) == \A m \in DOMAIN fdb : fdb[m].l2 \in DOMAIN l2

KernelOK ==
    /\ kernel = [routes |-> kernel.routes, neigh |-> kernel.neigh, fdb |-> kernel.fdb,
                 devs |-> kernel.devs, gen |-> kernel.gen]
    /\ kernel.routes \subseteq Learnable /\ Unique(kernel.routes) /\ \A r \in kernel.routes : HasDevice(r.vrf)
    /\ kernel.neigh \subseteq Neighbor
    /\ kernel.devs \subseteq Vrf /\ kernel.gen \in [Domain -> Nat] /\ kernel.gen[Grd] = 0
    /\ vrfs \in [Vrf -> {"Absent", "Created", "Down", "Up", "ToBeDeleted"}]
    /\ rmac \subseteq Vrf /\ overtaken \subseteq Vrf /\ events \in 0..MaxEvents

PollOK ==
    /\ pc \in PCs /\ leaving \subseteq Vrf /\ deaf \subseteq Vtep \cup Hop
    /\ cur \in Domain /\ todo \subseteq Domain
    /\ pc = "neighbors" => todo = {Grd} \/ todo \subseteq Vrf
    /\ pc = "routes" => \/ cur = Grd /\ todo = {}
                        \/ cur \in Vrf /\ todo \subseteq Vrf

LatestOK ==
    /\ latest = [neigh |-> latest.neigh, route |-> latest.route, nh |-> latest.nh,
                 fdb |-> latest.fdb, l2 |-> latest.l2]
    /\ latest.neigh \subseteq Read
    /\ Linked(latest.route, latest.nh)
    /\ \A k \in DOMAIN latest.nh : k[3] <= kernel.gen[k[1]]
    /\ Forwards(latest.fdb, latest.l2)

DbOK == Linked(db.route, db.nh) /\ Forwards(db.fdb, db.l2)

\* Between two polls nothing is left of the last one.
Cleared == pc = "idle" => latest = NothingRead

-----------------------------------------------------------------------------
(* The inductive invariant: VRFs that are being deleted *)

\* What was read of VRF v when its devices had index g will not be read again:
\* they are gone, or are about to go.
Doomed(v, g) ==
    \/ g < kernel.gen[v]
    \/ g = kernel.gen[v] /\ vrfs[v] = "ToBeDeleted" /\ v \in kernel.devs

\* The VRFs that this poll has listed are being read.
Tenants ==
    \/ pc = "neighbors" /\ todo \subseteq Vrf
    \/ pc = "routes" /\ cur \in Vrf

BeforeList ==
    \/ pc = "neighbors" /\ todo = {Grd}
    \/ pc = "routes" /\ cur = Grd
    \/ pc = "list"

\* Until the VRFs are listed only the GRD has been read.
OnlyGrd ==
    BeforeList => /\ \A n \in latest.neigh : n.vrf = Grd
                  /\ \A k \in DOMAIN latest.route \cup DOMAIN latest.nh : k[1] = Grd

\* A VRF that was listed as leaving has no devices, is still leaving, or has
\* been set up anew.
ListedOK ==
    Tenants => \A v \in leaving \ overtaken : v \in kernel.devs => vrfs[v] = "ToBeDeleted"

\* A route that is marked as leaving is one of devices that are doomed, and so
\* is a nexthop of a VRF that was listed as leaving.
LeavingOK ==
    /\ \A k \in DOMAIN latest.route : latest.route[k].leaving /\ k[1] \notin overtaken =>
          Doomed(k[1], latest.route[k].gen)
    /\ \A k \in DOMAIN latest.nh : ~BeforeList /\ k[1] \in leaving \ overtaken =>
          \A ref \in latest.nh[k].refs : Doomed(k[1], ref.gen)

Missing(kind, k) == ~(k \in DOMAIN sub[kind] /\ sub[kind][k] = db[kind][k])

\* What the subscriber lacks, or has otherwise, is of devices that are doomed.
LackingOK ==
    pc # "done" =>
        /\ \A kind \in Kinds : DOMAIN sub[kind] \subseteq DOMAIN db[kind]
        /\ \A kind \in {"fdb", "l2"} : \A k \in DOMAIN db[kind] : ~Missing(kind, k)
        /\ \A k \in DOMAIN db.route : k[1] \notin overtaken =>
              /\ Missing("route", k) => db.route[k].leaving
              /\ db.route[k].leaving => Doomed(k[1], db.route[k].gen)
        /\ \A k \in DOMAIN db.nh : k[1] \notin overtaken /\ Missing("nh", k) =>
              k[1] \in Vrf /\ \A ref \in db.nh[k].refs : Doomed(k[1], ref.gen)

\* The VRFs that were not leaving when this poll listed them had new devices
\* already.
BygoneOK ==
    Tenants =>
        /\ \A k \in DOMAIN db.route : k[1] \in Vrf \ (leaving \cup overtaken) /\ db.route[k].leaving =>
              db.route[k].gen < kernel.gen[k[1]]
        /\ \A k \in DOMAIN db.nh : k[1] \in Vrf \ (leaving \cup overtaken) /\ Missing("nh", k) =>
              \A ref \in db.nh[k].refs : ref.gen < kernel.gen[k[1]]

\* So what has been read of them since is of other devices.
RenewedOK ==
    /\ \A k \in DOMAIN latest.route \cap DOMAIN db.route :
          k[1] \notin overtaken /\ db.route[k].leaving /\ ~latest.route[k].leaving =>
              db.route[k].gen < latest.route[k].gen
    /\ \A k \in DOMAIN latest.nh \cap DOMAIN db.nh :
          ~BeforeList /\ k[1] \in Vrf \ (leaving \cup overtaken) /\ Missing("nh", k) =>
              \A old \in db.nh[k].refs, new \in latest.nh[k].refs : old.gen < new.gen

Tables ==
    /\ KernelOK /\ PollOK /\ LatestOK /\ DbOK /\ Cleared /\ OnlyGrd

Lacks ==
    /\ ListedOK /\ LeavingOK /\ LackingOK /\ BygoneOK /\ RenewedOK

IInv == Tables /\ Lacks /\ Mirror

-----------------------------------------------------------------------------
(* Resolving a route *)

\* A route that can be resolved: the kernel's are, and the ones to neighbors.
Plain(r) ==
    /\ r.vrf \in Domain /\ r.gws \in Seq(Gateway \cup {NoGw}) /\ r.gws # << >>

\* The routes of the kernel can be resolved.
LEMMA LearnableIsPlain == \A r \in Learnable : Plain(r)
<1> SUFFICES ASSUME NEW r \in Learnable PROVE Plain(r)
  OBVIOUS
<1>1. r \in [vrf : Domain, dst : {r.dst}, gws : Seq(Gateway \cup {NoGw}) \ {<< >>}]
  BY NetlinkAssumption DEF Domain
<1>2. QED
  BY <1>1 DEF Plain

\* A sequence of one sequence flattens to it.
LEMMA FlattenOne ==
    ASSUME NEW S, NEW ss \in Seq(Seq(S)), Len(ss) <= 1, \A i \in DOMAIN ss : Len(ss[i]) <= 1
    PROVE  Len(FlattenSeq(ss)) <= 1
<1>1. CASE ss = << >>
  BY <1>1, EmptyFlattens
<1>2. CASE ss # << >>
  <2>1. Len(ss) = 1 /\ 1 \in DOMAIN ss
    <3>1. Len(ss) \in Nat /\ Len(ss) # 0 /\ DOMAIN ss = 1..Len(ss)
      BY <1>2
    <3>2. QED
      BY <3>1
  <2>2. \A i \in 1..Len(ss) - 1 : ss[i] = << >>
    BY <2>1
  <2>3. FlattenSeq(ss) = ss[1]
    BY <1>2, <2>1, <2>2, FlattenLast
  <2>4. QED
    BY <2>1, <2>3
<1>3. QED
  BY <1>1, <1>2

\* A gateway that is a neighbor, or a device, gives one nexthop at most.
LEMMA DirectFacts ==
    ASSUME KernelOK, NEW d, d.neigh \subseteq Read, NEW v \in Domain, NEW gw \in Gateway \cup {NoGw}
    PROVE  /\ Direct(d, v, gw) \in Seq(Via(v)) /\ Len(Direct(d, v, gw)) <= 1
           /\ \A nh \in Range(Direct(d, v, gw)) :
                 nh.key = <<v, gw, kernel.gen[v]>> /\ nh.mac \in Address
<1>1. kernel.gen[v] \in Nat
  BY DEF KernelOK
<1>2. ASSUME NEW type \in {"ACC", "PHY", "SVI"}, NEW mac \in Address, NEW nb \in Type,
             Direct(d, v, gw) = << Nexthop(v, gw, type, NoGw, mac, nb) >>
      PROVE  /\ Direct(d, v, gw) \in Seq(Via(v)) /\ Len(Direct(d, v, gw)) <= 1
             /\ \A nh \in Range(Direct(d, v, gw)) :
                   nh.key = <<v, gw, kernel.gen[v]>> /\ nh.mac \in Address
  <2>1. PICK nh : nh = Nexthop(v, gw, type, NoGw, mac, nb)
    OBVIOUS
  <2>2. nh = [key |-> <<v, gw, kernel.gen[v]>>, type |-> type, vtep |-> NoGw, mac |-> mac, nb |-> nb]
    BY <2>1 DEF Nexthop
  <2>3. /\ nh.key = <<v, gw, kernel.gen[v]>> /\ nh.type = type /\ nh.mac = mac
        /\ nh \in [key : Domain \X (Gateway \cup {NoGw}) \X Nat, type : {"ACC", "PHY", "SVI", "VXLAN"},
                   vtep : Vtep \cup {NoGw}, mac : Address \cup (Mac \X Address), nb : Type]
    BY <1>1, <2>2
  <2>4. nh \in Via(v)
    BY <2>3 DEF Via
  <2>5. Direct(d, v, gw) = << nh >>
    BY <1>2, <2>1
  <2>6. << nh >> \in Seq(Via(v)) /\ Len(<< nh >>) <= 1 /\ Range(<< nh >>) = {nh}
    BY <2>4 DEF Range
  <2>7. QED
    BY <2>3, <2>5, <2>6
<1>3. CASE gw = NoGw
  <2>1. Direct(d, v, gw) = << Nexthop(v, gw, "ACC", NoGw, NoGw, "NONE") >>
    BY <1>3 DEF Direct
  <2>2. QED
    BY <1>2, <2>1 DEF Address, Type
<1>4. CASE gw # NoGw /\ NeighborsAt(d, v, gw) = {}
  <2>1. Direct(d, v, gw) = << >>
    BY <1>4 DEF Direct
  <2>2. QED
    BY <2>1 DEF Range
<1>5. CASE gw # NoGw /\ NeighborsAt(d, v, gw) # {}
  <2> DEFINE n == CHOOSE m \in NeighborsAt(d, v, gw) : TRUE
  <2>1. n \in Read
    BY <1>5 DEF NeighborsAt
  <2>2. n.mac \in Mac /\ n.type \in {"PHY", "SVI", "IGNORE", "OTHER"}
    BY <2>1 DEF Read
  <2>3. Direct(d, v, gw) = << Nexthop(v, gw, IF gw \in Hop THEN "PHY" ELSE "SVI", NoGw,
                                      IF n.type \in {"PHY", "SVI"} THEN n.mac ELSE NoGw, n.type) >>
    BY <1>5 DEF Direct
  <2> HIDE DEF n
  <2>4. PICK type \in {"PHY", "SVI"} : type = IF gw \in Hop THEN "PHY" ELSE "SVI"
    OBVIOUS
  <2>5. PICK mac \in Address : mac = IF n.type \in {"PHY", "SVI"} THEN n.mac ELSE NoGw
    BY <2>2 DEF Address
  <2>6. n.type \in Type
    BY <2>2 DEF Type
  <2>7. Direct(d, v, gw) = << Nexthop(v, gw, type, NoGw, mac, n.type) >>
    BY <2>3, <2>4, <2>5
  <2>8. QED
    BY <1>2, <2>4, <2>5, <2>6, <2>7
<1>6. QED
  BY <1>3, <1>4, <1>5

\* The gateways of the route to a VTEP.
LEMMA GatewaysToFacts ==
    ASSUME KernelOK, NEW d, Linked(d.route, d.nh), NEW x
    PROVE  GatewaysTo(d, x) \in Seq(Gateway \cup {NoGw})
<1> DEFINE live == {r \in kernel.routes : r.vrf = Grd /\ r.dst = x}
           k == <<Grd, x>>
<1>1. CASE live = {} \/ x \in deaf
  <2>1. GatewaysTo(d, x) = << >>
    BY <1>1 DEF GatewaysTo
  <2>2. QED
    BY <2>1
<1>2. CASE ~ (live = {} \/ x \in deaf) /\ k \in DOMAIN d.route
  <2> DEFINE nhs == d.route[k].nhs
             g == [i \in DOMAIN nhs |-> nhs[i].key[2]]
  <2>1. GatewaysTo(d, x) = g
    BY <1>2 DEF GatewaysTo
  <2>2. k[1] = Grd /\ d.route[k] \in RouteOf(k[1])
    BY <1>2 DEF Linked
  <2>3. nhs \in Seq(Via(Grd))
    BY <2>2 DEF RouteOf
  <2> HIDE DEF nhs
  <2>4. \A nh \in Via(Grd) : nh.key[2] \in Gateway \cup {NoGw}
    BY DEF Via
  <2>5. \A i \in 1..Len(nhs) : nhs[i].key[2] \in Gateway \cup {NoGw}
    BY <2>3, <2>4
  <2>6. g \in Seq(Gateway \cup {NoGw})
    BY <2>3, <2>5
  <2> HIDE DEF g
  <2>7. QED
    BY <2>1, <2>6
<1>3. CASE ~ (live = {} \/ x \in deaf) /\ k \notin DOMAIN d.route
  <2> DEFINE r == CHOOSE y \in live : TRUE
  <2>1. r \in live
    BY <1>3
  <2>2. r \in Learnable
    BY <2>1 DEF KernelOK
  <2>3. GatewaysTo(d, x) = r.gws
    BY <1>3 DEF GatewaysTo
  <2> HIDE DEF r
  <2>4. r.gws \in Seq(Gateway \cup {NoGw})
    BY <2>2, LearnableIsPlain DEF Plain
  <2>5. QED
    BY <2>3, <2>4
<1>4. QED
  BY <1>1, <1>2, <1>3

\* A nexthop that goes into a tunnel keeps what it is over, and is a tenant's.
LEMMA OverFacts ==
    ASSUME NEW v \in Vrf, NEW n \in Read, n.addr \in Vtep, NEW under \in Via(Grd), under.mac \in Address
    PROVE  Over(v, n, under) \in Via(v) /\ Over(v, n, under).key[3] = under.key[3]
<1> DEFINE k == <<v, under.key[2], under.key[3]>>
           m == <<n.mac, IF under.key[2] \in deaf THEN NoGw ELSE under.mac>>
<1>1. /\ under \in [key : Domain \X (Gateway \cup {NoGw}) \X Nat, type : {"ACC", "PHY", "SVI", "VXLAN"},
                    vtep : Vtep \cup {NoGw}, mac : Address \cup (Mac \X Address), nb : Type]
      /\ v # Grd /\ v \in Domain
  BY NetlinkAssumption DEF Via, Domain
<1>2. k \in Domain \X (Gateway \cup {NoGw}) \X Nat /\ k[1] = v /\ k[3] = under.key[3]
  BY <1>1
<1>3. m \in Mac \X Address
  BY DEF Read, Address
<1>4. PICK o : o = Over(v, n, under)
  OBVIOUS
<1>5. o = [under EXCEPT !.key = k, !.type = "VXLAN", !.vtep = n.addr, !.mac = m]
  BY <1>4 DEF Over
<1> HIDE DEF k, m
<1>6. under = [key |-> under.key, type |-> under.type, vtep |-> under.vtep, mac |-> under.mac, nb |-> under.nb]
  BY <1>1
<1>7. o = [key |-> k, type |-> "VXLAN", vtep |-> n.addr, mac |-> m, nb |-> under.nb]
  BY <1>5, <1>6
<1>8. /\ o \in [key : Domain \X (Gateway \cup {NoGw}) \X Nat, type : {"ACC", "PHY", "SVI", "VXLAN"},
                vtep : Vtep \cup {NoGw}, mac : Address \cup (Mac \X Address), nb : Type]
      /\ o.key = k
  BY <1>1, <1>2, <1>3, <1>7
<1>9. o \in Via(v)
  BY <1>1, <1>2, <1>8 DEF Via
<1>10. QED
  BY <1>2, <1>4, <1>8, <1>9

\* A tunnel is over the nexthops of the GRD's route to its VTEP.
LEMMA TunnelFacts ==
    ASSUME KernelOK, NEW d, d.neigh \subseteq Read, Linked(d.route, d.nh), NEW v \in Domain, NEW x \in Vtep
    PROVE  /\ Tunnel(d, v, x) \in Seq(Via(v))
           /\ \A nh \in Range(Tunnel(d, v, x)) : nh.key[3] <= kernel.gen[v]
<1> DEFINE g == GatewaysTo(d, x)
           ss == [i \in DOMAIN g |-> Direct(d, Grd, g[i])]
           under == FlattenSeq(ss)
           n == CHOOSE m \in NeighborsAt(d, v, x) : TRUE
<1>1. CASE NeighborsAt(d, v, x) = {}
  <2>1. Tunnel(d, v, x) = << >>
    BY <1>1 DEF Tunnel
  <2>2. QED
    BY <2>1 DEF Range
<1>2. CASE NeighborsAt(d, v, x) # {}
  <2>1. n \in Read /\ n.vrf = v /\ n.addr = x
    <3>1. n \in NeighborsAt(d, v, x)
      BY <1>2
    <3>2. QED
      BY <3>1 DEF NeighborsAt
  <2>2. Tunnel(d, v, x) = [i \in DOMAIN under |-> Over(v, n, under[i])]
    BY <1>2 DEF Tunnel
  <2> HIDE DEF n
  <2>3. v \in Vrf
    <3>1. x \notin Hop
      BY NetlinkAssumption
    <3>2. QED
      BY <2>1, <3>1 DEF Read, Domain
  <2>4. g \in Seq(Gateway \cup {NoGw})
    BY GatewaysToFacts
  <2> HIDE DEF g
  <2>5. /\ DOMAIN g = 1..Len(g) /\ Len(g) \in Nat
        /\ \A i \in 1..Len(g) : g[i] \in Gateway \cup {NoGw}
    BY <2>4
  <2>6. Grd \in Domain
    BY DEF Domain
  <2>7. \A i \in 1..Len(g) :
          /\ Direct(d, Grd, g[i]) \in Seq(Via(Grd))
          /\ \A nh \in Range(Direct(d, Grd, g[i])) : nh.key[3] = kernel.gen[Grd] /\ nh.mac \in Address
    <3> SUFFICES ASSUME NEW i \in 1..Len(g)
                 PROVE  /\ Direct(d, Grd, g[i]) \in Seq(Via(Grd))
                        /\ \A nh \in Range(Direct(d, Grd, g[i])) :
                              nh.key[3] = kernel.gen[Grd] /\ nh.mac \in Address
      OBVIOUS
    <3>1. PICK gw \in Gateway \cup {NoGw} : gw = g[i]
      BY <2>5
    <3>2. /\ Direct(d, Grd, gw) \in Seq(Via(Grd))
          /\ \A nh \in Range(Direct(d, Grd, gw)) :
                nh.key = <<Grd, gw, kernel.gen[Grd]>> /\ nh.mac \in Address
      BY <2>6, DirectFacts
    <3>3. QED
      BY <3>1, <3>2
  <2>8. ss \in Seq(Seq(Via(Grd)))
    BY <2>5, <2>7
  <2>9. \A i \in DOMAIN ss : \A nh \in Range(ss[i]) : nh.key[3] = kernel.gen[Grd] /\ nh.mac \in Address
    BY <2>5, <2>7
  <2> HIDE DEF ss
  <2>10. under \in Seq(Via(Grd)) /\ Range(under) = UNION {Range(ss[i]) : i \in DOMAIN ss}
    BY <2>8, FlattenFacts
  <2>11. \A nh \in Range(under) : nh.key[3] = kernel.gen[Grd] /\ nh.mac \in Address
    BY <2>9, <2>10
  <2> HIDE DEF under
  <2>12. DOMAIN under = 1..Len(under) /\ Len(under) \in Nat
    BY <2>10, ElementsOfSeq
  <2>13. \A i \in 1..Len(under) : under[i] \in Via(Grd) /\ under[i] \in Range(under)
    <3>1. \A i \in 1..Len(under) : under[i] \in Via(Grd)
      BY <2>10
    <3>2. \A i \in 1..Len(under) : under[i] \in Range(under)
      BY <2>12 DEF Range
    <3>3. QED
      BY <3>1, <3>2
  <2>14. \A i \in 1..Len(under) : Over(v, n, under[i]) \in Via(v) /\ Over(v, n, under[i]).key[3] = 0
    <3> SUFFICES ASSUME NEW i \in 1..Len(under)
                 PROVE  Over(v, n, under[i]) \in Via(v) /\ Over(v, n, under[i]).key[3] = 0
      OBVIOUS
    <3>1. PICK u \in Via(Grd) : u = under[i] /\ u.key[3] = kernel.gen[Grd] /\ u.mac \in Address
      BY <2>11, <2>13
    <3>2. Over(v, n, u) \in Via(v) /\ Over(v, n, u).key[3] = u.key[3]
      BY <2>1, <2>3, <3>1, OverFacts
    <3>3. QED
      BY <3>1, <3>2 DEF KernelOK
  <2>15. PICK t : t = Tunnel(d, v, x)
    OBVIOUS
  <2>16. t = [i \in 1..Len(under) |-> Over(v, n, under[i])]
    BY <2>2, <2>12, <2>15
  <2>17. t \in Seq(Via(v))
    BY <2>12, <2>14, <2>16
  <2>18. \A nh \in Range(t) : nh.key[3] = 0
    BY <2>14, <2>16 DEF Range
  <2>19. 0 <= kernel.gen[v]
    BY DEF KernelOK
  <2>20. \A nh \in Range(t) : nh.key[3] <= kernel.gen[v]
    BY <2>18, <2>19
  <2>21. QED
    BY <2>15, <2>17, <2>20
<1>3. QED
  BY <1>1, <1>2

\* What a gateway resolves to.
LEMMA ResolveFacts ==
    ASSUME KernelOK, NEW d, d.neigh \subseteq Read, Linked(d.route, d.nh), NEW v \in Domain,
           NEW gw \in Gateway \cup {NoGw}
    PROVE  /\ tryResolve(d, v, gw) \in Seq(Via(v))
           /\ \A nh \in Range(tryResolve(d, v, gw)) : nh.key[3] <= kernel.gen[v]
           /\ gw \notin Vtep => Len(tryResolve(d, v, gw)) <= 1
<1>1. CASE gw \in Vtep
  BY <1>1, TunnelFacts DEF tryResolve
<1>2. CASE gw \notin Vtep
  <2>1. tryResolve(d, v, gw) = Direct(d, v, gw)
    BY <1>2 DEF tryResolve
  <2>2. /\ Direct(d, v, gw) \in Seq(Via(v)) /\ Len(Direct(d, v, gw)) <= 1
        /\ \A nh \in Range(Direct(d, v, gw)) : nh.key = <<v, gw, kernel.gen[v]>>
    BY DirectFacts
  <2>3. kernel.gen[v] \in Nat
    BY DEF KernelOK
  <2>4. \A nh \in Range(Direct(d, v, gw)) : nh.key[3] <= kernel.gen[v]
    BY <2>2, <2>3
  <2>5. QED
    BY <2>1, <2>2, <2>4
<1>3. QED
  BY <1>1, <1>2

\* The nexthops of a route; without ECMP there is one at most, unless the
\* watcher takes the route that addNexthop does not return.
LEMMA NexthopsFacts ==
    ASSUME KernelOK, NEW d, d.neigh \subseteq Read, Linked(d.route, d.nh), NEW r, Plain(r)
    PROVE  /\ Nexthops(d, r) \in Seq(Via(r.vrf))
           /\ \A nh \in Range(Nexthops(d, r)) : nh.key[3] <= kernel.gen[r.vrf]
           /\ EnableEcmp \/ TakesNil(d, r) \/ Len(Nexthops(d, r)) <= 1
<1> DEFINE N == Len(r.gws)
           ss == [i \in DOMAIN r.gws |-> tryResolve(d, r.vrf, r.gws[i])]
<1>1. r.vrf \in Domain /\ r.gws \in Seq(Gateway \cup {NoGw}) /\ r.gws # << >>
  BY DEF Plain
<1>2. N \in Nat /\ N # 0 /\ DOMAIN r.gws = 1..N
  BY <1>1
<1>3. \A i \in 1..N : r.gws[i] \in Gateway \cup {NoGw}
  BY <1>1
<1> HIDE DEF N
<1>4. \A i \in 1..N : /\ tryResolve(d, r.vrf, r.gws[i]) \in Seq(Via(r.vrf))
                      /\ \A nh \in Range(tryResolve(d, r.vrf, r.gws[i])) : nh.key[3] <= kernel.gen[r.vrf]
  <2> SUFFICES ASSUME NEW i \in 1..N
               PROVE  /\ tryResolve(d, r.vrf, r.gws[i]) \in Seq(Via(r.vrf))
                      /\ \A nh \in Range(tryResolve(d, r.vrf, r.gws[i])) : nh.key[3] <= kernel.gen[r.vrf]
    OBVIOUS
  <2>1. PICK gw \in Gateway \cup {NoGw} : gw = r.gws[i]
    BY <1>3
  <2>2. PICK v \in Domain : v = r.vrf
    BY <1>1
  <2>3. /\ tryResolve(d, v, gw) \in Seq(Via(v))
        /\ \A nh \in Range(tryResolve(d, v, gw)) : nh.key[3] <= kernel.gen[v]
    BY <2>1, <2>2, ResolveFacts
  <2>4. QED
    BY <2>1, <2>2, <2>3
<1>5. /\ ss \in Seq(Seq(Via(r.vrf))) /\ DOMAIN ss = 1..N /\ Len(ss) = N
      /\ \A i \in 1..N : ss[i] = tryResolve(d, r.vrf, r.gws[i])
  BY <1>2, <1>4
<1>6. Nexthops(d, r) = FlattenSeq(ss)
  BY DEF Nexthops
<1> HIDE DEF ss
<1>7. Nexthops(d, r) \in Seq(Via(r.vrf)) /\ Range(Nexthops(d, r)) = UNION {Range(ss[i]) : i \in DOMAIN ss}
  BY <1>5, <1>6, FlattenFacts
<1>8. \A nh \in Range(Nexthops(d, r)) : nh.key[3] <= kernel.gen[r.vrf]
  BY <1>4, <1>5, <1>7
<1>9. ASSUME ~ EnableEcmp, ~ TakesNil(d, r) PROVE Len(Nexthops(d, r)) <= 1
  <2>1. \A i \in 1..N : ~ (Len(ss[i]) > 1) /\ ~ (ss[i] # << >> /\ i < N)
    BY <1>2, <1>5, <1>9 DEF TakesNil, N
  <2>2. \A i \in 1..N : ss[i] \in Seq(Via(r.vrf))
    BY <1>5
  <2>3. \A i \in 1..Len(ss) - 1 : ss[i] = << >>
    BY <1>2, <1>5, <2>1
  <2>4. ss # << >>
    BY <1>2, <1>5
  <2>5. FlattenSeq(ss) = ss[N]
    BY <1>5, <2>3, <2>4, FlattenLast
  <2>6. N \in 1..N
    BY <1>2
  <2>7. Len(ss[N]) \in Nat /\ ~ (Len(ss[N]) > 1)
    BY <2>1, <2>2, <2>6
  <2>8. QED
    BY <1>6, <2>5, <2>7
<1>10. QED
  BY <1>7, <1>8, <1>9

-----------------------------------------------------------------------------
(* Adding routes *)

\* What addRoutes returns for the routes rs of a table.
Added(d, rs, gone, e) ==
    /\ e = [neigh |-> d.neigh, route |-> e.route, nh |-> e.nh, fdb |-> d.fdb, l2 |-> d.l2]
    /\ Linked(e.route, e.nh)
    /\ \A k \in DOMAIN e.nh : k[3] <= kernel.gen[k[1]]
    /\ \A k \in DOMAIN e.route :
          \/ k \in DOMAIN d.route /\ e.route[k] = d.route[k]
          \/ /\ \E r \in rs : k[1] = r.vrf
             /\ e.route[k].gen = kernel.gen[k[1]] /\ (e.route[k].leaving <=> k[1] \in gone)
    /\ \A k \in DOMAIN e.nh : \A ref \in e.nh[k].refs :
          \/ k \in DOMAIN d.nh /\ ref \in d.nh[k].refs
          \/ (\E r \in rs : k[1] = r.vrf) /\ ref.gen = kernel.gen[k[1]]

\* The tables stay linked, and what is added has the gen of its VRF.
LEMMA AddRoutesFacts ==
    ASSUME KernelOK, NEW d, d.neigh \subseteq Read, Linked(d.route, d.nh),
           d = [neigh |-> d.neigh, route |-> d.route, nh |-> d.nh, fdb |-> d.fdb, l2 |-> d.l2],
           \A k \in DOMAIN d.nh : k[3] <= kernel.gen[k[1]],
           NEW rs, \A r \in rs : Plain(r) /\ (EnableEcmp \/ Len(Nexthops(d, r)) <= 1),
           Unique(rs), NEW gone \in SUBSET Vrf, NEW e, e = addRoutes(d, rs, gone)
    PROVE  Added(d, rs, gone, e)
<1> DEFINE new   == {r \in rs : Key(r) \notin DOMAIN d.route}
           found == UNION {Range(Nexthops(d, r)) : r \in new}
           Pick(k) == IF k \in DOMAIN d.nh THEN d.nh[k].nh ELSE CHOOSE nh \in found : nh.key = k
           Refs(k) == {[key |-> Key(r), gw |-> Last(r.gws), gen |-> kernel.gen[r.vrf]] :
                           r \in {x \in new : \E nh \in Range(Nexthops(d, x)) : nh.key = k}}
           Route(r) == LET nhs == Nexthops(d, r)
                       IN  [gw |-> Last(r.gws), gen |-> kernel.gen[r.vrf],
                            leaving |-> r.vrf \in gone,
                            nhs |-> [i \in DOMAIN nhs |-> Pick(nhs[i].key)]]
           route == [k \in DOMAIN d.route \cup {Key(r) : r \in new} |->
                        IF k \in DOMAIN d.route THEN d.route[k] ELSE Route(CHOOSE r \in new : Key(r) = k)]
           nexthop == [k \in DOMAIN d.nh \cup {nh.key : nh \in found} |->
                          [nh |-> Pick(k), refs |-> Refs(k) \cup IF k \in DOMAIN d.nh THEN d.nh[k].refs ELSE {}]]
<1>1. PICK y, z : y = route /\ z = nexthop
  OBVIOUS
<1>2. e = [d EXCEPT !.route = y, !.nh = z]
  BY <1>1 DEF addRoutes
<1>3. e = [neigh |-> d.neigh, route |-> y, nh |-> z, fdb |-> d.fdb, l2 |-> d.l2]
  BY <1>2
<1>4. e.route = y /\ e.nh = z
  BY <1>3
\* The routes that are new, and their nexthops.
<1>5. \A r \in new : r \in rs /\ Plain(r) /\ r.vrf \in Domain /\ kernel.gen[r.vrf] \in Nat /\ Key(r)[1] = r.vrf
  BY DEF Plain, KernelOK, Key
<1>6. \A r \in new : /\ Nexthops(d, r) \in Seq(Via(r.vrf))
                     /\ \A nh \in Range(Nexthops(d, r)) : nh.key[3] <= kernel.gen[r.vrf]
  BY <1>5, NexthopsFacts
<1>7. \A r \in new : \A nh \in Range(Nexthops(d, r)) :
         nh \in found /\ nh \in Via(r.vrf) /\ nh.key[1] = r.vrf /\ nh.key[3] <= kernel.gen[r.vrf]
  <2>1. \A r \in new : Range(Nexthops(d, r)) \subseteq Via(r.vrf)
    BY <1>6, ElementsOfSeq
  <2>2. \A v : \A nh \in Via(v) : nh.key[1] = v
    BY DEF Via
  <2>3. QED
    BY <1>6, <2>1, <2>2
<1>8. \A nh \in found : nh \in Via(nh.key[1]) /\ nh.key[1] \in Domain /\ nh.key[3] <= kernel.gen[nh.key[1]]
  BY <1>5, <1>7
<1>9. \A k \in DOMAIN z : k \in DOMAIN d.nh \/ \E nh \in found : nh.key = k
  BY <1>1
<1>10. \A k \in DOMAIN z : /\ Pick(k) \in Via(k[1]) /\ Pick(k).key = k /\ k[1] \in Domain
                           /\ k[3] <= kernel.gen[k[1]]
  <2> SUFFICES ASSUME NEW k \in DOMAIN z
               PROVE  Pick(k) \in Via(k[1]) /\ Pick(k).key = k /\ k[1] \in Domain /\ k[3] <= kernel.gen[k[1]]
    OBVIOUS
  <2>1. CASE k \in DOMAIN d.nh
    BY <2>1 DEF Linked
  <2>2. CASE k \notin DOMAIN d.nh
    <3>1. PICK nh \in found : nh.key = k
      BY <1>9, <2>2
    <3> HIDE DEF found
    <3>2. Pick(k) \in found /\ Pick(k).key = k
      BY <2>2, <3>1
    <3> HIDE DEF Pick
    <3>3. QED
      BY <1>8, <3>2
  <2>3. QED
    BY <2>1, <2>2
<1>11. \A r \in new : \A nh \in Range(Nexthops(d, r)) : nh.key \in DOMAIN z
  BY <1>1, <1>7
<1>12. \A k \in DOMAIN z : z[k] = [nh |-> Pick(k), refs |-> Refs(k) \cup IF k \in DOMAIN d.nh THEN d.nh[k].refs ELSE {}]
  BY <1>1
<1>13. \A k \in DOMAIN y : \/ k \in DOMAIN d.route /\ y[k] = d.route[k]
                           \/ k \notin DOMAIN d.route /\ \E r \in new : k = Key(r) /\ y[k] = Route(r)
  <2> SUFFICES ASSUME NEW k \in DOMAIN y, k \notin DOMAIN d.route
               PROVE  \E r \in new : k = Key(r) /\ y[k] = Route(r)
    <3>1. \A k \in DOMAIN y : k \in DOMAIN d.route => y[k] = d.route[k]
      BY <1>1
    <3>2. QED
      BY <3>1
  <2>1. PICK r \in new : k = Key(r)
    BY <1>1
  <2>2. PICK s : s = CHOOSE x \in new : Key(x) = k
    OBVIOUS
  <2>3. s \in new /\ Key(s) = k
    <3> HIDE DEF new
    <3>1. QED
      BY <2>1, <2>2
  <2>4. y[k] = Route(CHOOSE x \in new : Key(x) = k)
    <3> HIDE DEF Route
    <3>1. QED
      BY <1>1
  <2> HIDE DEF new, Route
  <2>5. QED
    BY <2>2, <2>3, <2>4
<1>14. \A r \in new : Key(r) \in DOMAIN y /\ Key(r) \notin DOMAIN d.route /\ y[Key(r)] = Route(r)
  <2> SUFFICES ASSUME NEW r \in new PROVE Key(r) \in DOMAIN y /\ Key(r) \notin DOMAIN d.route /\ y[Key(r)] = Route(r)
    OBVIOUS
  <2>1. Key(r) \in DOMAIN y /\ Key(r) \notin DOMAIN d.route
    BY <1>1
  <2>2. PICK s \in new : Key(r) = Key(s) /\ y[Key(r)] = Route(s)
    BY <1>13, <2>1
  <2>3. r = s
    BY <2>2 DEF Unique, Key
  <2>4. QED
    BY <2>1, <2>2, <2>3
<1>15. \A k \in DOMAIN d.route : k \in DOMAIN y /\ y[k] = d.route[k]
  BY <1>1
<1>16. DOMAIN d.nh \subseteq DOMAIN z
  BY <1>1
<1> HIDE DEF route, nexthop
\* A new route.
<1>17. \A r \in new : /\ Route(r) \in RouteOf(r.vrf) /\ Route(r).gen = kernel.gen[r.vrf]
                      /\ Route(r).leaving <=> r.vrf \in gone
                      /\ \A h \in Range(Route(r).nhs) : h.key \in DOMAIN z /\ z[h.key].nh = h
                      /\ \A nh \in Range(Nexthops(d, r)) : Pick(nh.key) \in Range(Route(r).nhs)
  <2> SUFFICES ASSUME NEW r \in new
               PROVE  /\ Route(r) \in RouteOf(r.vrf) /\ Route(r).gen = kernel.gen[r.vrf]
                      /\ Route(r).leaving <=> r.vrf \in gone
                      /\ \A h \in Range(Route(r).nhs) : h.key \in DOMAIN z /\ z[h.key].nh = h
                      /\ \A nh \in Range(Nexthops(d, r)) : Pick(nh.key) \in Range(Route(r).nhs)
    OBVIOUS
  <2>1. PICK n \in Seq(Via(r.vrf)) : n = Nexthops(d, r)
    BY <1>6
  <2>2. PICK p : p = [i \in DOMAIN n |-> Pick(n[i].key)]
    OBVIOUS
  <2>3. PICK o : o = Route(r)
    OBVIOUS
  <2>4. PICK leaves \in BOOLEAN : leaves <=> r.vrf \in gone
    OBVIOUS
  <2>5. DOMAIN n = 1..Len(n) /\ Len(n) \in Nat
    BY <2>1, ElementsOfSeq
  <2>6. \A i \in 1..Len(n) : n[i] \in Range(Nexthops(d, r))
    BY <2>1, <2>5 DEF Range
  <2>7. \A i \in 1..Len(n) : n[i].key \in DOMAIN z /\ n[i].key[1] = r.vrf
    BY <1>7, <1>11, <2>6
  <2> HIDE DEF Pick, Route, new
  <2>8. \A i \in 1..Len(n) : Pick(n[i].key) \in Via(r.vrf) /\ Pick(n[i].key).key = n[i].key
    BY <1>10, <2>7
  <2>9. p \in Seq(Via(r.vrf)) /\ Len(p) = Len(n) /\ DOMAIN p = 1..Len(n)
    BY <2>2, <2>5, <2>8
  <2>10. Last(r.gws) \in Gateway \cup {NoGw}
    <3>1. PICK g \in Seq(Gateway \cup {NoGw}) : g = r.gws /\ g # << >>
      BY <1>5 DEF Plain
    <3>2. Len(g) \in 1..Len(g)
      BY <3>1
    <3>3. QED
      BY <3>1, <3>2 DEF Last
  <2>11. EnableEcmp \/ Len(p) <= 1
    <3>1. EnableEcmp \/ Len(Nexthops(d, r)) <= 1
      BY <1>5
    <3>2. QED
      BY <2>1, <2>9, <3>1
  <2>12. r.vrf \in gone => r.vrf \in Vrf
    OBVIOUS
  <2>13. /\ o \in [gw : Gateway \cup {NoGw}, gen : Nat, leaving : BOOLEAN, nhs : Seq(Via(r.vrf))]
         /\ o.nhs = p /\ o.gen = kernel.gen[r.vrf] /\ (o.leaving <=> r.vrf \in gone)
    <3>1. o = [gw |-> Last(r.gws), gen |-> kernel.gen[r.vrf], leaving |-> r.vrf \in gone, nhs |-> p]
      BY <2>1, <2>2, <2>3 DEF Route
    <3>2. o = [gw |-> Last(r.gws), gen |-> kernel.gen[r.vrf], leaving |-> leaves, nhs |-> p]
      BY <2>4, <3>1, Zenon
    <3>3. kernel.gen[r.vrf] \in Nat
      BY <1>5 DEF new
    <3>4. QED
      BY <2>4, <2>9, <2>10, <3>2, <3>3
  <2>14. o \in RouteOf(r.vrf)
    BY <2>11, <2>12, <2>13 DEF RouteOf
  <2>15. \A h \in Range(p) : h.key \in DOMAIN z /\ z[h.key].nh = h
    <3> SUFFICES ASSUME NEW h \in Range(p) PROVE h.key \in DOMAIN z /\ z[h.key].nh = h
      OBVIOUS
    <3>1. PICK i \in 1..Len(n) : h = p[i]
      BY <2>9 DEF Range
    <3>2. h = Pick(n[i].key) /\ h.key = n[i].key
      BY <2>2, <2>5, <2>8, <3>1
    <3>3. z[n[i].key].nh = Pick(n[i].key)
      BY <1>12, <2>7
    <3>4. QED
      BY <2>7, <3>2, <3>3
  <2>16. \A nh \in Range(n) : Pick(nh.key) \in Range(p)
    BY <2>2, <2>5, <2>9 DEF Range
  <2>17. QED
    BY <2>1, <2>3, <2>13, <2>14, <2>15, <2>16
<1> HIDE DEF Route
\* The routes.
<1>18. \A k \in DOMAIN y :
          /\ k[1] \in Domain /\ y[k] \in RouteOf(k[1])
          /\ \A h \in Range(y[k].nhs) : h.key \in DOMAIN z /\ z[h.key].nh = h
  <2> SUFFICES ASSUME NEW k \in DOMAIN y
               PROVE  /\ k[1] \in Domain /\ y[k] \in RouteOf(k[1])
                      /\ \A h \in Range(y[k].nhs) : h.key \in DOMAIN z /\ z[h.key].nh = h
    OBVIOUS
  <2>1. CASE k \in DOMAIN d.route
    <3>1. /\ k[1] \in Domain /\ y[k] \in RouteOf(k[1])
          /\ \A h \in Range(y[k].nhs) : h.key \in DOMAIN d.nh /\ d.nh[h.key].nh = h
      BY <1>15, <2>1 DEF Linked
    <3>2. \A j \in DOMAIN d.nh : z[j].nh = d.nh[j].nh
      BY <1>12, <1>16
    <3>3. QED
      BY <1>16, <3>1, <3>2
  <2>2. CASE k \notin DOMAIN d.route
    <3>1. PICK r \in new : k = Key(r) /\ y[k] = Route(r)
      BY <1>13, <2>2
    <3>2. k[1] = r.vrf /\ r.vrf \in Domain
      BY <1>5, <3>1
    <3> HIDE DEF new, Pick
    <3>3. QED
      BY <1>17, <3>1, <3>2
  <2>3. QED
    BY <2>1, <2>2
\* The references of a nexthop.
<1>19. \A k \in DOMAIN z : \A ref \in z[k].refs :
          \/ k \in DOMAIN d.nh /\ ref \in d.nh[k].refs
          \/ \E r \in new : /\ ref = [key |-> Key(r), gw |-> Last(r.gws), gen |-> kernel.gen[r.vrf]]
                            /\ \E nh \in Range(Nexthops(d, r)) : nh.key = k
  <2> SUFFICES ASSUME NEW k \in DOMAIN z, NEW ref \in z[k].refs
               PROVE  \/ k \in DOMAIN d.nh /\ ref \in d.nh[k].refs
                      \/ \E r \in new : /\ ref = [key |-> Key(r), gw |-> Last(r.gws), gen |-> kernel.gen[r.vrf]]
                                        /\ \E nh \in Range(Nexthops(d, r)) : nh.key = k
    OBVIOUS
  <2>1. z[k].refs = Refs(k) \cup IF k \in DOMAIN d.nh THEN d.nh[k].refs ELSE {}
    BY <1>12
  <2>2. QED
    BY <2>1
<1>20. \A k \in DOMAIN z :
          /\ k[1] \in Domain /\ z[k].nh \in Via(k[1]) /\ z[k].nh.key = k /\ z[k].refs # {}
          /\ \A ref \in z[k].refs :
                /\ ref.gen \in Nat /\ ref.key \in DOMAIN y /\ ref.key[1] = k[1]
                /\ z[k].nh \in Range(y[ref.key].nhs)
  <2> SUFFICES ASSUME NEW k \in DOMAIN z
               PROVE  /\ k[1] \in Domain /\ z[k].nh \in Via(k[1]) /\ z[k].nh.key = k /\ z[k].refs # {}
                      /\ \A ref \in z[k].refs :
                            /\ ref.gen \in Nat /\ ref.key \in DOMAIN y /\ ref.key[1] = k[1]
                            /\ z[k].nh \in Range(y[ref.key].nhs)
    OBVIOUS
  <2>1. z[k].nh = Pick(k)
    <3> HIDE DEF Pick, Refs
    <3>1. QED
      BY <1>12
  <2>2. k[1] \in Domain /\ z[k].nh \in Via(k[1]) /\ z[k].nh.key = k
    BY <1>10, <2>1
  <2>3. z[k].refs # {}
    <3>1. z[k].refs = Refs(k) \cup IF k \in DOMAIN d.nh THEN d.nh[k].refs ELSE {}
      BY <1>12
    <3>2. CASE k \in DOMAIN d.nh
      BY <3>1, <3>2 DEF Linked
    <3>3. CASE k \notin DOMAIN d.nh
      <4>1. PICK nh \in found : nh.key = k
        BY <1>9, <3>3
      <4>2. PICK r \in new : nh \in Range(Nexthops(d, r))
        OBVIOUS
      <4>3. [key |-> Key(r), gw |-> Last(r.gws), gen |-> kernel.gen[r.vrf]] \in Refs(k)
        BY <4>1, <4>2
      <4>4. QED
        BY <3>1, <4>3
    <3>4. QED
      BY <3>2, <3>3
  <2>4. ASSUME NEW ref \in z[k].refs
        PROVE  /\ ref.gen \in Nat /\ ref.key \in DOMAIN y /\ ref.key[1] = k[1]
               /\ z[k].nh \in Range(y[ref.key].nhs)
    <3>1. CASE k \in DOMAIN d.nh /\ ref \in d.nh[k].refs
      <4>1. /\ ref.gen \in Nat /\ ref.key \in DOMAIN d.route /\ ref.key[1] = k[1]
            /\ d.nh[k].nh \in Range(d.route[ref.key].nhs)
        BY <3>1 DEF Linked
      <4>2. z[k].nh = d.nh[k].nh
        BY <2>1, <3>1
      <4>3. QED
        BY <1>15, <4>1, <4>2
    <3>2. CASE \E r \in new : /\ ref = [key |-> Key(r), gw |-> Last(r.gws), gen |-> kernel.gen[r.vrf]]
                              /\ \E nh \in Range(Nexthops(d, r)) : nh.key = k
      <4>1. PICK r \in new : /\ ref = [key |-> Key(r), gw |-> Last(r.gws), gen |-> kernel.gen[r.vrf]]
                             /\ \E nh \in Range(Nexthops(d, r)) : nh.key = k
        BY <3>2
      <4>2. ref.key = Key(r) /\ ref.gen = kernel.gen[r.vrf]
        BY <4>1
      <4>3. PICK nh \in Range(Nexthops(d, r)) : nh.key = k
        BY <4>1
      <4> HIDE DEF new, Pick
      <4>4. k[1] = r.vrf /\ Pick(k) \in Range(y[Key(r)].nhs)
        BY <1>7, <1>14, <1>17, <4>3
      <4>5. QED
        BY <1>5, <1>14, <2>1, <4>2, <4>4
    <3>3. QED
      BY <1>19, <3>1, <3>2
  <2>5. QED
    BY <2>2, <2>3, <2>4
<1>21. Linked(e.route, e.nh)
  BY <1>4, <1>18, <1>20 DEF Linked
<1>22. \A k \in DOMAIN y :
          \/ k \in DOMAIN d.route /\ y[k] = d.route[k]
          \/ /\ \E r \in rs : k[1] = r.vrf
             /\ y[k].gen = kernel.gen[k[1]] /\ (y[k].leaving <=> k[1] \in gone)
  <2> SUFFICES ASSUME NEW k \in DOMAIN y, k \notin DOMAIN d.route
               PROVE  /\ \E r \in rs : k[1] = r.vrf
                      /\ y[k].gen = kernel.gen[k[1]] /\ (y[k].leaving <=> k[1] \in gone)
    BY <1>15
  <2>1. PICK r \in new : k = Key(r) /\ y[k] = Route(r)
    BY <1>13
  <2>2. r \in rs /\ k[1] = r.vrf
    BY <1>5, <2>1
  <2> HIDE DEF new
  <2>3. QED
    BY <1>17, <2>1, <2>2
<1>23. \A k \in DOMAIN z : \A ref \in z[k].refs :
          \/ k \in DOMAIN d.nh /\ ref \in d.nh[k].refs
          \/ (\E r \in rs : k[1] = r.vrf) /\ ref.gen = kernel.gen[k[1]]
  <2> SUFFICES ASSUME NEW k \in DOMAIN z, NEW ref \in z[k].refs, NEW r \in new,
                      ref = [key |-> Key(r), gw |-> Last(r.gws), gen |-> kernel.gen[r.vrf]],
                      NEW nh \in Range(Nexthops(d, r)), nh.key = k
               PROVE  (\E x \in rs : k[1] = x.vrf) /\ ref.gen = kernel.gen[k[1]]
    BY <1>19
  <2>1. k[1] = r.vrf /\ r \in rs
    BY <1>5, <1>7
  <2>2. QED
    BY <2>1
<1>24. \A k \in DOMAIN e.nh : k[3] <= kernel.gen[k[1]]
  BY <1>4, <1>10
<1>25. e = [neigh |-> d.neigh, route |-> e.route, nh |-> e.nh, fdb |-> d.fdb, l2 |-> d.l2]
  BY <1>3, <1>4
<1>26. QED
  BY <1>4, <1>21, <1>22, <1>23, <1>24, <1>25 DEF Added

-----------------------------------------------------------------------------
(* The kernel and InfraDB *)

\* A step of the kernel or of InfraDB, and what the polls rely on: devices are
\* never made again under an index they had, and what is doomed stays so.
EnvironmentKeeps ==
    /\ UNCHANGED <<poll, stop>>
    /\ KernelOK'
    /\ \A v \in Domain : kernel.gen[v] <= kernel'.gen[v]
    /\ overtaken \subseteq overtaken'
    /\ \A v \in Domain : \A g \in Nat : Doomed(v, g) => Doomed(v, g)'
    /\ ListedOK => ListedOK'

\* What the traffic and the ports change leaves the VRFs alone.
LEMMA TrafficKeeps ==
    ASSUME KernelOK, UNCHANGED <<vrfs, rmac, overtaken, poll, stop>>,
           NEW routes \in SUBSET Learnable, Unique(routes), \A r \in routes : HasDevice(r.vrf),
           NEW neigh \in SUBSET Neighbor, NEW fdb,
           kernel' = [routes |-> routes, neigh |-> neigh, fdb |-> fdb, devs |-> kernel.devs, gen |-> kernel.gen],
           events' \in 0..MaxEvents
    PROVE  EnvironmentKeeps
<1>1. /\ kernel'.routes = routes /\ kernel'.neigh = neigh /\ kernel'.fdb = fdb
      /\ kernel'.devs = kernel.devs /\ kernel'.gen = kernel.gen
      /\ vrfs' = vrfs /\ rmac' = rmac /\ overtaken' = overtaken
  OBVIOUS
<1>2. KernelOK'
  <2>1. \A r \in routes : HasDevice(r.vrf)'
    BY <1>1 DEF HasDevice
  <2>2. QED
    BY <1>1, <2>1 DEF KernelOK
<1>3. pc' = pc /\ todo' = todo /\ cur' = cur /\ leaving' = leaving
  BY DEF poll
<1>4. \A v \in Domain : kernel.gen[v] <= kernel'.gen[v]
  BY <1>1 DEF KernelOK
<1>5. \A v \in Domain : \A g \in Nat : Doomed(v, g) => Doomed(v, g)'
  BY <1>1 DEF Doomed
<1>6. ListedOK => ListedOK'
  BY <1>1, <1>3 DEF ListedOK, Tenants
<1>7. QED
  BY <1>1, <1>2, <1>4, <1>5, <1>6 DEF EnvironmentKeeps

\* A VRF goes from one status to the next.
LEMMA StatusKeeps ==
    ASSUME KernelOK, NEW v \in Vrf, NEW from, NEW to, VrfStep(v, from, to),
           from \in {"Absent", "Created", "Down", "Up", "ToBeDeleted"},
           to \in {"Absent", "Created", "Down", "Up", "ToBeDeleted"},
           from = "ToBeDeleted" => v \notin kernel.devs \/ to = from,
           to \in {"Absent", "Created"} => v \notin kernel.devs \/ from \in {"Absent", "Created"},
           UNCHANGED <<kernel, overtaken>>, rmac' \subseteq Vrf, events' \in 0..MaxEvents
    PROVE  EnvironmentKeeps
<1>1. /\ vrfs[v] = from /\ vrfs' = [vrfs EXCEPT ![v] = to] /\ UNCHANGED <<poll, stop>>
      /\ kernel' = kernel /\ overtaken' = overtaken
  BY DEF VrfStep
<1>2. /\ vrfs' \in [Vrf -> {"Absent", "Created", "Down", "Up", "ToBeDeleted"}]
      /\ vrfs'[v] = to /\ \A u \in Vrf \ {v} : vrfs'[u] = vrfs[u]
  BY <1>1 DEF KernelOK
<1>3. KernelOK'
  <2>1. \A r \in kernel.routes : HasDevice(r.vrf)'
    BY <1>1 DEF HasDevice, KernelOK
  <2>2. QED
    BY <1>1, <1>2, <2>1 DEF KernelOK
<1>4. pc' = pc /\ todo' = todo /\ cur' = cur /\ leaving' = leaving
  BY <1>1 DEF poll
<1>5. \A u \in Domain : kernel.gen[u] <= kernel'.gen[u]
  BY <1>1 DEF KernelOK
<1>6. \A u \in kernel.devs : vrfs[u] = "ToBeDeleted" => vrfs'[u] = "ToBeDeleted"
  BY <1>1, <1>2 DEF KernelOK
<1>7. \A u \in Domain : \A g \in Nat : Doomed(u, g) => Doomed(u, g)'
  BY <1>1, <1>6 DEF Doomed
<1>8. ListedOK => ListedOK'
  BY <1>1, <1>4, <1>6 DEF ListedOK, Tenants
<1>9. QED
  BY <1>1, <1>3, <1>5, <1>7, <1>8 DEF EnvironmentKeeps

\* A VRF that is set up while a poll has its old object is overtaken.
LEMMA SetUpKeeps ==
    ASSUME KernelOK, NEW v \in Vrf, SetUpVrf(v)
    PROVE  EnvironmentKeeps
<1>1. /\ vrfs[v] = "Created" /\ vrfs' = [vrfs EXCEPT ![v] = "Down"] /\ UNCHANGED <<poll, stop, rmac, events>>
      /\ kernel' = [kernel EXCEPT !.devs = @ \cup {v}]
      /\ overtaken' = IF pc \in {"neighbors", "routes"} /\ v \in leaving
                      THEN overtaken \cup {v} ELSE overtaken
  BY DEF SetUpVrf, VrfStep
<1>2. /\ kernel' = [routes |-> kernel.routes, neigh |-> kernel.neigh, fdb |-> kernel.fdb,
                    devs |-> kernel.devs \cup {v}, gen |-> kernel.gen]
  BY <1>1 DEF KernelOK
<1>3. /\ kernel'.routes = kernel.routes /\ kernel'.neigh = kernel.neigh /\ kernel'.fdb = kernel.fdb
      /\ kernel'.devs = kernel.devs \cup {v} /\ kernel'.gen = kernel.gen
  BY <1>2
<1>4. /\ vrfs' \in [Vrf -> {"Absent", "Created", "Down", "Up", "ToBeDeleted"}]
      /\ vrfs'[v] = "Down" /\ \A u \in Vrf \ {v} : vrfs'[u] = vrfs[u]
  BY <1>1 DEF KernelOK
<1>5. overtaken' \subseteq Vrf /\ overtaken \subseteq overtaken'
  BY <1>1 DEF KernelOK
<1>6. KernelOK'
  <2>1. \A r \in kernel.routes : HasDevice(r.vrf)'
    BY <1>3 DEF HasDevice, KernelOK
  <2>2. kernel' = [routes |-> kernel'.routes, neigh |-> kernel'.neigh, fdb |-> kernel'.fdb,
                   devs |-> kernel'.devs, gen |-> kernel'.gen]
    BY <1>2, <1>3
  <2>3. rmac' \subseteq Vrf /\ events' \in 0..MaxEvents
    BY <1>1 DEF KernelOK
  <2>4. kernel'.devs \subseteq Vrf
    BY <1>3 DEF KernelOK
  <2>5. kernel'.routes \subseteq Learnable /\ Unique(kernel'.routes) /\ kernel'.neigh \subseteq Neighbor
        /\ kernel'.gen \in [Domain -> Nat] /\ kernel'.gen[Grd] = 0
    BY <1>3 DEF KernelOK
  <2>6. QED
    BY <1>3, <1>4, <1>5, <2>1, <2>2, <2>3, <2>4, <2>5 DEF KernelOK
<1>7. pc' = pc /\ todo' = todo /\ cur' = cur /\ leaving' = leaving
  BY <1>1 DEF poll
<1>8. \A u \in Domain : kernel.gen[u] <= kernel'.gen[u]
  BY <1>3 DEF KernelOK
<1>9. \A u \in Domain : \A g \in Nat : Doomed(u, g) => Doomed(u, g)'
  <2>1. \A u \in kernel.devs : vrfs[u] = "ToBeDeleted" => vrfs'[u] = "ToBeDeleted"
    BY <1>1, <1>4 DEF KernelOK
  <2>2. QED
    BY <1>3, <2>1 DEF Doomed
<1>10. ASSUME ListedOK PROVE ListedOK'
  <2> SUFFICES ASSUME Tenants, NEW u \in leaving \ overtaken', u \in kernel'.devs
               PROVE  vrfs'[u] = "ToBeDeleted"
    BY <1>7 DEF ListedOK, Tenants
  <2>1. pc \in {"neighbors", "routes"}
    BY DEF Tenants
  <2>2. u # v
    BY <1>1, <2>1
  <2>3. u \in kernel.devs /\ u \in leaving \ overtaken
    BY <1>3, <1>5, <2>2
  <2>4. vrfs[u] = "ToBeDeleted" /\ u \in Vrf
    BY <1>10, <2>3 DEF ListedOK, KernelOK
  <2>5. QED
    BY <1>4, <2>2, <2>4
<1>11. QED
  BY <1>1, <1>5, <1>6, <1>8, <1>9, <1>10 DEF EnvironmentKeeps

\* The devices of a VRF that is torn down are gone for good.
LEMMA TearDownKeeps ==
    ASSUME KernelOK, NEW v \in Vrf, TearDownVrf(v)
    PROVE  EnvironmentKeeps
<1> DEFINE gen == [kernel.gen EXCEPT ![v] = @ + 1]
           routes == {r \in kernel.routes : r.vrf # v}
           neigh == {n \in kernel.neigh : n.vrf # v}
<1>1. /\ vrfs[v] = "ToBeDeleted" /\ vrfs' = [vrfs EXCEPT ![v] = "ToBeDeleted"]
      /\ UNCHANGED <<poll, stop, rmac, overtaken, events>> /\ v \in kernel.devs
      /\ kernel' = [kernel EXCEPT !.devs = @ \ {v}, !.gen[v] = @ + 1,
                                  !.routes = {r \in @ : r.vrf # v}, !.neigh = {n \in @ : n.vrf # v}]
  BY DEF TearDownVrf, VrfStep
<1>2. kernel' = [routes |-> routes, neigh |-> neigh, fdb |-> kernel.fdb,
                 devs |-> kernel.devs \ {v}, gen |-> gen]
  BY <1>1 DEF KernelOK
<1>3. /\ kernel'.routes = routes /\ kernel'.neigh = neigh
      /\ kernel'.devs = kernel.devs \ {v} /\ kernel'.gen = gen
      /\ kernel' = [routes |-> kernel'.routes, neigh |-> kernel'.neigh, fdb |-> kernel'.fdb,
                    devs |-> kernel'.devs, gen |-> kernel'.gen]
  BY <1>2
<1>4. /\ gen \in [Domain -> Nat] /\ gen[v] = kernel.gen[v] + 1 /\ \A u \in Domain \ {v} : gen[u] = kernel.gen[u]
      /\ v # Grd /\ v \in Domain /\ Grd \in Domain
  BY NetlinkAssumption DEF KernelOK, Domain
<1> HIDE DEF gen
<1>5. vrfs' = vrfs
  BY <1>1 DEF KernelOK
<1>6. KernelOK'
  <2>1. \A r \in kernel'.routes : HasDevice(r.vrf)'
    BY <1>3 DEF HasDevice, KernelOK
  <2>2. Unique(kernel'.routes) /\ kernel'.routes \subseteq Learnable
    BY <1>3 DEF KernelOK, Unique
  <2>3. kernel'.neigh \subseteq Neighbor /\ kernel'.devs \subseteq Vrf
    BY <1>3 DEF KernelOK
  <2>4. kernel'.gen \in [Domain -> Nat] /\ kernel'.gen[Grd] = 0
    BY <1>3, <1>4 DEF KernelOK
  <2>5. rmac' \subseteq Vrf /\ overtaken' \subseteq Vrf /\ events' \in 0..MaxEvents
        /\ vrfs' \in [Vrf -> {"Absent", "Created", "Down", "Up", "ToBeDeleted"}]
    BY <1>1, <1>5 DEF KernelOK
  <2>6. QED
    BY <1>3, <2>1, <2>2, <2>3, <2>4, <2>5 DEF KernelOK
<1>7. pc' = pc /\ todo' = todo /\ cur' = cur /\ leaving' = leaving
  BY <1>1 DEF poll
<1>8. \A u \in Domain : kernel.gen[u] \in Nat /\ kernel.gen[u] <= kernel'.gen[u]
  BY <1>3, <1>4 DEF KernelOK
<1>9. \A u \in Domain : \A g \in Nat : Doomed(u, g) => Doomed(u, g)'
  BY <1>3, <1>4, <1>5, <1>8 DEF Doomed
<1>10. ListedOK => ListedOK'
  BY <1>1, <1>3, <1>5, <1>7 DEF ListedOK, Tenants
<1>11. QED
  BY <1>1, <1>6, <1>8, <1>9, <1>10 DEF EnvironmentKeeps

\* Whatever the kernel and InfraDB do.
LEMMA EnvironmentStep ==
    ASSUME KernelOK, Environment
    PROVE  EnvironmentKeeps
<1>1. /\ kernel.routes \subseteq Learnable /\ Unique(kernel.routes) /\ \A r \in kernel.routes : HasDevice(r.vrf)
      /\ kernel.neigh \subseteq Neighbor /\ rmac \subseteq Vrf /\ events \in 0..MaxEvents
      /\ kernel = [routes |-> kernel.routes, neigh |-> kernel.neigh, fdb |-> kernel.fdb,
                   devs |-> kernel.devs, gen |-> kernel.gen]
  BY DEF KernelOK
<1>2. ASSUME Changes PROVE events' \in 0..MaxEvents /\ UNCHANGED <<overtaken, poll, stop>>
  BY <1>1, <1>2, NetlinkAssumption DEF Changes
<1>3. ASSUME NEW r \in Learnable, LearnRoute(r) PROVE EnvironmentKeeps
  <2>1. PICK routes : routes = kernel.routes \cup {r}
    OBVIOUS
  <2>2. /\ Changes /\ HasDevice(r.vrf) /\ Unique(routes) /\ UNCHANGED <<vrfs, rmac, ports>>
        /\ kernel' = [kernel EXCEPT !.routes = @ \cup {r}]
    BY <1>3, <2>1 DEF LearnRoute
  <2>3. kernel' = [routes |-> routes, neigh |-> kernel.neigh, fdb |-> kernel.fdb,
                   devs |-> kernel.devs, gen |-> kernel.gen]
    BY <1>1, <2>1, <2>2
  <2>4. routes \in SUBSET Learnable /\ \A x \in routes : HasDevice(x.vrf)
    BY <1>1, <2>1, <2>2
  <2>5. QED
    BY <1>1, <1>2, <2>2, <2>3, <2>4, TrafficKeeps
<1>4. ASSUME NEW r \in kernel.routes, WithdrawRoute(r) PROVE EnvironmentKeeps
  <2>1. PICK routes : routes = kernel.routes \ {r}
    OBVIOUS
  <2>2. Changes /\ UNCHANGED <<vrfs, rmac, ports>> /\ kernel' = [kernel EXCEPT !.routes = @ \ {r}]
    BY <1>4 DEF WithdrawRoute
  <2>3. kernel' = [routes |-> routes, neigh |-> kernel.neigh, fdb |-> kernel.fdb,
                   devs |-> kernel.devs, gen |-> kernel.gen]
    BY <1>1, <2>1, <2>2
  <2>4. routes \in SUBSET Learnable /\ Unique(routes) /\ \A x \in routes : HasDevice(x.vrf)
    BY <1>1, <2>1 DEF Unique
  <2>5. QED
    BY <1>1, <1>2, <2>2, <2>3, <2>4, TrafficKeeps
<1>5. ASSUME NEW n \in Neighbor, LearnNeighbor(n) PROVE EnvironmentKeeps
  <2>1. PICK neigh : neigh = {m \in kernel.neigh : <<m.vrf, m.addr>> # <<n.vrf, n.addr>>} \cup {n}
    OBVIOUS
  <2>2. /\ Changes /\ UNCHANGED <<vrfs, rmac, ports>>
        /\ kernel' = [kernel EXCEPT !.neigh = {m \in @ : <<m.vrf, m.addr>> # <<n.vrf, n.addr>>} \cup {n}]
    BY <1>5 DEF LearnNeighbor
  <2>3. kernel' = [routes |-> kernel.routes, neigh |-> neigh, fdb |-> kernel.fdb,
                   devs |-> kernel.devs, gen |-> kernel.gen]
    BY <1>1, <2>1, <2>2
  <2>4. neigh \in SUBSET Neighbor
    BY <1>1, <2>1
  <2>5. QED
    BY <1>1, <1>2, <2>2, <2>3, <2>4, TrafficKeeps
<1>6. ASSUME NEW n \in kernel.neigh, LoseNeighbor(n) PROVE EnvironmentKeeps
  <2>1. Changes /\ UNCHANGED <<vrfs, rmac, ports>> /\ kernel' = [kernel EXCEPT !.neigh = @ \ {n}]
    BY <1>6 DEF LoseNeighbor
  <2>2. kernel' = [routes |-> kernel.routes, neigh |-> kernel.neigh \ {n}, fdb |-> kernel.fdb,
                   devs |-> kernel.devs, gen |-> kernel.gen]
    BY <1>1, <2>1
  <2>3. kernel.neigh \ {n} \in SUBSET Neighbor
    BY <1>1
  <2>4. QED
    BY <1>1, <1>2, <2>1, <2>2, <2>3, TrafficKeeps
<1>7. ASSUME NEW m \in Mac, NEW where \in Port \cup Vtep \cup {Nowhere}, MoveMac(m, where)
      PROVE  EnvironmentKeeps
  <2>1. Changes /\ UNCHANGED <<vrfs, rmac, ports>> /\ kernel' = [kernel EXCEPT !.fdb[m] = where]
    BY <1>7 DEF MoveMac
  <2>2. PICK fdb : fdb = [kernel.fdb EXCEPT ![m] = where]
    OBVIOUS
  <2>3. kernel' = [routes |-> kernel.routes, neigh |-> kernel.neigh, fdb |-> fdb,
                   devs |-> kernel.devs, gen |-> kernel.gen]
    BY <1>1, <2>1, <2>2
  <2>4. QED
    BY <1>1, <1>2, <2>1, <2>3, TrafficKeeps
<1>8. ASSUME NEW m \in Mac, TogglePort(m) PROVE EnvironmentKeeps
  <2>1. Changes /\ UNCHANGED <<kernel, vrfs, rmac>>
    BY <1>8 DEF TogglePort
  <2>2. QED
    BY <1>1, <1>2, <2>1, TrafficKeeps
<1>9. ASSUME NEW v \in Vrf, CreateVrf(v) PROVE EnvironmentKeeps
  <2>1. VrfStep(v, "Absent", "Created") /\ UNCHANGED <<kernel, rmac, overtaken, events>>
    BY <1>9 DEF CreateVrf
  <2>2. QED
    BY <1>1, <2>1, StatusKeeps
<1>10. ASSUME NEW v \in Vrf, VrfUp(v) PROVE EnvironmentKeeps
  <2>1. VrfStep(v, "Down", "Up") /\ rmac' = rmac \cup {v} /\ UNCHANGED <<kernel, overtaken, events>>
    BY <1>10 DEF VrfUp
  <2>2. QED
    BY <1>1, <2>1, StatusKeeps
<1>11. ASSUME NEW v \in Vrf, ReplayVrf(v) PROVE EnvironmentKeeps
  <2>1. /\ VrfStep(v, "Up", "Down") /\ rmac' = rmac \ {v} /\ UNCHANGED <<kernel, overtaken>>
        /\ events < MaxEvents /\ events' = events + 1
    BY <1>11 DEF ReplayVrf
  <2>2. events' \in 0..MaxEvents
    BY <1>1, <2>1, NetlinkAssumption
  <2>3. QED
    BY <1>1, <2>1, <2>2, StatusKeeps
<1>12. ASSUME NEW v \in Vrf, DeleteVrf(v) PROVE EnvironmentKeeps
  <2>1. PICK status \in {"Created", "Down", "Up"} : VrfStep(v, status, "ToBeDeleted")
    BY <1>12 DEF DeleteVrf
  <2>2. UNCHANGED <<kernel, rmac, overtaken, events>>
    BY <1>12 DEF DeleteVrf
  <2>3. QED
    BY <1>1, <2>1, <2>2, StatusKeeps
<1>13. ASSUME NEW v \in Vrf, VrfGone(v) PROVE EnvironmentKeeps
  <2>1. /\ v \notin kernel.devs /\ VrfStep(v, "ToBeDeleted", "Absent") /\ rmac' = rmac \ {v}
        /\ UNCHANGED <<kernel, overtaken, events>>
    BY <1>13 DEF VrfGone
  <2>2. QED
    BY <1>1, <2>1, StatusKeeps
<1>14. QED
  BY <1>3, <1>4, <1>5, <1>6, <1>7, <1>8, <1>9, <1>10, <1>11, <1>12, <1>13, SetUpKeeps, TearDownKeeps
     DEF Environment

-----------------------------------------------------------------------------
(* What the steps keep *)

\* The keys and the records of linked tables.
LEMMA LinkedFacts ==
    ASSUME NEW route, NEW nh, Linked(route, nh)
    PROVE  /\ \A k \in DOMAIN route : /\ k[1] \in Domain /\ route[k].gen \in Nat /\ route[k].leaving \in BOOLEAN
                                      /\ route[k].leaving => k[1] \in Vrf
           /\ \A k \in DOMAIN nh : /\ k[1] \in Domain /\ k[3] \in Nat /\ nh[k].refs # {}
                                   /\ \A ref \in nh[k].refs : ref.gen \in Nat
<1>1. \A k \in DOMAIN route : /\ k[1] \in Domain /\ route[k].gen \in Nat /\ route[k].leaving \in BOOLEAN
                              /\ route[k].leaving => k[1] \in Vrf
  BY DEF Linked, RouteOf
<1>2. ASSUME NEW k \in DOMAIN nh
      PROVE  k[1] \in Domain /\ k[3] \in Nat /\ nh[k].refs # {} /\ \A ref \in nh[k].refs : ref.gen \in Nat
  <2>1. k[1] \in Domain /\ nh[k].nh \in Via(k[1]) /\ nh[k].nh.key = k /\ nh[k].refs # {}
        /\ \A ref \in nh[k].refs : ref.gen \in Nat
    BY DEF Linked
  <2>2. nh[k].nh.key \in Domain \X (Gateway \cup {NoGw}) \X Nat
    BY <2>1 DEF Via
  <2>3. QED
    BY <2>1, <2>2
<1>3. QED
  BY <1>1, <1>2

\* The kernel and InfraDB may change while a poll goes on.
LEMMA EnvironmentKeepsIInv ==
    ASSUME EnvironmentKeeps
    PROVE  (Tables => Tables') /\ (Tables /\ Lacks => Lacks') /\ (Mirror => Mirror')
<1>1. /\ UNCHANGED <<pc, todo, cur, leaving, deaf, names, latest, db, sub>> /\ KernelOK'
      /\ \A v \in Domain : kernel.gen[v] <= kernel'.gen[v]
      /\ overtaken \subseteq overtaken'
      /\ \A v \in Domain : \A g \in Nat : Doomed(v, g) => Doomed(v, g)'
      /\ ListedOK => ListedOK'
  BY DEF EnvironmentKeeps, poll
<1>2. (BeforeList' <=> BeforeList) /\ (Tenants' <=> Tenants)
  BY <1>1 DEF BeforeList, Tenants
<1>3. ASSUME Tables PROVE Tables'
  <2>1. PollOK' /\ DbOK' /\ Cleared' /\ OnlyGrd'
    BY <1>1, <1>2, <1>3 DEF Tables, PollOK, DbOK, Cleared, OnlyGrd
  <2>2. \A k \in DOMAIN latest.nh : k[3] <= kernel'.gen[k[1]]
    <3>1. \A k \in DOMAIN latest.nh : k[1] \in Domain /\ k[3] \in Nat /\ k[3] <= kernel.gen[k[1]]
      BY <1>3, LinkedFacts DEF Tables, LatestOK
    <3>2. \A v \in Domain : kernel.gen[v] \in Nat /\ kernel'.gen[v] \in Nat
      BY <1>1, <1>3 DEF Tables, KernelOK
    <3>3. QED
      BY <1>1, <3>1, <3>2
  <2>3. LatestOK'
    BY <1>1, <1>3, <2>2 DEF Tables, LatestOK
  <2>4. QED
    BY <1>1, <2>1, <2>3 DEF Tables
<1>4. ASSUME Tables, Lacks PROVE Lacks'
  <2>1. /\ \A k \in DOMAIN latest.route : k[1] \in Domain /\ latest.route[k].gen \in Nat
        /\ \A k \in DOMAIN latest.nh : k[1] \in Domain /\ \A ref \in latest.nh[k].refs : ref.gen \in Nat
        /\ \A k \in DOMAIN db.route : k[1] \in Domain /\ db.route[k].gen \in Nat
        /\ \A k \in DOMAIN db.nh : k[1] \in Domain /\ \A ref \in db.nh[k].refs : ref.gen \in Nat
    BY <1>4, LinkedFacts DEF Tables, LatestOK, DbOK
  <2>2. LeavingOK'
    BY <1>1, <1>2, <1>4, <2>1 DEF Lacks, LeavingOK
  <2>3. LackingOK'
    BY <1>1, <1>4, <2>1 DEF Lacks, LackingOK, Missing
  <2>4. BygoneOK'
    <3>1. \A v \in Domain : kernel.gen[v] \in Nat /\ kernel'.gen[v] \in Nat
      BY <1>1, <1>4 DEF Tables, KernelOK
    <3>2. \A v \in Domain : \A g \in Nat : g < kernel.gen[v] => g < kernel'.gen[v]
      BY <1>1, <3>1
    <3>3. QED
      BY <1>1, <1>2, <1>4, <2>1, <3>2 DEF Lacks, BygoneOK, Missing
  <2>5. RenewedOK'
    BY <1>1, <1>2, <1>4 DEF Lacks, RenewedOK, Missing
  <2>6. QED
    BY <1>1, <1>4, <2>2, <2>3, <2>4, <2>5 DEF Lacks
<1>5. ASSUME Mirror PROVE Mirror'
  <2>1. \A kind, k : Excepted(kind, k) => Excepted(kind, k)'
    BY <1>1 DEF Excepted
  <2>2. QED
    BY <1>1, <1>5, <2>1 DEF Mirror
<1>6. QED
  BY <1>3, <1>4, <1>5

\* The monitor leaves the kernel and InfraDB alone.
LEMMA MonitorLeaves ==
    ASSUME KernelOK, UNCHANGED env, events' \in 0..MaxEvents
    PROVE  /\ KernelOK' /\ kernel' = kernel /\ vrfs' = vrfs /\ overtaken' = overtaken
           /\ \A v, g : Doomed(v, g)' <=> Doomed(v, g)
<1>1. kernel' = kernel /\ vrfs' = vrfs /\ rmac' = rmac /\ overtaken' = overtaken
  BY DEF env
<1>2. KernelOK'
  BY <1>1 DEF KernelOK, HasDevice
<1>3. \A v, g : Doomed(v, g)' <=> Doomed(v, g)
  BY <1>1 DEF Doomed
<1>4. QED
  BY <1>1, <1>2, <1>3

\* A step between two polls' ends that neither reads routes nor tells the
\* subscriber anything.
LEMMA QuietKeeps ==
    ASSUME Tables, UNCHANGED env, events' \in 0..MaxEvents, UNCHANGED <<db, sub, leaving>>,
           latest'.route = latest.route, latest'.nh = latest.nh,
           pc # "done", pc' \notin {"idle", "done"}, Tenants' => Tenants, Lacks
    PROVE  Lacks' /\ Mirror'
<1>1. /\ kernel' = kernel /\ vrfs' = vrfs /\ overtaken' = overtaken /\ db' = db /\ sub' = sub /\ leaving' = leaving
      /\ \A v, g : Doomed(v, g)' <=> Doomed(v, g)
  BY MonitorLeaves DEF Tables
<1>2. \A kind, k : Missing(kind, k)' <=> Missing(kind, k)
  BY <1>1 DEF Missing
<1>3. \A k \in DOMAIN latest.nh : BeforeList => k[1] \notin Vrf /\ k[1] \notin leaving
  BY NetlinkAssumption DEF Tables, OnlyGrd, PollOK
<1>4. ListedOK'
  BY <1>1 DEF Lacks, ListedOK
<1>5. LeavingOK'
  BY <1>1, <1>3 DEF Lacks, LeavingOK
<1>6. LackingOK'
  BY <1>1, <1>2 DEF Lacks, LackingOK
<1>7. BygoneOK'
  BY <1>1, <1>2 DEF Lacks, BygoneOK
<1>8. RenewedOK'
  BY <1>1, <1>2, <1>3 DEF Lacks, RenewedOK
<1>9. Mirror'
  BY DEF Mirror
<1>10. QED
  BY <1>4, <1>5, <1>6, <1>7, <1>8, <1>9 DEF Lacks

-----------------------------------------------------------------------------
(* Reading the kernel *)

LEMMA StartPollKeeps ==
    ASSUME Tables, StartPoll
    PROVE  Tables' /\ (Lacks => Lacks' /\ Mirror')
<1>1. /\ pc = "idle" /\ UNCHANGED <<env, stop, cur, leaving, deaf, names, latest, db, sub>>
      /\ \/ pc' = "neighbors" /\ todo' = {Grd}
         \/ pc' = "annotate" /\ todo' = {}
      /\ UNCHANGED events \/ (events < MaxEvents /\ events' = events + 1)
  BY DEF StartPoll, May, Disturbed
<1>2. events' \in 0..MaxEvents
  BY <1>1, NetlinkAssumption DEF Tables, KernelOK
<1>3. KernelOK' /\ kernel' = kernel
  BY <1>1, <1>2, MonitorLeaves DEF Tables
<1>4. latest = NothingRead
  BY <1>1 DEF Tables, Cleared
<1>5. DOMAIN latest.route = {} /\ DOMAIN latest.nh = {} /\ latest.neigh = {}
  BY <1>4 DEF NothingRead, Empty
<1>6. PollOK'
  BY <1>1 DEF Tables, PollOK, Domain, PCs
<1>7. LatestOK' /\ DbOK'
  BY <1>1, <1>3 DEF Tables, LatestOK, DbOK
<1>8. Cleared' /\ OnlyGrd'
  BY <1>1, <1>5 DEF Cleared, OnlyGrd
<1>9. Tables'
  BY <1>3, <1>6, <1>7, <1>8 DEF Tables
<1>10. ~ Tenants'
  BY <1>1, NetlinkAssumption DEF Tenants
<1>11. Lacks => Lacks' /\ Mirror'
  BY <1>1, <1>2, <1>10, QuietKeeps
<1>12. QED
  BY <1>9, <1>11

\* The neighbors of a VRF, whatever the routes to them are.
LEMMA NeighborsReadFacts ==
    ASSUME KernelOK, NEW v, NEW unrouted, \A a \in DOMAIN unrouted : unrouted[a] \in {"IGNORE", "OTHER"}
    PROVE  \A n \in kernel.neigh : n.vrf = v =>
              LET m == [vrf |-> n.vrf, addr |-> n.addr, mac |-> n.mac,
                        type |-> NeighborType(n, unrouted), gen |-> kernel.gen[n.vrf]]
              IN  m \in Read /\ m.vrf = v
<1> SUFFICES ASSUME NEW n \in kernel.neigh, n.vrf = v,
                    NEW m, m = [vrf |-> n.vrf, addr |-> n.addr, mac |-> n.mac,
                                type |-> NeighborType(n, unrouted), gen |-> kernel.gen[n.vrf]]
             PROVE  m \in Read /\ m.vrf = v
  OBVIOUS
<1>1. n \in Neighbor
  BY DEF KernelOK
<1>2. /\ n.vrf \in Domain /\ n.addr \in Gateway /\ n.mac \in Mac
      /\ n.vrf = Grd => n.addr \in Hop
  BY <1>1, NetlinkAssumption DEF Neighbor, Domain, Gateway
<1>3. kernel.gen[n.vrf] \in Nat
  BY <1>2 DEF KernelOK
<1>4. /\ NeighborType(n, unrouted) \in {"PHY", "SVI", "IGNORE", "OTHER"}
      /\ NeighborType(n, unrouted) \in {"PHY", "SVI"} => n.addr \in Hop \cup Host
  BY DEF NeighborType
<1>5. NeighborType(n, unrouted) \in {"PHY", "SVI"} => n.addr \notin Vtep
  BY <1>4, NetlinkAssumption
<1>6. QED
  BY <1>2, <1>3, <1>4, <1>5 DEF Read

\* The neighbors of the VRF are added, or the watcher dies of one of them.
LEMMA readNeighborsFacts ==
    ASSUME Tables, readNeighbors
    PROVE  /\ pc = "neighbors" /\ cur' \in todo /\ todo' = todo \ {cur'}
           /\ UNCHANGED <<env, stop, leaving, db, sub>> /\ events' \in 0..MaxEvents
           /\ deaf' \subseteq Vtep \cup Hop
           /\ \/ pc' = "dead" /\ latest' = latest
              \/ /\ pc' = "routes"
                 /\ \E read : /\ latest' = [latest EXCEPT !.neigh = @ \cup read]
                              /\ read \subseteq Read /\ \A n \in read : n.vrf = cur'
<1> DEFINE seen == {n \in kernel.neigh : n.vrf = cur'}
           Read1(unrouted) == {[vrf |-> n.vrf, addr |-> n.addr, mac |-> n.mac,
                                type |-> NeighborType(n, unrouted), gen |-> kernel.gen[n.vrf]] : n \in seen}
           Add(unrouted) == latest' = [latest EXCEPT !.neigh = @ \cup Read1(unrouted)]
           Odd == \E to \in SUBSET (Addresses(seen) \cap Hop) \ {{}} :
                     \E unrouted \in [to -> {"IGNORE", "OTHER"}] : Add(unrouted) /\ deaf' = {}
           Wrong == \/ latest' = latest /\ deaf' = {}
                    \/ Add(Empty) /\ deaf' \in SUBSET (Vtep \cup Hop) \ {{}}
                    \/ Odd
<1>1. /\ pc = "neighbors" /\ cur' \in todo /\ todo' = todo \ {cur'}
      /\ UNCHANGED <<env, stop, leaving, db, sub>>
      /\ \/ May(Add(Empty) /\ deaf' = {}, Wrong) /\ pc' = "routes"
         \/ Disturbed(Die) /\ deaf' = deaf
  BY DEF readNeighbors
<1> HIDE DEF Odd
<1>2. /\ UNCHANGED events \/ (events < MaxEvents /\ events' = events + 1)
      /\ \/ ((Add(Empty) /\ deaf' = {}) \/ Wrong) /\ pc' = "routes"
         \/ Die /\ deaf' = deaf
  <2> HIDE DEF Add, Wrong
  <2>1. QED
    BY <1>1 DEF May, Disturbed
<1>3. events' \in 0..MaxEvents
  BY <1>2, NetlinkAssumption DEF Tables, KernelOK
<1>4. ASSUME NEW unrouted, \A a \in DOMAIN unrouted : unrouted[a] \in {"IGNORE", "OTHER"}, Add(unrouted)
      PROVE  \E read : /\ latest' = [latest EXCEPT !.neigh = @ \cup read]
                       /\ read \subseteq Read /\ \A n \in read : n.vrf = cur'
  <2>1. PICK read : read = Read1(unrouted)
    OBVIOUS
  <2>2. read \subseteq Read /\ \A n \in read : n.vrf = cur'
    BY <1>4, <2>1, NeighborsReadFacts DEF Tables
  <2> HIDE DEF Read1
  <2>3. latest' = [latest EXCEPT !.neigh = @ \cup read]
    BY <1>4, <2>1
  <2>4. QED
    BY <2>2, <2>3
<1>5. Add(Empty) => \E read : /\ latest' = [latest EXCEPT !.neigh = @ \cup read]
                              /\ read \subseteq Read /\ \A n \in read : n.vrf = cur'
  <2>1. DOMAIN Empty = {}
    BY DEF Empty
  <2> HIDE DEF Add
  <2>2. QED
    BY <1>4, <2>1
<1>6. Odd => /\ deaf' = {}
             /\ \E read : /\ latest' = [latest EXCEPT !.neigh = @ \cup read]
                          /\ read \subseteq Read /\ \A n \in read : n.vrf = cur'
  <2> SUFFICES ASSUME Odd
               PROVE  /\ deaf' = {}
                      /\ \E read : /\ latest' = [latest EXCEPT !.neigh = @ \cup read]
                                   /\ read \subseteq Read /\ \A n \in read : n.vrf = cur'
    OBVIOUS
  <2>1. PICK to : \E unrouted \in [to -> {"IGNORE", "OTHER"}] : Add(unrouted) /\ deaf' = {}
    BY DEF Odd
  <2>2. PICK unrouted \in [to -> {"IGNORE", "OTHER"}] : Add(unrouted) /\ deaf' = {}
    BY <2>1
  <2> HIDE DEF Add
  <2>3. \A a \in DOMAIN unrouted : unrouted[a] \in {"IGNORE", "OTHER"}
    OBVIOUS
  <2>4. QED
    BY <1>4, <2>2, <2>3
<1>7. latest' = latest => \E read : /\ latest' = [latest EXCEPT !.neigh = @ \cup read]
                                    /\ read \subseteq Read /\ \A n \in read : n.vrf = cur'
  <2> SUFFICES ASSUME latest' = latest
               PROVE  \E read : /\ latest' = [latest EXCEPT !.neigh = @ \cup read]
                                /\ read \subseteq Read /\ \A n \in read : n.vrf = cur'
    OBVIOUS
  <2>1. latest = [neigh |-> latest.neigh, route |-> latest.route, nh |-> latest.nh,
                  fdb |-> latest.fdb, l2 |-> latest.l2]
    BY DEF Tables, LatestOK
  <2>2. latest = [latest EXCEPT !.neigh = @ \cup {}]
    BY <2>1
  <2>3. PICK none : none = {}
    OBVIOUS
  <2>4. /\ latest' = [latest EXCEPT !.neigh = @ \cup none]
        /\ none \subseteq Read /\ \A n \in none : n.vrf = cur'
    BY <2>2, <2>3
  <2>5. QED
    BY <2>4, Zenon
<1>8. deaf \subseteq Vtep \cup Hop
  BY DEF Tables, PollOK
<1> HIDE DEF Add
<1>9. CASE ((Add(Empty) /\ deaf' = {}) \/ Wrong) /\ pc' = "routes"
  BY <1>1, <1>3, <1>5, <1>6, <1>7, <1>9, Zenon
<1>10. CASE Die /\ deaf' = deaf
  <2>1. pc' = "dead" /\ latest' = latest
    BY <1>10 DEF Die
  <2>2. QED
    BY <1>1, <1>3, <1>8, <1>10, <2>1, Zenon
<1>11. QED
  BY <1>2, <1>9, <1>10, Zenon

LEMMA readNeighborsKeeps ==
    ASSUME Tables, readNeighbors
    PROVE  Tables' /\ (Lacks => Lacks' /\ Mirror')
<1>1. /\ pc = "neighbors" /\ cur' \in todo /\ todo' = todo \ {cur'}
      /\ UNCHANGED <<env, stop, leaving, db, sub>> /\ events' \in 0..MaxEvents
      /\ deaf' \subseteq Vtep \cup Hop
  BY readNeighborsFacts
<1>2. \/ pc' = "dead" /\ latest' = latest
      \/ pc' = "routes" /\ \E read : /\ latest' = [latest EXCEPT !.neigh = @ \cup read]
                                     /\ read \subseteq Read /\ \A n \in read : n.vrf = cur'
  BY readNeighborsFacts
<1>3. KernelOK' /\ kernel' = kernel
  BY <1>1, MonitorLeaves DEF Tables
<1>4. (todo = {Grd} \/ todo \subseteq Vrf) /\ cur' \in todo /\ cur' \in Domain
  BY <1>1 DEF Tables, PollOK
<1>5. PollOK'
  BY <1>1, <1>2, <1>4 DEF Tables, PollOK, PCs
<1>6. DbOK' /\ Cleared'
  BY <1>1, <1>2 DEF Tables, DbOK, Cleared
<1>7. CASE pc' = "dead" /\ latest' = latest
  <2>1. ~ BeforeList' /\ ~ Tenants'
    BY <1>7 DEF BeforeList, Tenants
  <2>2. LatestOK' /\ OnlyGrd'
    BY <1>3, <1>7, <2>1 DEF Tables, LatestOK, OnlyGrd
  <2>3. Tables'
    BY <1>3, <1>5, <1>6, <2>2 DEF Tables
  <2>4. Lacks => Lacks' /\ Mirror'
    BY <1>1, <1>7, <2>1, QuietKeeps
  <2>5. QED
    BY <2>3, <2>4
<1>8. CASE pc' = "routes" /\ \E read : /\ latest' = [latest EXCEPT !.neigh = @ \cup read]
                                       /\ read \subseteq Read /\ \A n \in read : n.vrf = cur'
  <2>1. PICK read : /\ latest' = [latest EXCEPT !.neigh = @ \cup read]
                    /\ read \subseteq Read /\ \A n \in read : n.vrf = cur'
    BY <1>8
  <2>2. latest = [neigh |-> latest.neigh, route |-> latest.route, nh |-> latest.nh,
                  fdb |-> latest.fdb, l2 |-> latest.l2]
    BY DEF Tables, LatestOK
  <2>3. latest' = [neigh |-> latest.neigh \cup read, route |-> latest.route, nh |-> latest.nh,
                   fdb |-> latest.fdb, l2 |-> latest.l2]
    BY <2>1, <2>2
  <2>4. /\ latest'.neigh = latest.neigh \cup read /\ latest'.route = latest.route /\ latest'.nh = latest.nh
        /\ latest'.fdb = latest.fdb /\ latest'.l2 = latest.l2
    BY <2>3
  <2>5. (BeforeList' <=> BeforeList) /\ (Tenants' <=> Tenants)
    BY <1>1, <1>4, <1>8, NetlinkAssumption DEF BeforeList, Tenants
  <2>6. LatestOK'
    <3>1. latest.neigh \subseteq Read
      BY DEF Tables, LatestOK
    <3>2. QED
      BY <1>3, <2>1, <2>3, <2>4, <3>1 DEF Tables, LatestOK
  <2>7. OnlyGrd'
    <3>1. BeforeList' => cur' = Grd
      BY <1>8 DEF BeforeList
    <3>2. BeforeList => \A n \in latest.neigh : n.vrf = Grd
      BY DEF Tables, OnlyGrd
    <3>3. BeforeList' => \A n \in latest'.neigh : n.vrf = Grd
      BY <2>1, <2>4, <2>5, <3>1, <3>2
    <3>4. QED
      BY <2>4, <2>5, <3>3 DEF Tables, OnlyGrd
  <2>8. Tables'
    BY <1>3, <1>5, <1>6, <2>6, <2>7 DEF Tables
  <2>9. Lacks => Lacks' /\ Mirror'
    BY <1>1, <1>8, <2>4, <2>5, QuietKeeps
  <2>10. QED
    BY <2>8, <2>9
<1>9. QED
  BY <1>2, <1>7, <1>8

\* Only the GRD has been read when the VRFs are listed, and what is known of the
\* others is from before.
LEMMA listVrfsKeeps ==
    ASSUME Tables, listVrfs
    PROVE  Tables' /\ (Lacks => Lacks' /\ Mirror')
<1>1. /\ pc = "list" /\ leaving' = BeingDeleted
      /\ todo' \subseteq Vrf /\ pc' = IF todo' = {} THEN "dump" ELSE "neighbors"
      /\ UNCHANGED <<env, stop, cur, deaf, names, latest, db, sub>>
      /\ UNCHANGED events \/ (events < MaxEvents /\ events' = events + 1)
  BY DEF listVrfs, May, Disturbed
<1>2. events' \in 0..MaxEvents
  BY <1>1, NetlinkAssumption DEF Tables, KernelOK
<1>3. /\ KernelOK' /\ kernel' = kernel /\ vrfs' = vrfs /\ overtaken' = overtaken
      /\ \A v, g : Doomed(v, g)' <=> Doomed(v, g)
  BY <1>1, <1>2, MonitorLeaves DEF Tables
<1>4. BeforeList /\ ~ BeforeList'
  BY <1>1, NetlinkAssumption DEF BeforeList
<1>5. \A k \in DOMAIN latest.route \cup DOMAIN latest.nh : k[1] = Grd /\ k[1] \notin Vrf
  BY <1>4, NetlinkAssumption DEF Tables, OnlyGrd
<1>6. leaving' \subseteq Vrf /\ \A v \in Vrf : v \in leaving' <=> vrfs[v] = "ToBeDeleted"
  BY <1>1 DEF BeingDeleted
<1>7. PollOK'
  BY <1>1, <1>6 DEF Tables, PollOK, PCs, Domain
<1>8. LatestOK' /\ DbOK'
  BY <1>1, <1>3 DEF Tables, LatestOK, DbOK
<1>9. Cleared' /\ OnlyGrd'
  BY <1>1, <1>4 DEF Cleared, OnlyGrd
<1>10. Tables'
  BY <1>3, <1>7, <1>8, <1>9 DEF Tables
<1>11. ASSUME Lacks PROVE Lacks'
  <2>1. \A kind, k : Missing(kind, k)' <=> Missing(kind, k)
    BY <1>1 DEF Missing
  <2>2. ListedOK'
    BY <1>3, <1>6 DEF ListedOK
  <2>3. LeavingOK'
    BY <1>1, <1>3, <1>5, <1>6, <1>11 DEF Lacks, LeavingOK
  <2>4. LackingOK'
    BY <1>1, <1>3, <2>1, <1>11 DEF Lacks, LackingOK
  <2>5. BygoneOK'
    <3>1. \A v \in Vrf \ leaving' : \A g : Doomed(v, g) => g < kernel.gen[v]
      BY <1>6 DEF Doomed
    <3>2. \A k \in DOMAIN db.route : k[1] \in Vrf \ (leaving' \cup overtaken) /\ db.route[k].leaving =>
             db.route[k].gen < kernel.gen[k[1]]
      BY <1>1, <1>11, <3>1 DEF Lacks, LackingOK
    <3>3. \A k \in DOMAIN db.nh : k[1] \in Vrf \ (leaving' \cup overtaken) /\ Missing("nh", k) =>
             \A ref \in db.nh[k].refs : ref.gen < kernel.gen[k[1]]
      BY <1>1, <1>11, <3>1 DEF Lacks, LackingOK
    <3>4. QED
      BY <1>1, <1>3, <2>1, <3>2, <3>3 DEF BygoneOK
  <2>6. RenewedOK'
    BY <1>1, <1>3, <1>5, <1>11, <2>1 DEF Lacks, RenewedOK
  <2>7. QED
    BY <2>2, <2>3, <2>4, <2>5, <2>6 DEF Lacks
<1>12. Mirror'
  BY <1>1 DEF Mirror
<1>13. QED
  BY <1>10, <1>11, <1>12

LEMMA readFDBKeeps ==
    ASSUME Tables, readFDB
    PROVE  Tables' /\ (Lacks => Lacks' /\ Mirror')
<1> DEFINE all  == {m \in Mac : kernel.fdb[m] # Nowhere}
           keys == {L2Key(m) : m \in all}
           l2(first, last) == [k \in keys |-> [type |-> FdbType(first[k]),
                                               dst  |-> IF k = "vxlan" THEN kernel.fdb[last[k]] ELSE NoGw]]
           fdb == [m \in all |-> [type |-> FdbType(m), l2 |-> L2Key(m)]]
<1>1. /\ pc = "dump" /\ pc' = "annotate"
      /\ UNCHANGED <<env, stop, todo, cur, leaving, deaf, names, db, sub>>
      /\ \/ /\ \E first \in [keys -> all], last \in [keys -> all] :
                  latest' = [latest EXCEPT !.l2  = l2(first, last), !.fdb = fdb]
            /\ UNCHANGED events
         \/ latest' = latest /\ events < MaxEvents /\ events' = events + 1
  <2>1. /\ pc = "dump" /\ pc' = "annotate"
        /\ UNCHANGED <<env, stop, todo, cur, leaving, deaf, names, db, sub>>
    BY DEF readFDB
  <2>2. PICK first \in [keys -> all] : \E last \in [keys -> all] :
           May(latest' = [latest EXCEPT !.l2  = l2(first, last), !.fdb = fdb], latest' = latest)
    BY DEF readFDB
  <2>3. PICK last \in [keys -> all] :
           May(latest' = [latest EXCEPT !.l2  = l2(first, last), !.fdb = fdb], latest' = latest)
    BY <2>2
  <2> HIDE DEF l2, fdb, keys, all
  <2>4. \/ latest' = [latest EXCEPT !.l2  = l2(first, last), !.fdb = fdb] /\ UNCHANGED events
        \/ latest' = latest /\ events < MaxEvents /\ events' = events + 1
    BY <2>3 DEF May, Disturbed
  <2>5. QED
    BY <2>1, <2>4
<1>2. events' \in 0..MaxEvents
  <2>1. UNCHANGED events \/ (events < MaxEvents /\ events' = events + 1)
    <3> HIDE DEF all, keys, l2, fdb
    <3>1. QED
      BY <1>1
  <2>2. QED
    BY <2>1, NetlinkAssumption DEF Tables, KernelOK
<1>3. KernelOK' /\ kernel' = kernel
  BY <1>1, <1>2, MonitorLeaves DEF Tables
<1>4. latest = [neigh |-> latest.neigh, route |-> latest.route, nh |-> latest.nh,
                fdb |-> latest.fdb, l2 |-> latest.l2]
  BY DEF Tables, LatestOK
<1>5. PICK f, n : /\ latest' = [neigh |-> latest.neigh, route |-> latest.route, nh |-> latest.nh,
                                fdb |-> f, l2 |-> n]
                  /\ Forwards(f, n)
  <2>1. CASE latest' = latest
    BY <1>4, <2>1 DEF Tables, LatestOK
  <2>2. ASSUME NEW first \in [keys -> all], NEW last \in [keys -> all],
               latest' = [latest EXCEPT !.l2  = l2(first, last), !.fdb = fdb]
        PROVE  \E f, n : /\ latest' = [neigh |-> latest.neigh, route |-> latest.route, nh |-> latest.nh,
                                       fdb |-> f, l2 |-> n]
                         /\ Forwards(f, n)
    <3>1. PICK f, n : f = fdb /\ n = l2(first, last)
      OBVIOUS
    <3>2. DOMAIN n = keys /\ DOMAIN f = all /\ \A m \in all : f[m].l2 = L2Key(m)
      <4> HIDE DEF keys, all
      <4>1. QED
        BY <3>1
    <3>3. Forwards(f, n)
      BY <3>2 DEF Forwards
    <3> HIDE DEF fdb, l2
    <3>4. latest' = [neigh |-> latest.neigh, route |-> latest.route, nh |-> latest.nh, fdb |-> f, l2 |-> n]
      BY <1>4, <2>2, <3>1
    <3>5. QED
      BY <3>3, <3>4
  <2> HIDE DEF fdb, l2, keys, all
  <2>3. QED
    BY <1>1, <2>1, <2>2
<1>6. /\ latest'.neigh = latest.neigh /\ latest'.route = latest.route /\ latest'.nh = latest.nh
      /\ latest'.fdb = f /\ latest'.l2 = n
  BY <1>5
<1>7. ~ BeforeList /\ ~ BeforeList' /\ ~ Tenants'
  BY <1>1 DEF BeforeList, Tenants
<1>8. PollOK'
  BY <1>1 DEF Tables, PollOK, PCs
<1>9. LatestOK' /\ DbOK'
  BY <1>1, <1>3, <1>5, <1>6 DEF Tables, LatestOK, DbOK
<1>10. Cleared' /\ OnlyGrd'
  BY <1>1, <1>7 DEF Cleared, OnlyGrd
<1>11. Tables'
  BY <1>3, <1>8, <1>9, <1>10 DEF Tables
<1>12. Lacks => Lacks' /\ Mirror'
  BY <1>1, <1>2, <1>6, <1>7, QuietKeeps
<1>13. QED
  BY <1>11, <1>12

-----------------------------------------------------------------------------
(* Reading the routes *)

\* The routes to the neighbors that have been read have one gateway, which is
\* not behind a tunnel.
LEMMA NeighborRoutesFacts ==
    ASSUME KernelOK, NEW d, d.neigh \subseteq Read
    PROVE  /\ Unique(NeighborRoutes(d))
           /\ \A r \in NeighborRoutes(d) : Plain(r) /\ \E n \in d.neigh : r.vrf = n.vrf
           /\ \A r \in NeighborRoutes(d) : \A e : e.neigh \subseteq Read /\ Linked(e.route, e.nh) =>
                 Len(Nexthops(e, r)) <= 1
<1>1. Unique(NeighborRoutes(d))
  BY DEF Unique, NeighborRoutes
<1>2. ASSUME NEW r \in NeighborRoutes(d)
      PROVE  /\ r.vrf \in Domain /\ r.gws = << r.dst >> /\ r.dst \in Gateway /\ r.dst \notin Vtep
             /\ \E n \in d.neigh : r.vrf = n.vrf
  <2>1. PICK n \in d.neigh : n.type \in {"PHY", "SVI"} /\ r = [vrf |-> n.vrf, dst |-> n.addr, gws |-> <<n.addr>>]
    BY DEF NeighborRoutes
  <2>2. n.vrf \in Domain /\ n.addr \in Gateway /\ n.addr \notin Vtep
    BY <2>1 DEF Read
  <2>3. QED
    BY <2>1, <2>2
<1>3. ASSUME NEW r \in NeighborRoutes(d) PROVE Plain(r)
  <2>1. PICK a : a = r.dst
    OBVIOUS
  <2>2. r.vrf \in Domain /\ r.gws = << a >> /\ a \in Gateway /\ a # NoGw
    BY <1>2, <2>1, NetlinkAssumption
  <2>3. r.gws \in Seq(Gateway \cup {NoGw}) /\ r.gws # << >> /\ Range(r.gws) = {a}
    BY <2>2 DEF Range
  <2>4. QED
    BY <2>2, <2>3 DEF Plain
<1>4. ASSUME NEW r \in NeighborRoutes(d), NEW e, e.neigh \subseteq Read, Linked(e.route, e.nh)
      PROVE  Len(Nexthops(e, r)) <= 1
  <2>1. PICK a \in Gateway : r.gws = << a >> /\ a # NoGw /\ a \notin Vtep
    BY <1>2, NetlinkAssumption
  <2>2. r.vrf \in Domain
    BY <1>2
  <2>3. tryResolve(e, r.vrf, a) \in Seq(Via(r.vrf)) /\ Len(tryResolve(e, r.vrf, a)) <= 1
    BY <1>4, <2>1, <2>2, ResolveFacts
  <2>4. PICK ss : ss = [i \in DOMAIN r.gws |-> tryResolve(e, r.vrf, r.gws[i])]
    OBVIOUS
  <2>5. ss = << tryResolve(e, r.vrf, a) >>
    BY <2>1, <2>4
  <2>6. ss \in Seq(Seq(Via(r.vrf))) /\ Len(ss) <= 1 /\ \A i \in DOMAIN ss : Len(ss[i]) <= 1
    BY <2>3, <2>5
  <2>7. Nexthops(e, r) = FlattenSeq(ss)
    BY <2>4 DEF Nexthops
  <2>8. QED
    BY <2>6, <2>7, FlattenOne
<1>5. QED
  BY <1>1, <1>2, <1>3, <1>4

\* The tables once the routes of a VRF and of the neighbors have been added.
Grown(to) ==
    /\ to = [neigh |-> latest.neigh, route |-> to.route, nh |-> to.nh, fdb |-> latest.fdb, l2 |-> latest.l2]
    /\ Linked(to.route, to.nh)
    /\ \A k \in DOMAIN to.nh : k[3] <= kernel.gen[k[1]]
    /\ \A k \in DOMAIN to.route :
          \/ k \in DOMAIN latest.route /\ to.route[k] = latest.route[k]
          \/ /\ HasDevice(k[1]) /\ to.route[k].gen = kernel.gen[k[1]]
             /\ \/ k[1] = cur /\ (to.route[k].leaving <=> k[1] \in leaving)
                \/ /\ to.route[k].leaving <=> k[1] \in BeingDeleted
                   /\ \E n \in latest.neigh : n.vrf = k[1]
    /\ \A k \in DOMAIN to.nh : \A ref \in to.nh[k].refs :
          \/ k \in DOMAIN latest.nh /\ ref \in latest.nh[k].refs
          \/ /\ HasDevice(k[1]) /\ ref.gen = kernel.gen[k[1]]
             /\ k[1] = cur \/ \E n \in latest.neigh : n.vrf = k[1]

\* The routes of the VRF, and then those to the neighbors, are added, or the
\* watcher dies of one of them.
LEMMA readRoutesFacts ==
    ASSUME Tables, readRoutes
    PROVE  /\ pc = "routes" /\ UNCHANGED <<env, stop, todo, cur, leaving, db, sub>> /\ events' \in 0..MaxEvents
           /\ deaf' = {}
           /\ \/ pc' = "dead" /\ latest' = latest
              \/ /\ pc' = IF cur = Grd THEN "list" ELSE IF todo = {} THEN "dump" ELSE "neighbors"
                 /\ Grown(latest')
<1>1. PICK ok \in BOOLEAN :
        /\ May(ok, ~ok)
        /\ LET rs == {r \in kernel.routes : ok /\ r.vrf = cur}
               Taken ==
                   \/ \E r \in rs : TakesNil(latest, r)
                   \/ \E r \in NeighborRoutes(latest) : ~HasDevice(r.vrf)
           IN  \/ Taken /\ Die
               \/ ~ok /\ {r \in kernel.routes : r.vrf = cur} \cup NeighborRoutes(latest) # {} /\ Die
               \/ /\ ~Taken
                  /\ latest' = addRoutes(addRoutes(latest, rs, leaving), NeighborRoutes(latest), BeingDeleted)
                  /\ names' = names \cup {<<v, kernel.gen[v]>> : v \in {u \in {cur} \ {Grd} : ok /\ HasDevice(u)}}
                  /\ pc' = IF cur = Grd THEN "list" ELSE IF todo = {} THEN "dump" ELSE "neighbors"
  BY DEF readRoutes
<1>2. pc = "routes" /\ UNCHANGED <<env, stop, todo, cur, leaving, db, sub>> /\ deaf' = {}
  BY DEF readRoutes
<1>3. events' \in 0..MaxEvents
  <2>1. UNCHANGED events \/ (events < MaxEvents /\ events' = events + 1)
    BY <1>1 DEF May, Disturbed
  <2>2. QED
    BY <2>1, NetlinkAssumption DEF Tables, KernelOK
<1>4. KernelOK /\ latest.neigh \subseteq Read /\ Linked(latest.route, latest.nh)
      /\ latest = [neigh |-> latest.neigh, route |-> latest.route, nh |-> latest.nh,
                   fdb |-> latest.fdb, l2 |-> latest.l2]
      /\ \A k \in DOMAIN latest.nh : k[3] <= kernel.gen[k[1]]
  BY DEF Tables, LatestOK
<1>5. /\ Unique(NeighborRoutes(latest))
      /\ \A r \in NeighborRoutes(latest) : Plain(r) /\ \E n \in latest.neigh : r.vrf = n.vrf
      /\ \A r \in NeighborRoutes(latest) : \A e : e.neigh \subseteq Read /\ Linked(e.route, e.nh) =>
            Len(Nexthops(e, r)) <= 1
  BY <1>4, NeighborRoutesFacts
<1>6. PICK rs : rs = {r \in kernel.routes : ok /\ r.vrf = cur}
  OBVIOUS
<1>7. rs \subseteq kernel.routes /\ \A r \in rs : r.vrf = cur /\ HasDevice(r.vrf)
  BY <1>4, <1>6 DEF KernelOK
<1>8. CASE Die
  <2>1. pc' = "dead" /\ latest' = latest
    BY <1>8 DEF Die
  <2>2. QED
    BY <1>2, <1>3, <2>1
<1>9. CASE ~ Die
  <2>1. /\ ~ \/ \E r \in rs : TakesNil(latest, r)
             \/ \E r \in NeighborRoutes(latest) : ~HasDevice(r.vrf)
        /\ latest' = addRoutes(addRoutes(latest, rs, leaving), NeighborRoutes(latest), BeingDeleted)
        /\ pc' = IF cur = Grd THEN "list" ELSE IF todo = {} THEN "dump" ELSE "neighbors"
    BY <1>1, <1>6, <1>9
  <2>2. /\ \A r \in rs : ~ TakesNil(latest, r)
        /\ \A r \in NeighborRoutes(latest) : HasDevice(r.vrf)
    BY <2>1
  <2>3. leaving \in SUBSET Vrf /\ BeingDeleted \in SUBSET Vrf
    BY DEF Tables, PollOK, BeingDeleted
  <2>4. Unique(rs) /\ \A r \in rs : Plain(r) /\ (EnableEcmp \/ Len(Nexthops(latest, r)) <= 1)
    <3>1. Unique(rs) /\ rs \subseteq Learnable
      BY <1>4, <1>7 DEF KernelOK, Unique
    <3>2. \A r \in rs : Plain(r)
      BY <3>1, LearnableIsPlain
    <3>3. \A r \in rs : EnableEcmp \/ TakesNil(latest, r) \/ Len(Nexthops(latest, r)) <= 1
      BY <1>4, <3>2, NexthopsFacts
    <3>4. QED
      BY <2>2, <3>1, <3>2, <3>3
  <2>5. PICK mid : mid = addRoutes(latest, rs, leaving)
    OBVIOUS
  <2>6. Added(latest, rs, leaving, mid)
    BY <1>4, <2>3, <2>4, <2>5, AddRoutesFacts
  <2>7. /\ mid = [neigh |-> latest.neigh, route |-> mid.route, nh |-> mid.nh, fdb |-> latest.fdb, l2 |-> latest.l2]
        /\ Linked(mid.route, mid.nh)
        /\ \A k \in DOMAIN mid.nh : k[3] <= kernel.gen[k[1]]
        /\ \A k \in DOMAIN mid.route :
              \/ k \in DOMAIN latest.route /\ mid.route[k] = latest.route[k]
              \/ /\ \E r \in rs : k[1] = r.vrf
                 /\ mid.route[k].gen = kernel.gen[k[1]] /\ (mid.route[k].leaving <=> k[1] \in leaving)
        /\ \A k \in DOMAIN mid.nh : \A ref \in mid.nh[k].refs :
              \/ k \in DOMAIN latest.nh /\ ref \in latest.nh[k].refs
              \/ (\E r \in rs : k[1] = r.vrf) /\ ref.gen = kernel.gen[k[1]]
    BY <2>6 DEF Added
  <2>8. mid.neigh = latest.neigh /\ mid.fdb = latest.fdb /\ mid.l2 = latest.l2
    BY <2>7
  <2>9. mid = [neigh |-> mid.neigh, route |-> mid.route, nh |-> mid.nh, fdb |-> mid.fdb, l2 |-> mid.l2]
    BY <2>7, <2>8
  <2>10. PICK e, nr : e = addRoutes(mid, nr, BeingDeleted) /\ nr = NeighborRoutes(latest)
    OBVIOUS
  <2>11. \A r \in nr : Plain(r) /\ (EnableEcmp \/ Len(Nexthops(mid, r)) <= 1)
    <3>1. \A r \in nr : Plain(r) /\ Len(Nexthops(mid, r)) <= 1
      BY <1>4, <1>5, <2>7, <2>8, <2>10
    <3>2. QED
      BY <3>1
  <2>12. Added(mid, nr, BeingDeleted, e)
    BY <1>4, <1>5, <2>3, <2>7, <2>8, <2>9, <2>10, <2>11, AddRoutesFacts
  <2>13. /\ e = [neigh |-> mid.neigh, route |-> e.route, nh |-> e.nh, fdb |-> mid.fdb, l2 |-> mid.l2]
         /\ Linked(e.route, e.nh)
         /\ \A k \in DOMAIN e.nh : k[3] <= kernel.gen[k[1]]
         /\ \A k \in DOMAIN e.route :
               \/ k \in DOMAIN mid.route /\ e.route[k] = mid.route[k]
               \/ /\ \E r \in nr : k[1] = r.vrf
                  /\ e.route[k].gen = kernel.gen[k[1]] /\ (e.route[k].leaving <=> k[1] \in BeingDeleted)
         /\ \A k \in DOMAIN e.nh : \A ref \in e.nh[k].refs :
               \/ k \in DOMAIN mid.nh /\ ref \in mid.nh[k].refs
               \/ (\E r \in nr : k[1] = r.vrf) /\ ref.gen = kernel.gen[k[1]]
    BY <2>12 DEF Added
  <2>14. \A v : (\E r \in rs : v = r.vrf) => v = cur /\ HasDevice(v)
    BY <1>7
  <2>15. \A v : (\E r \in nr : v = r.vrf) => HasDevice(v) /\ \E n \in latest.neigh : n.vrf = v
    BY <1>5, <2>2, <2>10
  <2>16. \A k \in DOMAIN e.route :
            \/ k \in DOMAIN latest.route /\ e.route[k] = latest.route[k]
            \/ /\ HasDevice(k[1]) /\ e.route[k].gen = kernel.gen[k[1]]
               /\ \/ k[1] = cur /\ (e.route[k].leaving <=> k[1] \in leaving)
                  \/ /\ e.route[k].leaving <=> k[1] \in BeingDeleted
                     /\ \E n \in latest.neigh : n.vrf = k[1]
    BY <2>7, <2>13, <2>14, <2>15
  <2>17. \A k \in DOMAIN e.nh : \A ref \in e.nh[k].refs :
            \/ k \in DOMAIN latest.nh /\ ref \in latest.nh[k].refs
            \/ /\ HasDevice(k[1]) /\ ref.gen = kernel.gen[k[1]]
               /\ k[1] = cur \/ \E n \in latest.neigh : n.vrf = k[1]
    BY <2>7, <2>13, <2>14, <2>15
  <2>18. e = [neigh |-> latest.neigh, route |-> e.route, nh |-> e.nh, fdb |-> latest.fdb, l2 |-> latest.l2]
    BY <2>8, <2>13
  <2>19. Grown(e)
    BY <2>13, <2>16, <2>17, <2>18 DEF Grown
  <2>20. latest' = e
    BY <2>1, <2>5, <2>10
  <2>21. QED
    BY <1>2, <1>3, <2>1, <2>19, <2>20
<1>10. QED
  BY <1>8, <1>9

\* What is read of a VRF that is leaving is doomed, and what is read of another
\* is of other devices than what the subscriber lacks.
LEMMA readRoutesKeeps ==
    ASSUME Tables, readRoutes
    PROVE  Tables' /\ (Lacks => Lacks' /\ Mirror')
<1>1. /\ pc = "routes" /\ UNCHANGED <<env, stop, todo, cur, leaving, db, sub>> /\ events' \in 0..MaxEvents
      /\ deaf' = {}
      /\ \/ pc' = "dead" /\ latest' = latest
         \/ /\ pc' = IF cur = Grd THEN "list" ELSE IF todo = {} THEN "dump" ELSE "neighbors"
            /\ Grown(latest')
  BY readRoutesFacts
<1>2. /\ KernelOK' /\ kernel' = kernel /\ vrfs' = vrfs /\ overtaken' = overtaken
      /\ \A v, g : Doomed(v, g)' <=> Doomed(v, g)
  BY <1>1, MonitorLeaves DEF Tables
<1>3. (cur = Grd /\ todo = {}) \/ (cur \in Vrf /\ todo \subseteq Vrf)
  BY <1>1 DEF Tables, PollOK
<1>4. CASE pc' = "dead" /\ latest' = latest
  <2>1. ~ BeforeList' /\ ~ Tenants'
    BY <1>4 DEF BeforeList, Tenants
  <2>2. PollOK' /\ LatestOK' /\ DbOK' /\ Cleared' /\ OnlyGrd'
    BY <1>1, <1>2, <1>4, <2>1 DEF Tables, PollOK, LatestOK, DbOK, Cleared, OnlyGrd, PCs
  <2>3. Tables'
    BY <1>2, <2>2 DEF Tables
  <2>4. Lacks => Lacks' /\ Mirror'
    BY <1>1, <1>4, <2>1, QuietKeeps
  <2>5. QED
    BY <2>3, <2>4
<1>5. CASE /\ pc' = IF cur = Grd THEN "list" ELSE IF todo = {} THEN "dump" ELSE "neighbors"
           /\ Grown(latest')
  <2>1. PICK to : to = latest' /\ Grown(to)
    BY <1>5
  <2>2. /\ to = [neigh |-> latest.neigh, route |-> to.route, nh |-> to.nh, fdb |-> latest.fdb, l2 |-> latest.l2]
        /\ Linked(to.route, to.nh)
        /\ \A k \in DOMAIN to.nh : k[3] <= kernel.gen[k[1]]
    BY <2>1 DEF Grown
  <2>3. /\ \A k \in DOMAIN to.route :
              \/ k \in DOMAIN latest.route /\ to.route[k] = latest.route[k]
              \/ /\ HasDevice(k[1]) /\ to.route[k].gen = kernel.gen[k[1]]
                 /\ \/ k[1] = cur /\ (to.route[k].leaving <=> k[1] \in leaving)
                    \/ /\ to.route[k].leaving <=> k[1] \in BeingDeleted
                       /\ \E n \in latest.neigh : n.vrf = k[1]
        /\ \A k \in DOMAIN to.nh : \A ref \in to.nh[k].refs :
              \/ k \in DOMAIN latest.nh /\ ref \in latest.nh[k].refs
              \/ /\ HasDevice(k[1]) /\ ref.gen = kernel.gen[k[1]]
                 /\ k[1] = cur \/ \E n \in latest.neigh : n.vrf = k[1]
    BY <2>1 DEF Grown
  <2>4. to.neigh = latest.neigh /\ to.fdb = latest.fdb /\ to.l2 = latest.l2
    BY <2>2
  <2>5. /\ cur = Grd => pc' = "list" /\ BeforeList /\ BeforeList' /\ ~ Tenants'
        /\ cur \in Vrf => /\ Tenants /\ ~ BeforeList /\ ~ BeforeList'
                          /\ pc' = "dump" \/ (pc' = "neighbors" /\ todo' \subseteq Vrf)
    BY <1>1, <1>3, <1>5, NetlinkAssumption DEF BeforeList, Tenants
  <2>6. PollOK'
    BY <1>1, <1>3, <1>5 DEF Tables, PollOK, PCs
  <2>7. LatestOK' /\ DbOK'
    <3>1. latest.neigh \subseteq Read /\ Forwards(latest.fdb, latest.l2)
      BY DEF Tables, LatestOK
    <3>2. LatestOK'
      BY <1>2, <2>1, <2>2, <2>4, <3>1 DEF LatestOK
    <3>3. QED
      BY <1>1, <3>2 DEF Tables, DbOK
  <2>8. Cleared'
    BY <1>5 DEF Cleared
  <2>9. OnlyGrd'
    <3> SUFFICES ASSUME cur = Grd
                 PROVE  /\ \A n \in to.neigh : n.vrf = Grd
                        /\ \A k \in DOMAIN to.route \cup DOMAIN to.nh : k[1] = Grd
      BY <1>3, <2>1, <2>5 DEF OnlyGrd
    <3>1. /\ \A n \in latest.neigh : n.vrf = Grd
          /\ \A k \in DOMAIN latest.route \cup DOMAIN latest.nh : k[1] = Grd
      BY <2>5 DEF Tables, OnlyGrd
    <3>2. \A k \in DOMAIN to.route : k[1] = Grd
      BY <2>3, <3>1
    <3>3. \A k \in DOMAIN to.nh : \E ref \in to.nh[k].refs : TRUE
      BY <2>2, LinkedFacts
    <3>4. \A k \in DOMAIN to.nh : k[1] = Grd
      BY <2>3, <3>1, <3>3
    <3>5. QED
      BY <2>4, <3>1, <3>2, <3>4
  <2>10. Tables'
    BY <1>2, <2>6, <2>7, <2>8, <2>9 DEF Tables
  <2>11. ASSUME Lacks PROVE Lacks' /\ Mirror'
    <3>1. pc' # "done" /\ pc' # "idle" /\ (Tenants' => Tenants)
      BY <1>3, <1>5, <2>5
    <3>2. db' = db /\ sub' = sub /\ leaving' = leaving /\ latest' = to
      BY <1>1, <2>1
    <3>3. \A kind, k : Missing(kind, k)' <=> Missing(kind, k)
      BY <3>2 DEF Missing
    <3>4. \A v : HasDevice(v) /\ v \in Vrf => v \in kernel.devs
      BY NetlinkAssumption DEF HasDevice
    <3>5. leaving \subseteq Vrf /\ kernel.devs \subseteq Vrf
      BY DEF Tables, PollOK, KernelOK
    <3>6. Tenants => \A v \in leaving \ overtaken : HasDevice(v) => Doomed(v, kernel.gen[v])
      BY <2>11, <3>4, <3>5 DEF Lacks, ListedOK, Doomed
    <3>7. \A v \in BeingDeleted : HasDevice(v) => Doomed(v, kernel.gen[v])
      BY <3>4 DEF BeingDeleted, Doomed
    <3>8. ListedOK'
      BY <1>2, <2>11, <3>1, <3>2 DEF Lacks, ListedOK
    <3>9. LeavingOK'
      <4>1. ASSUME NEW k \in DOMAIN to.route, to.route[k].leaving, k[1] \notin overtaken
            PROVE  Doomed(k[1], to.route[k].gen)
        <5>1. CASE k \in DOMAIN latest.route /\ to.route[k] = latest.route[k]
          BY <2>11, <4>1, <5>1 DEF Lacks, LeavingOK
        <5>2. CASE HasDevice(k[1]) /\ to.route[k].gen = kernel.gen[k[1]] /\ k[1] = cur /\ k[1] \in leaving
          <6>1. Tenants
            BY <2>5, <3>5, <5>2
          <6>2. QED
            BY <3>6, <4>1, <5>2, <6>1
        <5>3. CASE HasDevice(k[1]) /\ to.route[k].gen = kernel.gen[k[1]] /\ k[1] \in BeingDeleted
          BY <3>7, <5>3
        <5>4. QED
          BY <2>3, <4>1, <5>1, <5>2, <5>3
      <4>2. ASSUME NEW k \in DOMAIN to.nh, ~ BeforeList', k[1] \in leaving \ overtaken, NEW ref \in to.nh[k].refs
            PROVE  Doomed(k[1], ref.gen)
        <5>1. Tenants /\ ~ BeforeList
          BY <1>3, <2>5, <4>2
        <5>2. CASE k \in DOMAIN latest.nh /\ ref \in latest.nh[k].refs
          BY <2>11, <4>2, <5>1, <5>2 DEF Lacks, LeavingOK
        <5>3. CASE HasDevice(k[1]) /\ ref.gen = kernel.gen[k[1]]
          BY <3>6, <4>2, <5>1, <5>3
        <5>4. QED
          BY <2>3, <5>2, <5>3
      <4>3. QED
        BY <1>2, <3>2, <4>1, <4>2 DEF LeavingOK
    <3>10. LackingOK'
      BY <1>1, <1>2, <2>11, <3>2, <3>3 DEF Lacks, LackingOK
    <3>11. BygoneOK'
      BY <1>2, <2>11, <3>1, <3>2, <3>3 DEF Lacks, BygoneOK
    <3>12. RenewedOK'
      <4>1. ASSUME NEW k \in DOMAIN to.route \cap DOMAIN db.route,
                   k[1] \notin overtaken, db.route[k].leaving, ~ to.route[k].leaving
            PROVE  db.route[k].gen < to.route[k].gen
        <5>1. k[1] \in Vrf /\ k[1] # Grd
          BY <4>1, NetlinkAssumption, LinkedFacts DEF Tables, DbOK
        <5>2. CASE k \in DOMAIN latest.route /\ to.route[k] = latest.route[k]
          BY <2>11, <4>1, <5>2 DEF Lacks, RenewedOK
        <5>3. CASE to.route[k].gen = kernel.gen[k[1]] /\ k[1] = cur /\ k[1] \notin leaving
          <6>1. Tenants
            BY <2>5, <5>1, <5>3
          <6>2. QED
            BY <2>11, <4>1, <5>1, <5>3, <6>1 DEF Lacks, BygoneOK
        <5>4. CASE to.route[k].gen = kernel.gen[k[1]] /\ k[1] \notin BeingDeleted
          <6>1. Doomed(k[1], db.route[k].gen)
            BY <1>1, <2>11, <4>1 DEF Lacks, LackingOK
          <6>2. vrfs[k[1]] # "ToBeDeleted"
            BY <5>1, <5>4 DEF BeingDeleted
          <6>3. QED
            BY <5>4, <6>1, <6>2 DEF Doomed
        <5>5. QED
          BY <2>3, <4>1, <5>2, <5>3, <5>4
      <4>2. ASSUME NEW k \in DOMAIN to.nh \cap DOMAIN db.nh, ~ BeforeList',
                   k[1] \in Vrf \ (leaving \cup overtaken), Missing("nh", k),
                   NEW old \in db.nh[k].refs, NEW new \in to.nh[k].refs
            PROVE  old.gen < new.gen
        <5>1. Tenants /\ ~ BeforeList
          BY <1>3, <2>5, <4>2
        <5>2. CASE k \in DOMAIN latest.nh /\ new \in latest.nh[k].refs
          BY <2>11, <4>2, <5>1, <5>2 DEF Lacks, RenewedOK
        <5>3. CASE new.gen = kernel.gen[k[1]]
          BY <2>11, <4>2, <5>1, <5>3 DEF Lacks, BygoneOK
        <5>4. QED
          BY <2>3, <4>2, <5>2, <5>3
      <4>3. QED
        BY <1>2, <3>2, <3>3, <4>1, <4>2 DEF RenewedOK
    <3>13. Mirror'
      BY <3>1 DEF Mirror
    <3>14. QED
      BY <3>8, <3>9, <3>10, <3>11, <3>12, <3>13 DEF Lacks
  <2>12. QED
    BY <2>10, <2>11
<1>6. QED
  BY <1>1, <1>4, <1>5

-----------------------------------------------------------------------------
(* Annotating and filtering *)

\* A filtered route has the nexthops that are resolved.
LEMMA FilterFacts ==
    ASSUME NEW v, NEW r \in RouteOf(v)
    PROVE  LET s == installFilterRoute(r)
           IN  /\ s \in RouteOf(v) /\ s.gen = r.gen /\ (s.leaving <=> r.leaving)
               /\ Range(s.nhs) = {h \in Range(r.nhs) : Resolved(h)}
               /\ s.nhs = << >> => Range(s.nhs) = {}
<1> DEFINE n == r.nhs
           ss == [i \in DOMAIN n |-> IF Resolved(n[i]) THEN << n[i] >> ELSE << >>]
           f == FlattenSeq(ss)
<1>1. /\ r \in [gw : Gateway \cup {NoGw}, gen : Nat, leaving : BOOLEAN, nhs : Seq(Via(v))]
      /\ r.leaving => v \in Vrf
      /\ EnableEcmp \/ Len(r.nhs) <= 1
  BY DEF RouteOf
<1>2. n \in Seq(Via(v)) /\ DOMAIN n = 1..Len(n) /\ Len(n) \in Nat
  BY <1>1, ElementsOfSeq
<1>3. PICK s : s = installFilterRoute(r)
  OBVIOUS
<1>4. s = [r EXCEPT !.nhs = f]
  BY <1>3 DEF installFilterRoute
<1>5. r = [gw |-> r.gw, gen |-> r.gen, leaving |-> r.leaving, nhs |-> r.nhs]
  BY <1>1
<1> HIDE DEF n
<1>6. /\ ss \in Seq(Seq(Via(v))) /\ Len(ss) = Len(n) /\ DOMAIN ss = 1..Len(n)
      /\ \A i \in 1..Len(n) : Len(ss[i]) <= 1
      /\ \A i \in 1..Len(n) : Range(ss[i]) = IF Resolved(n[i]) THEN {n[i]} ELSE {}
  <2>1. DOMAIN ss = 1..Len(n) /\ \A i \in 1..Len(n) : ss[i] = IF Resolved(n[i]) THEN << n[i] >> ELSE << >>
    BY <1>2
  <2> HIDE DEF ss
  <2>2. ASSUME NEW i \in 1..Len(n)
        PROVE  /\ ss[i] \in Seq(Via(v)) /\ Len(ss[i]) <= 1
               /\ Range(ss[i]) = IF Resolved(n[i]) THEN {n[i]} ELSE {}
    <3>1. PICK h \in Via(v) : h = n[i]
      BY <1>2
    <3>2. << h >> \in Seq(Via(v)) /\ Len(<< h >>) <= 1 /\ Range(<< h >>) = {h}
      BY DEF Range
    <3>3. << >> \in Seq(Via(v)) /\ Len(<< >>) <= 1 /\ Range(<< >>) = {}
      BY DEF Range
    <3>4. QED
      BY <2>1, <3>1, <3>2, <3>3
  <2>3. ss = [i \in 1..Len(n) |-> ss[i]]
    BY <2>1 DEF ss
  <2>4. QED
    BY <1>2, <2>1, <2>2, <2>3
<1> HIDE DEF ss
<1>7. f \in Seq(Via(v)) /\ Range(f) = UNION {Range(ss[i]) : i \in 1..Len(n)}
  BY <1>6, FlattenFacts
<1>8. Range(f) = {h \in Range(n) : Resolved(h)}
  <2>1. Range(n) = {n[i] : i \in 1..Len(n)}
    BY <1>2 DEF Range
  <2>2. \A h : h \in Range(f) <=> \E i \in 1..Len(n) : h \in Range(ss[i])
    BY <1>7
  <2>3. \A h : \A i \in 1..Len(n) : h \in Range(ss[i]) <=> h = n[i] /\ Resolved(h)
    BY <1>6
  <2> HIDE DEF f
  <2>4. \A h : h \in Range(f) <=> h \in Range(n) /\ Resolved(h)
    BY <2>1, <2>2, <2>3
  <2>5. QED
    BY <2>4
<1>9. EnableEcmp \/ Len(f) <= 1
  <2>1. Len(n) <= 1 => Len(f) <= 1
    BY <1>6, FlattenOne
  <2>2. QED
    BY <1>1, <2>1 DEF n
<1>10. f = << >> => Range(f) = {}
  BY DEF Range
<1> HIDE DEF f
<1>11. s = [gw |-> r.gw, gen |-> r.gen, leaving |-> r.leaving, nhs |-> f]
  BY <1>4, <1>5
<1>12. s.nhs = f /\ s.gen = r.gen /\ s.leaving = r.leaving
  BY <1>11
<1>13. s \in RouteOf(v)
  BY <1>1, <1>7, <1>9, <1>11 DEF RouteOf
<1>14. QED
  BY <1>3, <1>8, <1>10, <1>12, <1>13 DEF n

LEMMA annotateKeeps ==
    ASSUME Tables, annotate
    PROVE  Tables' /\ (Lacks => Lacks' /\ Mirror')
<1>1. /\ pc = "annotate" /\ UNCHANGED <<env, stop, todo, cur, leaving, deaf, db, sub>>
      /\ UNCHANGED events \/ (events < MaxEvents /\ events' = events + 1)
      /\ \/ pc' = "dead" /\ latest' = latest
         \/ /\ pc' = "notify"
            /\ latest' = [latest EXCEPT !.route = [k \in KeptRoutes |-> installFilterRoute(@[k])],
                                        !.nh = Restrict(@, KeptNexthops),
                                        !.fdb = Restrict(@, KeptEntries)]
  BY DEF annotate, Die, Disturbed
<1>2. events' \in 0..MaxEvents
  BY <1>1, NetlinkAssumption DEF Tables, KernelOK
<1>3. /\ KernelOK' /\ kernel' = kernel /\ vrfs' = vrfs /\ overtaken' = overtaken
      /\ \A v, g : Doomed(v, g)' <=> Doomed(v, g)
  BY <1>1, <1>2, MonitorLeaves DEF Tables
<1>4. ~ BeforeList /\ ~ BeforeList' /\ ~ Tenants'
  BY <1>1 DEF BeforeList, Tenants
<1>5. PollOK' /\ DbOK' /\ Cleared' /\ OnlyGrd'
  BY <1>1, <1>4 DEF Tables, PollOK, DbOK, Cleared, OnlyGrd, PCs
<1>6. CASE pc' = "dead" /\ latest' = latest
  <2>1. LatestOK'
    BY <1>3, <1>6 DEF Tables, LatestOK
  <2>2. Tables'
    BY <1>3, <1>5, <2>1 DEF Tables
  <2>3. Lacks => Lacks' /\ Mirror'
    BY <1>1, <1>2, <1>4, <1>6, QuietKeeps
  <2>4. QED
    BY <2>2, <2>3
<1>7. CASE /\ pc' = "notify"
           /\ latest' = [latest EXCEPT !.route = [k \in KeptRoutes |-> installFilterRoute(@[k])],
                                       !.nh = Restrict(@, KeptNexthops),
                                       !.fdb = Restrict(@, KeptEntries)]
  <2>1. PICK route, nh, fdb : /\ route = [k \in KeptRoutes |-> installFilterRoute(latest.route[k])]
                              /\ nh = [k \in KeptNexthops |-> latest.nh[k]]
                              /\ fdb = [k \in KeptEntries |-> latest.fdb[k]]
    OBVIOUS
  <2>2. latest = [neigh |-> latest.neigh, route |-> latest.route, nh |-> latest.nh,
                  fdb |-> latest.fdb, l2 |-> latest.l2]
    BY DEF Tables, LatestOK
  <2>3. latest' = [neigh |-> latest.neigh, route |-> route, nh |-> nh, fdb |-> fdb, l2 |-> latest.l2]
    BY <1>7, <2>1, <2>2 DEF Restrict
  <2>4. /\ latest'.neigh = latest.neigh /\ latest'.route = route /\ latest'.nh = nh
        /\ latest'.fdb = fdb /\ latest'.l2 = latest.l2
    BY <2>3
  <2>5. /\ latest.neigh \subseteq Read /\ Linked(latest.route, latest.nh) /\ Forwards(latest.fdb, latest.l2)
        /\ \A k \in DOMAIN latest.nh : k[3] <= kernel.gen[k[1]]
    BY DEF Tables, LatestOK
  <2>6. Forwards(fdb, latest.l2)
    BY <2>1, <2>5 DEF Forwards, KeptEntries
  <2>7. \A k \in DOMAIN nh : k \in DOMAIN latest.nh /\ nh[k] = latest.nh[k] /\ Resolved(nh[k].nh)
    BY <2>1 DEF KeptNexthops
  <2>8. \A k \in DOMAIN latest.nh : Resolved(latest.nh[k].nh) => k \in DOMAIN nh
    BY <2>1 DEF KeptNexthops
  <2>9. \A k \in DOMAIN latest.route :
           LET s == installFilterRoute(latest.route[k])
           IN  /\ k[1] \in Domain
               /\ s \in RouteOf(k[1]) /\ s.gen = latest.route[k].gen /\ (s.leaving <=> latest.route[k].leaving)
               /\ Range(s.nhs) = {h \in Range(latest.route[k].nhs) : Resolved(h)}
               /\ s.nhs = << >> => Range(s.nhs) = {}
    <3> SUFFICES ASSUME NEW k \in DOMAIN latest.route
                 PROVE  LET s == installFilterRoute(latest.route[k])
                        IN  /\ k[1] \in Domain
                            /\ s \in RouteOf(k[1]) /\ s.gen = latest.route[k].gen
                            /\ s.leaving <=> latest.route[k].leaving
                            /\ Range(s.nhs) = {h \in Range(latest.route[k].nhs) : Resolved(h)}
                            /\ s.nhs = << >> => Range(s.nhs) = {}
      OBVIOUS
    <3>1. k[1] \in Domain /\ latest.route[k] \in RouteOf(k[1])
      BY <2>5 DEF Linked
    <3>2. PICK r \in RouteOf(k[1]) : r = latest.route[k]
      BY <3>1
    <3>3. LET s == installFilterRoute(r)
          IN  /\ s \in RouteOf(k[1]) /\ s.gen = r.gen /\ (s.leaving <=> r.leaving)
              /\ Range(s.nhs) = {h \in Range(r.nhs) : Resolved(h)}
              /\ s.nhs = << >> => Range(s.nhs) = {}
      BY FilterFacts
    <3>4. QED
      BY <3>1, <3>2, <3>3, Zenon
  <2>10. \A k \in DOMAIN route :
            /\ k \in DOMAIN latest.route /\ k[1] \in Domain /\ route[k] \in RouteOf(k[1])
            /\ route[k].gen = latest.route[k].gen /\ (route[k].leaving <=> latest.route[k].leaving)
            /\ Range(route[k].nhs) = {h \in Range(latest.route[k].nhs) : Resolved(h)}
    BY <2>1, <2>9 DEF KeptRoutes
  <2>11. \A k \in DOMAIN latest.route : (\E h \in Range(latest.route[k].nhs) : Resolved(h)) => k \in DOMAIN route
    BY <2>1, <2>9 DEF KeptRoutes
  <2>12. Linked(route, nh)
    <3>1. ASSUME NEW k \in DOMAIN route
          PROVE  /\ k[1] \in Domain /\ route[k] \in RouteOf(k[1])
                 /\ \A h \in Range(route[k].nhs) : h.key \in DOMAIN nh /\ nh[h.key].nh = h
      <4>1. \A h \in Range(latest.route[k].nhs) : h.key \in DOMAIN latest.nh /\ latest.nh[h.key].nh = h
        BY <2>5, <2>10 DEF Linked
      <4>2. QED
        BY <2>7, <2>8, <2>10, <4>1
    <3>2. ASSUME NEW k \in DOMAIN nh
          PROVE  /\ k[1] \in Domain /\ nh[k].nh \in Via(k[1]) /\ nh[k].nh.key = k /\ nh[k].refs # {}
                 /\ \A ref \in nh[k].refs :
                       /\ ref.gen \in Nat /\ ref.key \in DOMAIN route /\ ref.key[1] = k[1]
                       /\ nh[k].nh \in Range(route[ref.key].nhs)
      <4>1. k \in DOMAIN latest.nh /\ nh[k] = latest.nh[k] /\ Resolved(nh[k].nh)
        BY <2>7
      <4>2. /\ k[1] \in Domain /\ nh[k].nh \in Via(k[1]) /\ nh[k].nh.key = k /\ nh[k].refs # {}
            /\ \A ref \in nh[k].refs :
                  /\ ref.gen \in Nat /\ ref.key \in DOMAIN latest.route /\ ref.key[1] = k[1]
                  /\ nh[k].nh \in Range(latest.route[ref.key].nhs)
        BY <2>5, <4>1 DEF Linked
      <4>3. QED
        BY <2>10, <2>11, <4>1, <4>2
    <3>3. QED
      BY <3>1, <3>2 DEF Linked
  <2>13. LatestOK'
    BY <1>3, <2>3, <2>4, <2>5, <2>6, <2>7, <2>12 DEF LatestOK
  <2>14. Tables'
    BY <1>3, <1>5, <2>13 DEF Tables
  <2>15. ASSUME Lacks PROVE Lacks' /\ Mirror'
    <3>1. db' = db /\ sub' = sub /\ leaving' = leaving
      BY <1>1
    <3>2. \A kind, k : Missing(kind, k)' <=> Missing(kind, k)
      BY <3>1 DEF Missing
    <3>3. ListedOK' /\ BygoneOK'
      BY <1>4 DEF ListedOK, BygoneOK
    <3>4. LeavingOK'
      BY <1>3, <1>4, <2>4, <2>7, <2>10, <2>15, <3>1 DEF Lacks, LeavingOK
    <3>5. LackingOK'
      BY <1>1, <1>3, <2>15, <3>1, <3>2 DEF Lacks, LackingOK
    <3>6. RenewedOK'
      BY <1>3, <1>4, <2>4, <2>7, <2>10, <2>15, <3>1, <3>2 DEF Lacks, RenewedOK
    <3>7. Mirror'
      BY <1>7 DEF Mirror
    <3>8. QED
      BY <3>3, <3>4, <3>5, <3>6, <3>7 DEF Lacks
  <2>16. QED
    BY <2>14, <2>15
<1>8. QED
  BY <1>1, <1>6, <1>7

-----------------------------------------------------------------------------
(* Telling the subscriber *)

\* Without ECMP deepEqual misses nothing but the mark of a VRF that leaves.
LEMMA SameRouteIsEqual ==
    ASSUME ~ EnableEcmp, NEW v, NEW r \in RouteOf(v), NEW s \in RouteOf(v),
           SameRoute(r, s), r.leaving <=> s.leaving
    PROVE  r = s
<1>1. /\ r \in [gw : Gateway \cup {NoGw}, gen : Nat, leaving : BOOLEAN, nhs : Seq(Via(v))]
      /\ s \in [gw : Gateway \cup {NoGw}, gen : Nat, leaving : BOOLEAN, nhs : Seq(Via(v))]
  BY DEF RouteOf
<1>2. Len(r.nhs) <= 1 /\ Len(s.nhs) <= 1
  BY Zenon DEF RouteOf
<1>3. r.gw = s.gw /\ r.gen = s.gen /\ Len(r.nhs) = Len(s.nhs) /\ r.nhs[1] = s.nhs[1]
  BY DEF SameRoute
<1>4. r.nhs = s.nhs
  <2>1. PICK p, q \in Seq(Via(v)) : p = r.nhs /\ q = s.nhs
    BY <1>1
  <2>2. Len(p) = Len(q) /\ Len(p) <= 1 /\ p[1] = q[1] /\ Len(p) \in Nat
    BY <1>2, <1>3, <2>1
  <2>3. \A i \in 1..Len(p) : p[i] = q[i]
    <3>1. \A i \in 1..Len(p) : i = 1
      BY <2>2
    <3>2. QED
      BY <2>2, <3>1
  <2>4. p = [i \in 1..Len(p) |-> p[i]] /\ q = [i \in 1..Len(p) |-> q[i]]
    BY <2>1, <2>2
  <2>5. p = q
    BY <2>3, <2>4
  <2>6. QED
    BY <2>1, <2>5
<1>5. r.leaving = s.leaving
  BY <1>1
<1>6. QED
  BY <1>1, <1>3, <1>4, <1>5

\* What the subscriber holds of a kind once it has been told of the changes.
LEMMA ToldFacts ==
    ASSUME NEW kind, DOMAIN sub[kind] \subseteq DOMAIN db[kind]
    PROVE  /\ DOMAIN Told(kind) \subseteq DOMAIN latest[kind]
           /\ \A k \in DOMAIN latest[kind] :
                 /\ k \notin DOMAIN db[kind] => k \in DOMAIN Told(kind) /\ Told(kind)[k] = latest[kind][k]
                 /\ k \in Changed(kind) /\ ~ LeavingVrf(kind, k) =>
                       k \in DOMAIN Told(kind) /\ Told(kind)[k] = latest[kind][k]
                 /\ k \in DOMAIN db[kind] \ Changed(kind) /\ k \in DOMAIN sub[kind] =>
                       k \in DOMAIN Told(kind) /\ Told(kind)[k] = sub[kind][k]
<1> DEFINE withdrawn == {k \in Changed(kind) : LeavingVrf(kind, k)} \cup Deleted(kind)
           new       == (Changed(kind) \ withdrawn) \cup (DOMAIN latest[kind] \ DOMAIN db[kind])
<1>1. Told(kind) = [k \in (DOMAIN sub[kind] \ withdrawn) \cup new |->
                       IF k \in new THEN latest[kind][k] ELSE sub[kind][k]]
  BY DEF Told
<1>2. Deleted(kind) = DOMAIN db[kind] \ DOMAIN latest[kind]
  BY DEF Deleted
<1>3. Changed(kind) \subseteq DOMAIN latest[kind] \cap DOMAIN db[kind]
  BY DEF Changed
<1>4. \A k : /\ k \in withdrawn <=> (k \in Changed(kind) /\ LeavingVrf(kind, k)) \/ k \in Deleted(kind)
             /\ k \in new <=> \/ k \in Changed(kind) /\ k \notin withdrawn
                              \/ k \in DOMAIN latest[kind] /\ k \notin DOMAIN db[kind]
  OBVIOUS
<1> HIDE DEF withdrawn, new
<1>5. DOMAIN Told(kind) = (DOMAIN sub[kind] \ withdrawn) \cup new
  BY <1>1
<1>6. DOMAIN Told(kind) \subseteq DOMAIN latest[kind]
  BY <1>2, <1>3, <1>4, <1>5
<1>7. \A k \in new : k \in DOMAIN Told(kind) /\ Told(kind)[k] = latest[kind][k]
  BY <1>1, <1>5
<1>8. \A k \in DOMAIN sub[kind] : k \notin withdrawn /\ k \notin new =>
         k \in DOMAIN Told(kind) /\ Told(kind)[k] = sub[kind][k]
  BY <1>1, <1>5
<1>9. QED
  BY <1>2, <1>3, <1>4, <1>6, <1>7, <1>8

\* After the changes have been told the tables of the poll are the database.
LEMMA notifyFacts ==
    ASSUME Tables, notifyDBChanges
    PROVE  /\ pc = "notify" /\ pc' = "idle" /\ UNCHANGED <<env, stop, todo, leaving, deaf, names, events>>
           /\ \A kind \in Kinds : sub'[kind] = Told(kind) /\ db'[kind] = latest[kind]
           /\ latest' = NothingRead /\ cur' = Grd
  BY DEF notifyDBChanges, deleteLatestDB

LEMMA notifyDBChangesKeepsTables ==
    ASSUME Tables, notifyDBChanges
    PROVE  Tables'
<1>1. /\ pc = "notify" /\ pc' = "idle" /\ UNCHANGED <<env, stop, todo, leaving, deaf, names, events>>
      /\ \A kind \in Kinds : sub'[kind] = Told(kind) /\ db'[kind] = latest[kind]
      /\ latest' = NothingRead /\ cur' = Grd
  BY notifyFacts
<1>2. events' \in 0..MaxEvents
  BY <1>1 DEF Tables, KernelOK
<1>3. KernelOK' /\ kernel' = kernel
  BY <1>1, <1>2, MonitorLeaves DEF Tables
<1>4. PollOK'
  BY <1>1 DEF Tables, PollOK, Domain, PCs
<1>5. LatestOK'
  <2>1. /\ latest'.neigh = {} /\ latest'.route = << >> /\ latest'.nh = << >> /\ latest'.fdb = << >> /\ latest'.l2 = << >>
        /\ latest' = [neigh |-> latest'.neigh, route |-> latest'.route, nh |-> latest'.nh,
                      fdb |-> latest'.fdb, l2 |-> latest'.l2]
    BY <1>1 DEF NothingRead, Empty
  <2>2. Linked(<< >>, << >>) /\ Forwards(<< >>, << >>)
    BY DEF Linked, Forwards
  <2>3. \A k \in DOMAIN latest'.nh : k[3] <= kernel'.gen[k[1]]
    BY <2>1
  <2>4. QED
    BY <2>1, <2>2, <2>3 DEF LatestOK
<1>6. DbOK'
  <2>1. /\ db'.route = latest.route /\ db'.nh = latest.nh /\ db'.fdb = latest.fdb /\ db'.l2 = latest.l2
    BY <1>1 DEF Kinds
  <2>2. QED
    BY <2>1 DEF Tables, LatestOK, DbOK
<1>7. Cleared' /\ OnlyGrd'
  BY <1>1 DEF Cleared, OnlyGrd, BeforeList
<1>8. QED
  BY <1>3, <1>4, <1>5, <1>6, <1>7 DEF Tables

\* What the subscriber is told of is what it lacks, unless a VRF is leaving.
LEMMA notifyDBChangesKeepsLacks ==
    ASSUME Tables, Lacks, notifyDBChanges, ~ EnableEcmp
    PROVE  Lacks' /\ Mirror'
<1>1. /\ pc = "notify" /\ pc' = "idle" /\ UNCHANGED <<env, stop, todo, leaving, deaf, names, events>>
      /\ \A kind \in Kinds : sub'[kind] = Told(kind) /\ db'[kind] = latest[kind]
      /\ latest' = NothingRead /\ cur' = Grd
  BY notifyFacts
<1>2. /\ kernel' = kernel /\ vrfs' = vrfs /\ overtaken' = overtaken /\ leaving' = leaving
      /\ \A v, g : Doomed(v, g)' <=> Doomed(v, g)
  BY <1>1, MonitorLeaves DEF Tables, KernelOK
<1>3. DOMAIN latest'.route = {} /\ DOMAIN latest'.nh = {} /\ ~ Tenants' /\ ~ BeforeList
  BY <1>1 DEF NothingRead, Empty, Tenants, BeforeList
<1>4. ListedOK' /\ LeavingOK' /\ BygoneOK' /\ RenewedOK'
  BY <1>3 DEF ListedOK, LeavingOK, BygoneOK, RenewedOK
<1>5. /\ \A kind \in Kinds : DOMAIN sub[kind] \subseteq DOMAIN db[kind]
      /\ \A kind \in {"fdb", "l2"} : \A k \in DOMAIN db[kind] : ~Missing(kind, k)
      /\ \A k \in DOMAIN db.route : k[1] \notin overtaken =>
            /\ Missing("route", k) => db.route[k].leaving
            /\ db.route[k].leaving => Doomed(k[1], db.route[k].gen)
      /\ \A k \in DOMAIN db.nh : k[1] \notin overtaken /\ Missing("nh", k) =>
            k[1] \in Vrf /\ \A ref \in db.nh[k].refs : Doomed(k[1], ref.gen)
  BY <1>1 DEF Lacks, LackingOK
<1>6. \A kind \in Kinds :
        /\ DOMAIN Told(kind) \subseteq DOMAIN latest[kind]
        /\ \A k \in DOMAIN latest[kind] :
              /\ k \notin DOMAIN db[kind] => k \in DOMAIN Told(kind) /\ Told(kind)[k] = latest[kind][k]
              /\ k \in Changed(kind) /\ ~ LeavingVrf(kind, k) =>
                    k \in DOMAIN Told(kind) /\ Told(kind)[k] = latest[kind][k]
              /\ k \in DOMAIN db[kind] \ Changed(kind) /\ k \in DOMAIN sub[kind] =>
                    k \in DOMAIN Told(kind) /\ Told(kind)[k] = sub[kind][k]
  BY <1>5, ToldFacts
\* An entry that the subscriber holds otherwise was held otherwise before, or
\* belongs to a VRF that is leaving.
<1>7. ASSUME NEW kind \in Kinds, NEW k \in DOMAIN latest[kind], Missing(kind, k)'
      PROVE  \/ k \in Changed(kind) /\ LeavingVrf(kind, k)
             \/ /\ k \in DOMAIN db[kind] /\ Same(kind, latest[kind][k], db[kind][k])
                /\ ~ (k \in DOMAIN sub[kind] /\ sub[kind][k] = latest[kind][k])
  <2>1. ~ (k \in DOMAIN Told(kind) /\ Told(kind)[k] = latest[kind][k])
    BY <1>1, <1>7 DEF Missing
  <2>2. k \in DOMAIN db[kind]
    BY <1>6, <2>1
  <2>3. CASE k \in Changed(kind)
    BY <1>6, <2>1, <2>3
  <2>4. CASE k \notin Changed(kind)
    <3>1. Same(kind, latest[kind][k], db[kind][k])
      BY <2>2, <2>4 DEF Changed
    <3>2. QED
      BY <1>6, <2>1, <2>2, <2>4, <3>1
  <2>5. QED
    BY <2>3, <2>4
<1>8. ASSUME NEW kind \in {"fdb", "l2"}, NEW k \in DOMAIN latest[kind] PROVE ~ Missing(kind, k)'
  <2>1. ~ LeavingVrf(kind, k) /\ kind \in Kinds /\ kind # "route"
    BY DEF LeavingVrf, Kinds
  <2>2. Same(kind, latest[kind][k], db[kind][k]) => latest[kind][k] = db[kind][k]
    BY <2>1 DEF Same
  <2>3. k \in DOMAIN db[kind] => k \in DOMAIN sub[kind] /\ sub[kind][k] = db[kind][k]
    BY <1>5 DEF Missing
  <2>4. QED
    BY <1>7, <2>1, <2>2, <2>3
<1>9. ASSUME NEW k \in DOMAIN latest.route, k[1] \notin overtaken
      PROVE  /\ Missing("route", k)' => latest.route[k].leaving
             /\ latest.route[k].leaving => Doomed(k[1], latest.route[k].gen)
  <2>1. latest.route[k].leaving => Doomed(k[1], latest.route[k].gen)
    BY <1>9 DEF Lacks, LeavingOK
  <2>2. ASSUME Missing("route", k)', ~ latest.route[k].leaving PROVE FALSE
    <3>1. ~ LeavingVrf("route", k) /\ "route" \in Kinds
      BY <2>2 DEF LeavingVrf, Kinds
    <3>2. /\ k \in DOMAIN db.route /\ Same("route", latest.route[k], db.route[k])
          /\ ~ (k \in DOMAIN sub.route /\ sub.route[k] = latest.route[k])
      BY <1>7, <2>2, <3>1
    <3>3. latest.route[k] \in RouteOf(k[1]) /\ db.route[k] \in RouteOf(k[1])
      BY <3>2 DEF Tables, LatestOK, DbOK, Linked
    <3>4. latest.route[k].gen = db.route[k].gen /\ SameRoute(latest.route[k], db.route[k])
      BY <3>2 DEF Same, SameRoute
    <3>5. ~ db.route[k].leaving
      <4>1. ASSUME db.route[k].leaving PROVE FALSE
        <5>1. db.route[k].gen < latest.route[k].gen /\ db.route[k].gen \in Nat
          BY <1>9, <2>2, <3>2, <3>3, <4>1 DEF Lacks, RenewedOK, RouteOf
        <5>2. QED
          BY <3>4, <5>1
      <4>2. QED
        BY <4>1
    <3>6. latest.route[k] = db.route[k]
      BY <2>2, <3>3, <3>4, <3>5, SameRouteIsEqual
    <3>7. k \in DOMAIN sub.route /\ sub.route[k] = db.route[k]
      BY <1>5, <1>9, <3>2, <3>5 DEF Missing
    <3>8. QED
      BY <3>2, <3>6, <3>7
  <2>3. QED
    BY <2>1, <2>2
<1>10. ASSUME NEW k \in DOMAIN latest.nh, k[1] \notin overtaken, Missing("nh", k)'
       PROVE  k[1] \in Vrf /\ k[1] \in leaving /\ \A ref \in latest.nh[k].refs : Doomed(k[1], ref.gen)
  <2>1. leaving \subseteq Vrf /\ "nh" \in Kinds
    BY DEF Tables, PollOK, Kinds
  <2>2. k[1] \in leaving => \A ref \in latest.nh[k].refs : Doomed(k[1], ref.gen)
    BY <1>3, <1>10 DEF Lacks, LeavingOK
  <2>3. CASE k \in Changed("nh") /\ LeavingVrf("nh", k)
    BY <2>1, <2>2, <2>3 DEF LeavingVrf
  <2>4. CASE /\ k \in DOMAIN db.nh /\ Same("nh", latest.nh[k], db.nh[k])
             /\ ~ (k \in DOMAIN sub.nh /\ sub.nh[k] = latest.nh[k])
    <3>1. latest.nh[k] = db.nh[k]
      BY <2>4 DEF Same
    <3>2. Missing("nh", k)
      BY <2>4, <3>1 DEF Missing
    <3>3. k[1] \in Vrf
      BY <1>5, <1>10, <2>4, <3>2
    <3>4. k[1] \in leaving
      <4>1. ASSUME k[1] \notin leaving PROVE FALSE
        <5>1. \A old \in db.nh[k].refs, new \in latest.nh[k].refs : old.gen < new.gen
          BY <1>3, <1>10, <2>4, <3>2, <3>3, <4>1 DEF Lacks, RenewedOK
        <5>2. PICK ref \in latest.nh[k].refs : ref.gen \in Nat
          BY LinkedFacts DEF Tables, LatestOK
        <5>3. ref.gen < ref.gen
          BY <3>1, <5>1, <5>2
        <5>4. QED
          BY <5>2, <5>3
      <4>2. QED
        BY <4>1
    <3>5. QED
      BY <2>2, <3>3, <3>4
  <2>5. QED
    BY <1>7, <1>10, <2>1, <2>3, <2>4
<1>11. /\ \A kind \in Kinds : db'[kind] = latest[kind] /\ DOMAIN sub'[kind] \subseteq DOMAIN db'[kind]
       /\ db'.route = latest.route /\ db'.nh = latest.nh
  BY <1>1, <1>6 DEF Kinds
<1>12. LackingOK'
  <2>1. \A kind \in {"fdb", "l2"} : \A k \in DOMAIN db'[kind] : ~ Missing(kind, k)'
    BY <1>8, <1>11 DEF Kinds
  <2>2. QED
    BY <1>2, <1>9, <1>10, <1>11, <2>1 DEF LackingOK
<1>13. Mirror'
  <2>1. ASSUME NEW kind \in Kinds, NEW k \in DOMAIN db'[kind], Missing(kind, k)'
        PROVE  Excepted(kind, k)'
    <3>1. CASE kind \in {"fdb", "l2"}
      BY <1>8, <1>11, <2>1, <3>1
    <3>2. CASE kind = "route"
      <4>1. k \in DOMAIN latest.route
        BY <1>11, <2>1, <3>2
      <4>2. k[1] \in overtaken \/ latest.route[k].leaving
        BY <1>9, <2>1, <3>2, <4>1
      <4>3. k[1] \in Vrf
        <5>1. latest.route[k].leaving => k[1] \in Vrf
          BY <4>1, LinkedFacts DEF Tables, LatestOK
        <5>2. overtaken \subseteq Vrf
          BY DEF Tables, KernelOK
        <5>3. QED
          BY <4>2, <5>1, <5>2
      <4>4. QED
        BY <1>2, <1>11, <3>2, <4>1, <4>2, <4>3 DEF Excepted
    <3>3. CASE kind = "nh"
      <4>1. k[1] \in overtaken \/ k[1] \in leaving
        BY <1>10, <1>11, <2>1, <3>3
      <4>2. k[1] \in Vrf
        BY <4>1 DEF Tables, KernelOK, PollOK
      <4>3. QED
        BY <1>2, <3>3, <4>1, <4>2 DEF Excepted
    <3>4. QED
      BY <3>1, <3>2, <3>3 DEF Kinds
  <2>2. QED
    BY <1>1, <1>11, <2>1 DEF Mirror, Missing
<1>14. QED
  BY <1>4, <1>12, <1>13 DEF Lacks

-----------------------------------------------------------------------------
(* The end of the watcher *)

\* A function without arguments is the empty map.
LEMMA EmptyMap ==
    ASSUME NEW f, f = [k \in DOMAIN f |-> f[k]], DOMAIN f = {}
    PROVE  f = << >>
<1>1. DOMAIN << >> = {} /\ << >> = [k \in DOMAIN << >> |-> << >>[k]]
  OBVIOUS
<1>2. QED
  BY <1>1

\* What is known is withdrawn, and nothing else was held.
LEMMA finishKeeps ==
    ASSUME Tables, finish
    PROVE  Tables' /\ (Lacks => Lacks' /\ Mirror')
<1>1. /\ pc = "idle" /\ pc' = "done"
      /\ sub' = [kind \in Kinds |->
                    IF kind = "l2" THEN sub[kind]
                    ELSE [k \in DOMAIN sub[kind] \ DOMAIN db[kind] |-> sub[kind][k]]]
      /\ UNCHANGED <<env, stop, todo, cur, leaving, deaf, names, latest, db, events>>
  BY DEF finish
<1>2. events' \in 0..MaxEvents
  BY <1>1 DEF Tables, KernelOK
<1>3. KernelOK' /\ kernel' = kernel
  BY <1>1, <1>2, MonitorLeaves DEF Tables
<1>4. DOMAIN latest.route = {} /\ DOMAIN latest.nh = {}
  BY <1>1 DEF Tables, Cleared, NothingRead, Empty
<1>5. PollOK' /\ DbOK' /\ Cleared' /\ OnlyGrd'
  BY <1>1 DEF Tables, PollOK, DbOK, Cleared, OnlyGrd, BeforeList, PCs
<1>6. LatestOK'
  BY <1>1, <1>3 DEF Tables, LatestOK
<1>7. Tables'
  BY <1>3, <1>5, <1>6 DEF Tables
<1>8. ASSUME Lacks PROVE Lacks' /\ Mirror'
  <2>1. ListedOK' /\ BygoneOK' /\ LackingOK'
    BY <1>1 DEF ListedOK, BygoneOK, LackingOK, Tenants
  <2>2. LeavingOK' /\ RenewedOK'
    BY <1>1, <1>4 DEF LeavingOK, RenewedOK
  <2>3. \A kind \in Kinds \ {"l2"} : sub'[kind] = Empty
    <3> SUFFICES ASSUME NEW kind \in Kinds \ {"l2"} PROVE sub'[kind] = Empty
      OBVIOUS
    <3>1. DOMAIN sub[kind] \ DOMAIN db[kind] = {}
      BY <1>1, <1>8 DEF Lacks, LackingOK
    <3>2. PICK f : f = [k \in DOMAIN sub[kind] \ DOMAIN db[kind] |-> sub[kind][k]]
      OBVIOUS
    <3>3. f = << >>
      BY <3>1, <3>2, EmptyMap
    <3>4. QED
      BY <1>1, <3>2, <3>3 DEF Empty
  <2>4. Mirror'
    BY <1>1, <2>3 DEF Mirror
  <2>5. QED
    BY <2>1, <2>2, <2>4 DEF Lacks
<1>9. QED
  BY <1>7, <1>8

\* A step that changes nothing but the wish to stop.
LEMMA StillKeeps ==
    ASSUME UNCHANGED <<env, poll, events>>
    PROVE  (Tables => Tables') /\ (Lacks => Lacks') /\ (Mirror => Mirror')
<1>1. UNCHANGED <<kernel, vrfs, rmac, ports, overtaken, pc, todo, cur, leaving, deaf, names, latest, db, sub, events>>
  BY DEF env, poll
<1>2. Tables => Tables'
  BY <1>1 DEF Tables, KernelOK, HasDevice, PollOK, LatestOK, DbOK, Cleared, OnlyGrd, BeforeList
<1>3. Lacks => Lacks'
  <2>1. /\ (BeforeList' <=> BeforeList) /\ (Tenants' <=> Tenants)
        /\ \A v, g : Doomed(v, g)' <=> Doomed(v, g)
        /\ \A kind, k : Missing(kind, k)' <=> Missing(kind, k)
    BY <1>1 DEF BeforeList, Tenants, Doomed, Missing
  <2>2. ListedOK => ListedOK'
    BY <1>1, <2>1 DEF ListedOK
  <2>3. LeavingOK => LeavingOK'
    BY <1>1, <2>1 DEF LeavingOK
  <2>4. LackingOK => LackingOK'
    BY <1>1, <2>1 DEF LackingOK
  <2>5. BygoneOK => BygoneOK'
    BY <1>1, <2>1 DEF BygoneOK
  <2>6. RenewedOK => RenewedOK'
    BY <1>1, <2>1 DEF RenewedOK
  <2>7. QED
    BY <2>2, <2>3, <2>4, <2>5, <2>6 DEF Lacks
<1>4. Mirror => Mirror'
  <2>1. \A kind, k : Excepted(kind, k) => Excepted(kind, k)'
    BY <1>1 DEF Excepted
  <2>2. QED
    BY <1>1, <2>1 DEF Mirror
<1>5. QED
  BY <1>2, <1>3, <1>4

-----------------------------------------------------------------------------
(* The tables *)

\* The watcher is started with empty tables.
LEMMA InitTables == Init => Tables /\ Lacks /\ Mirror
<1> SUFFICES ASSUME Init PROVE Tables /\ Lacks /\ Mirror
  OBVIOUS
<1>1. PICK rs \in SUBSET Learnable :
         /\ Unique(rs)
         /\ \E fdb : kernel = [routes |-> rs,
                              neigh |-> {n \in Neighbor : n.mac = CHOOSE m \in Mac : TRUE},
                              fdb |-> fdb, devs |-> Vrf, gen |-> [v \in Vrf \cup {Grd} |-> 0]]
  BY DEF Init
<1>2. /\ kernel.routes = rs /\ kernel.neigh \subseteq Neighbor /\ kernel.devs = Vrf
      /\ kernel.gen = [v \in Domain |-> 0]
      /\ kernel = [routes |-> kernel.routes, neigh |-> kernel.neigh, fdb |-> kernel.fdb,
                   devs |-> kernel.devs, gen |-> kernel.gen]
  BY <1>1 DEF Domain
<1>3. /\ vrfs = [v \in Vrf |-> "Down"] /\ rmac = {} /\ ports = Mac
      /\ pc = "idle" /\ todo = {} /\ cur = Grd /\ leaving = {} /\ overtaken = {} /\ deaf = {}
      /\ latest = NothingRead /\ db = Nothing /\ sub = Nothing
      /\ stop = FALSE /\ events = 0
  BY DEF Init
<1>4. KernelOK
  <2>1. \A r \in rs : HasDevice(r.vrf)
    BY <1>2, LearnableIsPlain DEF HasDevice, Plain, Domain
  <2>2. Unique(kernel.routes) /\ kernel.routes \subseteq Learnable
    BY <1>1, <1>2
  <2>3. kernel.gen \in [Domain -> Nat] /\ kernel.gen[Grd] = 0
    BY <1>2 DEF Domain
  <2>4. events \in 0..MaxEvents
    BY <1>3, NetlinkAssumption
  <2>5. QED
    BY <1>2, <1>3, <2>1, <2>2, <2>3, <2>4 DEF KernelOK
<1>5. PollOK
  BY <1>3 DEF PollOK, PCs, Domain
<1>6. /\ latest.neigh = {} /\ latest.route = << >> /\ latest.nh = << >> /\ latest.fdb = << >> /\ latest.l2 = << >>
      /\ latest = [neigh |-> latest.neigh, route |-> latest.route, nh |-> latest.nh,
                   fdb |-> latest.fdb, l2 |-> latest.l2]
  BY <1>3 DEF NothingRead, Empty
<1>7. \A kind \in Kinds : db[kind] = << >> /\ sub[kind] = << >> /\ DOMAIN db[kind] = {} /\ DOMAIN sub[kind] = {}
  BY <1>3 DEF Nothing, Empty
<1>8. db.route = << >> /\ db.nh = << >> /\ db.fdb = << >> /\ db.l2 = << >>
  BY <1>7 DEF Kinds
<1>9. Linked(<< >>, << >>) /\ Forwards(<< >>, << >>)
  BY DEF Linked, Forwards
<1>10. LatestOK /\ DbOK
  BY <1>6, <1>8, <1>9 DEF LatestOK, DbOK
<1>11. Cleared /\ OnlyGrd
  BY <1>3 DEF Cleared, OnlyGrd, BeforeList
<1>12. Tables
  BY <1>4, <1>5, <1>10, <1>11 DEF Tables
<1>13. Lacks
  <2>1. ListedOK /\ BygoneOK
    BY <1>3 DEF ListedOK, BygoneOK, Tenants
  <2>2. LeavingOK /\ RenewedOK
    BY <1>6 DEF LeavingOK, RenewedOK
  <2>3. LackingOK
    BY <1>7, <1>8 DEF LackingOK, Kinds
  <2>4. QED
    BY <2>1, <2>2, <2>3 DEF Lacks
<1>14. Mirror
  BY <1>3, <1>7 DEF Mirror
<1>15. QED
  BY <1>12, <1>13, <1>14

\* The tables are kept by every step, and without ECMP so is what the
\* subscriber may lack.
LEMMA StepKeeps ==
    ASSUME Tables, [Next]_vars
    PROVE  /\ Tables'
           /\ ~ EnableEcmp /\ Lacks /\ Mirror => Lacks' /\ Mirror'
<1>1. CASE Environment
  <2>1. EnvironmentKeeps
    BY <1>1, EnvironmentStep DEF Tables
  <2>2. QED
    BY <2>1, EnvironmentKeepsIInv
<1>2. CASE StartPoll
  BY <1>2, StartPollKeeps
<1>3. CASE readNeighbors
  BY <1>3, readNeighborsKeeps
<1>4. CASE readRoutes
  BY <1>4, readRoutesKeeps
<1>5. CASE listVrfs
  BY <1>5, listVrfsKeeps
<1>6. CASE readFDB
  BY <1>6, readFDBKeeps
<1>7. CASE annotate
  BY <1>7, annotateKeeps
<1>8. CASE notifyDBChanges
  BY <1>8, notifyDBChangesKeepsTables, notifyDBChangesKeepsLacks
<1>9. CASE finish
  BY <1>9, finishKeeps
<1>10. CASE DeInitialize \/ UNCHANGED vars
  <2>1. UNCHANGED <<env, poll, events>>
    BY <1>10 DEF DeInitialize, vars
  <2>2. QED
    BY <2>1, StillKeeps
<1>11. QED
  BY <1>1, <1>2, <1>3, <1>4, <1>5, <1>6, <1>7, <1>8, <1>9, <1>10 DEF Next, Monitor

\* The tables are as the watcher's readers leave them.
LEMMA TablesAlways == Spec => []Tables
<1>1. Init => Tables
  BY InitTables
<1>2. Tables /\ [Next]_vars => Tables'
  BY StepKeeps
<1>3. QED
  BY <1>1, <1>2, PTL DEF Spec

\* The tables keep their types: a nexthop is under its own key, in the VRF of
\* the routes that refer to it, and a forwarding entry's nexthop has been read
\* (addRoute, addNexthop, ParseFdb; with ECMP too).
THEOREM NetlinkTypeCorrect == Spec => []TypeOK
<1>1. Tables => TypeOK
  <2> SUFFICES ASSUME Tables PROVE TypeOK
    OBVIOUS
  <2>1. /\ kernel.neigh \subseteq Neighbor /\ kernel.routes \subseteq Learnable /\ Unique(kernel.routes)
        /\ vrfs \in [Vrf -> {"Absent", "Created", "Down", "Up", "ToBeDeleted"}]
        /\ overtaken \subseteq Vrf /\ rmac \subseteq Vrf /\ events \in 0..MaxEvents
    BY DEF Tables, KernelOK
  <2>2. leaving \subseteq Vrf /\ deaf \subseteq Vtep \cup Hop /\ pc \in PCs /\ todo \subseteq Vrf \cup {Grd} /\ cur \in Vrf \cup {Grd}
    BY DEF Tables, PollOK, Domain
  <2>3. \A k \in DOMAIN latest.nh :
           latest.nh[k].nh.key = k /\ \A ref \in latest.nh[k].refs : ref.key[1] = k[1]
    BY DEF Tables, LatestOK, Linked
  <2>4. \A m \in DOMAIN latest.fdb : latest.fdb[m].l2 \in DOMAIN latest.l2
    BY DEF Tables, LatestOK, Forwards
  <2>5. QED
    BY <2>1, <2>2, <2>3, <2>4 DEF TypeOK
<1>2. QED
  BY <1>1, TablesAlways, PTL

-----------------------------------------------------------------------------
(* What the subscriber holds *)

\* Without ECMP the whole invariant is kept.
LEMMA IInvAlways ==
    ASSUME ~ EnableEcmp
    PROVE  Spec => []IInv
<1>1. Init => IInv
  BY InitTables DEF IInv
<1>2. IInv /\ [Next]_vars => IInv'
  BY StepKeeps DEF IInv
<1>3. QED
  BY <1>1, <1>2, PTL DEF Spec

\* Without ECMP the subscriber holds between two polls what the watcher takes it
\* to hold, and nothing after the clean-up, the L2 nexthops and the entries of
\* VRFs that are being deleted excepted (notifyDBChanges, notifyUpdates).
THEOREM SubscriberIsMirrored ==
    ASSUME ~ EnableEcmp
    PROVE  Spec => []Mirror
<1>1. IInv => Mirror
  BY DEF IInv
<1>2. QED
  BY <1>1, IInvAlways, PTL

\* Whether an entry is excepted depends on its VRF alone.
LEMMA ExceptedTogether ==
    ASSUME NEW k, NEW j, k[1] = j[1], Excepted("route", k) \/ Excepted("nh", k)
    PROVE  Excepted("route", j) /\ Excepted("nh", j)
BY DEF Excepted

\* Without ECMP the subscriber holds the nexthops of its routes and of its
\* forwarding entries, as they are, and the routes of its nexthops
\* (installFilterRoute, installFilterNH, notify_changes).
THEOREM SubscriberIsConsistent ==
    ASSUME ~ EnableEcmp
    PROVE  Spec => []ReferencesHeld
<1>1. ASSUME Tables, Mirror, pc = "idle" PROVE ReferencesHeld
  <2>1. \A kind \in Kinds :
           /\ DOMAIN sub[kind] \subseteq DOMAIN db[kind]
           /\ \A k \in DOMAIN db[kind] : \/ k \in DOMAIN sub[kind] /\ sub[kind][k] = db[kind][k]
                                         \/ Excepted(kind, k)
    BY <1>1 DEF Mirror
  <2>2. Linked(db.route, db.nh) /\ Forwards(db.fdb, db.l2)
    BY <1>1 DEF Tables, DbOK
  <2>3. ASSUME NEW k \in DOMAIN sub.route, ~ Excepted("route", k), NEW nh \in Range(sub.route[k].nhs)
        PROVE  nh.key \in DOMAIN sub.nh /\ sub.nh[nh.key].nh = nh
    <3>1. k \in DOMAIN db.route /\ sub.route[k] = db.route[k]
      BY <2>1, <2>3 DEF Kinds
    <3>2. /\ db.route[k] \in RouteOf(k[1])
          /\ nh.key \in DOMAIN db.nh /\ db.nh[nh.key].nh = nh
      BY <2>2, <3>1 DEF Linked
    <3>3. nh.key[1] = k[1]
      <4>1. db.route[k].nhs \in Seq(Via(k[1]))
        BY <3>2 DEF RouteOf
      <4>2. nh \in Via(k[1])
        BY <3>1, <4>1, ElementsOfSeq
      <4>3. QED
        BY <4>2 DEF Via
    <3>4. ~ Excepted("nh", nh.key)
      BY <2>3, <3>3, ExceptedTogether
    <3>5. nh.key \in DOMAIN sub.nh /\ sub.nh[nh.key] = db.nh[nh.key]
      BY <2>1, <3>2, <3>4 DEF Kinds
    <3>6. QED
      BY <3>2, <3>5
  <2>4. ASSUME NEW k \in DOMAIN sub.nh, ~ Excepted("nh", k), NEW ref \in sub.nh[k].refs
        PROVE  ref.key \in DOMAIN sub.route
    <3>1. k \in DOMAIN db.nh /\ sub.nh[k] = db.nh[k]
      BY <2>1, <2>4 DEF Kinds
    <3>2. ref.key \in DOMAIN db.route /\ ref.key[1] = k[1]
      BY <2>2, <3>1 DEF Linked
    <3>3. ~ Excepted("route", ref.key)
      BY <2>4, <3>2, ExceptedTogether
    <3>4. QED
      BY <2>1, <3>2, <3>3 DEF Kinds
  <2>5. ASSUME NEW m \in DOMAIN sub.fdb PROVE sub.fdb[m].l2 \in DOMAIN sub.l2
    <3>1. \A k : ~ Excepted("fdb", k) /\ ~ Excepted("l2", k)
      BY DEF Excepted
    <3>2. m \in DOMAIN db.fdb /\ sub.fdb[m] = db.fdb[m]
      BY <2>1, <3>1 DEF Kinds
    <3>3. db.fdb[m].l2 \in DOMAIN db.l2
      BY <2>2, <3>2 DEF Forwards
    <3>4. QED
      BY <2>1, <3>1, <3>2, <3>3 DEF Kinds
  <2>6. QED
    BY <2>3, <2>4, <2>5 DEF ReferencesHeld
<1>2. IInv => ReferencesHeld
  BY <1>1 DEF IInv, ReferencesHeld
<1>3. QED
  BY <1>2, IInvAlways, PTL

=============================================================================
