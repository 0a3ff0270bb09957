--------------------------- MODULE DevicesProofs ---------------------------
(***************************************************************************)
(* Proofs about Devices.  The store, the host and the reports keep their     *)
(* types; no two VRFs share a routing table; the tear-downs of bridges, SVIs *)
(* and ports can be repeated; and, where no two objects use one name on the  *)
(* host, what has been set up stays in place and what has left the store has *)
(* left nothing behind: wherever set-ups and tear-downs have stopped         *)
(* half-way.                                                                 *)
(***************************************************************************)
EXTENDS Devices, SequenceFacts, FiniteSetTheorems

-----------------------------------------------------------------------------
(* The inductive invariant *)

\* A host has these parts.
IsHost(h) == h = [links |-> h.links, up |-> h.up, addr |-> h.addr, master |-> h.master,
                  vlans |-> h.vlans, tables |-> h.tables, throw |-> h.throw, conf |-> h.conf]

\* What is up, addressed, enslaved or carries a VLAN exists.
HostOK(h) ==
    /\ IsHost(h)
    /\ h.up \cup h.addr \subseteq h.links
    /\ \A p \in h.master : {p[1], p[2]} \subseteq h.links
    /\ \A p \in h.vlans : p[1] \in h.links

\* Every version is from a request or a replay, and only what has been created
\* is stored.
VersionsSound ==
    \A o \in Obj : /\ db[o].ver <= ops + replays
                   /\ Stored(o) => db[o].ver >= 1

ReportsSound ==
    \A r \in reports : /\ r.obj \in Obj /\ r.mod \in Range(Subs(r.obj))
                       /\ r.ver \in 1..db[r.obj].ver /\ r.ok \in BOOLEAN
                       /\ r.table \in 0..NoTable

\* The names that have a routing table.
Numbered == {v \in Vrf : ids[v] # 0}

\* The n names that have a table have the tables up to n, each its own.
IdsSound ==
    /\ IsFiniteSet(Numbered)
    /\ \A v \in Numbered : ids[v] <= Cardinality(Numbered)
    /\ \A v, w \in Numbered : ids[v] = ids[w] => v = w

\* The kernel's tables are the ones that have been assigned.
TablesSound == \A p \in host.tables : \E v \in Numbered : p = <<v, ids[v]>>

Counters == ops \in 0..MaxOps /\ faults \in 0..MaxFaults /\ replays \in 0..MaxReplays

IInv ==
    /\ db \in [Obj -> Object] /\ VersionsSound
    /\ ids \in [Vrf -> 0..MaxTable] /\ IdsSound
    /\ ReportsSound
    /\ alive \in BOOLEAN /\ dropped \subseteq Obj /\ spoilt \subseteq Obj
    /\ HostOK(host) /\ TablesSound
    /\ Counters

-----------------------------------------------------------------------------
(* Calls and what they do *)

\* A call that can succeed leaves the host in order, and only the set-up of a
\* VRF assigns a table, which is not 0.
LEMMA EffectFacts ==
    ASSUME NEW h, NEW c, HostOK(h), Possible(h, c)
    PROVE  /\ HostOK(Effect(h, c))
           /\ Effect(h, c).tables \subseteq
                 h.tables \cup (IF c.op = "LinkAddVrf" THEN {<<c.link, c.arg>>} ELSE {})
           /\ c.op = "LinkAddVrf" => c.arg # 0
<1> DEFINE e == Effect(h, c)
           New == IF c.op = "LinkAddVrf" THEN {<<c.link, c.arg>>} ELSE {}
           Parts == HostOK(e) /\ e.tables \subseteq h.tables \cup New
<1>1. /\ h = [links |-> h.links, up |-> h.up, addr |-> h.addr, master |-> h.master,
              vlans |-> h.vlans, tables |-> h.tables, throw |-> h.throw, conf |-> h.conf]
      /\ h.up \subseteq h.links /\ h.addr \subseteq h.links
      /\ \A p \in h.master : p[1] \in h.links /\ p[2] \in h.links
      /\ \A p \in h.vlans : p[1] \in h.links
  BY DEF HostOK, IsHost
<1>2. ASSUME c.op = "LinkAdd" PROVE Parts
  <2>1. e = [links |-> h.links \cup {c.link}, up |-> h.up, addr |-> h.addr, master |-> h.master,
             vlans |-> h.vlans, tables |-> h.tables, throw |-> h.throw, conf |-> h.conf]
    BY <1>1, <1>2 DEF Effect
  <2> HIDE DEF e
  <2>2. QED
    BY <1>1, <2>1 DEF HostOK, IsHost
<1>3. ASSUME c.op = "LinkAddVrf" PROVE Parts
  <2>1. e = [links |-> h.links \cup {VrfLink(c.link)}, up |-> h.up, addr |-> h.addr, master |-> h.master,
             vlans |-> h.vlans, tables |-> h.tables \cup {<<c.link, c.arg>>},
             throw |-> h.throw, conf |-> h.conf]
    BY <1>1, <1>3 DEF Effect
  <2> HIDE DEF e
  <2>2. QED
    BY <1>1, <1>3, <2>1 DEF HostOK, IsHost
<1>4. ASSUME c.op = "LinkDel" PROVE Parts
  <2>1. e = [links |-> h.links \ {c.link}, up |-> h.up \ {c.link}, addr |-> h.addr \ {c.link},
             master |-> {p \in h.master : p[1] # c.link /\ p[2] # c.link},
             vlans |-> {p \in h.vlans : p[1] # c.link},
             tables |-> {p \in h.tables : VrfLink(p[1]) # c.link},
             throw |-> h.throw, conf |-> h.conf]
    BY <1>1, <1>4 DEF Effect, Without
  <2> HIDE DEF e
  <2>2. QED
    BY <1>1, <2>1 DEF HostOK, IsHost
<1>5. ASSUME c.op = "LinkSetMaster" PROVE Parts
  <2>1. e = [links |-> h.links, up |-> h.up, addr |-> h.addr,
             master |-> {p \in h.master : p[1] # c.link} \cup {<<c.link, c.arg>>},
             vlans |-> h.vlans, tables |-> h.tables, throw |-> h.throw, conf |-> h.conf]
    BY <1>1, <1>5 DEF Effect
  <2>2. c.link \in h.links /\ c.arg \in h.links
    BY <1>5 DEF Possible
  <2> HIDE DEF e
  <2>3. QED
    BY <1>1, <2>1, <2>2 DEF HostOK, IsHost
<1>6. ASSUME c.op \in {"LinkSetUp", "AddrAdd", "BridgeVlanAdd"} PROVE Parts
  <2>1. c.link \in h.links
    BY <1>6 DEF Possible
  <2>2. \E U \in SUBSET h.links, A \in SUBSET h.links :
          \E V : /\ \A p \in V : p[1] \in h.links
                 /\ e = [links |-> h.links, up |-> U, addr |-> A, master |-> h.master,
                         vlans |-> V, tables |-> h.tables, throw |-> h.throw, conf |-> h.conf]
    <3>1. CASE c.op = "LinkSetUp"
      <4>1. e = [links |-> h.links, up |-> h.up \cup {c.link}, addr |-> h.addr, master |-> h.master,
                 vlans |-> h.vlans, tables |-> h.tables, throw |-> h.throw, conf |-> h.conf]
        BY <1>1, <3>1 DEF Effect
      <4> HIDE DEF e
      <4>2. QED
        BY <1>1, <2>1, <4>1
    <3>2. CASE c.op = "AddrAdd"
      <4>1. e = [links |-> h.links, up |-> h.up, addr |-> h.addr \cup {c.link}, master |-> h.master,
                 vlans |-> h.vlans, tables |-> h.tables, throw |-> h.throw, conf |-> h.conf]
        BY <1>1, <3>2 DEF Effect
      <4> HIDE DEF e
      <4>2. QED
        BY <1>1, <2>1, <4>1
    <3>3. CASE c.op = "BridgeVlanAdd"
      <4>1. e = [links |-> h.links, up |-> h.up, addr |-> h.addr, master |-> h.master,
                 vlans |-> h.vlans \cup {<<c.link, c.arg>>}, tables |-> h.tables,
                 throw |-> h.throw, conf |-> h.conf]
        BY <1>1, <3>3 DEF Effect
      <4>2. \A p \in h.vlans \cup {<<c.link, c.arg>>} : p[1] \in h.links
        BY <1>1, <2>1
      <4> HIDE DEF e
      <4>3. QED
        BY <1>1, <4>1, <4>2
    <3>4. QED
      BY <1>6, <3>1, <3>2, <3>3
  <2> HIDE DEF e
  <2>3. QED
    BY <1>1, <2>2 DEF HostOK, IsHost
<1>7. ASSUME c.op = "LinkSetDown" PROVE Parts
  <2>1. e = [links |-> h.links, up |-> h.up \ {c.link}, addr |-> h.addr, master |-> h.master,
             vlans |-> h.vlans, tables |-> h.tables, throw |-> h.throw, conf |-> h.conf]
    BY <1>1, <1>7 DEF Effect
  <2> HIDE DEF e
  <2>2. QED
    BY <1>1, <2>1 DEF HostOK, IsHost
<1>8. ASSUME c.op = "BridgeVlanDel" PROVE Parts
  <2>1. e = [links |-> h.links, up |-> h.up, addr |-> h.addr, master |-> h.master,
             vlans |-> h.vlans \ {<<c.link, c.arg>>}, tables |-> h.tables,
             throw |-> h.throw, conf |-> h.conf]
    BY <1>1, <1>8 DEF Effect
  <2> HIDE DEF e
  <2>2. QED
    BY <1>1, <2>1 DEF HostOK, IsHost
<1>9. ASSUME c.op \in {"RouteAdd", "RouteFlush", "Conf", "NoConf"} PROVE Parts
  <2>1. \E T, C : e = [links |-> h.links, up |-> h.up, addr |-> h.addr, master |-> h.master,
                       vlans |-> h.vlans, tables |-> h.tables, throw |-> T, conf |-> C]
    <3>1. CASE c.op = "RouteAdd"
      BY <1>1, <3>1 DEF Effect
    <3>2. CASE c.op = "RouteFlush"
      BY <1>1, <3>2 DEF Effect
    <3>3. CASE c.op = "Conf"
      BY <1>1, <3>3 DEF Effect
    <3>4. CASE c.op = "NoConf"
      BY <1>1, <3>4 DEF Effect
    <3>5. QED
      BY <1>9, <3>1, <3>2, <3>3, <3>4
  <2> HIDE DEF e
  <2>2. QED
    BY <1>1, <2>1 DEF HostOK, IsHost
<1>10. ASSUME c.op \notin {"LinkAdd", "LinkAddVrf", "LinkDel", "LinkSetMaster", "LinkSetUp", "LinkSetDown",
                           "BridgeVlanAdd", "BridgeVlanDel", "AddrAdd", "RouteAdd", "RouteFlush",
                           "Conf", "NoConf"}
       PROVE  Parts
  <2>1. e = h
    BY <1>10 DEF Effect
  <2>2. QED
    BY <2>1
<1>11. Parts
  BY <1>2, <1>3, <1>4, <1>5, <1>6, <1>7, <1>8, <1>9, <1>10
<1>12. c.op = "LinkAddVrf" => c.arg # 0
  BY DEF Possible
<1>13. QED
  BY <1>11, <1>12

\* f gives the host after the first n calls.
Runs(f, calls, n) == f = [i \in 0..n |-> IF i = 0 THEN host ELSE Effect(f[i - 1], calls[i])]

\* The calls can be carried out one after the other.
LEMMA RunExists ==
    ASSUME NEW calls, NEW N \in Nat
    PROVE  \E f : Runs(f, calls, N)
<1> DEFINE Can(n) == \E f : Runs(f, calls, n)
           Bad == {n \in Nat : ~ Can(n)}
<1>1. Can(0)
  <2> DEFINE f == [i \in 0..0 |-> host]
  <2>1. \A i \in 0..0 : i = 0
    OBVIOUS
  <2>2. f = [i \in 0..0 |-> IF i = 0 THEN host ELSE Effect(f[i - 1], calls[i])]
    BY <2>1
  <2>3. QED
    BY <2>2 DEF Runs
<1>2. ASSUME NEW n \in Nat, Can(n) PROVE Can(n + 1)
  <2>1. PICK g : Runs(g, calls, n)
    BY <1>2
  <2> DEFINE f == [i \in 0..n + 1 |-> IF i = n + 1 THEN Effect(g[n], calls[n + 1]) ELSE g[i]]
  <2>2. \A i \in 0..n : g[i] = IF i = 0 THEN host ELSE Effect(g[i - 1], calls[i])
    BY <2>1 DEF Runs
  <2>3. \A i \in 0..n : f[i] = g[i]
    <3>1. \A i \in 0..n : i \in 0..n + 1 /\ i # n + 1
      OBVIOUS
    <3>2. QED
      BY <3>1
  <2>4. f[n + 1] = Effect(g[n], calls[n + 1]) /\ n + 1 # 0
    <3>1. n + 1 \in 0..n + 1 /\ n + 1 # 0
      OBVIOUS
    <3>2. QED
      BY <3>1
  <2>5. f = [i \in 0..n + 1 |-> f[i]]
    OBVIOUS
  <2> HIDE DEF f
  <2>6. ASSUME NEW i \in 0..n + 1
        PROVE  f[i] = IF i = 0 THEN host ELSE Effect(f[i - 1], calls[i])
    <3>1. CASE i \in 0..n
      <4>1. i # 0 => i - 1 \in 0..n
        BY <3>1
      <4>2. QED
        BY <2>2, <2>3, <3>1, <4>1
    <3>2. CASE i = n + 1
      <4>1. n + 1 - 1 = n /\ n \in 0..n
        OBVIOUS
      <4>2. f[n + 1 - 1] = g[n]
        BY <2>3, <4>1
      <4>3. QED
        BY <2>4, <3>2, <4>2
    <3>3. QED
      BY <3>1, <3>2
  <2>7. f = [i \in 0..n + 1 |-> IF i = 0 THEN host ELSE Effect(f[i - 1], calls[i])]
    BY <2>5, <2>6
  <2>8. QED
    BY <2>7 DEF Runs
<1> HIDE DEF Can
<1>3. Bad = {}
  <2>1. SUFFICES ASSUME Bad # {} PROVE FALSE
    OBVIOUS
  <2>2. PICK n \in Bad : \A m \in Bad : n <= m
    BY <2>1, LeastNatural
  <2>3. n # 0
    BY <1>1, <2>2
  <2>4. n - 1 \in Nat /\ n - 1 \notin Bad /\ n - 1 + 1 = n
    BY <2>2, <2>3
  <2>5. Can(n)
    BY <1>2, <2>4
  <2>6. QED
    BY <2>2, <2>5
<1>4. QED
  BY <1>3 DEF Can

\* HostAfter starts with the host and applies one call after the other.
LEMMA HostAfterIs ==
    ASSUME NEW calls, Len(calls) \in Nat
    PROVE  /\ HostAfter(calls)[0] = host
           /\ \A n \in 1..Len(calls) : HostAfter(calls)[n] = Effect(HostAfter(calls)[n - 1], calls[n])
<1> DEFINE f == HostAfter(calls)
<1>1. f = CHOOSE g : g = [n \in 0..Len(calls) |-> IF n = 0 THEN host ELSE Effect(g[n - 1], calls[n])]
  BY DEF HostAfter
<1>2. PICK g : g = [n \in 0..Len(calls) |-> IF n = 0 THEN host ELSE Effect(g[n - 1], calls[n])]
  BY RunExists DEF Runs
<1>3. f = [n \in 0..Len(calls) |-> IF n = 0 THEN host ELSE Effect(f[n - 1], calls[n])]
  BY <1>1, <1>2
<1> HIDE DEF f
<1>4. \A n \in 0..Len(calls) : f[n] = IF n = 0 THEN host ELSE Effect(f[n - 1], calls[n])
  BY <1>3
<1>5. 0 \in 0..Len(calls) /\ \A n \in 1..Len(calls) : n \in 0..Len(calls) /\ n # 0
  OBVIOUS
<1>6. f[0] = host /\ \A n \in 1..Len(calls) : f[n] = Effect(f[n - 1], calls[n])
  BY <1>4, <1>5
<1>7. QED
  BY <1>6 DEF f

\* As many calls succeed as are possible one after the other.
LEMMA ReachIs ==
    ASSUME NEW calls, Len(calls) \in Nat
    PROVE  /\ Reach(calls) \in 0..Len(calls)
           /\ \A n \in 1..Reach(calls) : Possible(HostAfter(calls)[n - 1], calls[n])
           /\ Reach(calls) < Len(calls) =>
                 ~ Possible(HostAfter(calls)[Reach(calls)], calls[Reach(calls) + 1])
<1> DEFINE hs == HostAfter(calls)
           Stuck == {n \in 0..Len(calls) - 1 : ~ Possible(hs[n], calls[n + 1])}
           S == {Len(calls)} \cup Stuck
<1>1. S \subseteq Nat /\ S # {}
  OBVIOUS
<1>2. \E n \in S : \A m \in S : n <= m
  BY <1>1, LeastNatural
<1>3. Reach(calls) = CHOOSE n \in S : \A m \in S : n <= m
  BY DEF Reach, Min
<1>4. Reach(calls) \in S /\ \A m \in S : Reach(calls) <= m
  BY <1>2, <1>3
<1>5. PICK r : r = Reach(calls)
  OBVIOUS
<1>6. r \in Nat /\ r \in 0..Len(calls)
  BY <1>1, <1>4, <1>5
<1>7. ASSUME NEW n \in 1..r PROVE Possible(hs[n - 1], calls[n])
  <2>1. n - 1 \in 0..Len(calls) - 1 /\ n - 1 + 1 = n /\ ~ (r <= n - 1)
    BY <1>6
  <2>2. n - 1 \notin Stuck
    BY <1>4, <1>5, <2>1
  <2>3. QED
    BY <2>1, <2>2
<1>8. r < Len(calls) => ~ Possible(hs[r], calls[r + 1])
  BY <1>4, <1>5, <1>6
<1>9. QED
  BY <1>5, <1>6, <1>7, <1>8

\* However many of the calls succeed, the host stays in order, and has the
\* tables it had and the ones that were assigned.
LEMMA RunFacts ==
    ASSUME NEW calls, Len(calls) \in Nat, HostOK(host), NEW n \in 0..Reach(calls)
    PROVE  /\ HostOK(HostAfter(calls)[n])
           /\ \A p \in HostAfter(calls)[n].tables \ host.tables :
                 \E i \in 1..Len(calls) : /\ calls[i].op = "LinkAddVrf" /\ calls[i].arg # 0
                                          /\ p = <<calls[i].link, calls[i].arg>>
<1> DEFINE hs == HostAfter(calls)
           Assigned(p) == \E i \in 1..Len(calls) : /\ calls[i].op = "LinkAddVrf" /\ calls[i].arg # 0
                                                   /\ p = <<calls[i].link, calls[i].arg>>
           Good(k) == HostOK(hs[k]) /\ \A p \in hs[k].tables \ host.tables : Assigned(p)
           Bad == {k \in 0..Reach(calls) : ~ Good(k)}
<1>1. Reach(calls) \in 0..Len(calls) /\ Reach(calls) \in Nat
  BY ReachIs
<1>2. Good(0)
  BY HostAfterIs
<1>3. ASSUME NEW k \in 1..Reach(calls), Good(k - 1) PROVE Good(k)
  <2>1. k \in 1..Len(calls)
    BY <1>1
  <2>2. hs[k] = Effect(hs[k - 1], calls[k])
    BY <2>1, HostAfterIs
  <2>3. Possible(hs[k - 1], calls[k])
    BY ReachIs
  <2>4. PICK g : g = hs[k - 1]
    OBVIOUS
  <2>5. PICK c : c = calls[k]
    OBVIOUS
  <2>6. HostOK(g) /\ Possible(g, c) /\ hs[k] = Effect(g, c)
    BY <1>3, <2>2, <2>3, <2>4, <2>5
  <2>7. /\ HostOK(hs[k])
        /\ hs[k].tables \subseteq g.tables \cup (IF c.op = "LinkAddVrf" THEN {<<c.link, c.arg>>} ELSE {})
        /\ c.op = "LinkAddVrf" => c.arg # 0
    BY <2>6, EffectFacts
  <2>8. c.op = "LinkAddVrf" => Assigned(<<c.link, c.arg>>)
    BY <2>1, <2>5, <2>7
  <2>9. \A p \in g.tables \ host.tables : Assigned(p)
    BY <1>3, <2>4
  <2> HIDE DEF hs, Assigned
  <2>10. \A p \in hs[k].tables \ host.tables : Assigned(p)
    BY <2>7, <2>8, <2>9
  <2>11. QED
    BY <2>7, <2>10
<1> HIDE DEF Good
<1>4. Bad = {}
  <2>1. SUFFICES ASSUME Bad # {} PROVE FALSE
    OBVIOUS
  <2>2. Bad \subseteq Nat
    BY <1>1
  <2>3. PICK k \in Bad : \A m \in Bad : k <= m
    BY <2>1, <2>2, LeastNatural
  <2>4. k # 0
    BY <1>2, <2>3
  <2>5. k \in 1..Reach(calls) /\ k - 1 \in 0..Reach(calls) /\ k - 1 \notin Bad
    BY <1>1, <2>3, <2>4
  <2>6. Good(k)
    BY <1>3, <2>5
  <2>7. QED
    BY <2>3, <2>6
<1>5. QED
  BY <1>4 DEF Good

-----------------------------------------------------------------------------
(* The calls of the set-up and tear-down functions *)

\* What a call may name: links, VLANs, tables, objects, items of FRR's
\* configuration, and whether a pointer is nil.
Names ==
    {Tenant, "local"} \cup Nat \cup Obj \cup BOOLEAN
    \cup {VrfLink(v) : v \in Vrf} \cup {BrLink(v) : v \in Vrf}
    \cup {VxlanLink(x) : x \in Vrf \cup Nat} \cup {SviLink(s) : s \in Svi} \cup {Port(b) : b \in Bp}
    \cup {<<"vni", v>> : v \in Vrf} \cup {<<"bgp", v>> : v \in Vrf} \cup {Neighbor(s) : s \in Svi}

Ops == {"LinkByName", "LinkOrGone", "LinkAdd", "LinkDel", "LinkSetMaster", "LinkSetUp", "LinkSetDown",
        "LinkSetAttr", "BridgeVlanAdd", "BridgeVlanDel", "AddrAdd", "RouteList", "RouteAdd",
        "RouteFlush", "GetLB", "Conf", "NoConf", "Show", "ShowOrGone", "Parse", "Deref"}

\* The calls that assign no table.
Quiet == [op : Ops, link : Names, arg : Names]

\* The calls on a name.
LEMMA CallsOnNames ==
    /\ \A n \in Names : /\ {LinkByName(n), LinkOrGone(n), LinkAdd(n), LinkDel(n)} \subseteq Quiet
                        /\ {LinkSetUp(n), LinkSetDown(n), LinkSetAttr(n), AddrAdd(n)} \subseteq Quiet
                        /\ {RouteList(n), RouteAdd(n), RouteFlush(n), GetLB(n)} \subseteq Quiet
                        /\ {Conf(n), NoConf(n), Show(n), ShowOrGone(n), Parse(n), Deref(n)} \subseteq Quiet
    /\ \A n, m \in Names : {LinkSetMaster(n, m), BridgeVlanAdd(n, m), BridgeVlanDel(n, m)} \subseteq Quiet
<1>1. 0 \in Names
  BY DEF Names
<1> HIDE DEF Names
<1>2. \A op \in Ops, n, m \in Names : Call(op, n, m) \in Quiet
  BY DEF Quiet, Call
<1>3. ASSUME NEW n \in Names
      PROVE  /\ {LinkByName(n), LinkOrGone(n), LinkAdd(n), LinkDel(n)} \subseteq Quiet
             /\ {LinkSetUp(n), LinkSetDown(n), LinkSetAttr(n), AddrAdd(n)} \subseteq Quiet
  BY <1>1, <1>2 DEF Ops, LinkByName, LinkOrGone, LinkAdd, LinkDel, LinkSetUp, LinkSetDown, LinkSetAttr,
                    AddrAdd
<1>4. ASSUME NEW n \in Names
      PROVE  /\ {RouteList(n), RouteAdd(n), RouteFlush(n), GetLB(n)} \subseteq Quiet
             /\ {Conf(n), NoConf(n), Show(n), ShowOrGone(n), Parse(n), Deref(n)} \subseteq Quiet
  BY <1>1, <1>2 DEF Ops, RouteList, RouteAdd, RouteFlush, GetLB, Conf, NoConf, Show, ShowOrGone, Parse,
                    Deref
<1>5. ASSUME NEW n \in Names, NEW m \in Names
      PROVE  {LinkSetMaster(n, m), BridgeVlanAdd(n, m), BridgeVlanDel(n, m)} \subseteq Quiet
  BY <1>2 DEF Ops, LinkSetMaster, BridgeVlanAdd, BridgeVlanDel
<1>6. QED
  BY <1>3, <1>4, <1>5

\* The objects' names.
LEMMA NamesOfObjects ==
    /\ Tenant \in Names /\ 0 \in Names /\ "local" \in Names /\ Nat \subseteq Names /\ BOOLEAN \subseteq Names
    /\ \A v \in Vrf : /\ v \in Names /\ VrfLink(v) \in Names /\ BrLink(v) \in Names /\ VxlanLink(v) \in Names
                      /\ <<"vni", v>> \in Names /\ <<"bgp", v>> \in Names
    /\ \A l \in Lb : l \in Names /\ VlanLink(l) \in Names /\ VlanOf[l] \in Names
    /\ \A s \in Svi : /\ SviLink(s) \in Names /\ LbOf[s] \in Names /\ VlanOf[LbOf[s]] \in Names
                      /\ VrfLink(VrfOf[s]) \in Names /\ Neighbor(s) \in Names
                      /\ <<"bgp", VrfOf[s]>> \in Names
    /\ \A b \in Bp : Port(b) \in Names
<1>1. /\ Tenant \in Names /\ 0 \in Names /\ "local" \in Names /\ Nat \subseteq Names /\ BOOLEAN \subseteq Names
      /\ Obj \subseteq Names
  BY DEF Names
<1>2. \A v \in Vrf : /\ VrfLink(v) \in Names /\ BrLink(v) \in Names /\ VxlanLink(v) \in Names
                     /\ <<"vni", v>> \in Names /\ <<"bgp", v>> \in Names
  BY DEF Names
<1>3. \A x \in Nat : VxlanLink(x) \in Names
  BY DEF Names
<1>4. \A s \in Svi : SviLink(s) \in Names /\ Neighbor(s) \in Names
  BY DEF Names
<1>5. \A b \in Bp : Port(b) \in Names
  BY DEF Names
<1> HIDE DEF Names
<1>6. \A l \in Lb : VlanOf[l] \in Nat
  BY DevicesAssumption
<1>7. \A s \in Svi : VrfOf[s] \in Vrf /\ LbOf[s] \in Lb
  BY DevicesAssumption
<1>8. \A x \in Vrf \cup Lb \cup Svi \cup Bp : x \in Names
  BY <1>1 DEF Obj, Vpn
<1>9. \A l \in Lb : VlanLink(l) \in Names
  BY <1>3, <1>6 DEF VlanLink
<1>10. QED
  BY <1>1, <1>2, <1>4, <1>5, <1>6, <1>7, <1>8, <1>9

\* Two lists of calls one after the other.
LEMMA QuietTogether ==
    ASSUME NEW a \in Seq(Quiet), NEW b \in Seq(Quiet)
    PROVE  a \o b \in Seq(Quiet)
OBVIOUS

\* The calls for the bridges of a port.
LEMMA QuietPerBridge ==
    ASSUME NEW b \in Bp, NEW calls \in [Lb -> Seq(Quiet)]
    PROVE  PerBridge(b, calls) \in Seq(Quiet)
<1> DEFINE N == Cardinality(LbsOf[b])
           order == SetToSeq(LbsOf[b])
           ss == [i \in 1..N |-> calls[order[i]]]
<1>1. LbsOf[b] \subseteq Lb /\ IsFiniteSet(LbsOf[b])
  BY DevicesAssumption, FS_Subset
<1>2. N \in Nat
  BY <1>1, FS_CardinalityType
<1>3. \E f \in [1..N -> LbsOf[b]] : IsInjective(f)
  <2>1. ExistsBijection(1..N, LbsOf[b])
    BY <1>1, FS_CardinalityType
  <2>2. PICK f : f \in Bijection(1..N, LbsOf[b])
    BY <2>1 DEF ExistsBijection
  <2>3. QED
    BY <2>2 DEF IsInjective, Bijection, Injection
<1>4. order \in [1..N -> LbsOf[b]]
  BY <1>3 DEF SetToSeq
<1> HIDE DEF order, N
<1>5. ss \in Seq(Seq(Quiet))
  <2>1. \A i \in 1..N : calls[order[i]] \in Seq(Quiet)
    BY <1>1, <1>4
  <2>2. QED
    BY <1>2, <2>1
<1>6. PerBridge(b, calls) = FlattenSeq(ss)
  BY DEF PerBridge, order, N
<1>7. QED
  BY <1>5, <1>6, FlattenFacts

\* The functions for bridges, SVIs and ports assign no table.
LEMMA QuietBridges ==
    \A l \in Lb : lgm_setUpBridge(l) \in Seq(Quiet) /\ lgm_tearDownBridge(l) \in Seq(Quiet)
<1> SUFFICES ASSUME NEW l \in Lb
             PROVE  lgm_setUpBridge(l) \in Seq(Quiet) /\ lgm_tearDownBridge(l) \in Seq(Quiet)
  OBVIOUS
<1>1. Tenant \in Names /\ VlanLink(l) \in Names /\ VlanOf[l] \in Names
  BY NamesOfObjects
<1>2. lgm_setUpBridge(l) \in Seq(Quiet)
  BY <1>1, CallsOnNames DEF lgm_setUpBridge
<1>3. lgm_tearDownBridge(l) \in Seq(Quiet)
  BY <1>1, CallsOnNames DEF lgm_tearDownBridge
<1>4. QED
  BY <1>2, <1>3

LEMMA QuietSvis ==
    \A s \in Svi : /\ lgm_setUpSvi(s) \in Seq(Quiet) /\ lgm_tearDownSvi(s) \in Seq(Quiet)
                   /\ frr_setUpSvi(s) \in Seq(Quiet) /\ frr_tearDownSvi(s) \in Seq(Quiet)
<1> SUFFICES ASSUME NEW s \in Svi
             PROVE  /\ lgm_setUpSvi(s) \in Seq(Quiet) /\ lgm_tearDownSvi(s) \in Seq(Quiet)
                    /\ frr_setUpSvi(s) \in Seq(Quiet) /\ frr_tearDownSvi(s) \in Seq(Quiet)
  OBVIOUS
<1>1. /\ Tenant \in Names /\ SviLink(s) \in Names /\ LbOf[s] \in Names /\ VlanOf[LbOf[s]] \in Names
      /\ VrfLink(VrfOf[s]) \in Names /\ Neighbor(s) \in Names /\ <<"bgp", VrfOf[s]>> \in Names
  BY NamesOfObjects
<1>2. lgm_setUpSvi(s) \in Seq(Quiet)
  BY <1>1, CallsOnNames DEF lgm_setUpSvi
<1>3. lgm_tearDownSvi(s) \in Seq(Quiet)
  BY <1>1, CallsOnNames DEF lgm_tearDownSvi
<1>4. /\ << GetLB(LbOf[s]) >> \in Seq(Quiet) /\ << >> \in Seq(Quiet)
      /\ << Conf(<<"bgp", VrfOf[s]>>), Conf(Neighbor(s)) >> \in Seq(Quiet)
      /\ << Conf(<<"bgp", VrfOf[s]>>), NoConf(Neighbor(s)) >> \in Seq(Quiet)
  BY <1>1, CallsOnNames
<1>5. frr_setUpSvi(s) \in Seq(Quiet) /\ frr_tearDownSvi(s) \in Seq(Quiet)
  BY <1>4, QuietTogether DEF frr_setUpSvi, frr_tearDownSvi
<1>6. QED
  BY <1>2, <1>3, <1>5

LEMMA QuietPorts ==
    \A b \in Bp : lci_setUpBp(b) \in Seq(Quiet) /\ lci_tearDownBp(b) \in Seq(Quiet)
<1> SUFFICES ASSUME NEW b \in Bp
             PROVE  lci_setUpBp(b) \in Seq(Quiet) /\ lci_tearDownBp(b) \in Seq(Quiet)
  OBVIOUS
<1> DEFINE onBridge == [l \in Lb |-> << GetLB(l), BridgeVlanAdd(Port(b), VlanOf[l]) >>]
           offBridge == [l \in Lb |-> << GetLB(l), BridgeVlanDel(Port(b), VlanOf[l]) >>]
<1>1. Tenant \in Names /\ Port(b) \in Names /\ \A l \in Lb : l \in Names /\ VlanOf[l] \in Names
  BY NamesOfObjects
<1>2. onBridge \in [Lb -> Seq(Quiet)] /\ offBridge \in [Lb -> Seq(Quiet)]
  BY <1>1, CallsOnNames
<1> HIDE DEF onBridge, offBridge
<1>3. PerBridge(b, onBridge) \in Seq(Quiet) /\ PerBridge(b, offBridge) \in Seq(Quiet)
  BY <1>2, QuietPerBridge
<1>4. /\ << LinkByName(Tenant), LinkByName(Port(b)), LinkSetMaster(Port(b), Tenant) >> \in Seq(Quiet)
      /\ << LinkSetUp(Port(b)) >> \in Seq(Quiet)
      /\ << LinkByName(Port(b)), LinkSetDown(Port(b)) >> \in Seq(Quiet)
      /\ << LinkDel(Port(b)) >> \in Seq(Quiet)
  BY <1>1, CallsOnNames
<1>5. /\ << LinkByName(Tenant), LinkByName(Port(b)), LinkSetMaster(Port(b), Tenant) >>
           \o PerBridge(b, onBridge) \o << LinkSetUp(Port(b)) >> \in Seq(Quiet)
      /\ << LinkByName(Port(b)), LinkSetDown(Port(b)) >>
           \o PerBridge(b, offBridge) \o << LinkDel(Port(b)) >> \in Seq(Quiet)
  BY <1>3, <1>4, QuietTogether
<1>6. QED
  BY <1>5 DEF lci_setUpBp, lci_tearDownBp, onBridge, offBridge

\* Of the functions for VRFs only LGM's set-up assigns a table.
LEMMA QuietVrfs ==
    ASSUME db \in [Obj -> Object]
    PROVE  \A v \in Vrf : /\ lgm_tearDownVrf(v) \in Seq(Quiet)
                          /\ frr_setUpVrf(v) \in Seq(Quiet) /\ frr_tearDownVrf(v) \in Seq(Quiet)
<1> SUFFICES ASSUME NEW v \in Vrf
             PROVE  /\ lgm_tearDownVrf(v) \in Seq(Quiet)
                    /\ frr_setUpVrf(v) \in Seq(Quiet) /\ frr_tearDownVrf(v) \in Seq(Quiet)
  OBVIOUS
<1>1. /\ v \in Names /\ VrfLink(v) \in Names /\ BrLink(v) \in Names /\ VxlanLink(v) \in Names
      /\ <<"vni", v>> \in Names /\ <<"bgp", v>> \in Names
  BY NamesOfObjects
<1>2. db[v].table \in Names
  <2>1. db[v].table \in 0..NoTable
    BY DEF Object, Obj, Vpn
  <2>2. QED
    BY <2>1, NamesOfObjects, DevicesAssumption DEF NoTable
<1>3. (db[v].table = NoTable) \in Names /\ (v \notin WithVni) \in Names
  BY NamesOfObjects
<1>4. /\ << LinkOrGone(VrfLink(v)) >> \in Seq(Quiet) /\ << >> \in Seq(Quiet)
      /\ << Deref(db[v].table = NoTable) >> \in Seq(Quiet)
      /\ << LinkByName(VxlanLink(v)), LinkDel(VxlanLink(v)),
            LinkByName(BrLink(v)), LinkDel(BrLink(v)) >> \in Seq(Quiet)
      /\ << RouteFlush(db[v].table), LinkDel(VrfLink(v)) >> \in Seq(Quiet)
  BY <1>1, <1>2, <1>3, CallsOnNames
<1>5. lgm_tearDownVrf(v) \in Seq(Quiet)
  BY <1>4, QuietTogether DEF lgm_tearDownVrf
<1>6. frr_setUpVrf(v) \in Seq(Quiet)
  BY <1>1, CallsOnNames DEF frr_setUpVrf
<1>7. frr_tearDownVrf(v) \in Seq(Quiet)
  BY <1>1, <1>3, CallsOnNames DEF frr_tearDownVrf
<1>8. QED
  BY <1>5, <1>6, <1>7

\* LGM's set-up of a VRF assigns the table of its identifier and no other.
LEMMA SetUpVrfAssigns ==
    ASSUME NEW v \in Vrf, GetID(v) \in Nat
    PROVE  lgm_setUpVrf(v) \in Seq(Quiet \cup {LinkAddVrf(v, GetID(v))})
<1> DEFINE All == Quiet \cup {LinkAddVrf(v, GetID(v))}
<1>1. /\ VrfLink(v) \in Names /\ BrLink(v) \in Names /\ VxlanLink(v) \in Names
      /\ GetID(v) \in Names /\ "local" \in Names
  BY NamesOfObjects
<1>2. << RouteList(GetID(v)), RouteList("local") >> \in Seq(All)
  BY <1>1, CallsOnNames
<1>3. << RouteList(GetID(v)), RouteList("local"), LinkAddVrf(v, GetID(v)),
         LinkByName(VrfLink(v)), LinkSetAttr(VrfLink(v)), LinkSetUp(VrfLink(v)),
         AddrAdd(VrfLink(v)), RouteAdd(GetID(v)) >> \in Seq(All)
  BY <1>1, CallsOnNames
<1>4. << LinkAdd(BrLink(v)), LinkByName(BrLink(v)), LinkSetAttr(BrLink(v)),
         LinkByName(VrfLink(v)), LinkSetMaster(BrLink(v), VrfLink(v)),
         LinkSetUp(BrLink(v)), LinkAdd(VxlanLink(v)), LinkByName(VxlanLink(v)),
         LinkSetMaster(VxlanLink(v), BrLink(v)), LinkSetUp(VxlanLink(v)) >> \in Seq(All)
  BY <1>1, CallsOnNames
<1>5. << >> \in Seq(All)
  OBVIOUS
<1> HIDE DEF All
<1>6. \A a, b \in Seq(All) : a \o b \in Seq(All)
  OBVIOUS
<1>7. lgm_setUpVrf(v) \in Seq(All)
  BY <1>3, <1>4, <1>5, <1>6 DEF lgm_setUpVrf
<1>8. QED
  BY <1>7 DEF All

\* A handler's calls: a table is only assigned to the VRF that LGM sets up, and
\* it is the one that the handler reports.
LEMMA CallsFacts ==
    ASSUME db \in [Obj -> Object], \A v \in Vrf : GetID(v) \in 0..MaxTable,
           NEW o \in Obj, NEW m \in Range(Subs(o))
    PROVE  /\ Len(Calls(m, o)) \in Nat
           /\ \A i \in 1..Len(Calls(m, o)) :
                 Calls(m, o)[i].op = "LinkAddVrf" /\ Calls(m, o)[i].arg # 0 =>
                    /\ o \in Vrf /\ Calls(m, o)[i].link = o /\ Calls(m, o)[i].arg = GetID(o)
                    /\ TableOf(m, o, TRUE) # NoTable
<1> DEFINE All == Quiet \cup {LinkAddVrf(o, GetID(o))}
           SetsUp == m = "lgm" /\ o \in Vrf \ {Grd} /\ ~ Leaving(o)
<1>1. \A c \in Quiet : c.op # "LinkAddVrf"
  BY DEF Quiet, Ops
<1>2. \/ o \in Vrf /\ m \in {"lgm", "frr"}
      \/ o \in Lb /\ m = "lgm"
      \/ o \in Svi /\ m \in {"lgm", "frr"}
      \/ o \in Bp /\ m = "lci"
  BY DEF Subs, Range, Obj, Vpn
<1>3. ASSUME ~ SetsUp PROVE Calls(m, o) \in Seq(Quiet)
  <2>1. CASE o \in Lb /\ m = "lgm"
    <3>1. o \notin Svi /\ o \notin Vrf
      BY <2>1, DevicesAssumption
    <3>2. Calls(m, o) = lgm_handleLB(o)
      BY <2>1, <3>1 DEF Calls
    <3>3. QED
      BY <2>1, <3>2, QuietBridges DEF lgm_handleLB
  <2>2. CASE o \in Svi /\ m = "lgm"
    <3>1. o \notin Lb /\ o \notin Vrf
      BY <2>2, DevicesAssumption
    <3>2. QED
      BY <2>2, <3>1, QuietSvis DEF Calls, lgm_handlesvi
  <2>3. CASE o \in Svi /\ m = "frr"
    <3>1. o \notin Lb /\ o \notin Vrf
      BY <2>3, DevicesAssumption
    <3>2. QED
      BY <2>3, <3>1, QuietSvis DEF Calls, frr_handlesvi
  <2>4. CASE o \in Bp /\ m = "lci"
    BY <2>4, QuietPorts DEF Calls, lci_handlebp
  <2>5. CASE o \in Vrf /\ m = "frr"
    <3>1. o \notin Svi /\ o \notin Lb
      BY <2>5, DevicesAssumption
    <3>2. Calls(m, o) = frr_handlevrf(o)
      BY <2>5, <3>1 DEF Calls
    <3>3. QED
      BY <2>5, <3>2, QuietVrfs DEF frr_handlevrf
  <2>6. CASE o \in Vrf /\ m = "lgm"
    <3>1. o \notin Lb /\ o \notin Svi
      BY <2>6, DevicesAssumption
    <3>2. Calls(m, o) = IF Leaving(o) THEN lgm_tearDownVrf(o) ELSE lgm_setUpVrf(o)
      BY <2>6, <3>1 DEF Calls, lgm_handlevrf
    <3>3. CASE Leaving(o)
      BY <2>6, <3>2, <3>3, QuietVrfs
    <3>4. CASE ~ Leaving(o)
      <4>1. lgm_setUpVrf(o) = << >>
        BY <1>3, <2>6, <3>4 DEF lgm_setUpVrf
      <4>2. QED
        BY <3>2, <3>4, <4>1
    <3>5. QED
      BY <3>3, <3>4
  <2>7. QED
    BY <1>2, <2>1, <2>2, <2>3, <2>4, <2>5, <2>6
<1>4. ASSUME SetsUp PROVE Calls(m, o) \in Seq(All)
  <2>1. o \notin Lb /\ o \notin Svi /\ GetID(o) \in Nat
    BY <1>4, DevicesAssumption
  <2>2. Calls(m, o) = lgm_setUpVrf(o)
    BY <1>4, <2>1 DEF Calls, lgm_handlevrf
  <2>3. QED
    BY <1>4, <2>1, <2>2, SetUpVrfAssigns
<1>5. ASSUME SetsUp PROVE TableOf(m, o, TRUE) # NoTable
  <2>1. TableOf(m, o, TRUE) = GetID(o) /\ GetID(o) \in 0..MaxTable
    BY <1>5 DEF TableOf
  <2>2. MaxTable \in Nat /\ NoTable = MaxTable + 1
    BY DevicesAssumption DEF NoTable
  <2>3. GetID(o) # NoTable
    BY <2>1, <2>2
  <2>4. QED
    BY <2>1, <2>3, Zenon
<1>6. CASE ~ SetsUp
  <2>1. PICK cs \in Seq(Quiet) : cs = Calls(m, o)
    BY <1>3, <1>6
  <2>2. Len(cs) \in Nat /\ \A i \in 1..Len(cs) : cs[i] \in Quiet
    OBVIOUS
  <2>3. QED
    BY <1>1, <2>1, <2>2
<1>7. CASE SetsUp
  <2>1. PICK cs \in Seq(All) : cs = Calls(m, o)
    BY <1>4, <1>7
  <2>2. Len(cs) \in Nat /\ \A i \in 1..Len(cs) : cs[i] \in All
    OBVIOUS
  <2>3. \A c \in All : c.op = "LinkAddVrf" => c.link = o /\ c.arg = GetID(o)
    BY <1>1 DEF LinkAddVrf, Call
  <2> HIDE DEF All
  <2>4. QED
    BY <1>5, <1>7, <2>1, <2>2, <2>3
<1>8. QED
  BY <1>6, <1>7

-----------------------------------------------------------------------------
(* Identifiers *)

\* An identifier is a table's number, and a new one is the number after the
\* last.
LEMMA GetIDFacts ==
    ASSUME ids \in [Vrf -> 0..MaxTable], IdsSound, NEW v \in Vrf
    PROVE  /\ GetID(v) \in 0..MaxTable
           /\ ids[v] # 0 => GetID(v) = ids[v]
           /\ ids[v] = 0 /\ GetID(v) # 0 => GetID(v) = Cardinality(Numbered) + 1
<1> DEFINE used == Cardinality(Numbered)
<1>1. used \in Nat
  BY FS_CardinalityType DEF IdsSound
<1>2. GetID(v) = IF ids[v] # 0 THEN ids[v] ELSE IF used < MaxTable THEN used + 1 ELSE 0
  BY DEF GetID, Numbered
<1> HIDE DEF used
<1>3. MaxTable \in Nat
  BY DevicesAssumption
<1>4. QED
  BY <1>1, <1>2, <1>3 DEF used

\* When a name has been given its identifier no name has lost its own, and the
\* names' identifiers are still their own.
LEMMA IdsKept ==
    ASSUME ids \in [Vrf -> 0..MaxTable], IdsSound, NEW o \in Vrf, ids' = [ids EXCEPT ![o] = GetID(o)]
    PROVE  /\ ids' \in [Vrf -> 0..MaxTable] /\ IdsSound'
           /\ \A v \in Numbered : v \in Numbered' /\ ids'[v] = ids[v]
           /\ GetID(o) # 0 => o \in Numbered' /\ ids'[o] = GetID(o)
<1>1. /\ GetID(o) \in 0..MaxTable
      /\ ids[o] # 0 => GetID(o) = ids[o]
      /\ ids[o] = 0 /\ GetID(o) # 0 => GetID(o) = Cardinality(Numbered) + 1
  BY GetIDFacts
<1>2. ids' \in [Vrf -> 0..MaxTable]
  BY <1>1
<1>3. Cardinality(Numbered) \in Nat /\ IsFiniteSet(Numbered)
  BY FS_CardinalityType DEF IdsSound
<1>4. \A v \in Vrf : ids'[v] = IF v = o THEN GetID(o) ELSE ids[v]
  BY <1>1
<1>5. CASE GetID(o) = ids[o]
  <2>1. ids' = ids
    BY <1>5
  <2>2. Numbered' = Numbered
    BY <2>1 DEF Numbered
  <2>3. IdsSound'
    BY <2>1, <2>2 DEF IdsSound
  <2>4. GetID(o) # 0 => o \in Numbered
    BY <1>5 DEF Numbered
  <2>5. QED
    BY <1>2, <1>5, <2>1, <2>2, <2>3, <2>4
<1>6. CASE GetID(o) # ids[o]
  <2>1. ids[o] = 0 /\ GetID(o) = Cardinality(Numbered) + 1
    BY <1>1, <1>6
  <2>2. GetID(o) # 0
    BY <1>6, <2>1
  <2>3. o \notin Numbered /\ Numbered' = Numbered \cup {o}
    BY <1>4, <2>1, <2>2 DEF Numbered
  <2>4. IsFiniteSet(Numbered \cup {o}) /\ Cardinality(Numbered \cup {o}) = Cardinality(Numbered) + 1
    BY <1>3, <2>3, FS_AddElement
  <2>5. Cardinality(Numbered') = Cardinality(Numbered) + 1 /\ IsFiniteSet(Numbered')
    BY <2>3, <2>4
  <2>6. \A v \in Numbered : v # o /\ v \in Vrf /\ ids'[v] = ids[v] /\ ids[v] <= Cardinality(Numbered) /\ ids[v] \in Nat
    <3>1. \A v \in Numbered : v \in Vrf /\ ids[v] \in Nat
      BY DEF Numbered
    <3>2. QED
      BY <1>4, <2>3, <3>1 DEF IdsSound
  <2>7. ids'[o] = Cardinality(Numbered) + 1
    BY <1>4, <2>1
  <2>8. \A v \in Numbered' : ids'[v] <= Cardinality(Numbered')
    BY <1>3, <2>3, <2>5, <2>6, <2>7
  <2>9. \A v, w \in Numbered : ids[v] = ids[w] => v = w
    BY DEF IdsSound
  <2>10. \A v, w \in Numbered' : ids'[v] = ids'[w] => v = w
    BY <1>3, <2>3, <2>6, <2>7, <2>9
  <2>11. IdsSound'
    BY <2>5, <2>8, <2>10 DEF IdsSound
  <2>12. QED
    BY <1>2, <2>1, <2>3, <2>6, <2>7, <2>11
<1>7. QED
  BY <1>5, <1>6

-----------------------------------------------------------------------------
(* The steps *)

\* The invariant holds at the start.
LEMMA InitIInv == Init => IInv
<1> SUFFICES ASSUME Init PROVE IInv
  OBVIOUS
<1>1. MaxTable \in Nat /\ MaxOps \in Nat /\ MaxFaults \in Nat /\ MaxReplays \in Nat
  BY DevicesAssumption
<1>2. db \in [Obj -> Object]
  <2>1. Fresh \in [Modules -> {"Pending", "Success", "Error"}]
    BY DEF Fresh
  <2>2. 0 \in 0..MaxOps + MaxReplays /\ NoTable \in 0..NoTable
    BY <1>1 DEF NoTable
  <2>3. QED
    BY <2>1, <2>2 DEF Init, Object
<1>3. VersionsSound
  BY <1>1 DEF Init, VersionsSound, Stored
<1>4. ids \in [Vrf -> 0..MaxTable] /\ IdsSound
  <2>1. Numbered = {}
    BY DEF Init, Numbered
  <2>2. ids \in [Vrf -> 0..MaxTable]
    BY <1>1 DEF Init
  <2>3. QED
    BY <2>1, <2>2, FS_EmptySet DEF IdsSound
<1>5. HostOK(host) /\ TablesSound
  <2>1. \E L : host = [links |-> {Tenant} \cup L, up |-> {Tenant}, addr |-> {}, master |-> {},
                       vlans |-> {}, tables |-> {}, throw |-> {}, conf |-> {}]
    BY DEF Init, EmptyHost
  <2>2. QED
    BY <2>1 DEF HostOK, IsHost, TablesSound
<1>6. Counters
  BY <1>1 DEF Init, Counters
<1>7. QED
  BY <1>2, <1>3, <1>4, <1>5, <1>6 DEF Init, IInv, ReportsSound

\* A request counts as an operation.
LEMMA Counted ==
    ASSUME IInv, NEW o \in Obj, Request(o)
    PROVE  /\ ops' = ops + 1 /\ replays' = replays /\ ops \in Nat /\ replays \in Nat
           /\ ops + 1 <= MaxOps /\ Counters'
           /\ MaxOps \in Nat /\ MaxReplays \in Nat /\ replays <= MaxReplays
           /\ host' = host /\ ids' = ids /\ reports' = reports /\ alive' = alive
           /\ dropped' \subseteq Obj
<1>1. MaxOps \in Nat /\ MaxReplays \in Nat /\ MaxFaults \in Nat
  BY DevicesAssumption
<1>2. /\ ops' = ops + 1 /\ replays' = replays /\ ops < MaxOps /\ faults' = faults
      /\ host' = host /\ ids' = ids /\ reports' = reports /\ alive' = alive
  BY DEF Request
<1>3. ops \in 0..MaxOps /\ faults \in 0..MaxFaults /\ replays \in 0..MaxReplays
  BY DEF IInv, Counters
<1>4. dropped' \subseteq Obj
  BY DEF Request, IInv
<1>5. QED
  BY <1>1, <1>2, <1>3, <1>4 DEF Counters

\* When an object changes, what is in place is unaffected.
LEMMA HostKept ==
    ASSUME IInv, host' = host, ids' = ids
    PROVE  ids' \in [Vrf -> 0..MaxTable] /\ IdsSound' /\ HostOK(host)' /\ TablesSound'
<1>1. Numbered' = Numbered
  BY DEF Numbered
<1>2. QED
  BY <1>1 DEF IInv, IdsSound, HostOK, IsHost, TablesSound

\* A request gives an object its next version.
LEMMA RequestStep ==
    ASSUME IInv, NEW o \in Obj, Request(o), NEW x \in Object,
           x.ver = db[o].ver + 1, db' = [db EXCEPT ![o] = x], spoilt' \subseteq Obj
    PROVE  IInv'
<1>1. /\ ops' = ops + 1 /\ replays' = replays /\ ops \in Nat /\ replays \in Nat
      /\ Counters' /\ host' = host /\ ids' = ids /\ reports' = reports /\ alive' = alive
      /\ dropped' \subseteq Obj
  BY Counted
<1>2. ids' \in [Vrf -> 0..MaxTable] /\ IdsSound' /\ HostOK(host)' /\ TablesSound'
  BY <1>1, HostKept
<1>3. /\ db \in [Obj -> Object] /\ \A p \in Obj : db[p].ver \in Nat /\ db[p].ver <= ops + replays
      /\ \A p \in Obj : Stored(p) => db[p].ver >= 1
  BY DEF IInv, VersionsSound, Object
<1>4. db' \in [Obj -> Object] /\ \A p \in Obj : db'[p] = IF p = o THEN x ELSE db[p]
  BY <1>3
<1>5. VersionsSound'
  BY <1>1, <1>3, <1>4 DEF VersionsSound, Stored
<1>6. ReportsSound'
  <2>1. \A p \in Obj : db'[p].ver \in Nat /\ db[p].ver <= db'[p].ver
    BY <1>3, <1>4
  <2>2. \A r \in reports : r.obj \in Obj /\ r.ver \in 1..db[r.obj].ver
    BY DEF IInv, ReportsSound
  <2>3. \A r \in reports : r.ver \in 1..db'[r.obj].ver
    BY <1>3, <2>1, <2>2
  <2>4. \A r \in reports : r.mod \in Range(Subs(r.obj)) /\ r.ok \in BOOLEAN /\ r.table \in 0..NoTable
    BY DEF IInv, ReportsSound
  <2>5. QED
    BY <1>1, <2>2, <2>3, <2>4 DEF ReportsSound
<1>7. alive' \in BOOLEAN
  BY <1>1 DEF IInv
<1>8. QED
  BY <1>1, <1>2, <1>4, <1>5, <1>6, <1>7 DEF IInv

LEMMA CreateStep ==
    ASSUME IInv, NEW o \in Obj, Create(o)
    PROVE  IInv'
<1> DEFINE x == [oper |-> "Down", ver |-> db[o].ver + 1, st |-> Fresh, table |-> NoTable]
<1>1. Request(o) /\ db' = [db EXCEPT ![o] = x] /\ spoilt' = spoilt \cup {r \in RefsOf(o) : Leaving(r)}
  BY DEF Create
<1>2. /\ ops + 1 <= MaxOps /\ MaxOps \in Nat /\ MaxReplays \in Nat /\ replays <= MaxReplays
      /\ ops \in Nat /\ replays \in Nat
  BY <1>1, Counted
<1>3. db[o].ver \in Nat /\ db[o].ver <= ops + replays
  BY DEF IInv, VersionsSound, Object
<1>4. x \in Object
  <2>1. Fresh \in [Modules -> {"Pending", "Success", "Error"}]
    BY DEF Fresh
  <2>2. db[o].ver + 1 \in 0..MaxOps + MaxReplays
    BY <1>2, <1>3
  <2>3. NoTable \in 0..NoTable
    BY DevicesAssumption DEF NoTable
  <2>4. QED
    BY <2>1, <2>2, <2>3 DEF Object
<1>5. spoilt' \subseteq Obj
  <2>1. RefsOf(o) \subseteq Obj
    <3>1. o \in Svi => VrfOf[o] \in Vrf /\ LbOf[o] \in Lb
      BY DevicesAssumption
    <3>2. o \in Bp => LbsOf[o] \subseteq Lb
      BY DevicesAssumption
    <3>3. QED
      BY <3>1, <3>2 DEF RefsOf, Obj, Vpn
  <2>2. spoilt \subseteq Obj
    BY DEF IInv
  <2>3. QED
    BY <1>1, <2>1, <2>2
<1>6. x.ver = db[o].ver + 1
  OBVIOUS
<1> HIDE DEF x
<1>7. QED
  BY <1>1, <1>4, <1>5, <1>6, RequestStep

LEMMA DeleteStep ==
    ASSUME IInv, NEW o \in Obj, Delete(o)
    PROVE  IInv'
<1> DEFINE x == [oper |-> "ToBeDeleted", ver |-> db[o].ver + 1, st |-> Fresh, table |-> db[o].table]
<1>1. db[o] \in Object
  BY DEF IInv
<1>2. Request(o) /\ db' = [db EXCEPT ![o] = x] /\ spoilt' = spoilt
  <2>1. db[o] = [oper |-> db[o].oper, ver |-> db[o].ver, st |-> db[o].st, table |-> db[o].table]
    BY <1>1 DEF Object
  <2>2. db' = [db EXCEPT ![o].oper = "ToBeDeleted", ![o].ver = @ + 1, ![o].st = Fresh]
    BY DEF Delete
  <2>3. db \in [Obj -> Object]
    BY DEF IInv
  <2>4. db' = [p \in Obj |-> db'[p]] /\ \A p \in Obj : p # o => db'[p] = db[p]
    BY <2>2, <2>3
  <2>5. PICK z : z = db'[o]
    OBVIOUS
  <2>6. z = x
    BY <2>1, <2>2, <2>3, <2>5
  <2> HIDE DEF x
  <2>7. db' = [db EXCEPT ![o] = x]
    BY <2>3, <2>4, <2>5, <2>6
  <2>8. QED
    BY <2>7 DEF Delete
<1>3. /\ ops + 1 <= MaxOps /\ MaxOps \in Nat /\ MaxReplays \in Nat /\ replays <= MaxReplays
      /\ ops \in Nat /\ replays \in Nat
  BY <1>2, Counted
<1>4. db[o].ver \in Nat /\ db[o].ver <= ops + replays
  BY DEF IInv, VersionsSound, Object
<1>5. x \in Object
  <2>1. Fresh \in [Modules -> {"Pending", "Success", "Error"}]
    BY DEF Fresh
  <2>2. db[o].ver + 1 \in 0..MaxOps + MaxReplays
    BY <1>3, <1>4
  <2>3. db[o].table \in 0..NoTable
    BY <1>1 DEF Object
  <2>4. QED
    BY <2>1, <2>2, <2>3 DEF Object
<1>6. spoilt' \subseteq Obj
  BY <1>2 DEF IInv
<1>7. x.ver = db[o].ver + 1
  OBVIOUS
<1> HIDE DEF x
<1>8. QED
  BY <1>2, <1>5, <1>6, <1>7, RequestStep

\* A handler runs some of its calls and leaves a report.
LEMMA HandleStep ==
    ASSUME IInv, NEW o \in Obj, NEW m \in Modules, Handle(m, o)
    PROVE  IInv'
<1>1. /\ db \in [Obj -> Object] /\ VersionsSound /\ ids \in [Vrf -> 0..MaxTable] /\ IdsSound
      /\ ReportsSound /\ HostOK(host) /\ TablesSound /\ Counters
  BY DEF IInv
<1>2. m \in Range(Subs(o)) /\ Stored(o)
  BY DEF Handle, Range
<1>3. /\ ids' = IF TableOf(m, o, TRUE) = NoTable THEN ids ELSE [ids EXCEPT ![o] = GetID(o)]
      /\ db' = db /\ dropped' = dropped /\ ops' = ops /\ replays' = replays
  BY DEF Handle
<1> DEFINE calls == Calls(m, o)
<1>4. PICK n \in 0..Reach(calls) :
        /\ faults' = faults \/ (faults < MaxFaults /\ faults' = faults + 1)
        /\ host' = HostAfter(calls)[n]
        /\ alive' = ~Panics(calls, n)
        /\ reports' = reports \cup {[obj |-> o, mod |-> m, ver |-> db[o].ver, ok |-> Succeeds(calls, n),
                                     table |-> TableOf(m, o, Succeeds(calls, n))]}
        /\ spoilt' = spoilt \/ spoilt' = spoilt \cup {o}
  <2>1. PICK n \in 0..Reach(calls) :
          /\ IF n = Reach(calls) THEN UNCHANGED faults
             ELSE /\ faults < MaxFaults /\ faults' = faults + 1
                  /\ calls[n + 1].op # "Deref"
          /\ host' = HostAfter(calls)[n]
          /\ alive' = ~Panics(calls, n)
          /\ reports' = reports \cup {[obj |-> o, mod |-> m, ver |-> db[o].ver, ok |-> Succeeds(calls, n),
                                       table |-> TableOf(m, o, Succeeds(calls, n))]}
          /\ spoilt' = IF n < Reach(calls) /\ Succeeds(calls, n) THEN spoilt \cup {o} ELSE spoilt
    BY DEF Handle
  <2> HIDE DEF calls
  <2>2. QED
    BY <2>1
<1>5. \A v \in Vrf : GetID(v) \in 0..MaxTable
  BY <1>1, GetIDFacts
<1>6. /\ Len(calls) \in Nat
      /\ \A i \in 1..Len(calls) :
            calls[i].op = "LinkAddVrf" /\ calls[i].arg # 0 =>
               /\ o \in Vrf /\ calls[i].link = o /\ calls[i].arg = GetID(o)
               /\ TableOf(m, o, TRUE) # NoTable
  BY <1>1, <1>2, <1>5, CallsFacts
<1> HIDE DEF calls
<1>7. /\ HostOK(HostAfter(calls)[n])
      /\ \A p \in HostAfter(calls)[n].tables \ host.tables :
            \E i \in 1..Len(calls) : /\ calls[i].op = "LinkAddVrf" /\ calls[i].arg # 0
                                     /\ p = <<calls[i].link, calls[i].arg>>
  BY <1>1, <1>6, RunFacts
<1>8. HostOK(host)'
  BY <1>4, <1>7 DEF HostOK, IsHost
<1>9. /\ ids' \in [Vrf -> 0..MaxTable] /\ IdsSound'
      /\ \A v \in Numbered : v \in Numbered' /\ ids'[v] = ids[v]
      /\ o \in Vrf /\ TableOf(m, o, TRUE) # NoTable /\ GetID(o) # 0 => o \in Numbered' /\ ids'[o] = GetID(o)
  <2>1. CASE ids' = ids /\ TableOf(m, o, TRUE) = NoTable
    <3>1. Numbered' = Numbered
      BY <2>1 DEF Numbered
    <3>2. IdsSound'
      BY <1>1, <2>1, <3>1 DEF IdsSound
    <3>3. QED
      BY <1>1, <2>1, <3>1, <3>2
  <2>2. CASE ids' = [ids EXCEPT ![o] = GetID(o)] /\ TableOf(m, o, TRUE) # NoTable
    <3>1. o \in Vrf
      BY <2>2 DEF TableOf
    <3>2. QED
      BY <1>1, <2>2, <3>1, IdsKept
  <2>3. QED
    BY <1>3, <2>1, <2>2
<1>10. TablesSound'
  <2>1. ASSUME NEW p \in HostAfter(calls)[n].tables
        PROVE  \E v \in Numbered' : p = <<v, ids'[v]>>
    <3>1. CASE p \in host.tables
      <4>1. PICK v \in Numbered : p = <<v, ids[v]>>
        BY <1>1, <3>1 DEF TablesSound
      <4>2. QED
        BY <1>9, <4>1
    <3>2. CASE p \notin host.tables
      <4>1. PICK i \in 1..Len(calls) : /\ calls[i].op = "LinkAddVrf" /\ calls[i].arg # 0
                                       /\ p = <<calls[i].link, calls[i].arg>>
        BY <1>7, <3>2
      <4>2. o \in Vrf /\ p = <<o, GetID(o)>> /\ GetID(o) # 0 /\ TableOf(m, o, TRUE) # NoTable
        BY <1>6, <4>1
      <4>3. QED
        BY <1>9, <4>2
    <3>3. QED
      BY <3>1, <3>2
  <2>2. QED
    BY <1>4, <2>1 DEF TablesSound
<1>11. VersionsSound'
  BY <1>1, <1>3 DEF VersionsSound, Stored
<1>12. ReportsSound'
  <2>1. db[o].ver \in 1..db[o].ver
    <3>1. db[o].ver \in Nat /\ db[o].ver >= 1
      BY <1>1, <1>2 DEF VersionsSound, Object
    <3>2. QED
      BY <3>1
  <2>2. Succeeds(calls, n) \in BOOLEAN
    BY DEF Succeeds, Stops
  <2>3. \A done : TableOf(m, o, done) \in 0..NoTable
    <3>1. MaxTable \in Nat /\ NoTable = MaxTable + 1
      BY DevicesAssumption DEF NoTable
    <3>2. o \in Vrf => GetID(o) \in 0..MaxTable
      BY <1>5
    <3>3. QED
      BY <3>1, <3>2 DEF TableOf
  <2>4. PICK t : t = TableOf(m, o, Succeeds(calls, n))
    OBVIOUS
  <2>5. PICK ok : ok = Succeeds(calls, n)
    OBVIOUS
  <2>6. PICK new : new = [obj |-> o, mod |-> m, ver |-> db[o].ver, ok |-> ok, table |-> t]
    OBVIOUS
  <2>7. reports' = reports \cup {new}
    BY <1>4, <2>4, <2>5, <2>6
  <2>8. ok \in BOOLEAN /\ t \in 0..NoTable
    BY <2>2, <2>3, <2>4, <2>5
  <2>9. new.obj = o /\ new.mod = m /\ new.ver = db[o].ver /\ new.ok = ok /\ new.table = t
    BY <2>6
  <2>10. \A r \in reports : /\ r.obj \in Obj /\ r.mod \in Range(Subs(r.obj))
                            /\ r.ver \in 1..db'[r.obj].ver /\ r.ok \in BOOLEAN
                            /\ r.table \in 0..NoTable
    BY <1>1, <1>3 DEF ReportsSound
  <2>11. /\ new.obj \in Obj /\ new.mod \in Range(Subs(new.obj))
         /\ new.ver \in 1..db'[new.obj].ver /\ new.ok \in BOOLEAN
         /\ new.table \in 0..NoTable
    BY <1>2, <1>3, <2>1, <2>8, <2>9
  <2>12. QED
    BY <2>7, <2>10, <2>11 DEF ReportsSound
<1>13. Counters' /\ alive' \in BOOLEAN /\ dropped' \subseteq Obj /\ spoilt' \subseteq Obj
  <2>1. faults' \in 0..MaxFaults
    BY <1>1, <1>4, DevicesAssumption DEF Counters
  <2>2. Counters'
    BY <1>1, <1>3, <2>1 DEF Counters
  <2>3. alive' \in BOOLEAN
    BY <1>4 DEF Panics, Stops
  <2>4. dropped' \subseteq Obj /\ spoilt' \subseteq Obj
    BY <1>3, <1>4 DEF IInv
  <2>5. QED
    BY <2>2, <2>3, <2>4
<1>14. db' \in [Obj -> Object]
  BY <1>1, <1>3
<1>15. QED
  BY <1>8, <1>9, <1>10, <1>11, <1>12, <1>13, <1>14 DEF IInv

\* A step that takes reports and changes objects keeps the invariant when the
\* versions do not go back and the host stays in order.
LEMMA StoreStep ==
    ASSUME IInv, reports' \subseteq reports, db' \in [Obj -> Object],
           \A o \in Obj : db[o].ver <= db'[o].ver,
           VersionsSound', HostOK(host)', host'.tables = host.tables, ids' = ids, alive' = alive,
           spoilt' = spoilt, dropped' \subseteq Obj, Counters'
    PROVE  IInv'
<1>1. ids' \in [Vrf -> 0..MaxTable] /\ IdsSound' /\ TablesSound'
  <2>1. Numbered' = Numbered
    BY DEF Numbered
  <2>2. QED
    BY <2>1 DEF IInv, IdsSound, TablesSound
<1>2. ReportsSound'
  <2>1. \A r \in reports' : /\ r.obj \in Obj /\ r.mod \in Range(Subs(r.obj))
                            /\ r.ver \in 1..db[r.obj].ver /\ r.ok \in BOOLEAN
                            /\ r.table \in 0..NoTable
    BY DEF IInv, ReportsSound
  <2>2. \A o \in Obj : db[o].ver \in Nat /\ db'[o].ver \in Nat
    BY DEF IInv, Object
  <2>3. \A r \in reports' : r.ver \in 1..db'[r.obj].ver
    BY <2>1, <2>2
  <2>4. QED
    BY <2>1, <2>3 DEF ReportsSound
<1>3. alive' \in BOOLEAN /\ spoilt' \subseteq Obj
  BY DEF IInv
<1>4. QED
  BY <1>1, <1>2, <1>3 DEF IInv

\* What a report makes of an object is an object of the same version.
LEMMA UpdatedFacts ==
    ASSUME IInv, NEW r \in reports
    PROVE  /\ Updated(r) \in Object /\ Updated(r).ver = db[r.obj].ver
           /\ [Updated(r) EXCEPT !.oper = "Up"] \in Object
           /\ [Updated(r) EXCEPT !.oper = "Up"].ver = db[r.obj].ver
           /\ [db[r.obj] EXCEPT !.oper = "Absent", !.st = Fresh, !.table = NoTable] \in Object
           /\ [db[r.obj] EXCEPT !.oper = "Absent", !.st = Fresh, !.table = NoTable].ver = db[r.obj].ver
<1>1. PICK y : y = db[r.obj]
  OBVIOUS
<1>2. y \in Object /\ r.table \in 0..NoTable /\ r.mod \in Modules
  <2>1. r.obj \in Obj /\ r.mod \in Range(Subs(r.obj)) /\ r.table \in 0..NoTable
    BY DEF IInv, ReportsSound
  <2>2. Range(Subs(r.obj)) \subseteq Modules
    BY DEF Subs, Modules, Range
  <2>3. QED
    BY <1>1, <2>1, <2>2 DEF IInv
<1>3. PICK s : s = [y.st EXCEPT ![r.mod] = IF r.ok THEN "Success" ELSE "Error"]
  OBVIOUS
<1>4. s \in [Modules -> {"Pending", "Success", "Error"}]
  BY <1>2, <1>3 DEF Object
<1>5. PICK t : t = IF r.table = NoTable THEN y.table ELSE r.table
  OBVIOUS
<1>6. t \in 0..NoTable
  BY <1>2, <1>5 DEF Object
<1>7. PICK u : u = Updated(r)
  OBVIOUS
<1>8. u = [oper |-> y.oper, ver |-> y.ver, st |-> s, table |-> t]
  <2>1. u = [y EXCEPT !.st[r.mod] = IF r.ok THEN "Success" ELSE "Error",
                      !.table = IF r.table = NoTable THEN @ ELSE r.table]
    BY <1>1, <1>7 DEF Updated
  <2>2. y = [oper |-> y.oper, ver |-> y.ver, st |-> y.st, table |-> y.table]
    BY <1>2 DEF Object
  <2>3. QED
    BY <1>3, <1>5, <2>1, <2>2
<1>9. /\ u \in Object /\ u.ver = y.ver
      /\ [u EXCEPT !.oper = "Up"] \in Object /\ [u EXCEPT !.oper = "Up"].ver = y.ver
  BY <1>2, <1>4, <1>6, <1>8 DEF Object
<1>10. /\ [y EXCEPT !.oper = "Absent", !.st = Fresh, !.table = NoTable] \in Object
       /\ [y EXCEPT !.oper = "Absent", !.st = Fresh, !.table = NoTable].ver = y.ver
  <2>1. Fresh \in [Modules -> {"Pending", "Success", "Error"}] /\ NoTable \in 0..NoTable
    BY DevicesAssumption DEF Fresh, NoTable
  <2>2. QED
    BY <1>2, <2>1 DEF Object
<1>11. QED
  BY <1>1, <1>7, <1>9, <1>10

\* A report changes its object, whose version stays; an object that is gone is
\* not stored.
LEMMA ReportStep ==
    ASSUME IInv, NEW r \in reports, Report(r)
    PROVE  IInv'
<1>1. PICK x \in Object : /\ x.ver = db[r.obj].ver
                          /\ x.oper # "Absent" => Stored(r.obj)
                          /\ db' = [db EXCEPT ![r.obj] = x] \/ db' = db
  <2> DEFINE u == Updated(r)
             gone == [db[r.obj] EXCEPT !.oper = "Absent", !.st = Fresh, !.table = NoTable]
             up == [Updated(r) EXCEPT !.oper = "Up"]
             y == IF ~AllSuccess(u, r.obj) THEN u ELSE IF Leaving(r.obj) THEN gone ELSE up
  <2>1. y \in Object /\ y.ver = db[r.obj].ver
    BY UpdatedFacts
  <2>2. db' = IF ~Current(r) THEN db ELSE [db EXCEPT ![r.obj] = y]
    BY DEF Report
  <2> HIDE DEF y
  <2>3. CASE ~ Current(r)
    <3>1. r.obj \in Obj /\ db[r.obj] \in Object
      BY DEF IInv, ReportsSound
    <3>2. db[r.obj].oper # "Absent" => Stored(r.obj)
      BY DEF Stored
    <3>3. QED
      BY <2>2, <2>3, <3>1, <3>2
  <2>4. CASE Current(r)
    <3>1. Stored(r.obj)
      BY <2>4 DEF Current
    <3>2. QED
      BY <2>1, <2>2, <2>4, <3>1
  <2>5. QED
    BY <2>3, <2>4
<1>2. /\ reports' \subseteq reports /\ host' = host /\ ids' = ids /\ alive' = alive /\ spoilt' = spoilt
      /\ dropped' = dropped /\ ops' = ops /\ faults' = faults /\ replays' = replays
  BY DEF Report
<1>3. db \in [Obj -> Object] /\ r.obj \in Obj /\ \A o \in Obj : db[o].ver \in Nat
  BY DEF IInv, ReportsSound, Object
<1>4. db' \in [Obj -> Object] /\ \A o \in Obj : db'[o].ver = db[o].ver /\ (Stored(o)' => Stored(o))
  <2>1. CASE db' = db
    BY <1>3, <2>1 DEF Stored
  <2>2. CASE db' = [db EXCEPT ![r.obj] = x]
    <3>1. db' \in [Obj -> Object] /\ \A o \in Obj : db'[o] = IF o = r.obj THEN x ELSE db[o]
      BY <1>3, <2>2
    <3>2. QED
      BY <1>1, <3>1 DEF Stored
  <2>3. QED
    BY <1>1, <2>1, <2>2
<1>5. VersionsSound'
  BY <1>2, <1>4 DEF IInv, VersionsSound
<1>6. dropped' \subseteq Obj /\ Counters'
  BY <1>2 DEF IInv, Counters
<1>7. \A o \in Obj : db[o].ver <= db'[o].ver
  BY <1>3, <1>4
<1>8. HostOK(host)' /\ host'.tables = host.tables
  BY <1>2, HostKept
<1>9. QED
  BY <1>2, <1>4, <1>5, <1>6, <1>7, <1>8, StoreStep

\* A handler that asks for a replay uses one up.
LEMMA AskStep ==
    ASSUME IInv, NEW r \in reports, AsksForReplay(r)
    PROVE  /\ reports' \subseteq reports /\ ids' = ids /\ alive' = alive /\ spoilt' = spoilt
           /\ ops' = ops /\ replays' = replays + 1 /\ Counters' /\ replays + 1 <= MaxReplays
           /\ ops \in Nat /\ replays \in Nat /\ MaxOps \in Nat /\ MaxReplays \in Nat /\ ops <= MaxOps
<1>1. MaxOps \in Nat /\ MaxReplays \in Nat /\ MaxFaults \in Nat
  BY DevicesAssumption
<1>2. ops \in 0..MaxOps /\ faults \in 0..MaxFaults /\ replays \in 0..MaxReplays
  BY DEF IInv, Counters
<1>3. /\ reports' \subseteq reports /\ ids' = ids /\ alive' = alive /\ spoilt' = spoilt
      /\ ops' = ops /\ faults' = faults /\ replays < MaxReplays /\ replays' = replays + 1
  BY DEF AsksForReplay
<1>4. QED
  BY <1>1, <1>2, <1>3 DEF Counters

\* FRR is emptied by a replay, complete or not.
Empties(r) == \E R \in SUBSET Configured : Restarted(r, R)

LEMMA ReplaysEmpty ==
    ASSUME NEW r \in reports, Replay(r) \/ ReplayBreaksOff(r)
    PROVE  Empties(r)
<1>1. ASSUME Replay(r) PROVE Empties(r)
  BY <1>1 DEF Replay, Empties
<1>2. ASSUME ReplayBreaksOff(r) PROVE Empties(r)
  BY <1>2 DEF ReplayBreaksOff, Empties
<1>3. QED
  BY <1>1, <1>2

LEMMA ReplayFailsStep ==
    ASSUME IInv, NEW r \in reports, ReplayFails(r)
    PROVE  IInv'
<1>1. AsksForReplay(r) /\ host' = host /\ db' = db /\ dropped' = dropped \cup {r.obj}
  BY DEF ReplayFails
<1>2. /\ reports' \subseteq reports /\ ids' = ids /\ alive' = alive /\ spoilt' = spoilt
      /\ ops' = ops /\ replays' = replays + 1 /\ Counters'
      /\ ops \in Nat /\ replays \in Nat
  BY <1>1, AskStep
<1>3. db' \in [Obj -> Object] /\ \A o \in Obj : db[o].ver \in Nat /\ db[o].ver <= db'[o].ver
  BY <1>1 DEF IInv, Object
<1>4. VersionsSound'
  <2>1. \A o \in Obj : db[o].ver <= ops + replays /\ (Stored(o) => db[o].ver >= 1)
    BY DEF IInv, VersionsSound
  <2>2. QED
    BY <1>1, <1>2, <1>3, <2>1 DEF VersionsSound, Stored
<1>5. r.obj \in Obj /\ dropped \subseteq Obj
  BY DEF IInv, ReportsSound
<1>6. HostOK(host)' /\ host'.tables = host.tables
  BY <1>1, <1>2, HostKept
<1>7. dropped' \subseteq Obj
  BY <1>1, <1>5
<1>8. QED
  BY <1>2, <1>3, <1>4, <1>6, <1>7, StoreStep

\* Preparing an object for a replay gives it its next version.
LEMMA PreparedFacts ==
    ASSUME NEW x \in Object, x.ver + 1 \in 0..MaxOps + MaxReplays
    PROVE  Prepared(x) \in Object /\ Prepared(x).ver = x.ver + 1 /\ (x.oper # "Absent" <=> Prepared(x).oper # "Absent")
<1>1. PICK oper : oper = IF x.oper = "Up" THEN "Down" ELSE x.oper
  OBVIOUS
<1>2. PICK st : st = [m \in Modules |-> IF m = "frr" \/ x.st[m] # "Success" THEN "Pending" ELSE x.st[m]]
  OBVIOUS
<1>3. oper \in {"Absent", "Down", "Up", "ToBeDeleted"} /\ (x.oper # "Absent" <=> oper # "Absent")
  BY <1>1 DEF Object
<1>4. st \in [Modules -> {"Pending", "Success", "Error"}]
  BY <1>2 DEF Object
<1>5. PICK y : y = Prepared(x)
  OBVIOUS
<1>6. y = [oper |-> oper, ver |-> x.ver + 1, st |-> st, table |-> x.table]
  <2>1. x = [oper |-> x.oper, ver |-> x.ver, st |-> x.st, table |-> x.table]
    BY DEF Object
  <2>2. y = [x EXCEPT !.oper = oper, !.ver = @ + 1, !.st = st]
    BY <1>1, <1>2, <1>5 DEF Prepared
  <2>3. QED
    BY <2>1, <2>2
<1>7. y \in Object /\ y.ver = x.ver + 1 /\ y.oper = oper
  BY <1>3, <1>4, <1>6 DEF Object
<1>8. QED
  BY <1>3, <1>5, <1>7

LEMMA ReplayStep ==
    ASSUME IInv, NEW r \in reports, Replay(r) \/ ReplayBreaksOff(r)
    PROVE  IInv'
<1>0. PICK R \in SUBSET Configured : Restarted(r, R)
  BY ReplaysEmpty DEF Empties
<1>1. /\ AsksForReplay(r) /\ host' = [host EXCEPT !.conf = {}]
      /\ db' = [o \in Obj |-> IF o \in R THEN Prepared(db[o]) ELSE db[o]]
  BY <1>0 DEF Restarted
<1>2. /\ reports' \subseteq reports /\ ids' = ids /\ alive' = alive /\ spoilt' = spoilt
      /\ ops' = ops /\ replays' = replays + 1 /\ Counters' /\ replays + 1 <= MaxReplays
      /\ ops \in Nat /\ replays \in Nat /\ MaxOps \in Nat /\ MaxReplays \in Nat /\ ops <= MaxOps
  BY <1>1, AskStep
<1>3. \A o \in Obj : /\ db[o] \in Object /\ db[o].ver \in Nat /\ db[o].ver <= ops + replays
                     /\ Stored(o) => db[o].ver >= 1
  BY DEF IInv, VersionsSound, Object
<1>4. ASSUME NEW o \in Obj
      PROVE  /\ db'[o] \in Object /\ db'[o].ver \in {db[o].ver, db[o].ver + 1}
             /\ db[o].oper # "Absent" <=> db'[o].oper # "Absent"
  <2>1. db[o].ver + 1 \in 0..MaxOps + MaxReplays
    BY <1>2, <1>3
  <2>2. PICK x \in Object : x = db[o]
    BY <1>3
  <2>3. /\ Prepared(x) \in Object /\ Prepared(x).ver = x.ver + 1
        /\ x.oper # "Absent" <=> Prepared(x).oper # "Absent"
    BY <2>1, <2>2, PreparedFacts
  <2>4. db'[o] = Prepared(x) \/ db'[o] = x
    BY <1>1, <2>2
  <2>5. QED
    BY <2>2, <2>3, <2>4
<1>5. db' \in [Obj -> Object]
  <2>1. db' = [o \in Obj |-> db'[o]]
    BY <1>1
  <2>2. QED
    BY <1>4, <2>1
<1>6. \A o \in Obj : db[o].ver <= db'[o].ver
  BY <1>3, <1>4
<1>7. VersionsSound'
  BY <1>2, <1>3, <1>4 DEF VersionsSound, Stored
<1>8. HostOK(host)' /\ host'.tables = host.tables
  <2>1. HostOK(host)
    BY DEF IInv
  <2>2. PICK h : h = host
    OBVIOUS
  <2>3. h = [links |-> h.links, up |-> h.up, addr |-> h.addr, master |-> h.master,
             vlans |-> h.vlans, tables |-> h.tables, throw |-> h.throw, conf |-> h.conf]
    BY <2>1, <2>2 DEF HostOK, IsHost
  <2>4. PICK g : g = host'
    OBVIOUS
  <2>5. g = [links |-> h.links, up |-> h.up, addr |-> h.addr, master |-> h.master,
             vlans |-> h.vlans, tables |-> h.tables, throw |-> h.throw, conf |-> {}]
    BY <1>1, <2>2, <2>3, <2>4
  <2>6. HostOK(g) /\ g.tables = h.tables
    BY <2>1, <2>2, <2>5 DEF HostOK, IsHost
  <2>7. QED
    BY <2>2, <2>4, <2>6 DEF HostOK, IsHost
<1>9. dropped' \subseteq Obj
  <2>1. dropped \subseteq Obj /\ r.obj \in Obj
    BY DEF IInv, ReportsSound
  <2>2. Configured \subseteq Obj
    BY DEF Configured, Obj, Vpn
  <2>3. QED
    <3>1. CASE Replay(r)
      BY <2>1, <3>1 DEF Replay
    <3>2. CASE ReplayBreaksOff(r)
      <4>1. PICK some \in SUBSET Configured : dropped' = dropped \cup {r.obj} \cup some
        BY <3>2 DEF ReplayBreaksOff
      <4>2. QED
        BY <2>1, <2>2, <4>1
    <3>3. QED
      BY <3>1, <3>2
<1>10. QED
  BY <1>2, <1>5, <1>6, <1>7, <1>8, <1>9, StoreStep

LEMMA PlugStep ==
    ASSUME IInv, NEW b \in Bp, Plug(b)
    PROVE  IInv'
<1>1. /\ host' = [host EXCEPT !.links = @ \cup {Port(b)}]
      /\ db' = db /\ ids' = ids /\ reports' = reports /\ alive' = alive /\ dropped' = dropped
      /\ ops' = ops /\ faults' = faults /\ replays' = replays /\ spoilt' = spoilt
  BY DEF Plug
<1>2. HostOK(host)' /\ host'.tables = host.tables
  <2>1. HostOK(host)
    BY DEF IInv
  <2>2. PICK h : h = host
    OBVIOUS
  <2>3. h = [links |-> h.links, up |-> h.up, addr |-> h.addr, master |-> h.master,
             vlans |-> h.vlans, tables |-> h.tables, throw |-> h.throw, conf |-> h.conf]
    BY <2>1, <2>2 DEF HostOK, IsHost
  <2>4. PICK g : g = host'
    OBVIOUS
  <2>5. g = [links |-> h.links \cup {Port(b)}, up |-> h.up, addr |-> h.addr, master |-> h.master,
             vlans |-> h.vlans, tables |-> h.tables, throw |-> h.throw, conf |-> h.conf]
    BY <1>1, <2>2, <2>3, <2>4
  <2>6. HostOK(g) /\ g.tables = h.tables
    BY <2>1, <2>2, <2>5 DEF HostOK, IsHost
  <2>7. QED
    BY <2>2, <2>4, <2>6 DEF HostOK, IsHost
<1>3. db' \in [Obj -> Object] /\ VersionsSound' /\ Counters' /\ dropped' \subseteq Obj
  BY <1>1 DEF IInv, VersionsSound, Stored, Counters
<1>4. \A o \in Obj : db[o].ver <= db'[o].ver
  <2>1. \A o \in Obj : db[o].ver \in Nat
    BY DEF IInv, Object
  <2>2. QED
    BY <1>1, <2>1
<1>5. reports' \subseteq reports
  BY <1>1
<1>6. QED
  BY <1>1, <1>2, <1>3, <1>4, <1>5, StoreStep

LEMMA StutterStep ==
    ASSUME IInv, UNCHANGED vars
    PROVE  IInv'
<1>1. /\ host' = host /\ db' = db /\ ids' = ids /\ reports' = reports /\ alive' = alive
      /\ dropped' = dropped /\ ops' = ops /\ faults' = faults /\ replays' = replays /\ spoilt' = spoilt
  BY DEF vars
<1>2. HostOK(host)' /\ host'.tables = host.tables
  BY <1>1, HostKept
<1>3. db' \in [Obj -> Object] /\ VersionsSound' /\ Counters' /\ dropped' \subseteq Obj
  BY <1>1 DEF IInv, VersionsSound, Stored, Counters
<1>4. \A o \in Obj : db[o].ver <= db'[o].ver
  <2>1. \A o \in Obj : db[o].ver \in Nat
    BY DEF IInv, Object
  <2>2. QED
    BY <1>1, <2>1
<1>5. reports' \subseteq reports
  BY <1>1
<1>6. QED
  BY <1>1, <1>2, <1>3, <1>4, <1>5, StoreStep

LEMMA NextStep == IInv /\ [Next]_vars => IInv'
<1> SUFFICES ASSUME IInv, [Next]_vars PROVE IInv'
  OBVIOUS
<1>1. ASSUME NEW o \in Obj, Create(o) PROVE IInv'
  BY <1>1, CreateStep
<1>2. ASSUME NEW o \in Obj, Delete(o) PROVE IInv'
  BY <1>2, DeleteStep
<1>3. ASSUME NEW o \in Obj, NEW m \in Modules, Handle(m, o) PROVE IInv'
  BY <1>3, HandleStep
<1>4. ASSUME NEW r \in reports, Report(r) PROVE IInv'
  BY <1>4, ReportStep
<1>5. ASSUME NEW r \in reports, Replay(r) \/ ReplayBreaksOff(r) PROVE IInv'
  BY <1>5, ReplayStep
<1>6. ASSUME NEW r \in reports, ReplayFails(r) PROVE IInv'
  BY <1>6, ReplayFailsStep
<1>7. ASSUME NEW b \in Bp, Plug(b) PROVE IInv'
  BY <1>7, PlugStep
<1>8. ASSUME UNCHANGED vars PROVE IInv'
  BY <1>8, StutterStep
<1>9. QED
  BY <1>1, <1>2, <1>3, <1>4, <1>5, <1>6, <1>7, <1>8 DEF Next

-----------------------------------------------------------------------------
(* The theorems *)

LEMMA Inductive == Spec => []IInv
<1>1. Init => IInv
  BY InitIInv
<1>2. IInv /\ [Next]_vars => IInv'
  BY NextStep
<1>3. QED
  BY <1>1, <1>2, PTL DEF Spec

EmptiedSound == emptied \subseteq Obj

LEMMA EmptiedAreObjects == Spec => []EmptiedSound
<1>1. Init => EmptiedSound
  BY DEF Init, EmptiedSound
<1>2. EmptiedSound /\ [Next]_vars => EmptiedSound'
  <2> SUFFICES ASSUME emptied \subseteq Obj, [Next]_vars PROVE emptied' \subseteq Obj
    BY DEF EmptiedSound
  <2>1. ASSUME NEW o \in Obj, Create(o) \/ Delete(o) PROVE emptied' \subseteq Obj
    BY <2>1 DEF Create, Delete, Request
  <2>2. ASSUME NEW o \in Obj, NEW m \in Modules, Handle(m, o) PROVE emptied' \subseteq Obj
    BY <2>2 DEF Handle
  <2>3. ASSUME NEW r \in reports, Report(r) \/ ReplayFails(r) PROVE emptied' \subseteq Obj
    BY <2>3 DEF Report, ReplayFails
  <2>4. ASSUME NEW r \in reports, Empties(r) PROVE emptied' \subseteq Obj
    <3>1. PICK R \in SUBSET Configured : emptied' = emptied \cup (Configured \ R)
      BY <2>4 DEF Empties, Restarted
    <3>2. Configured \subseteq Obj
      BY DEF Configured, Obj, Vpn
    <3>3. QED
      BY <3>1, <3>2
  <2>5. ASSUME NEW b \in Bp, Plug(b) PROVE emptied' \subseteq Obj
    BY <2>5 DEF Plug
  <2>6. CASE UNCHANGED vars
    BY <2>6 DEF vars
  <2>7. QED
    BY <2>1, <2>2, <2>3, <2>4, <2>5, <2>6, ReplaysEmpty DEF Next
<1>3. QED
  BY <1>1, <1>2, PTL DEF Spec

\* The store, the host and the reports keep their types, links that are up,
\* enslaved or carry a VLAN exist (whichever call of a handler fails), and a
\* report is never of a later version than the object.
THEOREM DevicesTypeCorrect == Spec => []TypeOK
<1>1. IInv /\ EmptiedSound => TypeOK
  <2> SUFFICES ASSUME IInv, emptied \subseteq Obj PROVE TypeOK
    BY DEF EmptiedSound
  <2>2. /\ host.up \cup host.addr \subseteq host.links
        /\ \A p \in host.master : {p[1], p[2]} \subseteq host.links
        /\ \A p \in host.vlans : p[1] \in host.links
    BY DEF IInv, HostOK
  <2>3. db \in [Obj -> Object] /\ ids \in [Vrf -> 0..MaxTable]
    BY DEF IInv
  <2>4. \A r \in reports : /\ r.obj \in Obj /\ r.mod \in Range(Subs(r.obj))
                            /\ r.ver \in 1..db[r.obj].ver /\ r.ok \in BOOLEAN
                            /\ r.table \in 0..NoTable
    BY DEF IInv, ReportsSound
  <2>5. alive \in BOOLEAN /\ dropped \subseteq Obj /\ spoilt \subseteq Obj
    BY DEF IInv
  <2>6. ops \in 0..MaxOps /\ faults \in 0..MaxFaults /\ replays \in 0..MaxReplays
    BY DEF IInv, Counters
  <2>7. QED
    BY <2>2, <2>3, <2>4, <2>5, <2>6, Zenon DEF TypeOK
<1>2. QED
  BY <1>1, Inductive, EmptiedAreObjects, PTL

\* No two VRFs share a routing table on the host: GetID gives each name a table
\* of its own and never takes it back, and only LGM's set-up of the VRF assigns
\* it.
THEOREM RoutingTablesAreExclusive == Spec => []TablesAreExclusive
<1>1. IInv => TablesAreExclusive
  <2>1. SUFFICES ASSUME IInv, NEW p \in host.tables, NEW q \in host.tables, p[2] = q[2]
                 PROVE  p = q
    BY DEF TablesAreExclusive
  <2>2. PICK v \in Numbered : p = <<v, ids[v]>>
    BY <2>1 DEF IInv, TablesSound
  <2>3. PICK w \in Numbered : q = <<w, ids[w]>>
    BY <2>1 DEF IInv, TablesSound
  <2>4. v = w
    BY <2>1, <2>2, <2>3 DEF IInv, IdsSound
  <2>5. QED
    BY <2>2, <2>3, <2>4
<1>2. QED
  BY <1>1, Inductive, PTL

-----------------------------------------------------------------------------
(* What the calls of a handler give to the host and take from it *)

\* What holds up to r by steps of one holds of all of them.
LEMMA StepByStep ==
    ASSUME NEW r \in Nat, NEW S, 0 \in S, \A k \in 1..r : k - 1 \in S => k \in S
    PROVE  \A k \in 0..r : k \in S
<1> DEFINE Bad == {k \in 0..r : k \notin S}
<1>1. SUFFICES ASSUME Bad # {} PROVE FALSE
  OBVIOUS
<1>2. Bad \subseteq Nat
  OBVIOUS
<1> HIDE DEF Bad
<1>3. PICK k \in Bad : \A j \in Bad : k <= j
  BY <1>1, <1>2, LeastNatural
<1> USE DEF Bad
<1>4. k # 0 /\ k \in 1..r /\ k - 1 \in 0..r /\ ~ (k <= k - 1)
  BY <1>3
<1>5. k - 1 \in S
  BY <1>3, <1>4
<1>6. QED
  BY <1>3, <1>4, <1>5

Parts == {"links", "up", "addr", "master", "vlans", "tables", "throw", "conf"}

\* A part of the host has an item.
Has(h, part, x) ==
    \/ part = "links"  /\ x \in h.links
    \/ part = "up"     /\ x \in h.up
    \/ part = "addr"   /\ x \in h.addr
    \/ part = "master" /\ x \in h.master
    \/ part = "vlans"  /\ x \in h.vlans
    \/ part = "tables" /\ x \in h.tables
    \/ part = "throw"  /\ x \in h.throw
    \/ part = "conf"   /\ x \in h.conf

\* The item that a call adds.
Gives(c, part, x) ==
    \/ part = "links"  /\ c.op = "LinkAdd"       /\ x = c.link
    \/ part = "links"  /\ c.op = "LinkAddVrf"    /\ x = VrfLink(c.link)
    \/ part = "up"     /\ c.op = "LinkSetUp"     /\ x = c.link
    \/ part = "addr"   /\ c.op = "AddrAdd"       /\ x = c.link
    \/ part = "master" /\ c.op = "LinkSetMaster" /\ x = <<c.link, c.arg>>
    \/ part = "vlans"  /\ c.op = "BridgeVlanAdd" /\ x = <<c.link, c.arg>>
    \/ part = "tables" /\ c.op = "LinkAddVrf"    /\ x = <<c.link, c.arg>>
    \/ part = "throw"  /\ c.op = "RouteAdd"      /\ x = c.link
    \/ part = "conf"   /\ c.op = "Conf"          /\ x = c.link

\* The items that a call removes, unless it adds them.
Takes(c, part, x) ==
    \/ c.op = "LinkDel" /\ part \in {"links", "up", "addr"} /\ x = c.link
    \/ c.op = "LinkDel" /\ part = "master" /\ (x[1] = c.link \/ x[2] = c.link)
    \/ c.op = "LinkDel" /\ part = "vlans" /\ x[1] = c.link
    \/ c.op = "LinkDel" /\ part = "tables" /\ VrfLink(x[1]) = c.link
    \/ c.op = "LinkSetMaster" /\ part = "master" /\ x[1] = c.link
    \/ c.op = "LinkSetDown" /\ part = "up" /\ x = c.link
    \/ c.op = "BridgeVlanDel" /\ part = "vlans" /\ x = <<c.link, c.arg>>
    \/ c.op = "RouteFlush" /\ part = "throw" /\ (c.link = 0 \/ x = c.link)
    \/ c.op = "NoConf" /\ part = "conf" /\ x = c.link
    \/ c.op = "NoConf" /\ part = "conf" /\ c.link[1] = "bgp" /\ x[1] = "neighbor" /\ x[2] = c.link[2]

\* What the host has after a call.
LEMMA EffectIs ==
    ASSUME NEW h, NEW c, IsHost(h), NEW part \in Parts, NEW x
    PROVE  Has(Effect(h, c), part, x) <=> Gives(c, part, x) \/ (Has(h, part, x) /\ ~ Takes(c, part, x))
<1> DEFINE e == Effect(h, c)
<1> SUFFICES Has(e, part, x) <=> Gives(c, part, x) \/ (Has(h, part, x) /\ ~ Takes(c, part, x))
  OBVIOUS
<1>1. h = [links |-> h.links, up |-> h.up, addr |-> h.addr, master |-> h.master,
           vlans |-> h.vlans, tables |-> h.tables, throw |-> h.throw, conf |-> h.conf]
  BY DEF IsHost
<1>2. CASE c.op = "LinkAdd"
  <2>1. e = [links |-> h.links \cup {c.link}, up |-> h.up, addr |-> h.addr, master |-> h.master,
             vlans |-> h.vlans, tables |-> h.tables, throw |-> h.throw, conf |-> h.conf]
    BY <1>1, <1>2 DEF Effect
  <2>2. /\ e.links = h.links \cup {c.link}
        /\ e.up = h.up
        /\ e.addr = h.addr
        /\ e.master = h.master
        /\ e.vlans = h.vlans
        /\ e.tables = h.tables
        /\ e.throw = h.throw
        /\ e.conf = h.conf
    BY <2>1
  <2> HIDE DEF e
  <2>3. QED
    BY <1>2, <2>2 DEF Has, Gives, Takes, Parts
<1>3. CASE c.op = "LinkAddVrf"
  <2>1. e = [links |-> h.links \cup {VrfLink(c.link)}, up |-> h.up, addr |-> h.addr, master |-> h.master,
             vlans |-> h.vlans, tables |-> h.tables \cup {<<c.link, c.arg>>},
             throw |-> h.throw, conf |-> h.conf]
    BY <1>1, <1>3 DEF Effect
  <2>2. /\ e.links = h.links \cup {VrfLink(c.link)}
        /\ e.up = h.up
        /\ e.addr = h.addr
        /\ e.master = h.master
        /\ e.vlans = h.vlans
        /\ e.tables = h.tables \cup {<<c.link, c.arg>>}
        /\ e.throw = h.throw
        /\ e.conf = h.conf
    BY <2>1
  <2> HIDE DEF e
  <2>3. QED
    BY <1>3, <2>2 DEF Has, Gives, Takes, Parts
<1>4. CASE c.op = "LinkDel"
  <2>1. e = [links |-> h.links \ {c.link}, up |-> h.up \ {c.link}, addr |-> h.addr \ {c.link},
             master |-> {p \in h.master : p[1] # c.link /\ p[2] # c.link},
             vlans |-> {p \in h.vlans : p[1] # c.link},
             tables |-> {p \in h.tables : VrfLink(p[1]) # c.link},
             throw |-> h.throw, conf |-> h.conf]
    BY <1>1, <1>4 DEF Effect, Without
  <2>2. /\ e.links = h.links \ {c.link}
        /\ e.up = h.up \ {c.link}
        /\ e.addr = h.addr \ {c.link}
        /\ e.master = {p \in h.master : p[1] # c.link /\ p[2] # c.link}
        /\ e.vlans = {p \in h.vlans : p[1] # c.link}
        /\ e.tables = {p \in h.tables : VrfLink(p[1]) # c.link}
        /\ e.throw = h.throw
        /\ e.conf = h.conf
    BY <2>1
  <2> HIDE DEF e
  <2>3. QED
    BY <1>4, <2>2 DEF Has, Gives, Takes, Parts
<1>5. CASE c.op = "LinkSetMaster"
  <2>1. e = [links |-> h.links, up |-> h.up, addr |-> h.addr,
             master |-> {p \in h.master : p[1] # c.link} \cup {<<c.link, c.arg>>},
             vlans |-> h.vlans, tables |-> h.tables, throw |-> h.throw, conf |-> h.conf]
    BY <1>1, <1>5 DEF Effect
  <2>2. /\ e.links = h.links
        /\ e.up = h.up
        /\ e.addr = h.addr
        /\ e.master = {p \in h.master : p[1] # c.link} \cup {<<c.link, c.arg>>}
        /\ e.vlans = h.vlans
        /\ e.tables = h.tables
        /\ e.throw = h.throw
        /\ e.conf = h.conf
    BY <2>1
  <2> HIDE DEF e
  <2>3. QED
    BY <1>5, <2>2 DEF Has, Gives, Takes, Parts
<1>6. CASE c.op = "LinkSetUp"
  <2>1. e = [links |-> h.links, up |-> h.up \cup {c.link}, addr |-> h.addr, master |-> h.master,
             vlans |-> h.vlans, tables |-> h.tables, throw |-> h.throw, conf |-> h.conf]
    BY <1>1, <1>6 DEF Effect
  <2>2. /\ e.links = h.links
        /\ e.up = h.up \cup {c.link}
        /\ e.addr = h.addr
        /\ e.master = h.master
        /\ e.vlans = h.vlans
        /\ e.tables = h.tables
        /\ e.throw = h.throw
        /\ e.conf = h.conf
    BY <2>1
  <2> HIDE DEF e
  <2>3. QED
    BY <1>6, <2>2 DEF Has, Gives, Takes, Parts
<1>7. CASE c.op = "LinkSetDown"
  <2>1. e = [links |-> h.links, up |-> h.up \ {c.link}, addr |-> h.addr, master |-> h.master,
             vlans |-> h.vlans, tables |-> h.tables, throw |-> h.throw, conf |-> h.conf]
    BY <1>1, <1>7 DEF Effect
  <2>2. /\ e.links = h.links
        /\ e.up = h.up \ {c.link}
        /\ e.addr = h.addr
        /\ e.master = h.master
        /\ e.vlans = h.vlans
        /\ e.tables = h.tables
        /\ e.throw = h.throw
        /\ e.conf = h.conf
    BY <2>1
  <2> HIDE DEF e
  <2>3. QED
    BY <1>7, <2>2 DEF Has, Gives, Takes, Parts
<1>8. CASE c.op = "BridgeVlanAdd"
  <2>1. e = [links |-> h.links, up |-> h.up, addr |-> h.addr, master |-> h.master,
             vlans |-> h.vlans \cup {<<c.link, c.arg>>}, tables |-> h.tables,
             throw |-> h.throw, conf |-> h.conf]
    BY <1>1, <1>8 DEF Effect
  <2>2. /\ e.links = h.links
        /\ e.up = h.up
        /\ e.addr = h.addr
        /\ e.master = h.master
        /\ e.vlans = h.vlans \cup {<<c.link, c.arg>>}
        /\ e.tables = h.tables
        /\ e.throw = h.throw
        /\ e.conf = h.conf
    BY <2>1
  <2> HIDE DEF e
  <2>3. QED
    BY <1>8, <2>2 DEF Has, Gives, Takes, Parts
<1>9. CASE c.op = "BridgeVlanDel"
  <2>1. e = [links |-> h.links, up |-> h.up, addr |-> h.addr, master |-> h.master,
             vlans |-> h.vlans \ {<<c.link, c.arg>>}, tables |-> h.tables,
             throw |-> h.throw, conf |-> h.conf]
    BY <1>1, <1>9 DEF Effect
  <2>2. /\ e.links = h.links
        /\ e.up = h.up
        /\ e.addr = h.addr
        /\ e.master = h.master
        /\ e.vlans = h.vlans \ {<<c.link, c.arg>>}
        /\ e.tables = h.tables
        /\ e.throw = h.throw
        /\ e.conf = h.conf
    BY <2>1
  <2> HIDE DEF e
  <2>3. QED
    BY <1>9, <2>2 DEF Has, Gives, Takes, Parts
<1>10. CASE c.op = "AddrAdd"
  <2>1. e = [links |-> h.links, up |-> h.up, addr |-> h.addr \cup {c.link}, master |-> h.master,
             vlans |-> h.vlans, tables |-> h.tables, throw |-> h.throw, conf |-> h.conf]
    BY <1>1, <1>10 DEF Effect
  <2>2. /\ e.links = h.links
        /\ e.up = h.up
        /\ e.addr = h.addr \cup {c.link}
        /\ e.master = h.master
        /\ e.vlans = h.vlans
        /\ e.tables = h.tables
        /\ e.throw = h.throw
        /\ e.conf = h.conf
    BY <2>1
  <2> HIDE DEF e
  <2>3. QED
    BY <1>10, <2>2 DEF Has, Gives, Takes, Parts
<1>11. CASE c.op = "RouteAdd"
  <2>1. e = [links |-> h.links, up |-> h.up, addr |-> h.addr, master |-> h.master,
             vlans |-> h.vlans, tables |-> h.tables, throw |-> h.throw \cup {c.link}, conf |-> h.conf]
    BY <1>1, <1>11 DEF Effect
  <2>2. /\ e.links = h.links
        /\ e.up = h.up
        /\ e.addr = h.addr
        /\ e.master = h.master
        /\ e.vlans = h.vlans
        /\ e.tables = h.tables
        /\ e.throw = h.throw \cup {c.link}
        /\ e.conf = h.conf
    BY <2>1
  <2> HIDE DEF e
  <2>3. QED
    BY <1>11, <2>2 DEF Has, Gives, Takes, Parts
<1>12. CASE c.op = "RouteFlush"
  <2>1. e = [links |-> h.links, up |-> h.up, addr |-> h.addr, master |-> h.master,
             vlans |-> h.vlans, tables |-> h.tables,
             throw |-> {t \in h.throw : c.link # 0 /\ t # c.link}, conf |-> h.conf]
    BY <1>1, <1>12 DEF Effect
  <2>2. /\ e.links = h.links
        /\ e.up = h.up
        /\ e.addr = h.addr
        /\ e.master = h.master
        /\ e.vlans = h.vlans
        /\ e.tables = h.tables
        /\ e.throw = {t \in h.throw : c.link # 0 /\ t # c.link}
        /\ e.conf = h.conf
    BY <2>1
  <2> HIDE DEF e
  <2>3. QED
    BY <1>12, <2>2 DEF Has, Gives, Takes, Parts
<1>13. CASE c.op = "Conf"
  <2>1. e = [links |-> h.links, up |-> h.up, addr |-> h.addr, master |-> h.master,
             vlans |-> h.vlans, tables |-> h.tables, throw |-> h.throw, conf |-> h.conf \cup {c.link}]
    BY <1>1, <1>13 DEF Effect
  <2>2. /\ e.links = h.links
        /\ e.up = h.up
        /\ e.addr = h.addr
        /\ e.master = h.master
        /\ e.vlans = h.vlans
        /\ e.tables = h.tables
        /\ e.throw = h.throw
        /\ e.conf = h.conf \cup {c.link}
    BY <2>1
  <2> HIDE DEF e
  <2>3. QED
    BY <1>13, <2>2 DEF Has, Gives, Takes, Parts
<1>14. CASE c.op = "NoConf"
  <2>1. e = [links |-> h.links, up |-> h.up, addr |-> h.addr, master |-> h.master,
             vlans |-> h.vlans, tables |-> h.tables, throw |-> h.throw,
             conf |-> {i \in h.conf : i # c.link /\
                                      ~(c.link[1] = "bgp" /\ i[1] = "neighbor" /\ i[2] = c.link[2])}]
    BY <1>1, <1>14 DEF Effect
  <2>2. /\ e.links = h.links
        /\ e.up = h.up
        /\ e.addr = h.addr
        /\ e.master = h.master
        /\ e.vlans = h.vlans
        /\ e.tables = h.tables
        /\ e.throw = h.throw
        /\ e.conf = {i \in h.conf : i # c.link /\ ~(c.link[1] = "bgp" /\ i[1] = "neighbor" /\ i[2] = c.link[2])}
    BY <2>1
  <2> HIDE DEF e
  <2>3. QED
    BY <1>14, <2>2 DEF Has, Gives, Takes, Parts
<1>15. CASE c.op \notin {"LinkAdd", "LinkAddVrf", "LinkDel", "LinkSetMaster", "LinkSetUp", "LinkSetDown",
                         "BridgeVlanAdd", "BridgeVlanDel", "AddrAdd", "RouteAdd", "RouteFlush",
                         "Conf", "NoConf"}
  <2>1. e = h
    BY <1>15 DEF Effect
  <2>2. QED
    BY <1>15, <2>1 DEF Has, Gives, Takes
<1>16. QED
  BY <1>2, <1>3, <1>4, <1>5, <1>6, <1>7, <1>8, <1>9, <1>10, <1>11, <1>12, <1>13, <1>14, <1>15

\* Of the first n calls of a list that is carried out.
LEMMA RunIs ==
    ASSUME NEW calls, Len(calls) \in Nat, HostOK(host), NEW n \in 0..Reach(calls),
           NEW part \in Parts, NEW x
    PROVE  /\ n \in Nat /\ n <= Len(calls)
           /\ Has(HostAfter(calls)[0], part, x) <=> Has(host, part, x)
           /\ \A k \in 1..n :
                 Has(HostAfter(calls)[k], part, x) <=>
                    \/ Gives(calls[k], part, x)
                    \/ Has(HostAfter(calls)[k - 1], part, x) /\ ~ Takes(calls[k], part, x)
<1>1. Reach(calls) \in Nat /\ Reach(calls) <= Len(calls)
  BY ReachIs
<1>2. HostAfter(calls)[0] = host
  BY HostAfterIs
<1>3. ASSUME NEW k \in 1..n
      PROVE  Has(HostAfter(calls)[k], part, x) <=>
                \/ Gives(calls[k], part, x)
                \/ Has(HostAfter(calls)[k - 1], part, x) /\ ~ Takes(calls[k], part, x)
  <2>1. k \in 1..Len(calls) /\ k - 1 \in 0..Reach(calls)
    BY <1>1
  <2>2. HostAfter(calls)[k] = Effect(HostAfter(calls)[k - 1], calls[k])
    BY <2>1, HostAfterIs
  <2>3. HostOK(HostAfter(calls)[k - 1])
    BY <2>1, RunFacts
  <2>4. PICK h : h = HostAfter(calls)[k - 1]
    OBVIOUS
  <2>5. IsHost(h)
    BY <2>3, <2>4 DEF HostOK
  <2>6. Has(Effect(h, calls[k]), part, x) <=>
           Gives(calls[k], part, x) \/ (Has(h, part, x) /\ ~ Takes(calls[k], part, x))
    BY <2>5, EffectIs
  <2>7. QED
    BY <2>2, <2>4, <2>6
<1>4. QED
  BY <1>1, <1>2, <1>3

\* An item that the host has, or that one of the calls gives, lasts if no call
\* takes it.
LEMMA Lasts ==
    ASSUME NEW calls, Len(calls) \in Nat, HostOK(host), NEW n \in 0..Reach(calls),
           NEW part \in Parts, NEW x,
           \A i \in 1..n : Takes(calls[i], part, x) => Gives(calls[i], part, x),
           Has(host, part, x) \/ \E i \in 1..n : Gives(calls[i], part, x)
    PROVE  Has(HostAfter(calls)[n], part, x)
<1> DEFINE Given(k) == Has(host, part, x) \/ \E i \in 1..k : Gives(calls[i], part, x)
           S == {k \in 0..n : Given(k) => Has(HostAfter(calls)[k], part, x)}
<1>1. n \in Nat /\ (Has(HostAfter(calls)[0], part, x) <=> Has(host, part, x))
  BY RunIs
<1>2. 0 \in S
  BY <1>1
<1>3. ASSUME NEW k \in 1..n, k - 1 \in S PROVE k \in S
  <2>1. SUFFICES ASSUME Given(k) PROVE Has(HostAfter(calls)[k], part, x)
    BY <1>1
  <2>2. /\ Has(HostAfter(calls)[k], part, x) <=>
             \/ Gives(calls[k], part, x)
             \/ Has(HostAfter(calls)[k - 1], part, x) /\ ~ Takes(calls[k], part, x)
        /\ Takes(calls[k], part, x) => Gives(calls[k], part, x)
    BY RunIs
  <2>3. CASE Gives(calls[k], part, x)
    BY <2>2, <2>3
  <2>4. CASE ~ Gives(calls[k], part, x)
    <3>1. \A i \in 1..k : i = k \/ i \in 1..k - 1
      BY <1>1
    <3>2. Given(k - 1)
      BY <2>1, <2>4, <3>1
    <3>3. QED
      BY <1>3, <2>2, <2>4, <3>2
  <2>5. QED
    BY <2>3, <2>4
<1>4. n \in S
  <2> HIDE DEF S
  <2>1. \A k \in 0..n : k \in S
    BY <1>1, <1>2, <1>3, StepByStep
  <2>2. QED
    BY <1>1, <2>1
<1>5. QED
  BY <1>4

\* An item that the host has not, or that one of the calls takes, is gone if no
\* call gives it.
LEMMA Ends ==
    ASSUME NEW calls, Len(calls) \in Nat, HostOK(host), NEW n \in 0..Reach(calls),
           NEW part \in Parts, NEW x,
           \A i \in 1..n : ~ Gives(calls[i], part, x),
           ~ Has(host, part, x) \/ \E i \in 1..n : Takes(calls[i], part, x)
    PROVE  ~ Has(HostAfter(calls)[n], part, x)
<1> DEFINE Taken(k) == ~ Has(host, part, x) \/ \E i \in 1..k : Takes(calls[i], part, x)
           S == {k \in 0..n : Taken(k) => ~ Has(HostAfter(calls)[k], part, x)}
<1>1. n \in Nat /\ (Has(HostAfter(calls)[0], part, x) <=> Has(host, part, x))
  BY RunIs
<1>2. 0 \in S
  BY <1>1
<1>3. ASSUME NEW k \in 1..n, k - 1 \in S PROVE k \in S
  <2>1. SUFFICES ASSUME Taken(k) PROVE ~ Has(HostAfter(calls)[k], part, x)
    BY <1>1
  <2>2. /\ Has(HostAfter(calls)[k], part, x) <=>
             \/ Gives(calls[k], part, x)
             \/ Has(HostAfter(calls)[k - 1], part, x) /\ ~ Takes(calls[k], part, x)
        /\ ~ Gives(calls[k], part, x)
    BY RunIs
  <2>3. CASE Takes(calls[k], part, x)
    BY <2>2, <2>3
  <2>4. CASE ~ Takes(calls[k], part, x)
    <3>1. \A i \in 1..k : i = k \/ i \in 1..k - 1
      BY <1>1
    <3>2. Taken(k - 1)
      BY <2>1, <2>4, <3>1
    <3>3. QED
      BY <1>3, <2>2, <3>2
  <2>5. QED
    BY <2>3, <2>4
<1>4. n \in S
  <2> HIDE DEF S
  <2>1. \A k \in 0..n : k \in S
    BY <1>1, <1>2, <1>3, StepByStep
  <2>2. QED
    BY <1>1, <2>1
<1>5. QED
  BY <1>4

-----------------------------------------------------------------------------
(* Whose calls may do what *)

\* The kinds of a handler.
LEMMA HandlerKinds ==
    ASSUME NEW o \in Obj, NEW m \in Range(Subs(o))
    PROVE  /\ \/ m = "lgm" /\ o \in Lb /\ o \notin Vrf /\ o \notin Svi /\ o \notin Bp
              \/ m = "lgm" /\ o \in Vrf /\ o \notin Lb /\ o \notin Svi /\ o \notin Bp
              \/ m = "lgm" /\ o \in Svi /\ o \notin Lb /\ o \notin Vrf /\ o \notin Bp
              \/ m = "frr" /\ o \in Vrf /\ o \notin Lb /\ o \notin Svi /\ o \notin Bp
              \/ m = "frr" /\ o \in Svi /\ o \notin Lb /\ o \notin Vrf /\ o \notin Bp
              \/ m = "lci" /\ o \in Bp /\ o \notin Lb /\ o \notin Vrf /\ o \notin Svi
           /\ m \in Modules
<1>1. \/ o \in Vrf /\ m \in {"lgm", "frr"}
      \/ o \in Lb /\ o \notin Vrf \cup Svi /\ m = "lgm"
      \/ o \in Svi /\ m \in {"lgm", "frr"}
      \/ o \in Bp /\ o \notin Vrf \cup Svi \cup Lb /\ m = "lci"
  BY DEF Subs, Range, Obj, Vpn
<1>2. QED
  BY <1>1, DevicesAssumption DEF Modules

\* The links that the handlers of an object make, and the items of FRR's
\* configuration.
LinksOf(o) ==
    IF o \in Lb THEN IF o \in WithVni THEN {VlanLink(o)} ELSE {}
    ELSE IF o \in Vrf
         THEN IF o = Grd THEN {}
              ELSE {VrfLink(o)} \cup IF o \in WithVni THEN {BrLink(o), VxlanLink(o)} ELSE {}
    ELSE IF o \in Svi THEN {SviLink(o)} ELSE {Port(o)}

ConfOf(o) ==
    IF o \in Vrf THEN IF o = Grd \/ o \notin WithVni THEN {} ELSE {<<"vni", o>>, <<"bgp", o>>}
    ELSE IF o \in EnableBgp THEN {<<"bgp", VrfOf[o]>>, Neighbor(o)} ELSE {}

\* What a link of an object is enslaved to.
MasterOf(o, n) ==
    IF o \in Vrf THEN IF n = BrLink(o) THEN VrfLink(o) ELSE BrLink(o)
    ELSE IF o \in Svi THEN VrfLink(VrfOf[o]) ELSE Tenant

TenantVlan(s) == <<Tenant, VlanOf[LbOf[s]]>>

\* A call of LGM or LCI for an object.
HostCall(o, c) ==
    /\ c.op \in {"LinkAdd", "LinkSetUp", "LinkSetMaster", "AddrAdd"} => c.link \in LinksOf(o) /\ ~ Leaving(o)
    /\ c.op \in {"LinkDel", "LinkSetDown"} => c.link \in LinksOf(o) /\ Leaving(o)
    /\ c.op = "LinkSetMaster" => c.arg = MasterOf(o, c.link)
    /\ c.op = "LinkAddVrf" => o \in Vrf /\ o # Grd /\ ~ Leaving(o) /\ c.link = o /\ c.arg = GetID(o)
    /\ c.op = "BridgeVlanAdd" => ~ Leaving(o)
    /\ c.op = "BridgeVlanDel" => Leaving(o)
    /\ c.op \in {"BridgeVlanAdd", "BridgeVlanDel"} =>
          c.link \in LinksOf(o) \/ (o \in Svi /\ <<c.link, c.arg>> = TenantVlan(o))
    /\ c.op = "RouteAdd" => o \in Vrf /\ o # Grd /\ ~ Leaving(o) /\ c.link = GetID(o)
    /\ c.op = "RouteFlush" => o \in Vrf /\ Leaving(o) /\ c.link = db[o].table
    /\ c.op \in {"LinkOrGone", "ShowOrGone"} => Leaving(o)
    /\ c.op \notin {"Conf", "NoConf"}

\* A call of FRR for an object.
FrrCall(o, c) ==
    /\ c.op \in {"Conf", "NoConf", "Show", "ShowOrGone", "Parse", "Deref", "GetLB"}
    /\ c.op = "Conf" => /\ c.link \in ConfOf(o)
                        /\ Leaving(o) => o \in Svi /\ c.link = <<"bgp", VrfOf[o]>>
    /\ c.op = "NoConf" => /\ Leaving(o)
                          /\ \/ o \in Vrf /\ c.link \in {<<"vni", o>>, <<"bgp", o>>}
                             \/ o \in EnableBgp /\ c.link = Neighbor(o)
    /\ c.op = "ShowOrGone" => Leaving(o)

Own(m, o) == {c \in Quiet \cup {LinkAddVrf(o, GetID(o))} : IF m = "frr" THEN FrrCall(o, c) ELSE HostCall(o, c)}

\* The calls of a handler on its own links.
LEMMA HostCalls ==
    ASSUME NEW m \in {"lgm", "lci"}, NEW o, LinksOf(o) \subseteq Names
    PROVE  /\ \A n \in Names : {LinkByName(n), LinkSetAttr(n), RouteList(n), GetLB(n), Deref(n)} \subseteq Own(m, o)
           /\ ~ Leaving(o) => \A n \in LinksOf(o) : {LinkAdd(n), LinkSetUp(n), AddrAdd(n)} \subseteq Own(m, o)
           /\ ~ Leaving(o) => \A n \in LinksOf(o) : MasterOf(o, n) \in Names =>
                                  LinkSetMaster(n, MasterOf(o, n)) \in Own(m, o)
           /\ ~ Leaving(o) => \A n \in LinksOf(o), x \in Names : BridgeVlanAdd(n, x) \in Own(m, o)
           /\ Leaving(o) => \A n \in LinksOf(o) : {LinkDel(n), LinkSetDown(n)} \subseteq Own(m, o)
           /\ Leaving(o) => \A n \in LinksOf(o), x \in Names : BridgeVlanDel(n, x) \in Own(m, o)
           /\ Leaving(o) => \A n \in Names : LinkOrGone(n) \in Own(m, o)
<1>1. m # "frr"
  OBVIOUS
<1>2. \A n \in Names : {LinkByName(n), LinkSetAttr(n), RouteList(n), GetLB(n), Deref(n)} \subseteq Own(m, o)
  <2> SUFFICES ASSUME NEW n \in Names
               PROVE  {LinkByName(n), LinkSetAttr(n), RouteList(n), GetLB(n), Deref(n)} \subseteq Own(m, o)
    OBVIOUS
  <2>1. ASSUME NEW c \in {LinkByName(n), LinkSetAttr(n), RouteList(n), GetLB(n), Deref(n)}
        PROVE  c \in Own(m, o)
    <3>1. c \in Quiet
      BY CallsOnNames
    <3>2. c.op \in {"LinkByName", "LinkSetAttr", "RouteList", "GetLB", "Deref"}
      BY DEF LinkByName, LinkSetAttr, RouteList, GetLB, Deref, Call
    <3>3. HostCall(o, c)
      BY <3>2 DEF HostCall
    <3>4. QED
      BY <1>1, <3>1, <3>3 DEF Own
  <2>2. QED
    BY <2>1
<1>3. ASSUME NEW n \in LinksOf(o), ~ Leaving(o),
             NEW c \in {LinkAdd(n), LinkSetUp(n), AddrAdd(n)}
      PROVE  c \in Own(m, o)
  <2>1. c \in Quiet
    BY CallsOnNames
  <2>2. c.op \in {"LinkAdd", "LinkSetUp", "AddrAdd"} /\ c.link = n
    BY DEF LinkAdd, LinkSetUp, AddrAdd, Call
  <2>3. HostCall(o, c)
    BY <1>3, <2>2 DEF HostCall
  <2>4. QED
    BY <1>1, <2>1, <2>3 DEF Own
<1>4. ASSUME NEW n \in LinksOf(o), ~ Leaving(o), MasterOf(o, n) \in Names
      PROVE  LinkSetMaster(n, MasterOf(o, n)) \in Own(m, o)
  <2>1. PICK c : c = LinkSetMaster(n, MasterOf(o, n))
    OBVIOUS
  <2>2. c \in Quiet
    BY <1>4, <2>1, CallsOnNames
  <2>3. c.op = "LinkSetMaster" /\ c.link = n /\ c.arg = MasterOf(o, n)
    BY <2>1 DEF LinkSetMaster, Call
  <2>4. HostCall(o, c)
    BY <1>4, <2>3 DEF HostCall
  <2>5. QED
    BY <1>1, <2>1, <2>2, <2>4 DEF Own
<1>5. ASSUME NEW n \in LinksOf(o), NEW x \in Names, ~ Leaving(o)
      PROVE  BridgeVlanAdd(n, x) \in Own(m, o)
  <2>1. PICK c : c = BridgeVlanAdd(n, x)
    OBVIOUS
  <2>2. c \in Quiet
    BY <2>1, CallsOnNames
  <2>3. c.op = "BridgeVlanAdd" /\ c.link = n /\ c.arg = x
    BY <2>1 DEF BridgeVlanAdd, Call
  <2>4. HostCall(o, c)
    BY <1>5, <2>3 DEF HostCall
  <2>5. QED
    BY <1>1, <2>1, <2>2, <2>4 DEF Own
<1>6. ASSUME NEW n \in LinksOf(o), Leaving(o), NEW c \in {LinkDel(n), LinkSetDown(n)}
      PROVE  c \in Own(m, o)
  <2>1. c \in Quiet
    BY CallsOnNames
  <2>2. c.op \in {"LinkDel", "LinkSetDown"} /\ c.link = n
    BY DEF LinkDel, LinkSetDown, Call
  <2>3. HostCall(o, c)
    BY <1>6, <2>2 DEF HostCall
  <2>4. QED
    BY <1>1, <2>1, <2>3 DEF Own
<1>7. ASSUME NEW n \in LinksOf(o), NEW x \in Names, Leaving(o)
      PROVE  BridgeVlanDel(n, x) \in Own(m, o)
  <2>1. PICK c : c = BridgeVlanDel(n, x)
    OBVIOUS
  <2>2. c \in Quiet
    BY <2>1, CallsOnNames
  <2>3. c.op = "BridgeVlanDel" /\ c.link = n /\ c.arg = x
    BY <2>1 DEF BridgeVlanDel, Call
  <2>4. HostCall(o, c)
    BY <1>7, <2>3 DEF HostCall
  <2>5. QED
    BY <1>1, <2>1, <2>2, <2>4 DEF Own
<1>8. ASSUME NEW n \in Names, Leaving(o) PROVE LinkOrGone(n) \in Own(m, o)
  <2>1. PICK c : c = LinkOrGone(n)
    OBVIOUS
  <2>2. c \in Quiet
    BY <2>1, CallsOnNames
  <2>3. c.op = "LinkOrGone"
    BY <2>1 DEF LinkOrGone, Call
  <2>4. HostCall(o, c)
    BY <1>8, <2>3 DEF HostCall
  <2>5. QED
    BY <1>1, <2>1, <2>2, <2>4 DEF Own
<1> HIDE DEF Own
<1>9. QED
  BY <1>2, <1>3, <1>4, <1>5, <1>6, <1>7, <1>8

\* The calls of FRR for an object.
LEMMA FrrCalls ==
    ASSUME NEW o
    PROVE  /\ \A n \in Names : {Show(n), Parse(n), Deref(n), GetLB(n)} \subseteq Own("frr", o)
           /\ \A n \in Names \cap ConfOf(o) : ~ Leaving(o) \/ (o \in Svi /\ n = <<"bgp", VrfOf[o]>>)
                  => Conf(n) \in Own("frr", o)
           /\ Leaving(o) => \A n \in Names : ShowOrGone(n) \in Own("frr", o)
           /\ Leaving(o) => \A n \in Names : \/ o \in Vrf /\ n \in {<<"vni", o>>, <<"bgp", o>>}
                                             \/ o \in EnableBgp /\ n = Neighbor(o)
                  => NoConf(n) \in Own("frr", o)
<1>1. ASSUME NEW n \in Names, NEW c \in {Show(n), Parse(n), Deref(n), GetLB(n)}
      PROVE  c \in Own("frr", o)
  <2>1. c \in Quiet
    BY CallsOnNames
  <2>2. c.op \in {"Show", "Parse", "Deref", "GetLB"}
    BY DEF Show, Parse, Deref, GetLB, Call
  <2>3. FrrCall(o, c)
    BY <2>2 DEF FrrCall
  <2>4. QED
    BY <2>1, <2>3 DEF Own
<1>2. ASSUME NEW n \in Names, n \in ConfOf(o), ~ Leaving(o) \/ (o \in Svi /\ n = <<"bgp", VrfOf[o]>>)
      PROVE  Conf(n) \in Own("frr", o)
  <2>1. PICK c : c = Conf(n)
    OBVIOUS
  <2>2. c \in Quiet
    BY <2>1, CallsOnNames
  <2>3. c.op = "Conf" /\ c.link = n
    BY <2>1 DEF Conf, Call
  <2>4. FrrCall(o, c)
    BY <1>2, <2>3 DEF FrrCall
  <2>5. QED
    BY <2>1, <2>2, <2>4 DEF Own
<1>3. ASSUME NEW n \in Names, Leaving(o) PROVE ShowOrGone(n) \in Own("frr", o)
  <2>1. PICK c : c = ShowOrGone(n)
    OBVIOUS
  <2>2. c \in Quiet
    BY <2>1, CallsOnNames
  <2>3. c.op = "ShowOrGone"
    BY <2>1 DEF ShowOrGone, Call
  <2>4. FrrCall(o, c)
    BY <1>3, <2>3 DEF FrrCall
  <2>5. QED
    BY <2>1, <2>2, <2>4 DEF Own
<1>4. ASSUME NEW n \in Names, Leaving(o),
             \/ o \in Vrf /\ n \in {<<"vni", o>>, <<"bgp", o>>}
             \/ o \in EnableBgp /\ n = Neighbor(o)
      PROVE  NoConf(n) \in Own("frr", o)
  <2>1. PICK c : c = NoConf(n)
    OBVIOUS
  <2>2. c \in Quiet
    BY <2>1, CallsOnNames
  <2>3. c.op = "NoConf" /\ c.link = n
    BY <2>1 DEF NoConf, Call
  <2>4. FrrCall(o, c)
    BY <1>4, <2>3 DEF FrrCall
  <2>5. QED
    BY <2>1, <2>2, <2>4 DEF Own
<1> HIDE DEF Own
<1>5. QED
  BY <1>1, <1>2, <1>3, <1>4

\* The calls for the bridges of a port are the calls for each of them.
LEMMA PerBridgeFacts ==
    ASSUME NEW b \in Bp, NEW T, NEW calls \in [Lb -> Seq(T)]
    PROVE  /\ PerBridge(b, calls) \in Seq(T)
           /\ Range(PerBridge(b, calls)) = UNION {Range(calls[l]) : l \in LbsOf[b]}
<1> DEFINE N == Cardinality(LbsOf[b])
           order == SetToSeq(LbsOf[b])
           ss == [i \in 1..N |-> calls[order[i]]]
<1>1. LbsOf[b] \subseteq Lb /\ IsFiniteSet(LbsOf[b])
  BY DevicesAssumption, FS_Subset
<1>2. N \in Nat
  BY <1>1, FS_CardinalityType
<1>3. \E f \in [1..N -> LbsOf[b]] : IsInjective(f)
  <2>1. ExistsBijection(1..N, LbsOf[b])
    BY <1>1, FS_CardinalityType
  <2>2. PICK f : f \in Bijection(1..N, LbsOf[b])
    BY <2>1 DEF ExistsBijection
  <2>3. QED
    BY <2>2 DEF IsInjective, Bijection, Injection
<1>4. order \in [1..N -> LbsOf[b]] /\ IsInjective(order)
  BY <1>3 DEF SetToSeq
<1> HIDE DEF order
<1>5. \A l \in LbsOf[b] : \E i \in 1..N : order[i] = l
  <2>1. IsFiniteSet(1..N) /\ Cardinality(1..N) = Cardinality(LbsOf[b])
    BY <1>2, FS_Interval
  <2>2. order \in Injection(1..N, LbsOf[b])
    BY <1>4 DEF IsInjective, Injection
  <2>3. order \in Surjection(1..N, LbsOf[b])
    <3> HIDE DEF N
    <3>1. QED
      BY <1>1, <2>1, <2>2, FS_Injection
  <2>4. QED
    BY <2>3 DEF Surjection
<1> HIDE DEF N
<1>6. ss \in Seq(Seq(T)) /\ DOMAIN ss = 1..N
  <2>1. \A i \in 1..N : calls[order[i]] \in Seq(T)
    BY <1>1, <1>4
  <2>2. QED
    BY <1>2, <2>1
<1>7. PerBridge(b, calls) = FlattenSeq(ss)
  BY DEF PerBridge, order, N
<1>8. FlattenSeq(ss) \in Seq(T) /\ Range(FlattenSeq(ss)) = UNION {Range(ss[i]) : i \in DOMAIN ss}
  BY <1>6, FlattenFacts
<1>9. UNION {Range(ss[i]) : i \in DOMAIN ss} = UNION {Range(calls[l]) : l \in LbsOf[b]}
  <2>1. \A i \in 1..N : ss[i] = calls[order[i]] /\ order[i] \in LbsOf[b]
    BY <1>4
  <2> HIDE DEF ss
  <2>2. ASSUME NEW x, NEW l \in LbsOf[b], x \in Range(calls[l])
        PROVE  \E i \in DOMAIN ss : x \in Range(ss[i])
    <3>1. PICK i \in 1..N : order[i] = l
      BY <1>5
    <3>2. QED
      BY <1>6, <2>1, <2>2, <3>1
  <2>3. ASSUME NEW x, NEW i \in DOMAIN ss, x \in Range(ss[i])
        PROVE  \E l \in LbsOf[b] : x \in Range(calls[l])
    BY <1>6, <2>1, <2>3
  <2>4. QED
    BY <2>2, <2>3
<1>10. QED
  BY <1>7, <1>8, <1>9

\* The calls for a bridge.
LEMMA BridgeCalls ==
    ASSUME NEW l \in Lb
    PROVE  /\ ~ Leaving(l) =>
                 /\ lgm_setUpBridge(l) \in Seq(Own("lgm", l))
                 /\ l \in WithVni => {LinkSetMaster(VlanLink(l), Tenant), LinkSetUp(VlanLink(l)),
                                      BridgeVlanAdd(VlanLink(l), VlanOf[l])} \subseteq Range(lgm_setUpBridge(l))
           /\ Leaving(l) =>
                 /\ lgm_tearDownBridge(l) \in Seq(Own("lgm", l))
                 /\ l \in WithVni => LinkDel(VlanLink(l)) \in Range(lgm_tearDownBridge(l))
<1>1. Tenant \in Names /\ VlanLink(l) \in Names /\ VlanOf[l] \in Names
  BY NamesOfObjects
<1>2. /\ l \in WithVni => LinksOf(l) = {VlanLink(l)} /\ MasterOf(l, VlanLink(l)) = Tenant
      /\ LinksOf(l) \subseteq Names
  BY <1>1, DevicesAssumption DEF LinksOf, MasterOf
<1>3. ASSUME ~ Leaving(l), l \in WithVni
      PROVE  /\ LinkByName(Tenant) \in Own("lgm", l) /\ LinkAdd(VlanLink(l)) \in Own("lgm", l)
             /\ LinkSetMaster(VlanLink(l), Tenant) \in Own("lgm", l)
             /\ LinkSetUp(VlanLink(l)) \in Own("lgm", l)
             /\ BridgeVlanAdd(VlanLink(l), VlanOf[l]) \in Own("lgm", l)
             /\ LinkSetAttr(VlanLink(l)) \in Own("lgm", l)
  BY <1>1, <1>2, <1>3, HostCalls
<1>4. ASSUME Leaving(l), l \in WithVni
      PROVE  LinkOrGone(VlanLink(l)) \in Own("lgm", l) /\ LinkDel(VlanLink(l)) \in Own("lgm", l)
  BY <1>1, <1>2, <1>4, HostCalls
<1>5. ASSUME ~ Leaving(l) PROVE lgm_setUpBridge(l) \in Seq(Own("lgm", l))
  BY <1>3, <1>5 DEF lgm_setUpBridge
<1>6. ASSUME Leaving(l) PROVE lgm_tearDownBridge(l) \in Seq(Own("lgm", l))
  BY <1>4, <1>6 DEF lgm_tearDownBridge
<1>7. ASSUME l \in WithVni
      PROVE  /\ {LinkSetMaster(VlanLink(l), Tenant), LinkSetUp(VlanLink(l)),
                 BridgeVlanAdd(VlanLink(l), VlanOf[l])} \subseteq Range(lgm_setUpBridge(l))
             /\ LinkDel(VlanLink(l)) \in Range(lgm_tearDownBridge(l))
  <2>1. /\ DOMAIN lgm_setUpBridge(l) = 1..6
        /\ lgm_setUpBridge(l)[3] = LinkSetMaster(VlanLink(l), Tenant)
        /\ lgm_setUpBridge(l)[4] = LinkSetUp(VlanLink(l))
        /\ lgm_setUpBridge(l)[5] = BridgeVlanAdd(VlanLink(l), VlanOf[l])
    BY <1>7 DEF lgm_setUpBridge
  <2>2. DOMAIN lgm_tearDownBridge(l) = 1..2 /\ lgm_tearDownBridge(l)[2] = LinkDel(VlanLink(l))
    BY <1>7 DEF lgm_tearDownBridge
  <2>3. 3 \in 1..6 /\ 4 \in 1..6 /\ 5 \in 1..6 /\ 2 \in 1..2
    OBVIOUS
  <2>4. QED
    BY <2>1, <2>2, <2>3 DEF Range
<1>8. QED
  BY <1>5, <1>6, <1>7

\* The calls for an SVI.
LEMMA SviCalls ==
    ASSUME NEW s \in Svi
    PROVE  /\ ~ Leaving(s) =>
                 /\ lgm_setUpSvi(s) \in Seq(Own("lgm", s))
                 /\ {BridgeVlanAdd(Tenant, VlanOf[LbOf[s]]), LinkSetMaster(SviLink(s), VrfLink(VrfOf[s])),
                     LinkSetUp(SviLink(s)), AddrAdd(SviLink(s))} \subseteq Range(lgm_setUpSvi(s))
           /\ Leaving(s) =>
                 /\ lgm_tearDownSvi(s) \in Seq(Own("lgm", s))
                 /\ {BridgeVlanDel(Tenant, VlanOf[LbOf[s]]), LinkDel(SviLink(s))}
                       \subseteq Range(lgm_tearDownSvi(s))
<1>1. /\ Tenant \in Names /\ SviLink(s) \in Names /\ LbOf[s] \in Names /\ VlanOf[LbOf[s]] \in Names
      /\ VrfLink(VrfOf[s]) \in Names
  BY NamesOfObjects
<1>2. LinksOf(s) = {SviLink(s)} /\ MasterOf(s, SviLink(s)) = VrfLink(VrfOf[s])
  BY DevicesAssumption DEF LinksOf, MasterOf
<1>3. ASSUME ~ Leaving(s)
      PROVE  /\ GetLB(LbOf[s]) \in Own("lgm", s) /\ LinkByName(Tenant) \in Own("lgm", s)
             /\ LinkAdd(SviLink(s)) \in Own("lgm", s) /\ LinkSetAttr(SviLink(s)) \in Own("lgm", s)
             /\ LinkByName(VrfLink(VrfOf[s])) \in Own("lgm", s)
             /\ LinkSetMaster(SviLink(s), VrfLink(VrfOf[s])) \in Own("lgm", s)
             /\ LinkSetUp(SviLink(s)) \in Own("lgm", s) /\ AddrAdd(SviLink(s)) \in Own("lgm", s)
  BY <1>1, <1>2, <1>3, HostCalls
<1>4. ASSUME Leaving(s)
      PROVE  /\ GetLB(LbOf[s]) \in Own("lgm", s) /\ LinkByName(Tenant) \in Own("lgm", s)
             /\ LinkOrGone(SviLink(s)) \in Own("lgm", s) /\ LinkDel(SviLink(s)) \in Own("lgm", s)
  BY <1>1, <1>2, <1>4, HostCalls
<1>5. ASSUME NEW c \in {BridgeVlanAdd(Tenant, VlanOf[LbOf[s]]), BridgeVlanDel(Tenant, VlanOf[LbOf[s]])},
             c.op = "BridgeVlanAdd" => ~ Leaving(s), c.op = "BridgeVlanDel" => Leaving(s)
      PROVE  c \in Own("lgm", s)
  <2>1. c \in Quiet
    BY <1>1, CallsOnNames
  <2>2. c.op \in {"BridgeVlanAdd", "BridgeVlanDel"} /\ <<c.link, c.arg>> = TenantVlan(s)
    BY DEF BridgeVlanAdd, BridgeVlanDel, Call, TenantVlan
  <2>3. HostCall(s, c)
    BY <1>5, <2>2 DEF HostCall
  <2>4. QED
    BY <2>1, <2>3 DEF Own
<1>6. ~ Leaving(s) => BridgeVlanAdd(Tenant, VlanOf[LbOf[s]]) \in Own("lgm", s)
  <2>1. BridgeVlanAdd(Tenant, VlanOf[LbOf[s]]).op = "BridgeVlanAdd"
    BY DEF BridgeVlanAdd, Call
  <2>2. QED
    BY <1>5, <2>1
<1>7. Leaving(s) => BridgeVlanDel(Tenant, VlanOf[LbOf[s]]) \in Own("lgm", s)
  <2>1. BridgeVlanDel(Tenant, VlanOf[LbOf[s]]).op = "BridgeVlanDel"
    BY DEF BridgeVlanDel, Call
  <2>2. QED
    BY <1>5, <2>1
<1>8. ASSUME ~ Leaving(s) PROVE lgm_setUpSvi(s) \in Seq(Own("lgm", s))
  BY <1>3, <1>6, <1>8 DEF lgm_setUpSvi
<1>9. ASSUME Leaving(s) PROVE lgm_tearDownSvi(s) \in Seq(Own("lgm", s))
  BY <1>4, <1>7, <1>9 DEF lgm_tearDownSvi
<1>10. {BridgeVlanAdd(Tenant, VlanOf[LbOf[s]]), LinkSetMaster(SviLink(s), VrfLink(VrfOf[s])),
        LinkSetUp(SviLink(s)), AddrAdd(SviLink(s))} \subseteq Range(lgm_setUpSvi(s))
  <2>1. /\ DOMAIN lgm_setUpSvi(s) = 1..10
        /\ lgm_setUpSvi(s)[3] = BridgeVlanAdd(Tenant, VlanOf[LbOf[s]])
        /\ lgm_setUpSvi(s)[7] = LinkSetMaster(SviLink(s), VrfLink(VrfOf[s]))
        /\ lgm_setUpSvi(s)[8] = LinkSetUp(SviLink(s))
        /\ lgm_setUpSvi(s)[10] = AddrAdd(SviLink(s))
    BY DEF lgm_setUpSvi
  <2>2. 3 \in 1..10 /\ 7 \in 1..10 /\ 8 \in 1..10 /\ 10 \in 1..10
    OBVIOUS
  <2>3. QED
    BY <2>1, <2>2 DEF Range
<1>11. {BridgeVlanDel(Tenant, VlanOf[LbOf[s]]), LinkDel(SviLink(s))} \subseteq Range(lgm_tearDownSvi(s))
  <2>1. /\ DOMAIN lgm_tearDownSvi(s) = 1..5
        /\ lgm_tearDownSvi(s)[3] = BridgeVlanDel(Tenant, VlanOf[LbOf[s]])
        /\ lgm_tearDownSvi(s)[5] = LinkDel(SviLink(s))
    BY DEF lgm_tearDownSvi
  <2>2. 3 \in 1..5 /\ 5 \in 1..5
    OBVIOUS
  <2>3. QED
    BY <2>1, <2>2 DEF Range
<1>12. QED
  BY <1>8, <1>9, <1>10, <1>11

\* The calls of FRR for an SVI.
LEMMA FrrSviCalls ==
    ASSUME NEW s \in Svi
    PROVE  /\ ~ Leaving(s) =>
                 /\ frr_setUpSvi(s) \in Seq(Own("frr", s))
                 /\ s \in EnableBgp =>
                       {Conf(<<"bgp", VrfOf[s]>>), Conf(Neighbor(s))} \subseteq Range(frr_setUpSvi(s))
           /\ Leaving(s) =>
                 /\ frr_tearDownSvi(s) \in Seq(Own("frr", s))
                 /\ s \in EnableBgp => NoConf(Neighbor(s)) \in Range(frr_tearDownSvi(s))
<1>1. LbOf[s] \in Names /\ Neighbor(s) \in Names /\ <<"bgp", VrfOf[s]>> \in Names
  BY NamesOfObjects
<1>2. s \in EnableBgp => ConfOf(s) = {<<"bgp", VrfOf[s]>>, Neighbor(s)}
  BY DevicesAssumption DEF ConfOf
<1>3. GetLB(LbOf[s]) \in Own("frr", s)
  BY <1>1, FrrCalls
<1>4. s \in EnableBgp => Conf(<<"bgp", VrfOf[s]>>) \in Own("frr", s)
  BY <1>1, <1>2, FrrCalls
<1>5. s \in EnableBgp /\ ~ Leaving(s) => Conf(Neighbor(s)) \in Own("frr", s)
  BY <1>1, <1>2, FrrCalls
<1>6. s \in EnableBgp /\ Leaving(s) => NoConf(Neighbor(s)) \in Own("frr", s)
  BY <1>1, FrrCalls
<1>7. << GetLB(LbOf[s]) >> \in Seq(Own("frr", s)) /\ << >> \in Seq(Own("frr", s))
  BY <1>3
<1>8. ASSUME ~ Leaving(s)
      PROVE  /\ frr_setUpSvi(s) \in Seq(Own("frr", s))
             /\ s \in EnableBgp =>
                   {Conf(<<"bgp", VrfOf[s]>>), Conf(Neighbor(s))} \subseteq Range(frr_setUpSvi(s))
  <2>1. CASE s \notin EnableBgp
    <3>1. frr_setUpSvi(s) = << GetLB(LbOf[s]) >> \o << >>
      BY <2>1 DEF frr_setUpSvi
    <3>2. << GetLB(LbOf[s]) >> \o << >> \in Seq(Own("frr", s))
      BY <1>7, ConcatFacts
    <3>3. QED
      BY <2>1, <3>1, <3>2
  <2>2. CASE s \in EnableBgp
    <3>1. << Conf(<<"bgp", VrfOf[s]>>), Conf(Neighbor(s)) >> \in Seq(Own("frr", s))
      BY <1>4, <1>5, <1>8, <2>2
    <3>2. {Conf(<<"bgp", VrfOf[s]>>), Conf(Neighbor(s))}
             \subseteq Range(<< Conf(<<"bgp", VrfOf[s]>>), Conf(Neighbor(s)) >>)
      BY DEF Range
    <3>3. frr_setUpSvi(s) = << GetLB(LbOf[s]) >> \o << Conf(<<"bgp", VrfOf[s]>>), Conf(Neighbor(s)) >>
      BY <2>2 DEF frr_setUpSvi
    <3>4. PICK b : b = << Conf(<<"bgp", VrfOf[s]>>), Conf(Neighbor(s)) >>
      OBVIOUS
    <3>5. PICK q : q = frr_setUpSvi(s)
      OBVIOUS
    <3>6. PICK a : a = << GetLB(LbOf[s]) >>
      OBVIOUS
    <3>7. q = a \o b /\ a \in Seq(Own("frr", s)) /\ b \in Seq(Own("frr", s))
      BY <1>7, <3>1, <3>3, <3>4, <3>5, <3>6
    <3>8. q \in Seq(Own("frr", s)) /\ Range(b) \subseteq Range(q)
      BY <3>7, ConcatFacts
    <3>9. QED
      BY <3>2, <3>4, <3>5, <3>8
  <2>3. QED
    BY <2>1, <2>2
<1>9. ASSUME Leaving(s)
      PROVE  /\ frr_tearDownSvi(s) \in Seq(Own("frr", s))
             /\ s \in EnableBgp => NoConf(Neighbor(s)) \in Range(frr_tearDownSvi(s))
  <2>1. CASE s \notin EnableBgp
    <3>1. frr_tearDownSvi(s) = << GetLB(LbOf[s]) >> \o << >>
      BY <2>1 DEF frr_tearDownSvi
    <3>2. << GetLB(LbOf[s]) >> \o << >> \in Seq(Own("frr", s))
      BY <1>7, ConcatFacts
    <3>3. QED
      BY <2>1, <3>1, <3>2
  <2>2. CASE s \in EnableBgp
    <3>1. << Conf(<<"bgp", VrfOf[s]>>), NoConf(Neighbor(s)) >> \in Seq(Own("frr", s))
      BY <1>4, <1>6, <1>9, <2>2
    <3>2. NoConf(Neighbor(s)) \in Range(<< Conf(<<"bgp", VrfOf[s]>>), NoConf(Neighbor(s)) >>)
      BY DEF Range
    <3>3. frr_tearDownSvi(s) = << GetLB(LbOf[s]) >> \o << Conf(<<"bgp", VrfOf[s]>>), NoConf(Neighbor(s)) >>
      BY <2>2 DEF frr_tearDownSvi
    <3>4. PICK b : b = << Conf(<<"bgp", VrfOf[s]>>), NoConf(Neighbor(s)) >>
      OBVIOUS
    <3>5. PICK q : q = frr_tearDownSvi(s)
      OBVIOUS
    <3>6. PICK a : a = << GetLB(LbOf[s]) >>
      OBVIOUS
    <3>7. q = a \o b /\ a \in Seq(Own("frr", s)) /\ b \in Seq(Own("frr", s))
      BY <1>7, <3>1, <3>3, <3>4, <3>5, <3>6
    <3>8. q \in Seq(Own("frr", s)) /\ Range(b) \subseteq Range(q)
      BY <3>7, ConcatFacts
    <3>9. QED
      BY <3>2, <3>4, <3>5, <3>8
  <2>3. QED
    BY <2>1, <2>2
<1>10. QED
  BY <1>8, <1>9

\* LGM's calls for a VRF.
LEMMA SetUpVrfCalls ==
    ASSUME NEW v \in Vrf, GetID(v) \in Nat, ~ Leaving(v)
    PROVE  /\ lgm_setUpVrf(v) \in Seq(Own("lgm", v))
           /\ v # Grd => {LinkAddVrf(v, GetID(v)), LinkSetUp(VrfLink(v)), AddrAdd(VrfLink(v))}
                            \subseteq Range(lgm_setUpVrf(v))
           /\ v # Grd /\ v \in WithVni =>
                 {LinkSetMaster(BrLink(v), VrfLink(v)), LinkSetUp(BrLink(v)),
                  LinkSetMaster(VxlanLink(v), BrLink(v)), LinkSetUp(VxlanLink(v))}
                     \subseteq Range(lgm_setUpVrf(v))
<1>1. /\ VrfLink(v) \in Names /\ BrLink(v) \in Names /\ VxlanLink(v) \in Names
      /\ GetID(v) \in Names /\ "local" \in Names
  BY NamesOfObjects
<1>2. CASE v = Grd
  BY <1>2 DEF lgm_setUpVrf
<1>3. CASE v # Grd
  <2> DEFINE All == Own("lgm", v)
  <2>1. /\ LinksOf(v) \subseteq Names /\ VrfLink(v) \in LinksOf(v)
        /\ v \in WithVni => {BrLink(v), VxlanLink(v)} \subseteq LinksOf(v)
    BY <1>1, <1>3, DevicesAssumption DEF LinksOf
  <2>2. v \in WithVni => MasterOf(v, BrLink(v)) = VrfLink(v) /\ MasterOf(v, VxlanLink(v)) = BrLink(v)
    BY DEF MasterOf, BrLink, VxlanLink
  <2>3. LinkAddVrf(v, GetID(v)) \in All
    <3>1. PICK c : c = LinkAddVrf(v, GetID(v))
      OBVIOUS
    <3>2. c.op = "LinkAddVrf" /\ c.link = v /\ c.arg = GetID(v)
      BY <3>1 DEF LinkAddVrf, Call
    <3>3. HostCall(v, c)
      BY <1>3, <3>2 DEF HostCall
    <3>4. QED
      BY <3>1, <3>3 DEF Own
  <2>4. RouteAdd(GetID(v)) \in All
    <3>1. PICK c : c = RouteAdd(GetID(v))
      OBVIOUS
    <3>2. c.op = "RouteAdd" /\ c.link = GetID(v)
      BY <3>1 DEF RouteAdd, Call
    <3>3. HostCall(v, c)
      BY <1>3, <3>2 DEF HostCall
    <3>4. QED
      BY <1>1, <3>1, <3>3, CallsOnNames DEF Own
  <2>5. /\ RouteList(GetID(v)) \in All /\ RouteList("local") \in All
        /\ LinkByName(VrfLink(v)) \in All /\ LinkSetAttr(VrfLink(v)) \in All
        /\ LinkSetUp(VrfLink(v)) \in All /\ AddrAdd(VrfLink(v)) \in All
    BY <1>1, <2>1, HostCalls
  <2>6. ASSUME v \in WithVni
        PROVE  /\ LinkAdd(BrLink(v)) \in All /\ LinkByName(BrLink(v)) \in All
               /\ LinkSetAttr(BrLink(v)) \in All /\ LinkSetUp(BrLink(v)) \in All
               /\ LinkAdd(VxlanLink(v)) \in All /\ LinkByName(VxlanLink(v)) \in All
               /\ LinkSetUp(VxlanLink(v)) \in All
    BY <1>1, <2>1, <2>6, HostCalls
  <2>7. ASSUME v \in WithVni
        PROVE  LinkSetMaster(BrLink(v), VrfLink(v)) \in All /\ LinkSetMaster(VxlanLink(v), BrLink(v)) \in All
    BY <1>1, <2>1, <2>2, <2>7, HostCalls
  <2> HIDE DEF All
  <2>8. PICK a : a = << RouteList(GetID(v)), RouteList("local"), LinkAddVrf(v, GetID(v)),
            LinkByName(VrfLink(v)), LinkSetAttr(VrfLink(v)), LinkSetUp(VrfLink(v)),
            AddrAdd(VrfLink(v)), RouteAdd(GetID(v)) >>
    OBVIOUS
  <2>9. a \in Seq(All)
    BY <2>3, <2>4, <2>5, <2>8
  <2>10. {LinkAddVrf(v, GetID(v)), LinkSetUp(VrfLink(v)), AddrAdd(VrfLink(v))} \subseteq Range(a)
    <3>1. DOMAIN a = 1..8 /\ a[3] = LinkAddVrf(v, GetID(v)) /\ a[6] = LinkSetUp(VrfLink(v)) /\ a[7] = AddrAdd(VrfLink(v))
      BY <2>8
    <3>2. 3 \in 1..8 /\ 6 \in 1..8 /\ 7 \in 1..8
      OBVIOUS
    <3>3. QED
      BY <3>1, <3>2 DEF Range
  <2>11. PICK d : d = << LinkAdd(BrLink(v)), LinkByName(BrLink(v)), LinkSetAttr(BrLink(v)),
                    LinkByName(VrfLink(v)), LinkSetMaster(BrLink(v), VrfLink(v)),
                    LinkSetUp(BrLink(v)), LinkAdd(VxlanLink(v)), LinkByName(VxlanLink(v)),
                    LinkSetMaster(VxlanLink(v), BrLink(v)), LinkSetUp(VxlanLink(v)) >>
    OBVIOUS
  <2>12. v \in WithVni => d \in Seq(All)
    BY <2>5, <2>6, <2>7, <2>11
  <2>13. {LinkSetMaster(BrLink(v), VrfLink(v)), LinkSetUp(BrLink(v)),
          LinkSetMaster(VxlanLink(v), BrLink(v)), LinkSetUp(VxlanLink(v))} \subseteq Range(d)
    <3>1. /\ DOMAIN d = 1..10 /\ d[5] = LinkSetMaster(BrLink(v), VrfLink(v)) /\ d[6] = LinkSetUp(BrLink(v))
          /\ d[9] = LinkSetMaster(VxlanLink(v), BrLink(v)) /\ d[10] = LinkSetUp(VxlanLink(v))
      BY <2>11
    <3>2. 5 \in 1..10 /\ 6 \in 1..10 /\ 9 \in 1..10 /\ 10 \in 1..10
      OBVIOUS
    <3>3. QED
      BY <3>1, <3>2 DEF Range
  <2>14. PICK e : e = IF v \notin WithVni THEN << >> ELSE d
    OBVIOUS
  <2>15. PICK q : q = lgm_setUpVrf(v)
    OBVIOUS
  <2>16. q = a \o e
    BY <1>3, <2>8, <2>11, <2>14, <2>15 DEF lgm_setUpVrf
  <2>17. e \in Seq(All)
    BY <2>12, <2>14
  <2>18. q \in Seq(All) /\ Range(q) = Range(a) \cup Range(e)
    BY <2>9, <2>16, <2>17, ConcatFacts
  <2>19. v \in WithVni => Range(d) \subseteq Range(q)
    BY <2>14, <2>18
  <2>20. QED
    BY <1>3, <2>10, <2>13, <2>15, <2>18, <2>19 DEF All
<1>4. QED
  BY <1>2, <1>3

LEMMA TearDownVrfCalls ==
    ASSUME NEW v \in Vrf, db[v] \in Object, Leaving(v)
    PROVE  /\ lgm_tearDownVrf(v) \in Seq(Own("lgm", v))
           /\ v # Grd => {RouteFlush(db[v].table), LinkDel(VrfLink(v))} \subseteq Range(lgm_tearDownVrf(v))
           /\ v # Grd /\ v \in WithVni =>
                 {LinkDel(VxlanLink(v)), LinkDel(BrLink(v))} \subseteq Range(lgm_tearDownVrf(v))
<1> DEFINE All == Own("lgm", v)
<1>1. /\ VrfLink(v) \in Names /\ BrLink(v) \in Names /\ VxlanLink(v) \in Names
      /\ (db[v].table = NoTable) \in Names
  BY NamesOfObjects
<1>2. db[v].table \in Names
  <2>1. db[v].table \in 0..NoTable
    BY DEF Object
  <2>2. QED
    BY <2>1, NamesOfObjects, DevicesAssumption DEF NoTable
<1>3. /\ LinksOf(v) \subseteq Names
      /\ v # Grd => VrfLink(v) \in LinksOf(v)
      /\ v # Grd /\ v \in WithVni => {BrLink(v), VxlanLink(v)} \subseteq LinksOf(v)
  BY <1>1, DevicesAssumption DEF LinksOf
<1>4. LinkOrGone(VrfLink(v)) \in All /\ Deref(db[v].table = NoTable) \in All
  BY <1>1, <1>3, HostCalls
<1>5. RouteFlush(db[v].table) \in All
  <2>1. PICK c : c = RouteFlush(db[v].table)
    OBVIOUS
  <2>2. c.op = "RouteFlush" /\ c.link = db[v].table
    BY <2>1 DEF RouteFlush, Call
  <2>3. HostCall(v, c)
    BY <2>2 DEF HostCall
  <2>4. QED
    BY <1>2, <2>1, <2>3, CallsOnNames DEF Own
<1>6. v # Grd => LinkDel(VrfLink(v)) \in All
  BY <1>3, HostCalls
<1>7. ASSUME v # Grd, v \in WithVni
      PROVE  /\ LinkByName(VxlanLink(v)) \in All /\ LinkDel(VxlanLink(v)) \in All
             /\ LinkByName(BrLink(v)) \in All /\ LinkDel(BrLink(v)) \in All
  BY <1>1, <1>3, <1>7, HostCalls
<1> HIDE DEF All
<1>8. PICK q : q = lgm_tearDownVrf(v)
  OBVIOUS
<1>9. PICK a : a = << LinkOrGone(VrfLink(v)) >>
  OBVIOUS
<1>10. a \in Seq(All)
  BY <1>4, <1>9
<1>11. CASE v = Grd
  <2>1. q = a \o << >>
    BY <1>8, <1>9, <1>11 DEF lgm_tearDownVrf
  <2>2. q \in Seq(All)
    BY <1>10, <2>1, ConcatFacts
  <2>3. QED
    BY <1>8, <1>11, <2>2 DEF All
<1>12. CASE v # Grd
  <2>1. PICK d : d = << Deref(db[v].table = NoTable) >>
    OBVIOUS
  <2>2. PICK e : e = << LinkByName(VxlanLink(v)), LinkDel(VxlanLink(v)),
                        LinkByName(BrLink(v)), LinkDel(BrLink(v)) >>
    OBVIOUS
  <2>3. PICK f : f = IF v \notin WithVni THEN << >> ELSE e
    OBVIOUS
  <2>4. PICK g : g = << RouteFlush(db[v].table), LinkDel(VrfLink(v)) >>
    OBVIOUS
  <2>5. q = a \o (d \o f \o g)
    <3>1. lgm_tearDownVrf(v) = a \o (d \o (IF v \notin WithVni THEN << >> ELSE e) \o g)
      BY <1>9, <1>12, <2>1, <2>2, <2>4, Zenon DEF lgm_tearDownVrf
    <3>2. QED
      BY <1>8, <2>3, <3>1
  <2>6. d \in Seq(All) /\ g \in Seq(All)
    BY <1>4, <1>5, <1>6, <1>12, <2>1, <2>4
  <2>7. v \in WithVni => e \in Seq(All)
    BY <1>7, <1>12, <2>2
  <2>8. f \in Seq(All)
    BY <2>3, <2>7
  <2>9. PICK h : h = d \o f
    OBVIOUS
  <2>10. h \in Seq(All) /\ Range(h) = Range(d) \cup Range(f)
    BY <2>6, <2>8, <2>9, ConcatFacts
  <2>11. PICK k : k = h \o g
    OBVIOUS
  <2>12. k \in Seq(All) /\ Range(k) = Range(h) \cup Range(g)
    BY <2>6, <2>10, <2>11, ConcatFacts
  <2>13. q \in Seq(All) /\ Range(q) = Range(a) \cup Range(k)
    <3>1. q = a \o k
      BY <2>5, <2>9, <2>11
    <3>2. QED
      BY <1>10, <2>12, <3>1, ConcatFacts
  <2>14. Range(g) \subseteq Range(q) /\ Range(f) \subseteq Range(q)
    BY <2>10, <2>12, <2>13
  <2>15. {RouteFlush(db[v].table), LinkDel(VrfLink(v))} \subseteq Range(g)
    BY <2>4 DEF Range
  <2>16. {LinkDel(VxlanLink(v)), LinkDel(BrLink(v))} \subseteq Range(e)
    <3>1. DOMAIN e = 1..4 /\ e[2] = LinkDel(VxlanLink(v)) /\ e[4] = LinkDel(BrLink(v))
      BY <2>2
    <3>2. 2 \in 1..4 /\ 4 \in 1..4
      OBVIOUS
    <3>3. QED
      BY <3>1, <3>2 DEF Range
  <2>17. QED
    <3>1. v \in WithVni => Range(e) \subseteq Range(q)
      BY <2>3, <2>14
    <3>2. QED
      BY <1>8, <1>12, <2>13, <2>14, <2>15, <2>16, <3>1 DEF All
<1>13. QED
  BY <1>11, <1>12

\* The calls of FRR for a VRF.
LEMMA FrrVrfCalls ==
    ASSUME NEW v \in Vrf
    PROVE  /\ ~ Leaving(v) =>
                 /\ frr_setUpVrf(v) \in Seq(Own("frr", v))
                 /\ v # Grd /\ v \in WithVni =>
                       {Conf(<<"vni", v>>), Conf(<<"bgp", v>>)} \subseteq Range(frr_setUpVrf(v))
           /\ Leaving(v) =>
                 /\ frr_tearDownVrf(v) \in Seq(Own("frr", v))
                 /\ v # Grd => {NoConf(<<"vni", v>>), NoConf(<<"bgp", v>>)} \subseteq Range(frr_tearDownVrf(v))
<1>1. v \in Names /\ <<"vni", v>> \in Names /\ <<"bgp", v>> \in Names /\ (v \notin WithVni) \in Names
  BY NamesOfObjects
<1>2. v # Grd /\ v \in WithVni => ConfOf(v) = {<<"vni", v>>, <<"bgp", v>>}
  BY DEF ConfOf
<1>3. /\ Show(v) \in Own("frr", v) /\ Parse(v) \in Own("frr", v)
      /\ Deref(v \notin WithVni) \in Own("frr", v)
  BY <1>1, FrrCalls
<1>4. ASSUME ~ Leaving(v), v # Grd, v \in WithVni
      PROVE  Conf(<<"vni", v>>) \in Own("frr", v) /\ Conf(<<"bgp", v>>) \in Own("frr", v)
  <2>1. <<"vni", v>> \in Names \cap ConfOf(v) /\ <<"bgp", v>> \in Names \cap ConfOf(v)
    BY <1>1, <1>2, <1>4
  <2>2. QED
    BY <1>4, <2>1, FrrCalls
<1>5. ASSUME Leaving(v)
      PROVE  /\ ShowOrGone(v) \in Own("frr", v)
             /\ NoConf(<<"vni", v>>) \in Own("frr", v) /\ NoConf(<<"bgp", v>>) \in Own("frr", v)
  <2>1. ShowOrGone(v) \in Own("frr", v)
    BY <1>1, <1>5, FrrCalls
  <2>2. NoConf(<<"vni", v>>) \in Own("frr", v)
    BY <1>1, <1>5, FrrCalls
  <2>3. NoConf(<<"bgp", v>>) \in Own("frr", v)
    BY <1>1, <1>5, FrrCalls
  <2>4. QED
    BY <2>1, <2>2, <2>3
<1>6. ASSUME ~ Leaving(v) PROVE frr_setUpVrf(v) \in Seq(Own("frr", v))
  BY <1>3, <1>4, <1>6 DEF frr_setUpVrf
<1>7. ASSUME Leaving(v) PROVE frr_tearDownVrf(v) \in Seq(Own("frr", v))
  BY <1>3, <1>5, <1>7 DEF frr_tearDownVrf
<1>8. ASSUME v # Grd
      PROVE  /\ v \in WithVni => {Conf(<<"vni", v>>), Conf(<<"bgp", v>>)} \subseteq Range(frr_setUpVrf(v))
             /\ {NoConf(<<"vni", v>>), NoConf(<<"bgp", v>>)} \subseteq Range(frr_tearDownVrf(v))
  <2>1. PICK q : q = frr_setUpVrf(v)
    OBVIOUS
  <2>2. v \in WithVni => DOMAIN q = 1..6 /\ q[1] = Conf(<<"vni", v>>) /\ q[2] = Conf(<<"bgp", v>>)
    BY <1>8, <2>1 DEF frr_setUpVrf
  <2>3. PICK t : t = frr_tearDownVrf(v)
    OBVIOUS
  <2>4. DOMAIN t = 1..4 /\ t[3] = NoConf(<<"bgp", v>>) /\ t[4] = NoConf(<<"vni", v>>)
    BY <1>8, <2>3 DEF frr_tearDownVrf
  <2>5. 1 \in 1..6 /\ 2 \in 1..6 /\ 3 \in 1..4 /\ 4 \in 1..4
    OBVIOUS
  <2>6. QED
    BY <2>1, <2>2, <2>3, <2>4, <2>5 DEF Range
<1>9. QED
  BY <1>6, <1>7, <1>8

\* The calls of the tear-down of a port before the last one.
BeforeLast(b) ==
    {c \in Own("lci", b) :
        \/ c.op \in {"LinkByName", "LinkSetDown", "BridgeVlanDel"} /\ c.link = Port(b)
        \/ \E l \in LbsOf[b] : c = GetLB(l)}

\* The calls for a port; only the last one of a tear-down takes the port away.
LEMMA PortCalls ==
    ASSUME NEW b \in Bp
    PROVE  /\ ~ Leaving(b) =>
                 /\ lci_setUpBp(b) \in Seq(Own("lci", b))
                 /\ {LinkSetMaster(Port(b), Tenant), LinkSetUp(Port(b))} \subseteq Range(lci_setUpBp(b))
                 /\ \A l \in LbsOf[b] : BridgeVlanAdd(Port(b), VlanOf[l]) \in Range(lci_setUpBp(b))
           /\ Leaving(b) =>
                 \E q \in Seq(BeforeLast(b)) :
                    lci_tearDownBp(b) = q \o << LinkDel(Port(b)) >> /\ LinkDel(Port(b)) \in Own("lci", b)
<1> DEFINE onBridge == [l \in Lb |-> << GetLB(l), BridgeVlanAdd(Port(b), VlanOf[l]) >>]
           offBridge == [l \in Lb |-> << GetLB(l), BridgeVlanDel(Port(b), VlanOf[l]) >>]
           All == Own("lci", b)
<1>1. Tenant \in Names /\ Port(b) \in Names /\ \A l \in Lb : l \in Names /\ VlanOf[l] \in Names
  BY NamesOfObjects
<1>2. LinksOf(b) = {Port(b)} /\ MasterOf(b, Port(b)) = Tenant /\ LbsOf[b] \subseteq Lb
  BY DevicesAssumption DEF LinksOf, MasterOf
<1>3. \A l \in Lb : GetLB(l) \in All
  BY <1>1, <1>2, HostCalls
<1>4. LinkByName(Tenant) \in All /\ LinkByName(Port(b)) \in All
  BY <1>1, <1>2, HostCalls
<1>5. CASE ~ Leaving(b)
  <2>1. \A l \in Lb : BridgeVlanAdd(Port(b), VlanOf[l]) \in All
    BY <1>1, <1>2, <1>5, HostCalls
  <2>2. LinkSetMaster(Port(b), Tenant) \in All /\ LinkSetUp(Port(b)) \in All
    BY <1>1, <1>2, <1>5, HostCalls
  <2> HIDE DEF All
  <2>3. onBridge \in [Lb -> Seq(All)]
    BY <1>3, <2>1
  <2>4. \A l \in Lb : BridgeVlanAdd(Port(b), VlanOf[l]) \in Range(onBridge[l])
    <3>1. SUFFICES ASSUME NEW l \in Lb PROVE BridgeVlanAdd(Port(b), VlanOf[l]) \in Range(onBridge[l])
      OBVIOUS
    <3>2. onBridge[l] = << GetLB(l), BridgeVlanAdd(Port(b), VlanOf[l]) >>
      OBVIOUS
    <3> HIDE DEF onBridge
    <3>3. QED
      BY <3>2 DEF Range
  <2>5. PICK d : d = PerBridge(b, onBridge)
    OBVIOUS
  <2>6. d \in Seq(All) /\ Range(d) = UNION {Range(onBridge[l]) : l \in LbsOf[b]}
    <3> HIDE DEF onBridge
    <3>1. QED
      BY <2>3, <2>5, PerBridgeFacts
  <2>7. PICK a : a = << LinkByName(Tenant), LinkByName(Port(b)), LinkSetMaster(Port(b), Tenant) >>
    OBVIOUS
  <2>8. PICK e : e = << LinkSetUp(Port(b)) >>
    OBVIOUS
  <2>9. PICK q : q = lci_setUpBp(b)
    OBVIOUS
  <2>10. PICK h : h = a \o d
    OBVIOUS
  <2>11. q = h \o e
    BY <2>5, <2>7, <2>8, <2>9, <2>10 DEF lci_setUpBp
  <2> HIDE DEF onBridge
  <2>12. a \in Seq(All) /\ e \in Seq(All)
    BY <1>4, <2>2, <2>7, <2>8
  <2>13. h \in Seq(All) /\ Range(h) = Range(a) \cup Range(d)
    BY <2>6, <2>10, <2>12, ConcatFacts
  <2>14. q \in Seq(All) /\ Range(q) = Range(h) \cup Range(e)
    BY <2>11, <2>12, <2>13, ConcatFacts
  <2>15. LinkSetMaster(Port(b), Tenant) \in Range(a) /\ LinkSetUp(Port(b)) \in Range(e)
    BY <2>7, <2>8 DEF Range
  <2>16. \A l \in LbsOf[b] : BridgeVlanAdd(Port(b), VlanOf[l]) \in Range(d)
    BY <1>2, <2>4, <2>6
  <2>17. QED
    BY <1>5, <2>9, <2>13, <2>14, <2>15, <2>16 DEF All
<1>6. CASE Leaving(b)
  <2> DEFINE Some == BeforeLast(b)
  <2>1. \A l \in Lb : BridgeVlanDel(Port(b), VlanOf[l]) \in All
    BY <1>1, <1>2, <1>6, HostCalls
  <2>2. LinkSetDown(Port(b)) \in All /\ LinkDel(Port(b)) \in All
    BY <1>1, <1>2, <1>6, HostCalls
  <2>3. \A l \in Lb : BridgeVlanDel(Port(b), VlanOf[l]) \in Some
    BY <2>1 DEF BeforeLast, BridgeVlanDel, Call
  <2>4. LinkByName(Port(b)) \in Some /\ LinkSetDown(Port(b)) \in Some
    BY <1>4, <2>2 DEF BeforeLast, LinkByName, LinkSetDown, Call
  <2>5. \A l \in LbsOf[b] : GetLB(l) \in Some
    BY <1>2, <1>3 DEF BeforeLast
  <2>6. \A l \in LbsOf[b] : Range(offBridge[l]) \subseteq Some
    <3>1. SUFFICES ASSUME NEW l \in LbsOf[b] PROVE Range(offBridge[l]) \subseteq Some
      OBVIOUS
    <3>2. PICK q : q = << GetLB(l), BridgeVlanDel(Port(b), VlanOf[l]) >>
      OBVIOUS
    <3>3. offBridge[l] = q
      BY <1>2, <3>2
    <3>4. q[1] \in Some /\ q[2] \in Some /\ DOMAIN q = 1..2
      BY <1>2, <2>3, <2>5, <3>2
    <3> HIDE DEF offBridge, Some
    <3>5. Range(q) \subseteq Some
      <4>1. \A i \in 1..2 : i = 1 \/ i = 2
        OBVIOUS
      <4>2. QED
        BY <3>4, <4>1 DEF Range
    <3>6. QED
      BY <3>3, <3>5
  <2>7. offBridge \in [Lb -> Seq(All)]
    <3> HIDE DEF All
    <3>1. QED
      BY <1>3, <2>1
  <2>8. PICK d : d = PerBridge(b, offBridge)
    OBVIOUS
  <2>9. PICK q : q = lci_tearDownBp(b)
    OBVIOUS
  <2>10. PICK a : a = << LinkByName(Port(b)), LinkSetDown(Port(b)) >>
    OBVIOUS
  <2>11. q = (a \o d) \o << LinkDel(Port(b)) >>
    BY <2>8, <2>9, <2>10 DEF lci_tearDownBp
  <2> HIDE DEF Some, All, offBridge
  <2>12. d \in Seq(All) /\ Range(d) \subseteq Some
    <3>1. d \in Seq(All) /\ Range(d) = UNION {Range(offBridge[l]) : l \in LbsOf[b]}
      BY <2>7, <2>8, PerBridgeFacts
    <3>2. QED
      BY <2>6, <3>1
  <2>13. d \in Seq(Some)
    <3>1. Len(d) \in Nat /\ \A i \in 1..Len(d) : d[i] \in Some
      BY <2>12 DEF Range
    <3>2. d = [i \in 1..Len(d) |-> d[i]]
      BY <2>12
    <3>3. QED
      BY <3>1, <3>2
  <2>14. a \in Seq(Some)
    BY <2>4, <2>10
  <2>15. PICK h : h = a \o d
    OBVIOUS
  <2>16. h \in Seq(Some)
    BY <2>13, <2>14, <2>15, ConcatFacts
  <2>17. QED
    BY <1>6, <2>2, <2>9, <2>11, <2>15, <2>16 DEF All, Some
<1>7. QED
  BY <1>5, <1>6

\* What a module puts on the host for an object whose routing table is t.
Needed(m, o, t, part, x) ==
    \/ /\ m = "lgm" /\ o \in Lb /\ o \in WithVni
       /\ \/ part = "up" /\ x = VlanLink(o)
          \/ part = "master" /\ x = <<VlanLink(o), Tenant>>
          \/ part = "vlans" /\ x = <<VlanLink(o), VlanOf[o]>>
    \/ /\ m = "lgm" /\ o \in Vrf /\ o # Grd
       /\ \/ part \in {"up", "addr"} /\ x = VrfLink(o)
          \/ part = "tables" /\ x = <<o, t>>
          \/ o \in WithVni /\ part = "up" /\ x \in {BrLink(o), VxlanLink(o)}
          \/ o \in WithVni /\ part = "master" /\ x \in {<<BrLink(o), VrfLink(o)>>, <<VxlanLink(o), BrLink(o)>>}
    \/ /\ m = "lgm" /\ o \in Svi
       /\ \/ part \in {"up", "addr"} /\ x = SviLink(o)
          \/ part = "master" /\ x = <<SviLink(o), VrfLink(VrfOf[o])>>
          \/ part = "vlans" /\ x = TenantVlan(o)
    \/ /\ m = "lci" /\ o \in Bp
       /\ \/ part = "up" /\ x = Port(o)
          \/ part = "master" /\ x = <<Port(o), Tenant>>
          \/ part = "vlans" /\ \E l \in LbsOf[o] : x = <<Port(o), VlanOf[l]>>
    \/ m = "frr" /\ o \in Vrf /\ o # Grd /\ o \in WithVni /\ part = "conf" /\ x \in {<<"vni", o>>, <<"bgp", o>>}
    \/ m = "frr" /\ o \in EnableBgp /\ part = "conf" /\ x \in {<<"bgp", VrfOf[o]>>, Neighbor(o)}

\* A handler's calls are its own, and a set-up gives all that is needed.
LEMMA OwnCalls ==
    ASSUME db \in [Obj -> Object], \A v \in Vrf : GetID(v) \in 0..MaxTable,
           NEW o \in Obj, NEW m \in Range(Subs(o))
    PROVE  /\ Calls(m, o) \in Seq(Own(m, o))
           /\ ~ Leaving(o) => \A part \in Parts : \A x : Needed(m, o, GetID(o), part, x) =>
                                  \E c \in Range(Calls(m, o)) : Gives(c, part, x)
<1> DEFINE All == Own(m, o)
           Given(q) == ~ Leaving(o) => \A part \in Parts : \A x : Needed(m, o, GetID(o), part, x) =>
                                          \E c \in Range(q) : Gives(c, part, x)
<1>1. /\ \/ m = "lgm" /\ o \in Lb /\ o \notin Vrf /\ o \notin Svi /\ o \notin Bp
         \/ m = "lgm" /\ o \in Vrf /\ o \notin Lb /\ o \notin Svi /\ o \notin Bp
         \/ m = "lgm" /\ o \in Svi /\ o \notin Lb /\ o \notin Vrf /\ o \notin Bp
         \/ m = "frr" /\ o \in Vrf /\ o \notin Lb /\ o \notin Svi /\ o \notin Bp
         \/ m = "frr" /\ o \in Svi /\ o \notin Lb /\ o \notin Vrf /\ o \notin Bp
         \/ m = "lci" /\ o \in Bp /\ o \notin Lb /\ o \notin Vrf /\ o \notin Svi
      /\ m \in Modules
  BY HandlerKinds
<1>2. CASE m = "lgm" /\ o \in Lb /\ o \notin Vrf /\ o \notin Svi /\ o \notin Bp
  <2>1. Calls(m, o) = IF Leaving(o) THEN lgm_tearDownBridge(o) ELSE lgm_setUpBridge(o)
    BY <1>2 DEF Calls, lgm_handleLB
  <2>2. Calls(m, o) \in Seq(All)
    BY <1>2, <2>1, BridgeCalls
  <2>3. ASSUME ~ Leaving(o), o \in WithVni
        PROVE  /\ LinkSetMaster(VlanLink(o), Tenant) \in Range(Calls(m, o))
               /\ LinkSetUp(VlanLink(o)) \in Range(Calls(m, o))
               /\ BridgeVlanAdd(VlanLink(o), VlanOf[o]) \in Range(Calls(m, o))
    BY <1>2, <2>1, <2>3, BridgeCalls
  <2>4. PICK q : q = Calls(m, o)
    OBVIOUS
  <2>5. Given(q)
    BY <1>2, <2>3, <2>4 DEF Needed, Gives, LinkSetMaster, LinkSetUp, BridgeVlanAdd, Call
  <2>6. QED
    BY <2>2, <2>4, <2>5
<1>3. CASE m = "lgm" /\ o \in Vrf /\ o \notin Lb /\ o \notin Svi /\ o \notin Bp
  <2>1. Calls(m, o) = IF Leaving(o) THEN lgm_tearDownVrf(o) ELSE lgm_setUpVrf(o)
    BY <1>3 DEF Calls, lgm_handlevrf
  <2>2. GetID(o) \in Nat
    BY <1>3
  <2>3. Calls(m, o) \in Seq(All)
    <3>1. CASE Leaving(o)
      BY <1>3, <2>1, <3>1, TearDownVrfCalls
    <3>2. CASE ~ Leaving(o)
      BY <1>3, <2>1, <2>2, <3>2, SetUpVrfCalls
    <3>3. QED
      BY <3>1, <3>2
  <2>4. ASSUME ~ Leaving(o), o # Grd
        PROVE  /\ LinkAddVrf(o, GetID(o)) \in Range(Calls(m, o))
               /\ LinkSetUp(VrfLink(o)) \in Range(Calls(m, o))
               /\ AddrAdd(VrfLink(o)) \in Range(Calls(m, o))
               /\ o \in WithVni => /\ LinkSetMaster(BrLink(o), VrfLink(o)) \in Range(Calls(m, o))
                                   /\ LinkSetUp(BrLink(o)) \in Range(Calls(m, o))
                                   /\ LinkSetMaster(VxlanLink(o), BrLink(o)) \in Range(Calls(m, o))
                                   /\ LinkSetUp(VxlanLink(o)) \in Range(Calls(m, o))
    BY <1>3, <2>1, <2>2, <2>4, SetUpVrfCalls
  <2>5. PICK q : q = Calls(m, o)
    OBVIOUS
  <2>6. PICK t : t = GetID(o)
    OBVIOUS
  <2>7. ASSUME ~ Leaving(o), NEW part \in Parts, NEW x, Needed(m, o, t, part, x)
        PROVE  \E c \in Range(q) : Gives(c, part, x)
    BY <1>3, <2>4, <2>5, <2>6, <2>7 DEF Needed, Gives, LinkAddVrf, AddrAdd, LinkSetMaster, LinkSetUp, Call
  <2>8. QED
    BY <2>3, <2>5, <2>6, <2>7
<1>4. CASE m = "lgm" /\ o \in Svi /\ o \notin Lb /\ o \notin Vrf /\ o \notin Bp
  <2>1. Calls(m, o) = IF Leaving(o) THEN lgm_tearDownSvi(o) ELSE lgm_setUpSvi(o)
    BY <1>4 DEF Calls, lgm_handlesvi
  <2>2. Calls(m, o) \in Seq(All)
    BY <1>4, <2>1, SviCalls
  <2>3. ASSUME ~ Leaving(o)
        PROVE  /\ BridgeVlanAdd(Tenant, VlanOf[LbOf[o]]) \in Range(Calls(m, o))
               /\ LinkSetMaster(SviLink(o), VrfLink(VrfOf[o])) \in Range(Calls(m, o))
               /\ LinkSetUp(SviLink(o)) \in Range(Calls(m, o))
               /\ AddrAdd(SviLink(o)) \in Range(Calls(m, o))
    BY <1>4, <2>1, <2>3, SviCalls
  <2>4. PICK q : q = Calls(m, o)
    OBVIOUS
  <2>5. Given(q)
    BY <1>4, <2>3, <2>4 DEF Needed, Gives, TenantVlan, LinkSetMaster, LinkSetUp, AddrAdd, BridgeVlanAdd, Call
  <2>6. QED
    BY <2>2, <2>4, <2>5
<1>5. CASE m = "frr" /\ o \in Vrf /\ o \notin Lb /\ o \notin Svi /\ o \notin Bp
  <2>1. Calls(m, o) = IF Leaving(o) THEN frr_tearDownVrf(o) ELSE frr_setUpVrf(o)
    BY <1>5 DEF Calls, frr_handlevrf
  <2>2. Calls(m, o) \in Seq(All)
    BY <1>5, <2>1, FrrVrfCalls
  <2>3. ASSUME ~ Leaving(o), o # Grd, o \in WithVni
        PROVE  Conf(<<"vni", o>>) \in Range(Calls(m, o)) /\ Conf(<<"bgp", o>>) \in Range(Calls(m, o))
    BY <1>5, <2>1, <2>3, FrrVrfCalls
  <2>4. PICK q : q = Calls(m, o)
    OBVIOUS
  <2>5. o \notin EnableBgp
    BY <1>5, DevicesAssumption
  <2>6. Given(q)
    BY <1>5, <2>3, <2>4, <2>5 DEF Needed, Gives, Conf, Call
  <2>7. QED
    BY <2>2, <2>4, <2>6
<1>6. CASE m = "frr" /\ o \in Svi /\ o \notin Lb /\ o \notin Vrf /\ o \notin Bp
  <2>1. Calls(m, o) = IF Leaving(o) THEN frr_tearDownSvi(o) ELSE frr_setUpSvi(o)
    BY <1>6 DEF Calls, frr_handlesvi
  <2>2. Calls(m, o) \in Seq(All)
    BY <1>6, <2>1, FrrSviCalls
  <2>3. ASSUME ~ Leaving(o), o \in EnableBgp
        PROVE  Conf(<<"bgp", VrfOf[o]>>) \in Range(Calls(m, o)) /\ Conf(Neighbor(o)) \in Range(Calls(m, o))
    BY <1>6, <2>1, <2>3, FrrSviCalls
  <2>4. PICK q : q = Calls(m, o)
    OBVIOUS
  <2>5. Given(q)
    BY <1>6, <2>3, <2>4 DEF Needed, Gives, Conf, Call
  <2>6. QED
    BY <2>2, <2>4, <2>5
<1>7. CASE m = "lci" /\ o \in Bp /\ o \notin Lb /\ o \notin Vrf /\ o \notin Svi
  <2>1. Calls(m, o) = IF Leaving(o) THEN lci_tearDownBp(o) ELSE lci_setUpBp(o)
    BY <1>7 DEF Calls, lci_handlebp
  <2>2. Calls(m, o) \in Seq(All)
    <3>1. CASE ~ Leaving(o)
      BY <1>7, <2>1, <3>1, PortCalls
    <3>2. CASE Leaving(o)
      <4>1. \E q \in Seq(All) : lci_tearDownBp(o) = q \o << LinkDel(Port(o)) >> /\ LinkDel(Port(o)) \in All
        <5> DEFINE Some == BeforeLast(o)
        <5>1. PICK q \in Seq(Some) :
                 lci_tearDownBp(o) = q \o << LinkDel(Port(o)) >> /\ LinkDel(Port(o)) \in Own("lci", o)
          BY <1>7, <3>2, PortCalls
        <5>2. Some \subseteq All
          BY <1>7 DEF BeforeLast
        <5> HIDE DEF Some
        <5>3. q \in Seq(All)
          BY <5>2
        <5>4. QED
          BY <1>7, <5>1, <5>3
      <4> HIDE DEF All
      <4>2. PICK q \in Seq(All) : lci_tearDownBp(o) = q \o << LinkDel(Port(o)) >> /\ LinkDel(Port(o)) \in All
        BY <4>1
      <4>3. lci_tearDownBp(o) \in Seq(All)
        BY <4>2
      <4>4. QED
        BY <2>1, <3>2, <4>3
    <3>3. QED
      BY <3>1, <3>2
  <2>3. ASSUME ~ Leaving(o)
        PROVE  /\ LinkSetMaster(Port(o), Tenant) \in Range(Calls(m, o))
               /\ LinkSetUp(Port(o)) \in Range(Calls(m, o))
               /\ \A l \in LbsOf[o] : BridgeVlanAdd(Port(o), VlanOf[l]) \in Range(Calls(m, o))
    BY <1>7, <2>1, <2>3, PortCalls
  <2>4. PICK q : q = Calls(m, o)
    OBVIOUS
  <2>5. o \notin EnableBgp
    BY <1>7, DevicesAssumption
  <2>6. Given(q)
    <3>1. SUFFICES ASSUME ~ Leaving(o), NEW part \in Parts, NEW x, Needed(m, o, GetID(o), part, x)
                   PROVE  \E c \in Range(q) : Gives(c, part, x)
      OBVIOUS
    <3>2. \/ part = "up" /\ x = Port(o)
          \/ part = "master" /\ x = <<Port(o), Tenant>>
          \/ part = "vlans" /\ \E l \in LbsOf[o] : x = <<Port(o), VlanOf[l]>>
      BY <1>7, <2>5, <3>1 DEF Needed
    <3>3. /\ Gives(LinkSetUp(Port(o)), "up", Port(o))
          /\ Gives(LinkSetMaster(Port(o), Tenant), "master", <<Port(o), Tenant>>)
          /\ \A l \in LbsOf[o] : Gives(BridgeVlanAdd(Port(o), VlanOf[l]), "vlans", <<Port(o), VlanOf[l]>>)
      BY DEF Gives, LinkSetMaster, LinkSetUp, BridgeVlanAdd, Call
    <3>4. QED
      BY <2>3, <2>4, <3>1, <3>2, <3>3
  <2>7. QED
    BY <2>2, <2>4, <2>6
<1>8. QED
  BY <1>1, <1>2, <1>3, <1>4, <1>5, <1>6, <1>7

\* What is referred to stays wanted, unless it was already leaving.
RefsWanted == \A o \in Obj : Stored(o) => \A r \in RefsOf(o) \ spoilt : Wanted(r)

\* A bridge has one SVI.
OneSvi == \A s, t \in Svi : Stored(s) /\ Stored(t) /\ LbOf[s] = LbOf[t] => s = t

\* Bridges have different VLANs, and no VRF is named like one.
VlansDiffer == (\A k, l \in Lb : VlanOf[k] = VlanOf[l] => k = l) /\ Vrf \cap Nat = {}

\* An item on the host that is an object's.
Item(o, t, part, x) ==
    \/ part \in {"up", "addr"} /\ x \in LinksOf(o)
    \/ part = "master" /\ \E n \in LinksOf(o) : x = <<n, MasterOf(o, n)>>
    \/ part = "vlans" /\ x[1] \in LinksOf(o)
    \/ part = "vlans" /\ o \in Svi /\ x = TenantVlan(o)
    \/ part = "tables" /\ o \in Vrf /\ o # Grd /\ x = <<o, t>>
    \/ part = "conf" /\ x \in ConfOf(o)

LEMMA NeededItems ==
    ASSUME NEW o \in Obj, NEW m \in Range(Subs(o)), NEW t, NEW part, NEW x, Needed(m, o, t, part, x)
    PROVE  Item(o, t, part, x)
<1>1. /\ \/ m = "lgm" /\ o \in Lb /\ o \notin Vrf /\ o \notin Svi /\ o \notin Bp
         \/ m = "lgm" /\ o \in Vrf /\ o \notin Lb /\ o \notin Svi /\ o \notin Bp
         \/ m = "lgm" /\ o \in Svi /\ o \notin Lb /\ o \notin Vrf /\ o \notin Bp
         \/ m = "frr" /\ o \in Vrf /\ o \notin Lb /\ o \notin Svi /\ o \notin Bp
         \/ m = "frr" /\ o \in Svi /\ o \notin Lb /\ o \notin Vrf /\ o \notin Bp
         \/ m = "lci" /\ o \in Bp /\ o \notin Lb /\ o \notin Vrf /\ o \notin Svi
      /\ m \in Modules
  BY HandlerKinds
<1>2. CASE m = "lgm" /\ o \in Lb /\ o \notin Vrf /\ o \notin Svi /\ o \notin Bp
  <2>1. o \in WithVni => LinksOf(o) = {VlanLink(o)} /\ MasterOf(o, VlanLink(o)) = Tenant
    BY <1>2 DEF LinksOf, MasterOf
  <2>2. QED
    BY <1>2, <2>1 DEF Needed, Item
<1>3. CASE m = "lgm" /\ o \in Vrf /\ o \notin Lb /\ o \notin Svi /\ o \notin Bp
  <2>1. o # Grd => VrfLink(o) \in LinksOf(o)
    BY <1>3 DEF LinksOf
  <2>2. o # Grd /\ o \in WithVni => /\ {BrLink(o), VxlanLink(o)} \subseteq LinksOf(o)
                                    /\ MasterOf(o, BrLink(o)) = VrfLink(o) /\ MasterOf(o, VxlanLink(o)) = BrLink(o)
    BY <1>3 DEF LinksOf, MasterOf, BrLink, VxlanLink
  <2>3. QED
    BY <1>3, <2>1, <2>2 DEF Needed, Item
<1>4. CASE m = "lgm" /\ o \in Svi /\ o \notin Lb /\ o \notin Vrf /\ o \notin Bp
  <2>1. LinksOf(o) = {SviLink(o)} /\ MasterOf(o, SviLink(o)) = VrfLink(VrfOf[o])
    BY <1>4 DEF LinksOf, MasterOf
  <2>2. QED
    BY <1>4, <2>1 DEF Needed, Item
<1>5. CASE m = "lci" /\ o \in Bp /\ o \notin Lb /\ o \notin Vrf /\ o \notin Svi
  <2>1. LinksOf(o) = {Port(o)} /\ MasterOf(o, Port(o)) = Tenant /\ o \notin EnableBgp
    BY <1>5, DevicesAssumption DEF LinksOf, MasterOf
  <2>2. QED
    BY <1>5, <2>1 DEF Needed, Item
<1>6. CASE m = "frr" /\ (o \in Vrf \/ o \in Svi)
  <2>1. o \in Vrf => o \notin EnableBgp
    BY DevicesAssumption
  <2>2. Needed(m, o, t, part, x) => part = "conf" /\ x \in ConfOf(o)
    BY <1>1, <1>6, <2>1 DEF Needed, ConfOf
  <2>3. QED
    BY <2>2 DEF Item
<1>7. QED
  BY <1>1, <1>2, <1>3, <1>4, <1>5, <1>6

\* The links of different objects are different, and the tenant bridge is
\* nobody's.
LEMMA LinksDiffer ==
    ASSUME NEW o \in Obj, NEW n \in LinksOf(o)
    PROVE  /\ n # Tenant
           /\ VlansDiffer => \A p \in Obj : n \in LinksOf(p) =>
                 o = p \/ (o \in Svi /\ p \in Svi /\ LbOf[o] = LbOf[p])
<1>1. o \in Lb => VlanOf[o] \in Nat
  BY DevicesAssumption
<1>2. \/ o \in Lb /\ n = <<"vxlan", VlanOf[o]>>
      \/ o \in Vrf /\ n \in {<<"vrf", o>>, <<"br", o>>, <<"vxlan", o>>}
      \/ o \in Svi /\ n = <<"svi", VrfOf[o], VlanOf[LbOf[o]]>>
      \/ o \in Bp /\ n = <<"port", o>>
  BY DEF LinksOf, VlanLink, VrfLink, BrLink, VxlanLink, SviLink, Port, Obj, Vpn
<1>3. n # Tenant
  BY <1>2 DEF Tenant
<1>4. ASSUME VlansDiffer, NEW p \in Obj, n \in LinksOf(p)
      PROVE  o = p \/ (o \in Svi /\ p \in Svi /\ LbOf[o] = LbOf[p])
  <2>1. \/ p \in Lb /\ n = <<"vxlan", VlanOf[p]>>
        \/ p \in Vrf /\ n \in {<<"vrf", p>>, <<"br", p>>, <<"vxlan", p>>}
        \/ p \in Svi /\ n = <<"svi", VrfOf[p], VlanOf[LbOf[p]]>>
        \/ p \in Bp /\ n = <<"port", p>>
    BY <1>4 DEF LinksOf, VlanLink, VrfLink, BrLink, VxlanLink, SviLink, Port, Obj, Vpn
  <2>2. /\ o \in Svi => LbOf[o] \in Lb
        /\ p \in Svi => LbOf[p] \in Lb
        /\ p \in Lb => VlanOf[p] \in Nat
    BY DevicesAssumption
  <2>3. CASE o \in Lb /\ n = <<"vxlan", VlanOf[o]>>
    BY <1>1, <1>4, <2>1, <2>2, <2>3 DEF VlansDiffer
  <2>4. CASE o \in Vrf /\ n \in {<<"vrf", o>>, <<"br", o>>, <<"vxlan", o>>}
    BY <1>4, <2>1, <2>2, <2>4 DEF VlansDiffer
  <2>5. CASE o \in Svi /\ n = <<"svi", VrfOf[o], VlanOf[LbOf[o]]>>
    BY <1>4, <2>1, <2>2, <2>5 DEF VlansDiffer
  <2>6. CASE o \in Bp /\ n = <<"port", o>>
    BY <2>1, <2>6
  <2>7. QED
    BY <1>2, <2>3, <2>4, <2>5, <2>6
<1>5. QED
  BY <1>3, <1>4

\* A call of one object takes no item of another one, or of the same one while
\* it is wanted, unless it gives it as well.
LEMMA OthersKeep ==
    ASSUME VlansDiffer, RefsWanted, OneSvi,
           NEW o \in Obj, NEW m \in Range(Subs(o)), Stored(o), NEW c \in Own(m, o),
           NEW p \in Obj, Wanted(p), Sound(p),
           NEW t, NEW part \in Parts, NEW x, Item(p, t, part, x), Takes(c, part, x)
    PROVE  Gives(c, part, x)
<1>1. m \in Modules /\ (m = "frr" => o \in Vrf \/ o \in Svi)
  BY HandlerKinds
<1>2. Stored(p) /\ ~ Leaving(p) /\ p \notin spoilt /\ RefsOf(p) \cap spoilt = {}
  BY DEF Wanted, Sound
<1>3. \A r \in RefsOf(p) : ~ Leaving(r)
  BY <1>2 DEF RefsWanted, Wanted
<1>4. p \in Svi => VrfOf[p] \in RefsOf(p) /\ VrfOf[p] \in Vrf /\ LbOf[p] \in Lb
  BY DevicesAssumption DEF RefsOf
<1>5. Leaving(o) => o # p /\ (p \in Svi => o # VrfOf[p])
  BY <1>2, <1>3, <1>4
<1>6. \A n \in LinksOf(o) : n # Tenant /\ (n \in LinksOf(p) => o = p)
  <2>1. SUFFICES ASSUME NEW n \in LinksOf(o), n \in LinksOf(p) PROVE o = p
    BY LinksDiffer
  <2>2. o = p \/ (o \in Svi /\ p \in Svi /\ LbOf[o] = LbOf[p])
    BY <2>1, LinksDiffer
  <2>3. QED
    BY <1>2, <2>2 DEF OneSvi
<1>7. o \in Svi /\ p \in Svi /\ VlanOf[LbOf[o]] = VlanOf[LbOf[p]] => o = p
  <2>1. o \in Svi => LbOf[o] \in Lb
    BY DevicesAssumption
  <2>2. QED
    BY <1>2, <1>4, <2>1 DEF VlansDiffer, OneSvi
\* The masters of a wanted object's links are not of an object that leaves.
<1>8. ASSUME NEW n \in LinksOf(p), NEW l \in LinksOf(o), Leaving(o) PROVE MasterOf(p, n) # l
  <2>1. \/ o \in Vrf /\ l \in {<<"vrf", o>>, <<"br", o>>, <<"vxlan", o>>}
        \/ l[1] \in {"vxlan", "svi", "port"}
    <3>1. \/ o \in Lb /\ l = <<"vxlan", VlanOf[o]>>
          \/ o \in Vrf /\ l \in {<<"vrf", o>>, <<"br", o>>, <<"vxlan", o>>}
          \/ o \in Svi /\ l = <<"svi", VrfOf[o], VlanOf[LbOf[o]]>>
          \/ o \in Bp /\ l = <<"port", o>>
      BY DEF LinksOf, VlanLink, VrfLink, BrLink, VxlanLink, SviLink, Port, Obj, Vpn
    <3>2. QED
      BY <3>1
  <2>2. \/ p \in Vrf /\ MasterOf(p, n) \in {<<"vrf", p>>, <<"br", p>>}
        \/ p \in Svi /\ MasterOf(p, n) = <<"vrf", VrfOf[p]>>
        \/ MasterOf(p, n) = Tenant
    BY DEF MasterOf, VrfLink, BrLink
  <2>3. CASE p \in Vrf /\ MasterOf(p, n) \in {<<"vrf", p>>, <<"br", p>>}
    <3>1. \A q \in {<<"vrf", p>>, <<"br", p>>} : q[1] \notin {"vxlan", "svi", "port"} /\ q[2] = p
      OBVIOUS
    <3>2. QED
      BY <1>5, <1>8, <2>1, <2>3, <3>1
  <2>4. CASE p \in Svi /\ MasterOf(p, n) = <<"vrf", VrfOf[p]>>
    <3>1. <<"vrf", VrfOf[p]>>[1] \notin {"vxlan", "svi", "port"} /\ <<"vrf", VrfOf[p]>>[2] = VrfOf[p]
      OBVIOUS
    <3>2. QED
      BY <1>5, <1>8, <2>1, <2>4, <3>1
  <2>5. CASE MasterOf(p, n) = Tenant
    BY <1>6, <2>5
  <2>6. QED
    BY <2>2, <2>3, <2>4, <2>5
<1>9. CASE m # "frr"
  <2>1. HostCall(o, c)
    BY <1>9 DEF Own
  <2>2. CASE c.op = "LinkDel"
    <3>1. c.link \in LinksOf(o) /\ Leaving(o)
      BY <2>1, <2>2 DEF HostCall
    <3>2. c.link \notin LinksOf(p) /\ c.link # Tenant
      BY <1>5, <1>6, <3>1
    <3>3. part \in {"links", "up", "addr"} => FALSE
      BY <2>2, <3>2 DEF Takes, Item
    <3>4. part = "master" => FALSE
      <4>1. SUFFICES ASSUME part = "master" PROVE FALSE
        OBVIOUS
      <4>2. PICK n \in LinksOf(p) : x = <<n, MasterOf(p, n)>>
        BY <4>1 DEF Item
      <4>3. n = c.link \/ MasterOf(p, n) = c.link
        BY <2>2, <4>1, <4>2 DEF Takes
      <4>4. QED
        BY <1>8, <3>1, <3>2, <4>3
    <3>5. part = "vlans" => FALSE
      BY <2>2, <3>2 DEF Takes, Item, TenantVlan
    <3>6. part = "tables" => FALSE
      <4>1. SUFFICES ASSUME part = "tables" PROVE FALSE
        OBVIOUS
      <4>2. p \in Vrf /\ p # Grd /\ x = <<p, t>>
        BY <4>1 DEF Item
      <4>3. VrfLink(p) = c.link
        BY <2>2, <4>1, <4>2 DEF Takes
      <4>4. VrfLink(p) \in LinksOf(p)
        BY <4>2, DevicesAssumption DEF LinksOf
      <4>5. QED
        BY <3>2, <4>3, <4>4
    <3>7. part \notin {"throw", "conf"}
      BY <2>2 DEF Takes
    <3>8. QED
      BY <3>3, <3>4, <3>5, <3>6, <3>7 DEF Parts
  <2>3. CASE c.op = "LinkSetMaster"
    <3>1. c.link \in LinksOf(o) /\ c.arg = MasterOf(o, c.link)
      BY <2>1, <2>3 DEF HostCall
    <3>2. part = "master" /\ x[1] = c.link
      BY <2>3 DEF Takes
    <3>3. PICK n \in LinksOf(p) : x = <<n, MasterOf(p, n)>>
      BY <3>2 DEF Item
    <3>4. n = c.link
      BY <3>2, <3>3
    <3>5. o = p
      BY <1>6, <3>1, <3>3, <3>4
    <3>6. QED
      BY <2>3, <3>1, <3>2, <3>3, <3>4, <3>5 DEF Gives
  <2>4. CASE c.op = "LinkSetDown"
    <3>1. c.link \in LinksOf(o) /\ Leaving(o) /\ part = "up" /\ x = c.link
      BY <2>1, <2>4 DEF HostCall, Takes
    <3>2. QED
      BY <1>5, <1>6, <3>1 DEF Item
  <2>5. CASE c.op = "BridgeVlanDel"
    <3>1. /\ Leaving(o) /\ part = "vlans" /\ x = <<c.link, c.arg>>
          /\ c.link \in LinksOf(o) \/ (o \in Svi /\ <<c.link, c.arg>> = TenantVlan(o))
      BY <2>1, <2>5 DEF HostCall, Takes
    <3>2. x[1] \in LinksOf(p) \/ (p \in Svi /\ x = TenantVlan(p))
      BY <3>1 DEF Item
    <3>3. CASE c.link \in LinksOf(o)
      <4>1. x[1] = c.link /\ c.link # Tenant
        BY <1>6, <3>1, <3>3
      <4>2. c.link \in LinksOf(p)
        BY <3>2, <4>1 DEF TenantVlan
      <4>3. QED
        BY <1>5, <1>6, <3>1, <3>3, <4>2
    <3>4. CASE o \in Svi /\ <<c.link, c.arg>> = TenantVlan(o)
      <4>1. x = TenantVlan(o) /\ x[1] = Tenant
        BY <3>1, <3>4 DEF TenantVlan
      <4>2. x[1] \notin LinksOf(p)
        BY <4>1, LinksDiffer
      <4>3. p \in Svi /\ VlanOf[LbOf[o]] = VlanOf[LbOf[p]]
        BY <3>2, <4>1, <4>2 DEF TenantVlan
      <4>4. QED
        BY <1>5, <1>7, <3>1, <3>4, <4>3
    <3>5. QED
      BY <3>1, <3>3, <3>4
  <2>6. CASE c.op = "RouteFlush"
    BY <2>6 DEF Takes, Item
  <2>7. c.op # "NoConf"
    BY <2>1 DEF HostCall
  <2>8. QED
    BY <2>2, <2>3, <2>4, <2>5, <2>6, <2>7 DEF Takes
<1>10. CASE m = "frr"
  <2>1. FrrCall(o, c)
    BY <1>10 DEF Own
  <2>2. c.op = "NoConf" /\ part = "conf"
    BY <2>1 DEF FrrCall, Takes
  <2>3. /\ Leaving(o)
        /\ \/ o \in Vrf /\ c.link \in {<<"vni", o>>, <<"bgp", o>>}
           \/ o \in EnableBgp /\ c.link = Neighbor(o)
    BY <2>1, <2>2 DEF FrrCall
  <2>4. \/ x = c.link
        \/ c.link[1] = "bgp" /\ x[1] = "neighbor" /\ x[2] = c.link[2]
    BY <2>2 DEF Takes
  <2>5. x \in ConfOf(p)
    BY <2>2 DEF Item
  <2>6. \/ p \in Vrf /\ x \in {<<"vni", p>>, <<"bgp", p>>}
        \/ p \in Svi /\ x \in {<<"bgp", VrfOf[p]>>, <<"neighbor", VrfOf[p], VlanOf[LbOf[p]]>>}
    BY <2>5, DevicesAssumption DEF ConfOf, Neighbor
  <2>7. CASE o \in Vrf /\ c.link \in {<<"vni", o>>, <<"bgp", o>>}
    BY <1>5, <2>3, <2>4, <2>6, <2>7
  <2>8. CASE o \in EnableBgp /\ c.link = Neighbor(o)
    <3>1. o \in Svi
      BY <2>8, DevicesAssumption
    <3>2. x = <<"neighbor", VrfOf[o], VlanOf[LbOf[o]]>>
      BY <2>4, <2>8 DEF Neighbor
    <3>3. QED
      BY <1>5, <1>7, <2>3, <2>6, <3>1, <3>2
  <2>9. QED
    BY <2>3, <2>7, <2>8
<1>11. QED
  BY <1>9, <1>10

\* A module has set an object up, though it may not have been recorded yet.
Done(m, o) ==
    \/ db[o].st[m] = "Success"
    \/ \E r \in reports : r.obj = o /\ r.mod = m /\ r.ok /\ r.ver = db[o].ver

\* What a report does to the object it is about.
LEMMA ReportIs ==
    ASSUME IInv, NEW r \in reports, Report(r)
    PROVE  /\ reports' \subseteq reports /\ host' = host /\ ids' = ids /\ spoilt' = spoilt
           /\ \/ db' = db
              \/ Current(r) /\ \E x : db' = [db EXCEPT ![r.obj] = x] /\ x.ver = db[r.obj].ver
                     /\ \/ x.oper = "Absent" /\ Leaving(r.obj)
                        \/ /\ x.oper = db[r.obj].oper \/ (x.oper = "Up" /\ ~ Leaving(r.obj))
                           /\ x.st = [db[r.obj].st EXCEPT ![r.mod] = IF r.ok THEN "Success" ELSE "Error"]
                           /\ x.table = IF r.table = NoTable THEN db[r.obj].table ELSE r.table
<1>1. PICK y \in Object : y = db[r.obj]
  BY DEF IInv, ReportsSound
<1>2. PICK s : s = [y.st EXCEPT ![r.mod] = IF r.ok THEN "Success" ELSE "Error"]
  OBVIOUS
<1>3. PICK t : t = IF r.table = NoTable THEN y.table ELSE r.table
  OBVIOUS
<1>4. PICK u : u = Updated(r)
  OBVIOUS
<1>5. u = [oper |-> y.oper, ver |-> y.ver, st |-> s, table |-> t]
  <2>1. u = [y EXCEPT !.st[r.mod] = IF r.ok THEN "Success" ELSE "Error",
                      !.table = IF r.table = NoTable THEN @ ELSE r.table]
    BY <1>1, <1>4 DEF Updated
  <2>2. y = [oper |-> y.oper, ver |-> y.ver, st |-> y.st, table |-> y.table]
    BY <1>1 DEF Object
  <2>3. QED
    BY <1>2, <1>3, <2>1, <2>2
<1>6. PICK gone : gone = [y EXCEPT !.oper = "Absent", !.st = Fresh, !.table = NoTable]
  OBVIOUS
<1>7. PICK up : up = [u EXCEPT !.oper = "Up"]
  OBVIOUS
<1>8. gone.oper = "Absent" /\ gone.ver = y.ver
  <2>1. y = [oper |-> y.oper, ver |-> y.ver, st |-> y.st, table |-> y.table]
    BY <1>1 DEF Object
  <2>2. gone = [oper |-> "Absent", ver |-> y.ver, st |-> Fresh, table |-> NoTable]
    BY <1>6, <2>1
  <2>3. QED
    BY <2>2
<1>9. up.oper = "Up" /\ up.ver = y.ver /\ up.st = s /\ up.table = t
  <2>1. up = [oper |-> "Up", ver |-> y.ver, st |-> s, table |-> t]
    BY <1>5, <1>7
  <2>2. QED
    BY <2>1
<1>10. u.oper = y.oper /\ u.ver = y.ver /\ u.st = s /\ u.table = t
  BY <1>5
<1>11. PICK x : x = IF ~AllSuccess(u, r.obj) THEN u ELSE IF Leaving(r.obj) THEN gone ELSE up
  OBVIOUS
<1>12. db' = IF ~Current(r) THEN db ELSE [db EXCEPT ![r.obj] = x]
  BY <1>1, <1>4, <1>6, <1>7, <1>11 DEF Report
<1>13. /\ x.ver = y.ver
       /\ \/ x.oper = "Absent" /\ Leaving(r.obj)
          \/ /\ x.oper = y.oper \/ (x.oper = "Up" /\ ~ Leaving(r.obj))
             /\ x.st = s /\ x.table = t
  BY <1>8, <1>9, <1>10, <1>11
<1>14. reports' \subseteq reports /\ host' = host /\ ids' = ids /\ spoilt' = spoilt
  BY DEF Report
<1>15. QED
  BY <1>1, <1>2, <1>3, <1>12, <1>13, <1>14

\* A report neither stores an object nor changes whether it is wanted.
LEMMA ReportKeeps ==
    ASSUME IInv, NEW r \in reports, Report(r), NEW o \in Obj
    PROVE  /\ db'[o].ver = db[o].ver
           /\ Stored(o)' => Stored(o)
           /\ Wanted(o)' <=> Wanted(o)
           /\ Leaving(o)' => Leaving(o)
           /\ db'[o] = db[o] \/ (o = r.obj /\ Current(r))
<1>1. db \in [Obj -> Object] /\ r.obj \in Obj
  BY DEF IInv, ReportsSound
<1>2. CASE db' = db
  BY <1>2 DEF Stored, Leaving, Wanted
<1>3. CASE db' # db
  <2>1. Current(r)
    BY <1>3, ReportIs
  <2>2. PICK x : /\ db' = [db EXCEPT ![r.obj] = x] /\ x.ver = db[r.obj].ver
                 /\ \/ x.oper = "Absent" /\ Leaving(r.obj)
                    \/ x.oper = db[r.obj].oper \/ (x.oper = "Up" /\ ~ Leaving(r.obj))
    BY <1>3, ReportIs
  <2>3. db'[o] = IF o = r.obj THEN x ELSE db[o]
    BY <1>1, <2>2
  <2>4. Stored(r.obj)
    BY <2>1 DEF Current
  <2>5. QED
    BY <2>1, <2>2, <2>3, <2>4 DEF Stored, Leaving, Wanted
<1>4. QED
  BY <1>2, <1>3

\* What a report makes a success was one before it was recorded.
LEMMA ReportDone ==
    ASSUME IInv, NEW r \in reports, Report(r), NEW o \in Obj, Stored(o)', NEW m \in Modules, Done(m, o)'
    PROVE  Done(m, o)
<1>1. db \in [Obj -> Object] /\ r.obj \in Obj /\ reports' \subseteq reports /\ db'[o].ver = db[o].ver
  BY ReportIs, ReportKeeps DEF IInv, ReportsSound
<1>2. CASE \E q \in reports' : q.obj = o /\ q.mod = m /\ q.ok /\ q.ver = db'[o].ver
  BY <1>1, <1>2 DEF Done
<1>3. CASE db'[o].st[m] = "Success"
  <2>1. CASE db'[o] = db[o]
    BY <1>3, <2>1 DEF Done
  <2>2. CASE db'[o] # db[o]
    <3>1. o = r.obj /\ Current(r)
      BY <2>2, ReportKeeps
    <3>2. PICK x : /\ db' = [db EXCEPT ![r.obj] = x]
                   /\ \/ x.oper = "Absent"
                      \/ x.st = [db[r.obj].st EXCEPT ![r.mod] = IF r.ok THEN "Success" ELSE "Error"]
      BY <2>2, ReportIs
    <3>3. db'[o] = x /\ x.oper # "Absent"
      BY <1>1, <3>1, <3>2 DEF Stored
    <3>4. x.st = [db[o].st EXCEPT ![r.mod] = IF r.ok THEN "Success" ELSE "Error"] /\ x.st[m] = "Success"
      BY <1>3, <3>1, <3>2, <3>3
    <3>5. db[o].st \in [Modules -> {"Pending", "Success", "Error"}] /\ r.mod \in Modules
      <4>1. r.mod \in Range(Subs(r.obj))
        BY DEF IInv, ReportsSound
      <4>2. r.mod \in Modules
        BY <1>1, <4>1, HandlerKinds
      <4>3. QED
        BY <1>1, <4>2 DEF Object
    <3>6. CASE m = r.mod
      <4>1. r.ok
        BY <3>4, <3>5, <3>6
      <4>2. QED
        BY <3>1, <3>6, <4>1 DEF Done, Current
    <3>7. CASE m # r.mod
      <4>1. db[o].st[m] = "Success"
        BY <3>4, <3>5, <3>7
      <4>2. QED
        BY <4>1 DEF Done
    <3>8. QED
      BY <3>6, <3>7
  <2>3. QED
    BY <2>1, <2>2
<1>4. QED
  BY <1>2, <1>3 DEF Done

\* What a replay does to the objects.
LEMMA ReplayIs ==
    ASSUME IInv, NEW r \in reports, Empties(r), NEW o \in Obj
    PROVE  \/ db'[o] = db[o] /\ (o \in Configured => o \in emptied')
           \/ /\ o \in Vrf \cup Svi /\ Stored(o) /\ Stored(o)'
              /\ Leaving(o)' <=> Leaving(o)
              /\ db'[o].ver = db[o].ver + 1 /\ db[o].ver \in Nat
              /\ db'[o].table = db[o].table
              /\ db'[o].st["frr"] # "Success"
              /\ \A m \in Modules : db'[o].st[m] = "Success" => db[o].st[m] = "Success"
<1>0. PICK R \in SUBSET Configured : Restarted(r, R)
  BY DEF Empties
<1>1. /\ db'[o] = IF o \in R THEN Prepared(db[o]) ELSE db[o]
      /\ o \in R => o \in Vrf \cup Svi /\ Stored(o)
      /\ o \in Configured \ R => o \in emptied'
  BY <1>0 DEF Restarted, Configured
<1>2. CASE o \notin R
  BY <1>1, <1>2
<1>3. CASE o \in R
  <2>1. PICK x \in Object : x = db[o]
    BY DEF IInv
  <2>2. PICK oper : oper = IF x.oper = "Up" THEN "Down" ELSE x.oper
    OBVIOUS
  <2>3. PICK st : st = [m \in Modules |-> IF m = "frr" \/ x.st[m] # "Success" THEN "Pending" ELSE x.st[m]]
    OBVIOUS
  <2>4. PICK y : y = Prepared(x)
    OBVIOUS
  <2>5. y = [oper |-> oper, ver |-> x.ver + 1, st |-> st, table |-> x.table]
    <3>1. x = [oper |-> x.oper, ver |-> x.ver, st |-> x.st, table |-> x.table]
      BY DEF Object
    <3>2. y = [x EXCEPT !.oper = oper, !.ver = @ + 1, !.st = st]
      BY <2>2, <2>3, <2>4 DEF Prepared
    <3>3. QED
      BY <3>1, <3>2
  <2>6. y.oper = oper /\ y.ver = x.ver + 1 /\ y.st = st /\ y.table = x.table
    BY <2>5
  <2>7. db'[o] = y /\ x.ver \in Nat
    BY <1>1, <1>3, <2>1, <2>4 DEF Object
  <2>8. st["frr"] # "Success" /\ \A m \in Modules : st[m] = "Success" => x.st[m] = "Success"
    BY <2>3 DEF Modules
  <2>9. (y.oper # "Absent" <=> x.oper # "Absent") /\ (y.oper = "ToBeDeleted" <=> x.oper = "ToBeDeleted")
    BY <2>2, <2>6
  <2>10. QED
    BY <1>1, <1>3, <2>1, <2>6, <2>7, <2>8, <2>9 DEF Stored, Leaving
<1>4. QED
  BY <1>2, <1>3

\* No report is of the version that an object gets next.
LEMMA NotYetDone ==
    ASSUME IInv, reports' \subseteq reports, NEW o \in Obj, db'[o].ver = db[o].ver + 1,
           NEW m, Done(m, o)'
    PROVE  db'[o].st[m] = "Success"
<1>1. \A r \in reports : r.obj = o => r.ver \in 1..db[o].ver
  BY DEF IInv, ReportsSound
<1>2. db[o].ver \in Nat
  BY DEF IInv, Object
<1>3. QED
  BY <1>1, <1>2 DEF Done

LEMMA ReplayDone ==
    ASSUME IInv, NEW r \in reports, Empties(r), NEW o \in Obj, NEW m \in Modules, Done(m, o)'
    PROVE  Done(m, o) /\ (m = "frr" /\ o \in Configured => o \in emptied')
<1>1. reports' \subseteq reports
  BY DEF Empties, Restarted, AsksForReplay
<1>2. CASE db'[o] = db[o] /\ (o \in Configured => o \in emptied')
  BY <1>1, <1>2 DEF Done
<1>3. CASE /\ o \in Vrf \cup Svi /\ Stored(o)
           /\ db'[o].ver = db[o].ver + 1
           /\ db'[o].st["frr"] # "Success"
           /\ \A k \in Modules : db'[o].st[k] = "Success" => db[o].st[k] = "Success"
  <2>1. db'[o].st[m] = "Success"
    BY <1>1, <1>3, NotYetDone
  <2>2. QED
    BY <1>3, <2>1 DEF Done
<1>4. QED
  BY <1>2, <1>3, ReplayIs

LEMMA RefsAreObjects ==
    \A o \in Obj : RefsOf(o) \subseteq Obj /\ (RefsOf(o) # {} => o \in Svi \cup Bp)
<1>1. \A s \in Svi : VrfOf[s] \in Vrf /\ LbOf[s] \in Lb
  BY DevicesAssumption
<1>2. \A b \in Bp : LbsOf[b] \subseteq Lb
  BY DevicesAssumption
<1>3. QED
  BY <1>1, <1>2 DEF RefsOf, Obj, Vpn

\* A request changes one object.
LEMMA CreateIs ==
    ASSUME IInv, NEW o \in Obj, Create(o)
    PROVE  /\ ~ Stored(o) /\ Wanted(o)' /\ db'[o].ver = db[o].ver + 1
           /\ \A m \in Modules : db'[o].st[m] # "Success"
           /\ \A p \in Obj : p # o => db'[p] = db[p]
           /\ \A r \in RefsOf(o) : Stored(r)
           /\ o \in Svi => UsersOf(LbOf[o]) \cap Svi = {}
           /\ spoilt' = spoilt \cup {r \in RefsOf(o) : Leaving(r)}
           /\ host' = host /\ ids' = ids /\ reports' = reports
<1>1. db \in [Obj -> Object]
  BY DEF IInv
<1>2. db'[o] = [oper |-> "Down", ver |-> db[o].ver + 1, st |-> Fresh, table |-> NoTable]
  BY <1>1 DEF Create
<1>3. db'[o].oper = "Down" /\ db'[o].ver = db[o].ver + 1 /\ db'[o].st = Fresh
  BY <1>2
<1>4. Wanted(o)' /\ \A m \in Modules : db'[o].st[m] # "Success"
  BY <1>3 DEF Wanted, Stored, Leaving, Fresh
<1>5. \A p \in Obj : p # o => db'[p] = db[p]
  BY <1>1 DEF Create
<1>6. /\ ~ Stored(o) /\ \A r \in RefsOf(o) : Stored(r)
      /\ o \in Svi => UsersOf(LbOf[o]) \cap Svi = {}
      /\ spoilt' = spoilt \cup {r \in RefsOf(o) : Leaving(r)}
      /\ host' = host /\ ids' = ids /\ reports' = reports
  BY DEF Create, Request
<1>7. QED
  BY <1>3, <1>4, <1>5, <1>6

LEMMA DeleteIs ==
    ASSUME IInv, NEW o \in Obj, Delete(o)
    PROVE  /\ Stored(o) /\ Leaving(o)' /\ UsersOf(o) = {} /\ db'[o].ver = db[o].ver + 1
           /\ db'[o].table = db[o].table
           /\ \A m \in Modules : db'[o].st[m] # "Success"
           /\ \A p \in Obj : p # o => db'[p] = db[p]
           /\ spoilt' = spoilt /\ host' = host /\ ids' = ids /\ reports' = reports
<1>1. db \in [Obj -> Object]
  BY DEF IInv
<1>2. PICK x \in Object : x = db[o]
  BY <1>1
<1>3. PICK z : z = db'[o]
  OBVIOUS
<1>4. z = [x EXCEPT !.oper = "ToBeDeleted", !.ver = @ + 1, !.st = Fresh]
  BY <1>1, <1>2, <1>3 DEF Delete
<1>5. x = [oper |-> x.oper, ver |-> x.ver, st |-> x.st, table |-> x.table]
  BY DEF Object
<1>6. z = [oper |-> "ToBeDeleted", ver |-> x.ver + 1, st |-> Fresh, table |-> x.table]
  BY <1>4, <1>5
<1>7. z.oper = "ToBeDeleted" /\ z.ver = x.ver + 1 /\ z.st = Fresh /\ z.table = x.table
  BY <1>6
<1>8. \A m \in Modules : Fresh[m] # "Success"
  BY DEF Fresh
<1>9. \A p \in Obj : p # o => db'[p] = db[p]
  BY <1>1 DEF Delete
<1>10. /\ Stored(o) /\ UsersOf(o) = {}
       /\ spoilt' = spoilt /\ host' = host /\ ids' = ids /\ reports' = reports
  BY DEF Delete, Request
<1>11. QED
  BY <1>2, <1>3, <1>7, <1>8, <1>9, <1>10 DEF Leaving

\* Whoever is referred to stays when no object comes and none is deleted.
LEMMA RefsKept ==
    ASSUME RefsWanted, OneSvi, spoilt \subseteq spoilt',
           \A o \in Obj : (Stored(o)' => Stored(o)) /\ (Wanted(o) => Wanted(o)')
    PROVE  RefsWanted' /\ OneSvi'
<1>1. RefsWanted'
  BY RefsAreObjects DEF RefsWanted
<1>2. OneSvi'
  BY DEF OneSvi, Obj
<1>3. QED
  BY <1>1, <1>2

LEMMA RefsStep ==
    ASSUME IInv, RefsWanted, OneSvi, [Next]_vars
    PROVE  RefsWanted' /\ OneSvi'
<1>1. ASSUME NEW o \in Obj, Create(o) PROVE RefsWanted' /\ OneSvi'
  <2>1. /\ ~ Stored(o) /\ Wanted(o)' /\ \A p \in Obj : p # o => db'[p] = db[p]
        /\ \A r \in RefsOf(o) : Stored(r)
        /\ o \in Svi => UsersOf(LbOf[o]) \cap Svi = {}
        /\ spoilt' = spoilt \cup {r \in RefsOf(o) : Leaving(r)}
    BY <1>1, CreateIs
  <2>2. \A p \in Obj : p # o => (Stored(p)' <=> Stored(p)) /\ (Wanted(p)' <=> Wanted(p))
    BY <2>1 DEF Stored, Wanted, Leaving
  <2>3. ASSUME NEW q \in Obj, Stored(q)', NEW r \in RefsOf(q), r \notin spoilt' PROVE Wanted(r)'
    <3>1. r \in Obj
      BY RefsAreObjects
    <3>2. CASE q = o
      BY <2>1, <2>2, <2>3, <3>1, <3>2 DEF Wanted
    <3>3. CASE q # o
      BY <2>1, <2>2, <2>3, <3>1, <3>3 DEF RefsWanted, Wanted
    <3>4. QED
      BY <3>2, <3>3
  <2>4. ASSUME NEW s \in Svi, NEW t \in Svi, Stored(s)', Stored(t)', LbOf[s] = LbOf[t] PROVE s = t
    <3>1. s \in Obj /\ t \in Obj
      BY DEF Obj
    <3>2. LbOf[s] \in RefsOf(s) /\ LbOf[t] \in RefsOf(t)
      BY DEF RefsOf
    <3>3. s # o => Stored(s) /\ s \in UsersOf(LbOf[s])
      BY <2>2, <2>4, <3>1, <3>2 DEF UsersOf
    <3>4. t # o => Stored(t) /\ t \in UsersOf(LbOf[t])
      BY <2>2, <2>4, <3>1, <3>2 DEF UsersOf
    <3>5. QED
      BY <2>1, <2>4, <3>3, <3>4 DEF OneSvi
  <2>5. RefsWanted'
    BY <2>3 DEF RefsWanted
  <2>6. OneSvi'
    BY <2>4 DEF OneSvi
  <2>7. QED
    BY <2>5, <2>6
<1>2. ASSUME NEW o \in Obj, Delete(o) PROVE RefsWanted' /\ OneSvi'
  <2>1. /\ Stored(o) /\ UsersOf(o) = {} /\ \A p \in Obj : p # o => db'[p] = db[p]
        /\ spoilt' = spoilt
    BY <1>2, DeleteIs
  <2>2. \A p \in Obj : p # o => (Stored(p)' <=> Stored(p)) /\ (Wanted(p)' <=> Wanted(p))
    BY <2>1 DEF Stored, Wanted, Leaving
  <2>3. ASSUME NEW q \in Obj, Stored(q)', NEW r \in RefsOf(q), r \notin spoilt' PROVE Wanted(r)'
    <3>1. r \in Obj /\ q \in Svi \cup Bp
      BY RefsAreObjects
    <3>2. Stored(q)
      BY <2>1, <2>2, <2>3
    <3>3. r # o
      BY <2>1, <3>1, <3>2 DEF UsersOf
    <3>4. Wanted(r)
      BY <2>1, <2>3, <3>2 DEF RefsWanted
    <3>5. QED
      BY <2>2, <3>1, <3>3, <3>4
  <2>4. \A p \in Obj : Stored(p)' => Stored(p)
    BY <2>1, <2>2
  <2>5. OneSvi'
    BY <2>4 DEF OneSvi, Obj
  <2>6. RefsWanted'
    BY <2>3 DEF RefsWanted
  <2>7. QED
    BY <2>5, <2>6
<1>3. ASSUME NEW o \in Obj, NEW m \in Modules, Handle(m, o) PROVE RefsWanted' /\ OneSvi'
  <2>1. db' = db /\ spoilt \subseteq spoilt'
    BY <1>3 DEF Handle
  <2>2. QED
    BY <2>1, RefsKept DEF Stored, Wanted, Leaving
<1>4. ASSUME NEW r \in reports, Report(r) PROVE RefsWanted' /\ OneSvi'
  <2>1. spoilt' = spoilt /\ \A o \in Obj : (Stored(o)' => Stored(o)) /\ (Wanted(o)' <=> Wanted(o))
    BY <1>4, ReportIs, ReportKeeps
  <2>2. QED
    BY <2>1, RefsKept
<1>5. ASSUME NEW r \in reports, Empties(r) PROVE RefsWanted' /\ OneSvi'
  <2>1. spoilt' = spoilt
    BY <1>5 DEF Empties, Restarted, AsksForReplay
  <2>2. \A o \in Obj : (Stored(o)' => Stored(o)) /\ (Wanted(o) => Wanted(o)')
    <3>1. SUFFICES ASSUME NEW o \in Obj PROVE (Stored(o)' => Stored(o)) /\ (Wanted(o) => Wanted(o)')
      OBVIOUS
    <3>2. db'[o] = db[o] \/ (Stored(o) /\ Stored(o)' /\ (Leaving(o)' <=> Leaving(o)))
      BY <1>5, ReplayIs
    <3>3. QED
      BY <3>2 DEF Stored, Wanted, Leaving
  <2>3. QED
    BY <2>1, <2>2, RefsKept
<1>6. ASSUME NEW r \in reports, ReplayFails(r) PROVE RefsWanted' /\ OneSvi'
  <2>1. db' = db /\ spoilt' = spoilt
    BY <1>6 DEF ReplayFails, AsksForReplay
  <2>2. QED
    BY <2>1, RefsKept DEF Stored, Wanted, Leaving
<1>7. ASSUME NEW b \in Bp, Plug(b) PROVE RefsWanted' /\ OneSvi'
  <2>1. db' = db /\ spoilt' = spoilt
    BY <1>7 DEF Plug
  <2>2. QED
    BY <2>1, RefsKept DEF Stored, Wanted, Leaving
<1>8. ASSUME UNCHANGED vars PROVE RefsWanted' /\ OneSvi'
  <2>1. db' = db /\ spoilt' = spoilt
    BY <1>8 DEF vars
  <2>2. QED
    BY <2>1, RefsKept DEF Stored, Wanted, Leaving
<1>9. QED
  BY <1>1, <1>2, <1>3, <1>4, <1>5, <1>6, <1>7, <1>8, ReplaysEmpty DEF Next

\* A handler runs some of its own calls and leaves a report.
LEMMA HandleIs ==
    ASSUME IInv, NEW o \in Obj, NEW m \in Modules, Handle(m, o)
    PROVE  /\ m \in Range(Subs(o)) /\ Stored(o) /\ db[o].st[m] # "Success" /\ ~ Busy(m, o)
           /\ db' = db /\ spoilt \subseteq spoilt'
           /\ ids' = IF TableOf(m, o, TRUE) = NoTable THEN ids ELSE [ids EXCEPT ![o] = GetID(o)]
           /\ Calls(m, o) \in Seq(Own(m, o)) /\ Len(Calls(m, o)) \in Nat /\ Reach(Calls(m, o)) \in Nat
           /\ \A i \in 1..Len(Calls(m, o)) : Calls(m, o)[i] \in Own(m, o)
           /\ \E n \in 0..Reach(Calls(m, o)) :
                 /\ n \in Nat /\ n <= Len(Calls(m, o))
                 /\ host' = HostAfter(Calls(m, o))[n]
                 /\ \E new : /\ reports' = reports \cup {new}
                             /\ new.obj = o /\ new.mod = m /\ new.ver = db[o].ver
                             /\ new.ok <=> Succeeds(Calls(m, o), n)
                             /\ new.table = TableOf(m, o, new.ok)
                 /\ n < Reach(Calls(m, o)) /\ Succeeds(Calls(m, o), n) => o \in spoilt'
<1> DEFINE calls == Calls(m, o)
<1>1. m \in Range(Subs(o)) /\ Stored(o) /\ db[o].st[m] # "Success" /\ ~ Busy(m, o) /\ db' = db
  BY DEF Handle, Range
<1>2. ids' = IF TableOf(m, o, TRUE) = NoTable THEN ids ELSE [ids EXCEPT ![o] = GetID(o)]
  BY DEF Handle
<1>3. calls \in Seq(Own(m, o))
  <2>1. \A v \in Vrf : GetID(v) \in 0..MaxTable
    BY GetIDFacts DEF IInv
  <2>2. QED
    BY <1>1, <2>1, OwnCalls DEF IInv
<1>4. PICK n \in 0..Reach(calls) :
        /\ host' = HostAfter(calls)[n]
        /\ reports' = reports \cup {[obj |-> o, mod |-> m, ver |-> db[o].ver, ok |-> Succeeds(calls, n),
                                     table |-> TableOf(m, o, Succeeds(calls, n))]}
        /\ spoilt' = IF n < Reach(calls) /\ Succeeds(calls, n) THEN spoilt \cup {o} ELSE spoilt
  BY DEF Handle
<1> HIDE DEF calls
<1>5. Len(calls) \in Nat /\ \A i \in 1..Len(calls) : calls[i] \in Own(m, o)
  BY <1>3
<1>6. Reach(calls) \in 0..Len(calls)
  BY <1>5, ReachIs
<1>7. PICK ok : ok = Succeeds(calls, n)
  OBVIOUS
<1>8. PICK t : t = TableOf(m, o, ok)
  OBVIOUS
<1>9. PICK new : new = [obj |-> o, mod |-> m, ver |-> db[o].ver, ok |-> ok, table |-> t]
  OBVIOUS
<1>10. new.obj = o /\ new.mod = m /\ new.ver = db[o].ver /\ new.ok = ok /\ new.table = t
  BY <1>9
<1>11. reports' = reports \cup {new}
  BY <1>4, <1>7, <1>8, <1>9
<1>12. new.ok <=> Succeeds(calls, n)
  BY <1>7, <1>10
<1>13. new.table = TableOf(m, o, new.ok)
  BY <1>8, <1>10
<1>14. spoilt \subseteq spoilt' /\ (n < Reach(calls) /\ Succeeds(calls, n) => o \in spoilt')
  BY <1>4
<1>15. n \in Nat /\ n <= Len(calls) /\ Reach(calls) \in Nat
  BY <1>5, <1>6
<1>16. \E w : /\ reports' = reports \cup {w}
              /\ w.obj = o /\ w.mod = m /\ w.ver = db[o].ver
              /\ w.ok <=> Succeeds(calls, n)
              /\ w.table = TableOf(m, o, w.ok)
  BY <1>10, <1>11, <1>12, <1>13, Zenon
<1>17. QED
  BY <1>1, <1>2, <1>3, <1>4, <1>5, <1>14, <1>15, <1>16 DEF calls

\* The tenant bridge stays.
TenantThere == Tenant \in host.links

LEMMA TenantStep ==
    ASSUME IInv, TenantThere, [Next]_vars
    PROVE  TenantThere'
<1>1. ASSUME NEW o \in Obj, Create(o) PROVE TenantThere'
  BY <1>1, CreateIs DEF TenantThere
<1>2. ASSUME NEW o \in Obj, Delete(o) PROVE TenantThere'
  BY <1>2, DeleteIs DEF TenantThere
<1>3. ASSUME NEW o \in Obj, NEW m \in Modules, Handle(m, o) PROVE TenantThere'
  <2> DEFINE calls == Calls(m, o)
  <2>2. Len(calls) \in Nat /\ \A i \in 1..Len(calls) : calls[i] \in Own(m, o)
    BY <1>3, HandleIs
  <2>3. PICK n \in 0..Reach(calls) : n \in Nat /\ n <= Len(calls) /\ host' = HostAfter(calls)[n]
    BY <1>3, HandleIs
  <2> HIDE DEF calls
  <2>4. ASSUME NEW c \in Own(m, o) PROVE ~ Takes(c, "links", Tenant)
    <3>1. c.op = "LinkDel" => c.link \in LinksOf(o)
      BY DEF Own, HostCall, FrrCall
    <3>2. QED
      BY <3>1, LinksDiffer DEF Takes
  <2>5. \A i \in 1..n : ~ Takes(calls[i], "links", Tenant)
    BY <2>2, <2>3, <2>4
  <2>6. Has(host, "links", Tenant)
    BY DEF Has, TenantThere
  <2>7. Has(HostAfter(calls)[n], "links", Tenant)
    <3>1. "links" \in Parts /\ HostOK(host)
      BY DEF Parts, IInv
    <3>2. QED
      BY <2>2, <2>5, <2>6, <3>1, Lasts
  <2>8. QED
    BY <2>3, <2>7 DEF Has, TenantThere
<1>4. ASSUME NEW r \in reports, Report(r) PROVE TenantThere'
  BY <1>4 DEF Report, TenantThere
<1>5. ASSUME NEW r \in reports, Empties(r) PROVE TenantThere'
  <2>1. IsHost(host) /\ host' = [host EXCEPT !.conf = {}]
    BY <1>5 DEF Empties, Restarted, IInv, HostOK
  <2>2. host'.links = host.links
    BY <2>1 DEF IsHost
  <2>3. QED
    BY <2>2 DEF TenantThere
<1>6. ASSUME NEW r \in reports, ReplayFails(r) PROVE TenantThere'
  BY <1>6 DEF ReplayFails, TenantThere
<1>7. ASSUME NEW b \in Bp, Plug(b) PROVE TenantThere'
  <2>1. IsHost(host) /\ host' = [host EXCEPT !.links = @ \cup {Port(b)}]
    BY <1>7 DEF Plug, IInv, HostOK
  <2>2. host'.links = host.links \cup {Port(b)}
    BY <2>1 DEF IsHost
  <2>3. QED
    BY <2>2 DEF TenantThere
<1>8. ASSUME UNCHANGED vars PROVE TenantThere'
  BY <1>8 DEF vars, TenantThere
<1>9. QED
  BY <1>1, <1>2, <1>3, <1>4, <1>5, <1>6, <1>7, <1>8, ReplaysEmpty DEF Next

\* A look-up changes nothing.
LEMMA LookUpIs ==
    ASSUME NEW h, NEW n
    PROVE  /\ Effect(h, LinkOrGone(n)) = h
           /\ Possible(h, LinkOrGone(n)) <=> n \in h.links
           /\ Possible(h, LinkDel(n)) <=> n \in h.links
<1>1. LinkOrGone(n).op = "LinkOrGone" /\ LinkOrGone(n).link = n
  BY DEF LinkOrGone, Call
<1>2. LinkDel(n).op = "LinkDel" /\ LinkDel(n).link = n
  BY DEF LinkDel, Call
<1>3. Effect(h, LinkOrGone(n)) = h
  BY <1>1 DEF Effect
<1>4. Possible(h, LinkOrGone(n)) <=> n \in h.links
  BY <1>1 DEF Possible
<1>5. Possible(h, LinkDel(n)) <=> n \in h.links
  BY <1>2 DEF Possible
<1>6. QED
  BY <1>3, <1>4, <1>5

\* The tear-down of a bridge ends in success wherever it starts.
LEMMA BridgeTearDownSucceeds ==
    ASSUME NEW l \in Lb
    PROVE  Succeeds(lgm_tearDownBridge(l), Reach(lgm_tearDownBridge(l)))
<1> DEFINE calls == lgm_tearDownBridge(l)
<1>1. CASE l \notin WithVni
  <2>1. calls = << >> /\ Len(calls) = 0
    BY <1>1 DEF lgm_tearDownBridge
  <2> HIDE DEF calls
  <2>2. Reach(calls) = Len(calls)
    BY <2>1, ReachIs
  <2>3. QED
    BY <2>2 DEF Succeeds, calls
<1>2. CASE l \in WithVni
  <2>1. /\ Len(calls) = 2
        /\ calls[1] = LinkOrGone(VlanLink(l)) /\ calls[2] = LinkDel(VlanLink(l))
    BY <1>2 DEF lgm_tearDownBridge
  <2> HIDE DEF calls
  <2>2. PICK r : r = Reach(calls)
    OBVIOUS
  <2>3. /\ r \in 0..2
        /\ \A k \in 1..r : Possible(HostAfter(calls)[k - 1], calls[k])
        /\ r < 2 => ~ Possible(HostAfter(calls)[r], calls[r + 1])
    BY <2>1, <2>2, ReachIs
  <2>4. HostAfter(calls)[1] = Effect(HostAfter(calls)[0], calls[1])
    <3>1. 1 \in 1..Len(calls) /\ 1 - 1 = 0
      BY <2>1
    <3>2. QED
      BY <2>1, <3>1, HostAfterIs
  <2>5. HostAfter(calls)[1] = HostAfter(calls)[0]
    BY <2>1, <2>4, LookUpIs
  <2>6. r # 1
    <3>1. SUFFICES ASSUME r = 1 PROVE FALSE
      OBVIOUS
    <3>2. Possible(HostAfter(calls)[0], LinkOrGone(VlanLink(l))) /\ ~ Possible(HostAfter(calls)[1], LinkDel(VlanLink(l)))
      BY <2>1, <2>3, <3>1
    <3>3. QED
      BY <2>5, <3>2, LookUpIs
  <2>7. r = 2 \/ r = 0
    BY <2>3, <2>6
  <2>8. Succeeds(calls, r)
    BY <2>1, <2>7 DEF Succeeds, Stops, LinkOrGone, Call
  <2>9. QED
    BY <2>2, <2>8 DEF calls
<1>3. QED
  BY <1>1, <1>2

\* So does the tear-down of an SVI whose bridge is stored.
LEMMA SviTearDownSucceeds ==
    ASSUME IInv, TenantThere, NEW s \in Svi, Leaving(s), Stored(LbOf[s])
    PROVE  Succeeds(lgm_tearDownSvi(s), Reach(lgm_tearDownSvi(s)))
<1> DEFINE calls == lgm_tearDownSvi(s)
<1>1. /\ Len(calls) = 5 /\ DOMAIN calls = 1..5
      /\ calls[1] = GetLB(LbOf[s]) /\ calls[2] = LinkByName(Tenant)
      /\ calls[3] = BridgeVlanDel(Tenant, VlanOf[LbOf[s]])
      /\ calls[4] = LinkOrGone(SviLink(s)) /\ calls[5] = LinkDel(SviLink(s))
  BY DEF lgm_tearDownSvi
<1> HIDE DEF calls
<1>2. PICK r : r = Reach(calls)
  OBVIOUS
<1>3. /\ r \in 0..5
      /\ \A k \in 1..r : Possible(HostAfter(calls)[k - 1], calls[k])
      /\ r < 5 => ~ Possible(HostAfter(calls)[r], calls[r + 1])
  <2>1. Len(calls) \in Nat
    BY <1>1
  <2>2. PICK k : k = Len(calls) /\ k = 5
    BY <1>1
  <2>3. /\ r \in 0..k
        /\ \A j \in 1..r : Possible(HostAfter(calls)[j - 1], calls[j])
        /\ r < k => ~ Possible(HostAfter(calls)[r], calls[r + 1])
    BY <1>2, <2>1, <2>2, ReachIs
  <2>4. QED
    BY <2>2, <2>3
<1>4. Tenant \in HostAfter(calls)[r].links
  <2>1. ASSUME NEW i \in 1..r PROVE ~ Takes(calls[i], "links", Tenant)
    <3>1. calls[i].op = "LinkDel" => calls[i].link = SviLink(s)
      <4>1. i \in {1, 2, 3, 4, 5}
        BY <1>3
      <4>2. QED
        BY <1>1, <4>1 DEF GetLB, LinkByName, BridgeVlanDel, LinkOrGone, LinkDel, Call
    <3>2. SviLink(s) # Tenant
      BY DEF SviLink, Tenant
    <3>3. QED
      BY <3>1, <3>2 DEF Takes
  <2>2. Has(host, "links", Tenant)
    BY DEF Has, TenantThere
  <2>3. "links" \in Parts /\ HostOK(host) /\ Len(calls) \in Nat /\ r \in 0..Reach(calls)
    BY <1>1, <1>2, <1>3 DEF Parts, IInv
  <2>4. Has(HostAfter(calls)[r], "links", Tenant)
    BY <2>1, <2>2, <2>3, Lasts
  <2>5. QED
    BY <2>4 DEF Has
<1>5. r # 0 /\ r # 1 /\ r # 2
  <2>1. \A h : Possible(h, calls[1])
    BY <1>1 DEF Possible, GetLB, Call
  <2>2. \A h : Tenant \in h.links => Possible(h, calls[2]) /\ Possible(h, calls[3])
    BY <1>1 DEF Possible, LinkByName, BridgeVlanDel, Call
  <2>3. QED
    BY <1>3, <1>4, <2>1, <2>2
<1>6. r # 4
  <2>1. SUFFICES ASSUME r = 4 PROVE FALSE
    OBVIOUS
  <2>2. HostAfter(calls)[4] = Effect(HostAfter(calls)[3], calls[4])
    <3>1. Len(calls) \in Nat /\ 4 \in 1..Len(calls)
      BY <1>1
    <3>2. HostAfter(calls)[4] = Effect(HostAfter(calls)[4 - 1], calls[4])
      BY <3>1, HostAfterIs
    <3>3. 4 - 1 = 3
      OBVIOUS
    <3>4. QED
      BY <3>2, <3>3
  <2>3. HostAfter(calls)[4] = HostAfter(calls)[3]
    BY <1>1, <2>2, LookUpIs
  <2>4. Possible(HostAfter(calls)[3], calls[4]) /\ ~ Possible(HostAfter(calls)[4], calls[5])
    BY <1>3, <2>1
  <2>5. QED
    BY <1>1, <2>3, <2>4, LookUpIs
<1>7. r = 5 \/ r = 3
  BY <1>3, <1>5, <1>6
<1>8. Succeeds(calls, r)
  BY <1>1, <1>7 DEF Succeeds, Stops, LinkOrGone, Call
<1>9. QED
  BY <1>2, <1>8 DEF calls

\* And that of a port whose interface and bridges are there.
LEMMA PortTearDownSucceeds ==
    ASSUME IInv, NEW b \in Bp, Leaving(b), Port(b) \in host.links, \A l \in LbsOf[b] : Stored(l)
    PROVE  Succeeds(lci_tearDownBp(b), Reach(lci_tearDownBp(b)))
<1>1. PICK q \in Seq(BeforeLast(b)) :
        lci_tearDownBp(b) = q \o << LinkDel(Port(b)) >> /\ LinkDel(Port(b)) \in Own("lci", b)
  BY PortCalls
<1> DEFINE calls == lci_tearDownBp(b)
<1>2. /\ Len(calls) = Len(q) + 1 /\ Len(q) \in Nat
      /\ \A i \in 1..Len(q) : calls[i] \in BeforeLast(b)
      /\ calls[Len(q) + 1] = LinkDel(Port(b))
  <2>1. q \in Seq(BeforeLast(b) \cup {LinkDel(Port(b))})
    OBVIOUS
  <2>2. QED
    BY <1>1, <2>1
<1> HIDE DEF calls
<1>3. PICK r : r = Reach(calls)
  OBVIOUS
<1>4. /\ r \in 0..Len(calls)
      /\ r < Len(calls) => ~ Possible(HostAfter(calls)[r], calls[r + 1])
  BY <1>2, <1>3, ReachIs
<1>5. r = Len(calls)
  <2>1. SUFFICES ASSUME r < Len(calls) PROVE FALSE
    BY <1>4
  <2>2. Port(b) \in HostAfter(calls)[r].links
    <3>1. ASSUME NEW i \in 1..r PROVE ~ Takes(calls[i], "links", Port(b))
      <4>1. calls[i] \in BeforeLast(b)
        BY <1>2, <1>4, <2>1
      <4>2. calls[i].op # "LinkDel"
        BY <4>1 DEF BeforeLast, GetLB, Call
      <4>3. QED
        BY <4>2 DEF Takes
    <3>2. Has(host, "links", Port(b))
      BY DEF Has
    <3>3. "links" \in Parts /\ HostOK(host) /\ Len(calls) \in Nat /\ r \in 0..Reach(calls)
      BY <1>2, <1>3, <1>4 DEF Parts, IInv
    <3>4. Has(HostAfter(calls)[r], "links", Port(b))
      BY <3>1, <3>2, <3>3, Lasts
    <3>5. QED
      BY <3>4 DEF Has
  <2>3. ASSUME NEW c \in BeforeLast(b) \cup {LinkDel(Port(b))} PROVE Possible(HostAfter(calls)[r], c)
    <3>1. CASE c.op \in {"LinkByName", "LinkSetDown", "BridgeVlanDel"} /\ c.link = Port(b)
      BY <2>2, <3>1 DEF Possible
    <3>2. CASE \E l \in LbsOf[b] : c = GetLB(l)
      BY <3>2 DEF Possible, GetLB, Call
    <3>3. CASE c = LinkDel(Port(b))
      BY <2>2, <3>3 DEF Possible, LinkDel, Call
    <3>4. QED
      BY <2>3, <3>1, <3>2, <3>3 DEF BeforeLast
  <2>4. calls[r + 1] \in BeforeLast(b) \cup {LinkDel(Port(b))}
    <3>1. r + 1 \in 1..Len(q) \/ r + 1 = Len(q) + 1
      BY <1>2, <1>4, <2>1
    <3>2. QED
      BY <1>2, <3>1
  <2>5. QED
    BY <1>4, <2>1, <2>3, <2>4
<1>6. Succeeds(calls, r)
  BY <1>5 DEF Succeeds
<1>7. QED
  BY <1>3, <1>6 DEF calls

\* What holds of every reachable store and host besides the types.
RefsInv == RefsWanted /\ OneSvi /\ TenantThere

LEMMA InitRefsInv == Init => RefsInv
<1> SUFFICES ASSUME Init PROVE RefsInv
  OBVIOUS
<1>1. \A o \in Obj : ~ Stored(o)
  <2>1. ASSUME NEW o \in Obj PROVE ~ Stored(o)
    <3>1. db[o] = [oper |-> "Absent", ver |-> 0, st |-> Fresh, table |-> NoTable]
      BY DEF Init
    <3>2. db[o].oper = "Absent"
      BY <3>1
    <3>3. QED
      BY <3>2 DEF Stored
  <2>2. QED
    BY <2>1
<1>2. RefsWanted /\ OneSvi
  BY <1>1 DEF RefsWanted, OneSvi, Obj
<1>3. host.links = {Tenant} \cup {Port(b) : b \in Plugged}
  BY DEF Init, EmptyHost
<1>4. TenantThere
  BY <1>3 DEF TenantThere
<1>5. QED
  BY <1>2, <1>4 DEF RefsInv

LEMMA RefsInductive == Spec => [](IInv /\ RefsInv)
<1>1. Init => IInv /\ RefsInv
  BY InitIInv, InitRefsInv
<1>2. (IInv /\ RefsInv) /\ [Next]_vars => (IInv /\ RefsInv)'
  <2>1. SUFFICES ASSUME IInv, RefsInv, [Next]_vars PROVE IInv' /\ RefsInv'
    OBVIOUS
  <2>2. RefsWanted /\ OneSvi /\ TenantThere
    BY <2>1 DEF RefsInv
  <2>3. IInv'
    BY <2>1, NextStep
  <2>4. RefsWanted' /\ OneSvi'
    BY <2>1, <2>2, RefsStep
  <2>5. TenantThere'
    BY <2>1, <2>2, TenantStep
  <2>6. QED
    BY <2>3, <2>4, <2>5 DEF RefsInv
<1>3. QED
  BY <1>1, <1>2, PTL DEF Spec

\* The tear-down of a bridge, an SVI or a plugged port ends in success if no
\* call of it fails by itself: what it needs is still there, and what it
\* removes it may find gone, wherever an earlier attempt or the set-up stopped.
THEOREM TearDownsCanBeRepeated == Spec => []TearDownCanBeRepeated
<1>1. IInv /\ RefsInv => TearDownCanBeRepeated
  <2>1. SUFFICES ASSUME IInv, RefsInv, NEW o \in Lb \cup Svi \cup Bp, Leaving(o), Sound(o),
                        o \in Bp => Port(o) \in host.links
                 PROVE  Succeeds(Calls(Subs(o)[1], o), Reach(Calls(Subs(o)[1], o)))
    BY DEF TearDownCanBeRepeated
  <2>2. RefsWanted /\ TenantThere
    BY <2>1 DEF RefsInv
  <2>3. o \in Obj /\ Stored(o)
    BY <2>1 DEF Obj, Vpn, Leaving, Stored
  <2>4. \A r \in RefsOf(o) : Stored(r)
    BY <2>1, <2>2, <2>3 DEF RefsWanted, Sound, Wanted
  <2>5. CASE o \in Lb
    <3>1. o \notin Vrf /\ o \notin Svi
      BY <2>5, DevicesAssumption
    <3>2. Subs(o)[1] = "lgm"
      BY <2>5, <3>1 DEF Subs
    <3>3. Calls(Subs(o)[1], o) = lgm_tearDownBridge(o)
      BY <2>1, <2>5, <3>1, <3>2 DEF Calls, lgm_handleLB
    <3>4. QED
      BY <2>5, <3>3, BridgeTearDownSucceeds
  <2>6. CASE o \in Svi
    <3>1. o \notin Vrf /\ o \notin Lb
      BY <2>6, DevicesAssumption
    <3>2. Subs(o)[1] = "lgm"
      BY <2>6, <3>1 DEF Subs
    <3>3. Calls(Subs(o)[1], o) = lgm_tearDownSvi(o)
      BY <2>1, <2>6, <3>1, <3>2 DEF Calls, lgm_handlesvi
    <3>4. Stored(LbOf[o])
      BY <2>4, <2>6 DEF RefsOf
    <3>5. QED
      BY <2>1, <2>2, <2>6, <3>3, <3>4, SviTearDownSucceeds
  <2>7. CASE o \in Bp
    <3>1. o \notin Vrf /\ o \notin Svi /\ o \notin Lb
      BY <2>7, DevicesAssumption
    <3>2. Subs(o)[1] = "lci"
      BY <2>7, <3>1 DEF Subs
    <3>3. Calls(Subs(o)[1], o) = lci_tearDownBp(o)
      BY <2>1, <2>7, <3>1, <3>2 DEF Calls, lci_handlebp
    <3>4. \A l \in LbsOf[o] : Stored(l)
      BY <2>4, <2>7, <3>1 DEF RefsOf
    <3>5. QED
      BY <2>1, <2>7, <3>3, <3>4, PortTearDownSucceeds
  <2>8. QED
    BY <2>1, <2>5, <2>6, <2>7
<1>2. QED
  BY <1>1, RefsInductive, PTL

-----------------------------------------------------------------------------
(* The routing tables that are recorded *)

\* A current report that the set-up of a VRF has succeeded.
SetUpReport(v, r) == r.obj = v /\ r.mod = "lgm" /\ r.ok /\ r.ver = db[v].ver

\* A VRF that has been set up has a number, which is the table its object has,
\* or gets with the report.
TableSound ==
    /\ \A v \in Vrf \ {Grd} : Wanted(v) =>
          /\ db[v].st["lgm"] = "Success" => ids[v] # 0 /\ db[v].table = ids[v]
          /\ \A r \in reports : SetUpReport(v, r) => ids[v] # 0 /\ r.table = ids[v]
    /\ \A r \in reports : r.mod # "lgm" => r.table = NoTable

\* A number is never taken back.
LEMMA NumbersStay ==
    ASSUME IInv, NEW o \in Obj, NEW m \in Modules, Handle(m, o), NEW v \in Vrf
    PROVE  /\ ids[v] # 0 => ids'[v] = ids[v]
           /\ v # o \/ m # "lgm" \/ Leaving(o) \/ v = Grd => ids'[v] = ids[v]
           /\ v = o /\ m = "lgm" /\ ~ Leaving(o) /\ v # Grd => ids'[v] = GetID(v)
<1>1. ids \in [Vrf -> 0..MaxTable] /\ MaxTable \in Nat
  BY DevicesAssumption DEF IInv
<1>2. ids' = IF TableOf(m, o, TRUE) = NoTable THEN ids ELSE [ids EXCEPT ![o] = GetID(o)]
  BY DEF Handle
<1>3. ids[v] # 0 => GetID(v) = ids[v]
  BY GetIDFacts DEF IInv
<1>4. m # "lgm" \/ o \notin Vrf \ {Grd} \/ Leaving(o) => ids' = ids
  BY <1>2 DEF TableOf
<1>5. v = o /\ m = "lgm" /\ ~ Leaving(o) /\ v # Grd => ids'[v] = GetID(v)
  <2>1. SUFFICES ASSUME v = o, m = "lgm", ~ Leaving(o), v # Grd PROVE ids'[v] = GetID(v)
    OBVIOUS
  <2>2. TableOf(m, o, TRUE) = GetID(o)
    BY <2>1 DEF TableOf
  <2>3. GetID(o) \in 0..MaxTable
    BY <2>1, GetIDFacts DEF IInv
  <2>4. GetID(o) # NoTable
    BY <1>1, <2>3 DEF NoTable
  <2>5. QED
    BY <1>1, <1>2, <2>1, <2>2, <2>4
<1>6. v # o => ids'[v] = ids[v]
  BY <1>1, <1>2
<1>7. QED
  BY <1>3, <1>4, <1>5, <1>6

\* A set-up that succeeds makes all its calls, and its VRF has a number.
LEMMA SetUpIs ==
    ASSUME IInv, NEW o \in Obj, NEW m \in Modules, Handle(m, o), ~ Leaving(o),
           NEW n \in 0..Reach(Calls(m, o)), Succeeds(Calls(m, o), n)
    PROVE  /\ n = Len(Calls(m, o))
           /\ m = "lgm" /\ o \in Vrf /\ o # Grd => GetID(o) # 0
<1> DEFINE calls == Calls(m, o)
<1>1. m \in Range(Subs(o)) /\ Len(calls) \in Nat /\ \A i \in 1..Len(calls) : calls[i] \in Own(m, o)
  BY HandleIs
<1>2. Reach(calls) \in 0..Len(calls) /\ \A i \in 1..Reach(calls) : Possible(HostAfter(calls)[i - 1], calls[i])
  BY <1>1, ReachIs
<1>3. \A part \in Parts : \A x : Needed(m, o, GetID(o), part, x) => \E c \in Range(calls) : Gives(c, part, x)
  <2>1. \A v \in Vrf : GetID(v) \in 0..MaxTable
    BY GetIDFacts DEF IInv
  <2>2. QED
    BY <1>1, <2>1, OwnCalls DEF IInv
<1>4. DOMAIN calls = 1..Len(calls)
  BY HandleIs
<1> HIDE DEF calls
<1>5. PICK r \in Nat : r = Reach(calls) /\ r <= Len(calls) /\ n \in 0..r
  BY <1>1, <1>2 DEF calls
<1>6. n = Len(calls)
  <2>1. SUFFICES ASSUME n # Len(calls) PROVE FALSE
    OBVIOUS
  <2>2. n + 1 \in 1..Len(calls)
    BY <1>1, <1>5, <2>1
  <2>3. calls[n + 1] \in Own(m, o)
    BY <1>1, <2>2
  <2>4. calls[n + 1].op \in {"LinkOrGone", "ShowOrGone"}
    BY <2>1 DEF Succeeds, Stops, calls
  <2>5. QED
    BY <2>3, <2>4 DEF Own, HostCall, FrrCall
<1>7. ASSUME m = "lgm", o \in Vrf, o # Grd PROVE GetID(o) # 0
  <2>1. Needed(m, o, GetID(o), "tables", <<o, GetID(o)>>)
    BY <1>7 DEF Needed
  <2>2. PICK c \in Range(calls) : Gives(c, "tables", <<o, GetID(o)>>)
    BY <1>3, <2>1 DEF Parts, calls
  <2>3. c.op = "LinkAddVrf" /\ c.arg = GetID(o)
    BY <2>2 DEF Gives
  <2>4. PICK i \in 1..Len(calls) : c = calls[i]
    BY <1>4, <2>2 DEF Range, calls
  <2>5. i \in 1..r
    BY <1>1, <1>5, <1>6, <2>4
  <2>6. Possible(HostAfter(calls)[i - 1], c)
    BY <1>2, <1>5, <2>4, <2>5 DEF calls
  <2>7. QED
    BY <2>3, <2>6 DEF Possible
<1>8. QED
  BY <1>6, <1>7 DEF calls

\* What is recorded of VRFs stays true when the objects' status, the reports
\* and the numbers do.
LEMMA TableKept ==
    ASSUME TableSound, ids' = ids, reports' \subseteq reports,
           \A v \in Vrf \ {Grd} : Wanted(v)' =>
              /\ Wanted(v)
              /\ db'[v].st["lgm"] = "Success" => db[v].st["lgm"] = "Success" /\ db'[v].table = db[v].table
              /\ \A r \in reports : SetUpReport(v, r)' => SetUpReport(v, r)
    PROVE  TableSound'
<1>1. ASSUME NEW v \in Vrf \ {Grd}, Wanted(v)'
      PROVE  /\ db'[v].st["lgm"] = "Success" => ids'[v] # 0 /\ db'[v].table = ids'[v]
             /\ \A r \in reports' : SetUpReport(v, r)' => ids'[v] # 0 /\ r.table = ids'[v]
  BY <1>1 DEF TableSound
<1>2. \A r \in reports' : r.mod # "lgm" => r.table = NoTable
  BY DEF TableSound
<1>3. QED
  BY <1>1, <1>2 DEF TableSound

LEMMA TableHandle ==
    ASSUME IInv, TableSound, NEW o \in Obj, NEW m \in Modules, Handle(m, o)
    PROVE  TableSound'
<1> DEFINE calls == Calls(m, o)
<1>1. db' = db
  BY DEF Handle
<1>2. PICK n \in 0..Reach(calls) :
        /\ n \in Nat /\ n <= Len(calls)
        /\ host' = HostAfter(calls)[n]
        /\ \E new : /\ reports' = reports \cup {new}
                    /\ new.obj = o /\ new.mod = m /\ new.ver = db[o].ver
                    /\ new.ok <=> Succeeds(calls, n)
                    /\ new.table = TableOf(m, o, new.ok)
        /\ n < Reach(calls) /\ Succeeds(calls, n) => o \in spoilt'
  BY HandleIs
<1>3. PICK new : /\ reports' = reports \cup {new}
                 /\ new.obj = o /\ new.mod = m /\ new.ver = db[o].ver
                 /\ new.ok <=> Succeeds(calls, n)
                 /\ new.table = TableOf(m, o, new.ok)
  BY <1>2, Zenon
<1>4. m # "lgm" => new.table = NoTable
  BY <1>3 DEF TableOf
<1>5. ASSUME NEW v \in Vrf \ {Grd}, Wanted(v)', NEW r \in reports', SetUpReport(v, r)'
      PROVE  ids'[v] # 0 /\ r.table = ids'[v]
  <2>1. Wanted(v) /\ SetUpReport(v, r)
    BY <1>1, <1>5 DEF Wanted, Stored, Leaving, SetUpReport
  <2>2. CASE r \in reports
    <3>1. ids[v] # 0 /\ r.table = ids[v]
      BY <2>1, <2>2 DEF TableSound
    <3>2. QED
      BY <3>1, NumbersStay
  <2>3. CASE r = new
    <3>1. v = o /\ m = "lgm" /\ new.ok /\ ~ Leaving(o)
      BY <1>3, <2>1, <2>3 DEF SetUpReport, Wanted
    <3>2. ids'[v] = GetID(v)
      BY <3>1, NumbersStay
    <3>3. new.table = GetID(v)
      BY <1>3, <3>1 DEF TableOf
    <3>4. Succeeds(calls, n)
      BY <1>3, <3>1
    <3>5. GetID(v) # 0
      BY <3>1, <3>4, SetUpIs
    <3>6. QED
      BY <2>3, <3>2, <3>3, <3>5
  <2>4. QED
    BY <1>3, <2>2, <2>3
<1>6. ASSUME NEW v \in Vrf \ {Grd}, Wanted(v)', db'[v].st["lgm"] = "Success"
      PROVE  ids'[v] # 0 /\ db'[v].table = ids'[v]
  <2>1. Wanted(v) /\ db[v].st["lgm"] = "Success"
    BY <1>1, <1>6 DEF Wanted, Stored, Leaving
  <2>2. ids[v] # 0 /\ db[v].table = ids[v]
    BY <2>1 DEF TableSound
  <2>3. QED
    BY <1>1, <2>2, NumbersStay
<1>7. \A r \in reports' : r.mod # "lgm" => r.table = NoTable
  BY <1>3, <1>4 DEF TableSound
<1>8. QED
  BY <1>5, <1>6, <1>7 DEF TableSound

LEMMA TableReport ==
    ASSUME IInv, TableSound, NEW q \in reports, Report(q)
    PROVE  TableSound'
<1>1. reports' \subseteq reports /\ ids' = ids /\ db \in [Obj -> Object] /\ q.obj \in Obj
  BY ReportIs DEF IInv, ReportsSound
<1>2. \A v \in Vrf : v \in Obj
  BY DEF Obj, Vpn
<1>3. ASSUME NEW v \in Vrf \ {Grd}, Wanted(v)', NEW r \in reports', SetUpReport(v, r)'
      PROVE  ids'[v] # 0 /\ r.table = ids'[v]
  <2>1. Wanted(v) /\ db'[v].ver = db[v].ver
    BY <1>2, <1>3, ReportKeeps
  <2>2. SetUpReport(v, r)
    BY <1>3, <2>1 DEF SetUpReport
  <2>3. QED
    BY <1>1, <2>1, <2>2 DEF TableSound
<1>4. ASSUME NEW v \in Vrf \ {Grd}, Wanted(v)', db'[v].st["lgm"] = "Success"
      PROVE  ids'[v] # 0 /\ db'[v].table = ids'[v]
  <2>1. Wanted(v) /\ (db'[v] = db[v] \/ (v = q.obj /\ Current(q)))
    BY <1>2, <1>4, ReportKeeps
  <2>2. CASE db'[v] = db[v]
    BY <1>1, <1>4, <2>1, <2>2 DEF TableSound
  <2>3. CASE db'[v] # db[v]
    <3>1. v = q.obj /\ q.ver = db[v].ver
      BY <2>1, <2>3 DEF Current
    <3>2. db' # db
      BY <2>3
    <3>3. PICK x : /\ db' = [db EXCEPT ![q.obj] = x]
                   /\ \/ x.oper = "Absent"
                      \/ /\ x.st = [db[q.obj].st EXCEPT ![q.mod] = IF q.ok THEN "Success" ELSE "Error"]
                         /\ x.table = IF q.table = NoTable THEN db[q.obj].table ELSE q.table
      BY <3>2, ReportIs
    <3>4. db'[v] = x /\ x.oper # "Absent"
      BY <1>1, <1>4, <3>1, <3>3 DEF Wanted, Stored
    <3>5. /\ db'[v].st = [db[v].st EXCEPT ![q.mod] = IF q.ok THEN "Success" ELSE "Error"]
          /\ db'[v].table = IF q.table = NoTable THEN db[v].table ELSE q.table
      BY <3>1, <3>3, <3>4
    <3>6. db[v].st \in [Modules -> {"Pending", "Success", "Error"}] /\ "lgm" \in Modules
      BY <1>1, <1>2 DEF Object, Modules
    <3>7. CASE q.mod = "lgm"
      <4>1. q.ok
        BY <1>4, <3>5, <3>6, <3>7
      <4>2. ids[v] # 0 /\ q.table = ids[v]
        BY <2>1, <3>1, <3>7, <4>1 DEF TableSound, SetUpReport
      <4>3. ids[v] # NoTable
        <5>1. ids[v] \in 0..MaxTable /\ MaxTable \in Nat
          BY DevicesAssumption DEF IInv
        <5>2. QED
          BY <5>1 DEF NoTable
      <4>4. QED
        BY <1>1, <3>5, <4>2, <4>3
    <3>8. CASE q.mod # "lgm"
      <4>1. db[v].st["lgm"] = "Success"
        BY <1>4, <3>5, <3>6, <3>8
      <4>2. q.table = NoTable
        BY <3>8 DEF TableSound
      <4>3. QED
        BY <1>1, <2>1, <3>5, <4>1, <4>2 DEF TableSound
    <3>9. QED
      BY <3>7, <3>8
  <2>4. QED
    BY <2>2, <2>3
<1>5. \A r \in reports' : r.mod # "lgm" => r.table = NoTable
  BY <1>1 DEF TableSound
<1>6. QED
  BY <1>3, <1>4, <1>5 DEF TableSound

LEMMA TableStep ==
    ASSUME IInv, TableSound, [Next]_vars
    PROVE  TableSound'
<1>0. \A v \in Vrf : v \in Obj
  BY DEF Obj, Vpn
<1>1. ASSUME NEW o \in Obj, Create(o) PROVE TableSound'
  <2>1. /\ db'[o].ver = db[o].ver + 1 /\ \A k \in Modules : db'[o].st[k] # "Success"
        /\ \A p \in Obj : p # o => db'[p] = db[p]
        /\ ids' = ids /\ reports' = reports
    BY <1>1, CreateIs
  <2>2. ASSUME NEW v \in Vrf \ {Grd}, Wanted(v)'
        PROVE  /\ db'[v].st["lgm"] = "Success" => ids'[v] # 0 /\ db'[v].table = ids'[v]
               /\ \A r \in reports' : SetUpReport(v, r)' => ids'[v] # 0 /\ r.table = ids'[v]
    <3>1. CASE v = o
      <4>1. db'[v].st["lgm"] # "Success"
        BY <2>1, <3>1 DEF Modules
      <4>2. ASSUME NEW r \in reports', SetUpReport(v, r)' PROVE FALSE
        <5>1. Done("lgm", o)'
          BY <3>1, <4>2 DEF Done, SetUpReport
        <5>2. QED
          BY <2>1, <3>1, <4>1, <5>1, NotYetDone
      <4>3. QED
        BY <4>1, <4>2
    <3>2. CASE v # o
      <4>1. db'[v] = db[v] /\ Wanted(v)
        BY <1>0, <2>1, <2>2, <3>2 DEF Wanted, Stored, Leaving
      <4>2. QED
        BY <2>1, <4>1 DEF TableSound, SetUpReport
    <3>3. QED
      BY <3>1, <3>2
  <2>3. QED
    BY <2>1, <2>2 DEF TableSound
<1>2. ASSUME NEW o \in Obj, Delete(o) PROVE TableSound'
  <2>1. /\ Leaving(o)' /\ \A p \in Obj : p # o => db'[p] = db[p]
        /\ ids' = ids /\ reports' = reports
    BY <1>2, DeleteIs
  <2>2. ASSUME NEW v \in Vrf \ {Grd}, Wanted(v)'
        PROVE  db'[v] = db[v] /\ Wanted(v)
    BY <1>0, <2>1, <2>2 DEF Wanted, Stored, Leaving
  <2>3. QED
    BY <2>1, <2>2, TableKept DEF SetUpReport
<1>3. ASSUME NEW o \in Obj, NEW m \in Modules, Handle(m, o) PROVE TableSound'
  BY <1>3, TableHandle
<1>4. ASSUME NEW r \in reports, Report(r) PROVE TableSound'
  BY <1>4, TableReport
<1>5. ASSUME NEW r \in reports, Empties(r) PROVE TableSound'
  <2>1. ids' = ids /\ reports' \subseteq reports
    BY <1>5 DEF Empties, Restarted, AsksForReplay
  <2>2. ASSUME NEW v \in Vrf \ {Grd}, Wanted(v)'
        PROVE  /\ Wanted(v)
               /\ db'[v].st["lgm"] = "Success" => db[v].st["lgm"] = "Success" /\ db'[v].table = db[v].table
               /\ \A q \in reports : SetUpReport(v, q)' => SetUpReport(v, q)
    <3>1. \/ db'[v] = db[v]
          \/ /\ Stored(v) /\ (Leaving(v)' <=> Leaving(v))
             /\ db'[v].ver = db[v].ver + 1 /\ db[v].ver \in Nat
             /\ db'[v].table = db[v].table
             /\ db'[v].st["lgm"] = "Success" => db[v].st["lgm"] = "Success"
      BY <1>0, <1>5, ReplayIs DEF Modules
    <3>2. \A q \in reports : q.obj = v => q.ver \in 1..db[v].ver
      BY DEF IInv, ReportsSound
    <3>3. QED
      BY <2>2, <3>1, <3>2 DEF Wanted, Stored, Leaving, SetUpReport
  <2>3. QED
    BY <2>1, <2>2, TableKept
<1>6. ASSUME NEW r \in reports, ReplayFails(r) PROVE TableSound'
  <2>1. db' = db /\ ids' = ids /\ reports' \subseteq reports
    BY <1>6 DEF ReplayFails, AsksForReplay
  <2>2. QED
    BY <2>1, TableKept DEF Wanted, Stored, Leaving, SetUpReport
<1>7. ASSUME NEW b \in Bp, Plug(b) PROVE TableSound'
  <2>1. db' = db /\ ids' = ids /\ reports' = reports
    BY <1>7 DEF Plug
  <2>2. QED
    BY <2>1, TableKept DEF Wanted, Stored, Leaving, SetUpReport
<1>8. ASSUME UNCHANGED vars PROVE TableSound'
  <2>1. db' = db /\ ids' = ids /\ reports' = reports
    BY <1>8 DEF vars
  <2>2. QED
    BY <2>1, TableKept DEF Wanted, Stored, Leaving, SetUpReport
<1>9. QED
  BY <1>1, <1>2, <1>3, <1>4, <1>5, <1>6, <1>7, <1>8, ReplaysEmpty DEF Next

-----------------------------------------------------------------------------
(* What has been set up is there *)

\* The routing table of an object's name.
NumberOf(o) == IF o \in Vrf THEN ids[o] ELSE 0

\* All that a module puts on the host for an object is there.
Placed(m, o) == \A part \in Parts : \A x : Needed(m, o, NumberOf(o), part, x) => Has(host, part, x)

\* FRR's part of an object is gone with a replay that failed.
Lost(m, o) == m = "frr" /\ o \in emptied

\* A set-up that succeeded and has not been undone by a delete, nor lost in a
\* failed replay, has left everything in place.
PlacedInv == \A o \in Obj : \A m \in Range(Subs(o)) :
                Wanted(o) /\ Sound(o) /\ Done(m, o) /\ ~ Lost(m, o) => Placed(m, o)

\* Only LGM's work on a VRF depends on its number.
LEMMA NeededAnyway ==
    ASSUME NEW o \in Obj, NEW m \in Range(Subs(o)), NEW t, NEW u, NEW part, NEW x,
           Needed(m, o, t, part, x), ~ (m = "lgm" /\ o \in Vrf /\ o # Grd)
    PROVE  Needed(m, o, u, part, x)
<1>1. part # "tables" \/ ~ (m = "lgm" /\ o \in Vrf /\ o # Grd)
  OBVIOUS
<1>2. QED
  BY <1>1 DEF Needed

\* A set-up that is done counted on the number that its VRF keeps.
LEMMA NeededBefore ==
    ASSUME IInv, TableSound, NEW o \in Obj, NEW m \in Modules, Handle(m, o),
           NEW p \in Obj, NEW k \in Range(Subs(p)), Wanted(p), Done(k, p),
           NEW part, NEW x, Needed(k, p, NumberOf(p)', part, x)
    PROVE  Needed(k, p, NumberOf(p), part, x)
<1>1. CASE ~ (k = "lgm" /\ p \in Vrf /\ p # Grd)
  <2>1. PICK u : u = NumberOf(p)'
    OBVIOUS
  <2>2. QED
    BY <1>1, <2>1, NeededAnyway
<1>2. CASE k = "lgm" /\ p \in Vrf /\ p # Grd
  <2>1. ids[p] # 0
    BY <1>2 DEF TableSound, Done, SetUpReport
  <2>2. ids'[p] = ids[p]
    BY <1>2, <2>1, NumbersStay
  <2>3. NumberOf(p)' = NumberOf(p)
    BY <1>2, <2>2 DEF NumberOf
  <2>4. QED
    BY <2>3
<1>3. QED
  BY <1>1, <1>2

\* A handler's calls take nothing that another set-up counts on.
LEMMA HandlerKeeps ==
    ASSUME VlansDiffer, IInv, RefsInv, NEW o \in Obj, NEW m \in Modules, Handle(m, o),
           NEW p \in Obj, Wanted(p), Sound(p),
           NEW t, NEW part \in Parts, NEW x, Item(p, t, part, x),
           NEW n \in 0..Reach(Calls(m, o)), host' = HostAfter(Calls(m, o))[n],
           Has(host, part, x) \/ \E i \in 1..n : Gives(Calls(m, o)[i], part, x)
    PROVE  Has(host', part, x)
<1> DEFINE calls == Calls(m, o)
<1>1. m \in Range(Subs(o)) /\ Stored(o) /\ Len(calls) \in Nat /\ \A i \in 1..Len(calls) : calls[i] \in Own(m, o)
  BY HandleIs
<1>2. Reach(calls) \in 0..Len(calls) /\ HostOK(host)
  BY <1>1, ReachIs DEF IInv
<1> HIDE DEF calls
<1>3. PICK r \in Nat : r = Reach(calls) /\ r <= Len(calls) /\ n \in 0..r
  BY <1>1, <1>2 DEF calls
<1>4. ASSUME NEW i \in 1..n, Takes(calls[i], part, x) PROVE Gives(calls[i], part, x)
  <2>1. i \in 1..Len(calls)
    BY <1>1, <1>3
  <2>2. PICK c \in Own(m, o) : c = calls[i]
    BY <1>1, <2>1
  <2>3. Gives(c, part, x)
    BY <1>1, <1>4, <2>2, OthersKeep DEF RefsInv
  <2>4. QED
    BY <2>2, <2>3
<1>5. n \in 0..Reach(calls) /\ (Has(host, part, x) \/ \E i \in 1..n : Gives(calls[i], part, x))
  BY DEF calls
<1>6. Has(HostAfter(calls)[n], part, x)
  BY <1>1, <1>2, <1>4, <1>5, Lasts
<1>7. QED
  BY <1>6 DEF calls

\* A handler keeps what is in place, and puts in place what it reports.
LEMMA PlacedHandle ==
    ASSUME VlansDiffer, IInv, RefsInv, TableSound, PlacedInv,
           NEW o \in Obj, NEW m \in Modules, Handle(m, o)
    PROVE  PlacedInv'
<1> DEFINE calls == Calls(m, o)
<1>1. /\ db' = db /\ spoilt \subseteq spoilt'
      /\ emptied \ {o} \subseteq emptied' /\ (m # "frr" => emptied' = emptied)
  BY DEF Handle
<1>0. ~ Done(m, o)
  <2>1. db[o].st[m] # "Success" /\ ~ Busy(m, o)
    BY DEF Handle
  <2>2. ASSUME NEW r \in reports, r.obj = o, r.mod = m PROVE FALSE
    <3>1. KindOf(r.obj) = KindOf(o)
      BY <2>2
    <3>2. QED
      BY <2>1, <2>2, <3>1 DEF Busy
  <2>3. QED
    BY <2>1, <2>2 DEF Done
<1>2. PICK n \in 0..Reach(calls) :
        /\ n \in Nat /\ n <= Len(calls)
        /\ host' = HostAfter(calls)[n]
        /\ \E new : /\ reports' = reports \cup {new}
                    /\ new.obj = o /\ new.mod = m /\ new.ver = db[o].ver
                    /\ new.ok <=> Succeeds(calls, n)
                    /\ new.table = TableOf(m, o, new.ok)
        /\ n < Reach(calls) /\ Succeeds(calls, n) => o \in spoilt'
  BY HandleIs
<1>3. PICK new : /\ reports' = reports \cup {new}
                 /\ new.obj = o /\ new.mod = m /\ new.ver = db[o].ver
                 /\ new.ok <=> Succeeds(calls, n)
                 /\ new.table = TableOf(m, o, new.ok)
  BY <1>2, Zenon
<1>4. ASSUME NEW p \in Obj, NEW k \in Range(Subs(p)), Wanted(p)', Sound(p)', Done(k, p)',
             ~ Lost(k, p)', NEW part \in Parts, NEW x, Needed(k, p, NumberOf(p)', part, x)
      PROVE  Has(host', part, x)
  <2>1. Wanted(p) /\ Sound(p)
    BY <1>1, <1>4 DEF Wanted, Stored, Leaving, Sound
  <2>2. Done(k, p) \/ (p = o /\ k = m /\ new.ok)
    BY <1>1, <1>3, <1>4 DEF Done
  <2>3. CASE Done(k, p)
    <3>1. Needed(k, p, NumberOf(p), part, x)
      BY <1>4, <2>1, <2>3, NeededBefore
    <3>0. ~ Lost(k, p)
      BY <1>0, <1>1, <1>4, <2>3 DEF Lost
    <3>2. Has(host, part, x)
      BY <2>1, <2>3, <3>0, <3>1 DEF PlacedInv, Placed
    <3>3. Item(p, NumberOf(p), part, x)
      BY <3>1, NeededItems
    <3>4. QED
      BY <1>2, <2>1, <3>2, <3>3, HandlerKeeps
  <2>4. CASE p = o /\ k = m /\ new.ok
    <3>1. ~ Leaving(o) /\ Succeeds(calls, n)
      BY <1>3, <2>1, <2>4 DEF Wanted
    <3>2. n = Len(calls)
      BY <3>1, SetUpIs
    <3>3. Needed(m, o, GetID(o), part, x)
      <4>1. CASE ~ (m = "lgm" /\ o \in Vrf /\ o # Grd)
        <5>1. PICK u : u = NumberOf(p)'
          OBVIOUS
        <5>2. QED
          BY <1>4, <2>4, <4>1, <5>1, NeededAnyway
      <4>2. CASE m = "lgm" /\ o \in Vrf /\ o # Grd
        <5>1. ids'[o] = GetID(o)
          BY <3>1, <4>2, NumbersStay
        <5>2. NumberOf(p)' = GetID(o)
          BY <2>4, <4>2, <5>1 DEF NumberOf
        <5>3. QED
          BY <1>4, <2>4, <5>2
      <4>3. QED
        BY <4>1, <4>2
    <3>4. \E i \in 1..n : Gives(calls[i], part, x)
      <4>1. \A v \in Vrf : GetID(v) \in 0..MaxTable
        BY GetIDFacts DEF IInv
      <4>2. m \in Range(Subs(o))
        BY <1>4, <2>4
      <4>3. PICK c \in Range(calls) : Gives(c, part, x)
        BY <3>1, <3>3, <4>1, <4>2, OwnCalls DEF IInv
      <4>4. DOMAIN calls = 1..Len(calls)
        BY HandleIs
      <4>5. QED
        BY <3>2, <4>3, <4>4 DEF Range
    <3>5. Item(p, GetID(o), part, x)
      BY <1>4, <2>4, <3>3, NeededItems
    <3>6. QED
      BY <1>2, <2>1, <3>4, <3>5, HandlerKeeps
  <2>5. QED
    BY <2>2, <2>3, <2>4
<1>5. QED
  BY <1>4 DEF PlacedInv, Placed

\* What is in place stays when nothing it needs goes and no set-up is done
\* that was not done.
LEMMA PlacedKept ==
    ASSUME PlacedInv, ids' = ids, spoilt' = spoilt, emptied \subseteq emptied',
           \A o \in Obj : \A m \in Range(Subs(o)) : Wanted(o)' /\ Done(m, o)' /\ ~ Lost(m, o)' =>
              /\ Wanted(o) /\ Done(m, o)
              /\ \A part \in Parts : \A x : Needed(m, o, NumberOf(o), part, x) =>
                    (Has(host, part, x) => Has(host', part, x))
    PROVE  PlacedInv'
<1>1. ASSUME NEW o \in Obj, NEW m \in Range(Subs(o)), Wanted(o)', Sound(o)', Done(m, o)',
             ~ Lost(m, o)', NEW part \in Parts, NEW x, Needed(m, o, NumberOf(o)', part, x)
      PROVE  Has(host', part, x)
  <2>1. NumberOf(o)' = NumberOf(o) /\ Sound(o) /\ ~ Lost(m, o)
    BY <1>1 DEF NumberOf, Sound, Lost
  <2>2. Needed(m, o, NumberOf(o), part, x) /\ Wanted(o) /\ Done(m, o)
    BY <1>1, <2>1
  <2>3. Has(host, part, x)
    BY <2>1, <2>2 DEF PlacedInv, Placed
  <2>4. QED
    BY <1>1, <2>2, <2>3
<1>2. QED
  BY <1>1 DEF PlacedInv, Placed

LEMMA PlacedCreate ==
    ASSUME IInv, PlacedInv, NEW o \in Obj, Create(o)
    PROVE  PlacedInv'
<1>1. /\ db'[o].ver = db[o].ver + 1 /\ \A k \in Modules : db'[o].st[k] # "Success"
      /\ \A p \in Obj : p # o => db'[p] = db[p]
      /\ spoilt \subseteq spoilt' /\ host' = host /\ ids' = ids /\ reports' = reports
  BY CreateIs
<1>5. emptied' = emptied
  BY DEF Create, Request
<1>2. ASSUME NEW p \in Obj, NEW m \in Range(Subs(p)), Wanted(p)', Sound(p)', Done(m, p)'
      PROVE  Wanted(p) /\ Sound(p) /\ Done(m, p)
  <2>1. p # o
    <3>1. SUFFICES ASSUME p = o PROVE FALSE
      OBVIOUS
    <3>2. db'[o].st[m] = "Success"
      BY <1>1, <1>2, <3>1, NotYetDone
    <3>3. m \in Modules
      BY <1>2, HandlerKinds
    <3>4. QED
      BY <1>1, <3>2, <3>3
  <2>2. db'[p] = db[p]
    BY <1>1, <2>1
  <2>3. QED
    BY <1>1, <1>2, <2>2 DEF Wanted, Stored, Leaving, Sound, Done
<1>3. ASSUME NEW p \in Obj, NEW m \in Range(Subs(p)), Wanted(p)', Sound(p)', Done(m, p)', ~ Lost(m, p)'
      PROVE  Placed(m, p)'
  <2>1. Placed(m, p)
    BY <1>2, <1>3, <1>5 DEF PlacedInv, Lost
  <2>2. QED
    BY <1>1, <2>1 DEF Placed, NumberOf
<1>4. QED
  BY <1>3 DEF PlacedInv

LEMMA PlacedReplay ==
    ASSUME IInv, PlacedInv, NEW r \in reports, Empties(r)
    PROVE  PlacedInv'
<1>1. ids' = ids /\ spoilt' = spoilt /\ emptied \subseteq emptied'
  BY DEF Empties, Restarted, AsksForReplay
<1>2. \A part \in Parts : \A x : part # "conf" /\ Has(host, part, x) => Has(host', part, x)
  <2>1. /\ host'.links = host.links /\ host'.up = host.up /\ host'.addr = host.addr
        /\ host'.master = host.master /\ host'.vlans = host.vlans
        /\ host'.tables = host.tables /\ host'.throw = host.throw
    <3>1. IsHost(host) /\ host' = [host EXCEPT !.conf = {}]
      BY DEF Empties, Restarted, IInv, HostOK
    <3>2. host' = [links |-> host.links, up |-> host.up, addr |-> host.addr, master |-> host.master,
                   vlans |-> host.vlans, tables |-> host.tables, throw |-> host.throw, conf |-> {}]
      BY <3>1 DEF IsHost
    <3>3. QED
      BY <3>2
  <2>2. QED
    BY <2>1 DEF Has
<1>3. ASSUME NEW o \in Obj, NEW m \in Range(Subs(o)), Wanted(o)', Done(m, o)', ~ Lost(m, o)'
      PROVE  /\ Wanted(o) /\ Done(m, o)
             /\ \A part \in Parts : \A x : Needed(m, o, NumberOf(o), part, x) =>
                   (Has(host, part, x) => Has(host', part, x))
  <2>1. m \in Modules /\ (m = "frr" => o \in Vrf \cup Svi) /\ (m = "lgm" \/ m = "lci" \/ m = "frr")
    BY HandlerKinds
  <2>2. Wanted(o)
    <3>1. db'[o] = db[o] \/ (Stored(o) /\ (Leaving(o)' <=> Leaving(o)))
      BY ReplayIs
    <3>2. QED
      BY <1>3, <3>1 DEF Wanted, Stored, Leaving
  <2>3. Done(m, o) /\ (m = "frr" /\ o \in Configured => o \in emptied')
    BY <1>3, <2>1, ReplayDone
  <2>4. m # "frr"
    BY <1>3, <2>1, <2>2, <2>3 DEF Wanted, Configured, Lost
  <2>5. \A part : \A x : Needed(m, o, NumberOf(o), part, x) => part # "conf"
    BY <2>4 DEF Needed
  <2>6. QED
    BY <1>2, <2>2, <2>3, <2>5
<1>4. QED
  BY <1>1, <1>3, PlacedKept

LEMMA PlacedStep ==
    ASSUME VlansDiffer, IInv, RefsInv, TableSound, PlacedInv, [Next]_vars
    PROVE  PlacedInv'
<1>1. ASSUME NEW o \in Obj, Create(o) PROVE PlacedInv'
  BY <1>1, PlacedCreate
<1>2. ASSUME NEW o \in Obj, Delete(o) PROVE PlacedInv'
  <2>1. /\ Leaving(o)' /\ \A p \in Obj : p # o => db'[p] = db[p]
        /\ spoilt' = spoilt /\ host' = host /\ ids' = ids /\ reports' = reports
    BY <1>2, DeleteIs
  <2>5. emptied' = emptied
    BY <1>2 DEF Delete, Request
  <2>2. \A p \in Obj : Wanted(p)' => db'[p] = db[p] /\ Wanted(p)
    BY <2>1 DEF Wanted, Stored, Leaving
  <2>3. \A p \in Obj : \A m : Wanted(p)' /\ Done(m, p)' => Wanted(p) /\ Done(m, p)
    BY <2>1, <2>2 DEF Done
  <2>4. QED
    BY <2>1, <2>3, <2>5, PlacedKept
<1>3. ASSUME NEW o \in Obj, NEW m \in Modules, Handle(m, o) PROVE PlacedInv'
  BY <1>3, PlacedHandle
<1>4. ASSUME NEW r \in reports, Report(r) PROVE PlacedInv'
  <2>1. ids' = ids /\ spoilt' = spoilt /\ host' = host
    BY <1>4, ReportIs
  <2>4. emptied' = emptied
    BY <1>4 DEF Report
  <2>2. ASSUME NEW o \in Obj, NEW m \in Range(Subs(o)), Wanted(o)', Done(m, o)' PROVE Wanted(o) /\ Done(m, o)
    <3>1. m \in Modules /\ Stored(o)'
      BY <2>2, HandlerKinds DEF Wanted
    <3>2. QED
      BY <1>4, <2>2, <3>1, ReportKeeps, ReportDone
  <2>3. QED
    BY <2>1, <2>2, <2>4, PlacedKept
<1>5. ASSUME NEW r \in reports, Empties(r) PROVE PlacedInv'
  BY <1>5, PlacedReplay
<1>6. ASSUME NEW r \in reports, ReplayFails(r) PROVE PlacedInv'
  <2>1. db' = db /\ host' = host /\ ids' = ids /\ spoilt' = spoilt /\ emptied' = emptied /\ reports' \subseteq reports
    BY <1>6 DEF ReplayFails, AsksForReplay
  <2>2. QED
    BY <2>1, PlacedKept DEF Wanted, Stored, Leaving, Done
<1>7. ASSUME NEW b \in Bp, Plug(b) PROVE PlacedInv'
  <2>1. db' = db /\ ids' = ids /\ spoilt' = spoilt /\ emptied' = emptied /\ reports' = reports
    BY <1>7 DEF Plug
  <2>2. \A part \in Parts : \A x : Has(host, part, x) => Has(host', part, x)
    <3>1. IsHost(host) /\ host' = [host EXCEPT !.links = @ \cup {Port(b)}]
      BY <1>7 DEF Plug, IInv, HostOK
    <3>2. host' = [links |-> host.links \cup {Port(b)}, up |-> host.up, addr |-> host.addr,
                   master |-> host.master, vlans |-> host.vlans, tables |-> host.tables,
                   throw |-> host.throw, conf |-> host.conf]
      BY <3>1 DEF IsHost
    <3>3. /\ host.links \subseteq host'.links /\ host'.up = host.up /\ host'.addr = host.addr
          /\ host'.master = host.master /\ host'.vlans = host.vlans
          /\ host'.tables = host.tables /\ host'.throw = host.throw /\ host'.conf = host.conf
      BY <3>2
    <3>4. QED
      BY <3>3 DEF Has
  <2>3. \A p \in Obj : \A m : Wanted(p)' /\ Done(m, p)' => Wanted(p) /\ Done(m, p)
    BY <2>1 DEF Wanted, Stored, Leaving, Done
  <2>4. QED
    BY <2>1, <2>2, <2>3, PlacedKept
<1>8. ASSUME UNCHANGED vars PROVE PlacedInv'
  <2>1. db' = db /\ host' = host /\ ids' = ids /\ spoilt' = spoilt /\ emptied' = emptied /\ reports' = reports
    BY <1>8 DEF vars
  <2>2. QED
    BY <2>1, PlacedKept DEF Wanted, Stored, Leaving, Done
<1>9. QED
  BY <1>1, <1>2, <1>3, <1>4, <1>5, <1>6, <1>7, <1>8, ReplaysEmpty DEF Next

LEMMA PlacedInductive == VlansDiffer => (Spec => [](IInv /\ TableSound /\ PlacedInv))
<1> SUFFICES ASSUME VlansDiffer PROVE Spec => [](IInv /\ TableSound /\ PlacedInv)
  OBVIOUS
<1>1. Init => TableSound /\ PlacedInv
  <2> SUFFICES ASSUME Init PROVE TableSound /\ PlacedInv
    OBVIOUS
  <2>1. ASSUME NEW o \in Obj PROVE ~ Wanted(o)
    <3>1. db[o] = [oper |-> "Absent", ver |-> 0, st |-> Fresh, table |-> NoTable]
      BY DEF Init
    <3>2. db[o].oper = "Absent"
      BY <3>1
    <3>3. QED
      BY <3>2 DEF Wanted, Stored
  <2>2. PlacedInv
    BY <2>1 DEF PlacedInv
  <2>3. TableSound
    BY <2>1 DEF TableSound, Init, Obj, Vpn
  <2>4. QED
    BY <2>2, <2>3
<1>2. (IInv /\ RefsInv) /\ (TableSound /\ PlacedInv) /\ [Next]_vars => (TableSound /\ PlacedInv)'
  BY TableStep, PlacedStep
<1>3. QED
  BY <1>1, <1>2, RefsInductive, PTL DEF Spec

\* What is placed is what the module should have put in place.
LEMMA PlacedIsInPlace ==
    ASSUME NEW o \in Obj, NEW m \in Range(Subs(o)), Placed(m, o),
           m = "lgm" /\ o \in Vrf \ {Grd} => db[o].table = ids[o]
    PROVE  InPlace(m, o)
<1> DEFINE t == NumberOf(o)
<1>1. /\ \A x : Needed(m, o, t, "up", x) => x \in host.up
      /\ \A x : Needed(m, o, t, "addr", x) => x \in host.addr
      /\ \A x : Needed(m, o, t, "master", x) => x \in host.master
      /\ \A x : Needed(m, o, t, "vlans", x) => x \in host.vlans
      /\ \A x : Needed(m, o, t, "tables", x) => x \in host.tables
      /\ \A x : Needed(m, o, t, "conf", x) => x \in host.conf
  BY DEF Placed, Parts, Has
<1>2. o \in Vrf => t = ids[o]
  BY DEF NumberOf
<1> HIDE DEF t
<1>3. ASSUME m = "lgm", o \in Lb \cap WithVni
      PROVE  Serves(VlanLink(o), Tenant) /\ <<VlanLink(o), VlanOf[o]>> \in host.vlans
  BY <1>1, <1>3 DEF Needed, Serves
<1>4. ASSUME m = "lgm", o \in Vrf \ {Grd}
      PROVE  VrfLink(o) \in host.up \cap host.addr /\ <<o, db[o].table>> \in host.tables
  BY <1>1, <1>2, <1>4 DEF Needed
<1>5. ASSUME m = "lgm", o \in Vrf \ {Grd}, o \in WithVni
      PROVE  Serves(BrLink(o), VrfLink(o)) /\ Serves(VxlanLink(o), BrLink(o))
  BY <1>1, <1>5 DEF Needed, Serves
<1>6. ASSUME m = "lgm", o \in Svi
      PROVE  /\ Serves(SviLink(o), VrfLink(VrfOf[o])) /\ SviLink(o) \in host.addr
             /\ <<Tenant, VlanOf[LbOf[o]]>> \in host.vlans
  BY <1>1, <1>6 DEF Needed, Serves, TenantVlan
<1>7. ASSUME m = "lci"
      PROVE  Serves(Port(o), Tenant) /\ \A l \in LbsOf[o] : <<Port(o), VlanOf[l]>> \in host.vlans
  <2>1. o \in Bp
    BY <1>7, HandlerKinds
  <2>2. QED
    BY <1>1, <1>7, <2>1 DEF Needed, Serves
<1>8. ASSUME m = "frr", o \in Vrf \ {Grd}, o \in WithVni
      PROVE  {<<"vni", o>>, <<"bgp", o>>} \subseteq host.conf
  BY <1>1, <1>8 DEF Needed
<1>9. ASSUME m = "frr", o \in EnableBgp
      PROVE  {<<"bgp", VrfOf[o]>>, Neighbor(o)} \subseteq host.conf
  BY <1>1, <1>9 DEF Needed
<1>10. QED
  BY <1>3, <1>4, <1>5, <1>6, <1>7, <1>8, <1>9 DEF InPlace

\* Where bridges have different VLANs, what LGM, LCI and FRR reported as set up
\* stays complete on the host until the object is deleted: the set-ups and
\* tear-downs of other objects, complete or not, and the replays of FRR take
\* nothing of it, but for FRR's part after a replay that emptied FRR and then
\* failed.
THEOREM SuccessStaysInPlace == VlansDiffer => (Spec => []SuccessIsInPlace)
<1> SUFFICES ASSUME VlansDiffer PROVE Spec => []SuccessIsInPlace
  OBVIOUS
<1>1. IInv /\ TableSound /\ PlacedInv => SuccessIsInPlace
  <2>1. SUFFICES ASSUME TableSound, PlacedInv, NEW o \in Obj, Wanted(o), Sound(o),
                        NEW i \in DOMAIN Subs(o), db[o].st[Subs(o)[i]] = "Success",
                        ~ (Subs(o)[i] = "frr" /\ o \in emptied)
                 PROVE  InPlace(Subs(o)[i], o)
    BY DEF SuccessIsInPlace
  <2>2. PICK m \in Range(Subs(o)) : m = Subs(o)[i]
    BY DEF Range
  <2>3. Placed(m, o)
    BY <2>1, <2>2 DEF PlacedInv, Done, Lost
  <2>4. m = "lgm" /\ o \in Vrf \ {Grd} => db[o].table = ids[o]
    BY <2>1, <2>2 DEF TableSound
  <2>5. InPlace(m, o)
    BY <2>3, <2>4, PlacedIsInPlace
  <2>6. QED
    BY <2>2, <2>5
<1>2. QED
  BY <1>1, PlacedInductive, PTL

-----------------------------------------------------------------------------
(* What belongs to whom *)

\* No two objects use one name on the host: bridges have different VLANs and
\* an SVI each, and the global routing domain has no BGP neighbors.
NamesDiffer ==
    /\ VlansDiffer
    /\ \A s, t \in Svi : LbOf[s] = LbOf[t] => s = t
    /\ \A s \in EnableBgp : VrfOf[s] # Grd

\* The names an object has for links, whether or not it makes them.
NamesOf(o) ==
    IF o \in Lb THEN {VlanLink(o)}
    ELSE IF o \in Vrf THEN {VrfLink(o), BrLink(o), VxlanLink(o)}
    ELSE IF o \in Svi THEN {SviLink(o)} ELSE {Port(o)}

LEMMA NamesOfDiffer ==
    ASSUME NamesDiffer, NEW o \in Obj, NEW p \in Obj, NEW n \in NamesOf(o)
    PROVE  /\ n # Tenant
           /\ n \in NamesOf(p) => o = p
           /\ n \in LinksOf(p) => o = p
<1>1. /\ o \in Svi => LbOf[o] \in Lb
      /\ p \in Svi => LbOf[p] \in Lb
      /\ p \in Lb => VlanOf[p] \in Nat
      /\ o \in Lb => VlanOf[o] \in Nat
  BY DevicesAssumption
<1>2. \/ o \in Lb /\ n = <<"vxlan", VlanOf[o]>>
      \/ o \in Vrf /\ n \in {<<"vrf", o>>, <<"br", o>>, <<"vxlan", o>>}
      \/ o \in Svi /\ n = <<"svi", VrfOf[o], VlanOf[LbOf[o]]>>
      \/ o \in Bp /\ n = <<"port", o>>
  BY DEF NamesOf, VlanLink, VrfLink, BrLink, VxlanLink, SviLink, Port, Obj, Vpn
<1>3. n # Tenant
  BY <1>2 DEF Tenant
<1>4. ASSUME n \in NamesOf(p) PROVE o = p
  <2>1. \/ p \in Lb /\ n = <<"vxlan", VlanOf[p]>>
        \/ p \in Vrf /\ n \in {<<"vrf", p>>, <<"br", p>>, <<"vxlan", p>>}
        \/ p \in Svi /\ n = <<"svi", VrfOf[p], VlanOf[LbOf[p]]>>
        \/ p \in Bp /\ n = <<"port", p>>
    BY <1>4 DEF NamesOf, VlanLink, VrfLink, BrLink, VxlanLink, SviLink, Port, Obj, Vpn
  <2>2. CASE o \in Lb /\ n = <<"vxlan", VlanOf[o]>>
    BY <1>1, <2>1, <2>2 DEF NamesDiffer, VlansDiffer
  <2>3. CASE o \in Vrf /\ n \in {<<"vrf", o>>, <<"br", o>>, <<"vxlan", o>>}
    BY <1>1, <2>1, <2>3 DEF NamesDiffer, VlansDiffer
  <2>4. CASE o \in Svi /\ n = <<"svi", VrfOf[o], VlanOf[LbOf[o]]>>
    <3>1. p \in Svi /\ VlanOf[LbOf[o]] = VlanOf[LbOf[p]]
      BY <2>1, <2>4
    <3>2. QED
      BY <1>1, <2>4, <3>1 DEF NamesDiffer, VlansDiffer
  <2>5. CASE o \in Bp /\ n = <<"port", o>>
    BY <2>1, <2>5
  <2>6. QED
    BY <1>2, <2>2, <2>3, <2>4, <2>5
<1>5. LinksOf(p) \subseteq NamesOf(p)
  BY DEF LinksOf, NamesOf
<1>6. QED
  BY <1>3, <1>4, <1>5

\* What a module leaves of an object whose routing table is t.
Left(m, o, t, part, x) ==
    \/ /\ m = "lgm" /\ part = "links" /\ o \notin Bp /\ x \in NamesOf(o)
    \/ /\ m = "lgm" /\ part = "throw" /\ o \in Vrf /\ x = t
    \/ /\ m = "lgm" /\ part = "vlans" /\ o \in Svi /\ x = TenantVlan(o)
    \/ /\ m = "frr" /\ part = "conf"
       /\ \/ o \in Vrf /\ x \in {<<"vni", o>>, <<"bgp", o>>}
          \/ o \in Svi /\ x = Neighbor(o)
    \/ /\ m = "lci" /\ o \in Bp
       /\ \/ part = "up" /\ x = Port(o)
          \/ part \in {"master", "vlans"} /\ x[1] = Port(o)

\* What nobody refers to any more is given nothing by the handlers of others,
\* nor by its own when it is leaving; but for the throw route of its table.
LEMMA NothingGiven ==
    ASSUME NamesDiffer, RefsInv,
           NEW o \in Obj, NEW m \in Range(Subs(o)), Stored(o), NEW c \in Own(m, o),
           NEW p \in Obj, NEW k \in Range(Subs(p)), ~ Wanted(p), Sound(p),
           NEW t, NEW part \in Parts, part # "throw", NEW x, Left(k, p, t, part, x), Gives(c, part, x)
    PROVE  FALSE
<1>1. o = p => Leaving(o)
  BY DEF Wanted
<1>2. \A n \in LinksOf(o) : (n \in NamesOf(p) => o = p) /\ n # Tenant
  <2>1. LinksOf(o) \subseteq NamesOf(o)
    BY DEF LinksOf, NamesOf
  <2>2. QED
    BY <2>1, NamesOfDiffer
<1>3. m # "frr" => HostCall(o, c)
  BY DEF Own
<1>4. m = "frr" => FrrCall(o, c)
  BY DEF Own
<1>5. CASE part = "links"
  <2>1. x \in NamesOf(p)
    BY <1>5 DEF Left
  <2>2. m # "frr" /\ ~ Leaving(o) /\ x \in LinksOf(o)
    <3>1. \/ c.op = "LinkAdd" /\ x = c.link
          \/ c.op = "LinkAddVrf" /\ x = VrfLink(c.link)
      BY <1>5 DEF Gives
    <3>2. m # "frr"
      BY <1>4, <3>1 DEF FrrCall
    <3>3. CASE c.op = "LinkAdd" /\ x = c.link
      BY <1>3, <3>2, <3>3 DEF HostCall
    <3>4. CASE c.op = "LinkAddVrf" /\ x = VrfLink(c.link)
      <4>1. o \in Vrf /\ o # Grd /\ ~ Leaving(o) /\ x = VrfLink(o)
        BY <1>3, <3>2, <3>4 DEF HostCall
      <4>2. o \notin Lb
        BY <4>1, DevicesAssumption
      <4>3. QED
        BY <3>2, <4>1, <4>2 DEF LinksOf
    <3>5. QED
      BY <3>1, <3>3, <3>4
  <2>3. QED
    BY <1>1, <1>2, <2>1, <2>2
<1>6. CASE part = "up"
  <2>1. p \in Bp /\ x = Port(p) /\ c.op = "LinkSetUp" /\ x = c.link
    BY <1>6 DEF Left, Gives
  <2>2. x \in NamesOf(p)
    BY <2>1, DevicesAssumption DEF NamesOf
  <2>3. m # "frr"
    BY <1>4, <2>1 DEF FrrCall
  <2>4. x \in LinksOf(o) /\ ~ Leaving(o)
    BY <1>3, <2>1, <2>3 DEF HostCall
  <2>5. QED
    BY <1>1, <1>2, <2>2, <2>4
<1>7. CASE part = "master"
  <2>1. p \in Bp /\ x[1] = Port(p) /\ c.op = "LinkSetMaster" /\ x = <<c.link, c.arg>>
    BY <1>7 DEF Left, Gives
  <2>2. Port(p) \in NamesOf(p) /\ c.link = Port(p)
    BY <2>1, DevicesAssumption DEF NamesOf
  <2>3. m # "frr"
    BY <1>4, <2>1 DEF FrrCall
  <2>4. c.link \in LinksOf(o) /\ ~ Leaving(o)
    BY <1>3, <2>1, <2>3 DEF HostCall
  <2>5. QED
    BY <1>1, <1>2, <2>2, <2>4
<1>8. CASE part = "vlans"
  <2>1. c.op = "BridgeVlanAdd" /\ x = <<c.link, c.arg>>
    BY <1>8 DEF Gives
  <2>2. m # "frr"
    BY <1>4, <2>1 DEF FrrCall
  <2>3. /\ ~ Leaving(o)
        /\ c.link \in LinksOf(o) \/ (o \in Svi /\ x = TenantVlan(o))
    BY <1>3, <2>1, <2>2 DEF HostCall
  <2>4. CASE p \in Bp /\ x[1] = Port(p)
    <3>1. c.link \in NamesOf(p)
      BY <2>1, <2>4, DevicesAssumption DEF NamesOf
    <3>2. c.link # Tenant
      BY <3>1, NamesOfDiffer
    <3>3. x # TenantVlan(o)
      BY <2>1, <3>2 DEF TenantVlan
    <3>4. QED
      BY <1>1, <1>2, <2>3, <3>1, <3>3
  <2>5. CASE p \in Svi /\ x = TenantVlan(p)
    <3>1. c.link = Tenant
      BY <2>1, <2>5 DEF TenantVlan
    <3>2. o \in Svi /\ TenantVlan(o) = TenantVlan(p)
      BY <1>2, <2>3, <2>5, <3>1
    <3>3. VlanOf[LbOf[o]] = VlanOf[LbOf[p]]
      BY <3>2 DEF TenantVlan
    <3>4. LbOf[o] \in Lb /\ LbOf[p] \in Lb
      BY <2>5, <3>2, DevicesAssumption
    <3>5. o = p
      BY <2>5, <3>2, <3>3, <3>4 DEF NamesDiffer, VlansDiffer
    <3>6. QED
      BY <1>1, <2>3, <3>5
  <2>6. QED
    BY <1>8, <2>4, <2>5 DEF Left
<1>9. CASE part = "conf"
  <2>1. c.op = "Conf" /\ x = c.link
    BY <1>9 DEF Gives
  <2>2. m = "frr"
    BY <1>3, <2>1 DEF HostCall
  <2>3. x \in ConfOf(o) /\ (Leaving(o) => o \in Svi /\ x = <<"bgp", VrfOf[o]>>)
    BY <1>4, <2>1, <2>2 DEF FrrCall
  <2>4. CASE p \in Vrf /\ x \in {<<"vni", p>>, <<"bgp", p>>}
    <3>1. CASE o \in Vrf
      <4>1. x \in {<<"vni", o>>, <<"bgp", o>>}
        BY <2>3, <3>1 DEF ConfOf
      <4>2. o = p /\ o \notin Svi
        BY <2>4, <3>1, <4>1, DevicesAssumption
      <4>3. QED
        BY <1>1, <2>3, <4>2
    <3>2. CASE o \notin Vrf
      <4>1. o \in Svi /\ x \in {<<"bgp", VrfOf[o]>>, Neighbor(o)}
        BY <2>3, <3>2, DevicesAssumption DEF ConfOf
      <4>2. p = VrfOf[o]
        BY <2>4, <4>1 DEF Neighbor
      <4>3. p \in RefsOf(o) /\ p \notin spoilt
        BY <4>1, <4>2 DEF RefsOf, Sound
      <4>4. Wanted(p)
        BY <4>3 DEF RefsInv, RefsWanted
      <4>5. QED
        BY <4>4
    <3>3. QED
      BY <3>1, <3>2
  <2>5. CASE p \in Svi /\ x = Neighbor(p)
    <3>1. o \in Svi /\ x = Neighbor(o) /\ ~ Leaving(o)
      <4>1. x # <<"bgp", VrfOf[o]>>
        BY <2>5 DEF Neighbor
      <4>2. o \notin Vrf
        <5>1. SUFFICES ASSUME o \in Vrf PROVE FALSE
          OBVIOUS
        <5>2. x \in {<<"vni", o>>, <<"bgp", o>>}
          BY <2>3, <5>1 DEF ConfOf
        <5>3. QED
          BY <2>5, <5>2 DEF Neighbor
      <4>3. QED
        BY <2>3, <4>1, <4>2, DevicesAssumption DEF ConfOf
    <3>2. VlanOf[LbOf[o]] = VlanOf[LbOf[p]]
      BY <2>5, <3>1 DEF Neighbor
    <3>3. LbOf[o] \in Lb /\ LbOf[p] \in Lb
      BY <2>5, <3>1, DevicesAssumption
    <3>4. o = p
      BY <2>5, <3>1, <3>2, <3>3 DEF NamesDiffer, VlansDiffer
    <3>5. QED
      BY <1>1, <3>1, <3>4
  <2>6. QED
    BY <1>9, <2>4, <2>5 DEF Left
<1>10. QED
  BY <1>5, <1>6, <1>7, <1>8, <1>9 DEF Left

\* Two sequences put together are the one followed by the other.
LEMMA ConcatIs ==
    ASSUME NEW S, NEW a \in Seq(S), NEW b \in Seq(S)
    PROVE  /\ Len(a) \in Nat /\ Len(b) \in Nat /\ Len(a \o b) = Len(a) + Len(b)
           /\ DOMAIN a = 1..Len(a) /\ DOMAIN b = 1..Len(b) /\ DOMAIN (a \o b) = 1..Len(a) + Len(b)
           /\ \A i \in 1..Len(a) + Len(b) : (a \o b)[i] = IF i <= Len(a) THEN a[i] ELSE b[i - Len(a)]
  OBVIOUS

\* The first calls of the set-up of a VRF.
LEMMA SetUpVrfStarts ==
    ASSUME NEW v \in Vrf, v # Grd
    PROVE  /\ Len(lgm_setUpVrf(v)) \in Nat /\ Len(lgm_setUpVrf(v)) >= 8
           /\ lgm_setUpVrf(v)[1] = RouteList(GetID(v))
           /\ lgm_setUpVrf(v)[2] = RouteList("local")
           /\ lgm_setUpVrf(v)[3] = LinkAddVrf(v, GetID(v))
<1>1. PICK a : a = << RouteList(GetID(v)), RouteList("local"), LinkAddVrf(v, GetID(v)),
                      LinkByName(VrfLink(v)), LinkSetAttr(VrfLink(v)), LinkSetUp(VrfLink(v)),
                      AddrAdd(VrfLink(v)), RouteAdd(GetID(v)) >>
  OBVIOUS
<1>2. PICK e : e = << LinkAdd(BrLink(v)), LinkByName(BrLink(v)), LinkSetAttr(BrLink(v)),
                      LinkByName(VrfLink(v)), LinkSetMaster(BrLink(v), VrfLink(v)),
                      LinkSetUp(BrLink(v)), LinkAdd(VxlanLink(v)), LinkByName(VxlanLink(v)),
                      LinkSetMaster(VxlanLink(v), BrLink(v)), LinkSetUp(VxlanLink(v)) >>
  OBVIOUS
<1>3. PICK b : b = IF v \notin WithVni THEN << >> ELSE e
  OBVIOUS
<1>4. PICK q : q = lgm_setUpVrf(v)
  OBVIOUS
<1>5. q = a \o b
  <2>1. lgm_setUpVrf(v) = a \o (IF v \notin WithVni THEN << >> ELSE e)
    BY <1>1, <1>2, Zenon DEF lgm_setUpVrf
  <2>2. QED
    BY <1>3, <1>4, <2>1
<1>6. PICK S : S = Range(a) \cup Range(e)
  OBVIOUS
<1>7. a \in Seq(S) /\ e \in Seq(S) /\ Len(a) = 8
  <2>1. DOMAIN a = 1..8 /\ DOMAIN e = 1..10 /\ Len(a) = 8 /\ Len(e) = 10
    BY <1>1, <1>2
  <2>2. \A i \in 1..8 : a[i] \in S
    BY <1>6, <2>1 DEF Range
  <2>3. \A i \in 1..10 : e[i] \in S
    BY <1>6, <2>1 DEF Range
  <2>4. a = [i \in 1..8 |-> a[i]]
    BY <1>1, <2>1
  <2>5. e = [i \in 1..10 |-> e[i]]
    BY <1>2, <2>1
  <2>6. QED
    BY <2>1, <2>2, <2>3, <2>4, <2>5
<1>8. b \in Seq(S)
  BY <1>3, <1>7
<1>9. a[1] = RouteList(GetID(v)) /\ a[2] = RouteList("local") /\ a[3] = LinkAddVrf(v, GetID(v))
  BY <1>1
<1>10. Len(q) = 8 + Len(b) /\ Len(b) \in Nat /\ q[1] = a[1] /\ q[2] = a[2] /\ q[3] = a[3]
  <2>1. /\ Len(a) \in Nat /\ Len(b) \in Nat /\ Len(a \o b) = Len(a) + Len(b)
        /\ \A i \in 1..Len(a) + Len(b) : (a \o b)[i] = IF i <= Len(a) THEN a[i] ELSE b[i - Len(a)]
    BY <1>7, <1>8, ConcatIs
  <2>2. \A i \in 1..8 : i \in 1..Len(a) + Len(b) /\ i <= Len(a)
    BY <1>7, <2>1
  <2>3. \A i \in 1..8 : q[i] = a[i]
    BY <1>5, <2>1, <2>2
  <2>4. 1 \in 1..8 /\ 2 \in 1..8 /\ 3 \in 1..8
    OBVIOUS
  <2>5. QED
    BY <1>5, <1>7, <2>1, <2>3, <2>4
<1>11. QED
  BY <1>4, <1>9, <1>10

\* A number that a set-up adds a route for is one that the kernel has taken.
LEMMA ThrowAfterVrf ==
    ASSUME IInv, NEW o \in Obj, NEW m \in Range(Subs(o)), ~ Leaving(o), o \in Vrf, o # Grd, m = "lgm",
           NEW n \in 0..Reach(Calls(m, o)), NEW i \in 1..n, Calls(m, o)[i].op # "RouteList"
    PROVE  /\ n >= 3 /\ GetID(o) # 0
           /\ Gives(Calls(m, o)[3], "links", VrfLink(o))
<1> DEFINE calls == Calls(m, o)
<1>1. calls = lgm_setUpVrf(o)
  <2>1. o \notin Lb /\ o \notin Svi
    BY DevicesAssumption
  <2>2. Calls(m, o) = IF Leaving(o) THEN lgm_tearDownVrf(o) ELSE lgm_setUpVrf(o)
    BY <2>1 DEF Calls, lgm_handlevrf
  <2>3. QED
    BY <2>2
<1>2. /\ Len(calls) \in Nat /\ Len(calls) >= 8
      /\ calls[1] = RouteList(GetID(o)) /\ calls[2] = RouteList("local")
      /\ calls[3] = LinkAddVrf(o, GetID(o))
  BY <1>1, SetUpVrfStarts
<1> HIDE DEF calls
<1>3. Reach(calls) \in 0..Len(calls) /\ \A j \in 1..Reach(calls) : Possible(HostAfter(calls)[j - 1], calls[j])
  BY <1>2, ReachIs
<1>4. PICK r \in Nat : r = Reach(calls) /\ n \in 0..r
  BY <1>2, <1>3 DEF calls
<1>5. i # 1 /\ i # 2
  <2>1. RouteList(GetID(o)).op = "RouteList" /\ RouteList("local").op = "RouteList"
    BY DEF RouteList, Call
  <2>2. QED
    BY <1>2, <2>1 DEF calls
<1>6. n >= 3 /\ 3 \in 1..r
  BY <1>4, <1>5
<1>7. Possible(HostAfter(calls)[3 - 1], calls[3])
  BY <1>3, <1>4, <1>6
<1>8. calls[3].op = "LinkAddVrf" /\ calls[3].link = o /\ calls[3].arg = GetID(o)
  BY <1>2 DEF LinkAddVrf, Call
<1>9. GetID(o) # 0
  BY <1>7, <1>8 DEF Possible
<1>10. Gives(calls[3], "links", VrfLink(o))
  BY <1>8 DEF Gives
<1>11. QED
  BY <1>6, <1>9, <1>10 DEF calls

\* What the host has after a handler it had before or was given.
LEMMA HandlerGives ==
    ASSUME IInv, NEW o \in Obj, NEW m \in Modules, Handle(m, o),
           NEW n \in 0..Reach(Calls(m, o)), host' = HostAfter(Calls(m, o))[n],
           NEW part \in Parts, NEW x, Has(host', part, x)
    PROVE  Has(host, part, x) \/ \E i \in 1..n : /\ i \in 1..Len(Calls(m, o)) /\ Calls(m, o)[i] \in Own(m, o)
                                                 /\ Gives(Calls(m, o)[i], part, x)
<1> DEFINE calls == Calls(m, o)
<1>1. Len(calls) \in Nat /\ \A i \in 1..Len(calls) : calls[i] \in Own(m, o)
  BY HandleIs
<1>2. Reach(calls) \in 0..Len(calls) /\ HostOK(host)
  BY <1>1, ReachIs DEF IInv
<1>3. n \in 0..Reach(calls) /\ Has(HostAfter(calls)[n], part, x)
  OBVIOUS
<1> HIDE DEF calls
<1>4. Has(host, part, x) \/ \E i \in 1..n : Gives(calls[i], part, x)
  <2>1. SUFFICES ASSUME ~ Has(host, part, x), \A i \in 1..n : ~ Gives(calls[i], part, x) PROVE FALSE
    OBVIOUS
  <2>2. ~ Has(HostAfter(calls)[n], part, x)
    BY <1>1, <1>2, <1>3, <2>1, Ends
  <2>3. QED
    BY <1>3, <2>2
<1>5. \A i \in 1..n : i \in 1..Len(calls)
  BY <1>1, <1>2, <1>3
<1>6. QED
  BY <1>1, <1>4, <1>5 DEF calls

\* Only the names of objects are on the host, the throw routes are those of
\* tables with a number, and what is recorded of a VRF's table is its number.
LinksKnown == \A n \in host.links : n = Tenant \/ \E o \in Obj : n \in LinksOf(o)
ConfKnown  == \A i \in host.conf : \E o \in Obj : i \in ConfOf(o)
ThrowKnown == \A t \in host.throw : \E v \in Numbered : t = ids[v]
TableKnown == \A v \in Vrf : /\ Stored(v) => db[v].table \in {NoTable, 0, ids[v]}
                             /\ \A r \in reports : r.obj = v => r.table \in {NoTable, 0, ids[v]}
Known == LinksKnown /\ ConfKnown /\ ThrowKnown /\ TableKnown

LEMMA GivenIs ==
    ASSUME NEW o \in Obj, NEW m \in Range(Subs(o)), NEW c \in Own(m, o), NEW x
    PROVE  /\ Gives(c, "links", x) => m # "frr" /\ ~ Leaving(o) /\ x \in LinksOf(o)
           /\ Gives(c, "conf", x) => x \in ConfOf(o)
           /\ Gives(c, "throw", x) => /\ m = "lgm" /\ ~ Leaving(o) /\ o \in Vrf /\ o # Grd
                                      /\ x = GetID(o) /\ c.op = "RouteAdd"
<1>1. m # "frr" => HostCall(o, c)
  BY DEF Own
<1>2. m = "frr" => FrrCall(o, c)
  BY DEF Own
<1>3. (m = "lci" => o \in Bp /\ o \notin Vrf) /\ m \in {"lgm", "lci", "frr"}
  BY HandlerKinds
<1>4. ASSUME Gives(c, "links", x) PROVE m # "frr" /\ ~ Leaving(o) /\ x \in LinksOf(o)
  <2>1. \/ c.op = "LinkAdd" /\ x = c.link
        \/ c.op = "LinkAddVrf" /\ x = VrfLink(c.link)
    BY <1>4 DEF Gives
  <2>2. m # "frr"
    BY <1>2, <2>1 DEF FrrCall
  <2>3. ~ Leaving(o) /\ x \in LinksOf(o)
    <3>1. CASE c.op = "LinkAdd" /\ x = c.link
      BY <1>1, <2>2, <3>1 DEF HostCall
    <3>2. CASE c.op = "LinkAddVrf" /\ x = VrfLink(c.link)
      <4>1. o \in Vrf /\ o # Grd /\ ~ Leaving(o) /\ x = VrfLink(o)
        BY <1>1, <2>2, <3>2 DEF HostCall
      <4>2. o \notin Lb
        BY <4>1, DevicesAssumption
      <4>3. QED
        BY <4>1, <4>2 DEF LinksOf
    <3>3. QED
      BY <2>1, <3>1, <3>2
  <2>4. QED
    BY <2>2, <2>3
<1>5. ASSUME Gives(c, "conf", x) PROVE x \in ConfOf(o)
  <2>1. c.op = "Conf" /\ x = c.link
    BY <1>5 DEF Gives
  <2>2. m = "frr"
    BY <1>1, <2>1 DEF HostCall
  <2>3. QED
    BY <1>2, <2>1, <2>2 DEF FrrCall
<1>6. ASSUME Gives(c, "throw", x)
      PROVE  m = "lgm" /\ ~ Leaving(o) /\ o \in Vrf /\ o # Grd /\ x = GetID(o) /\ c.op = "RouteAdd"
  <2>1. c.op = "RouteAdd" /\ x = c.link
    BY <1>6 DEF Gives
  <2>2. m # "frr"
    BY <1>2, <2>1 DEF FrrCall
  <2>3. o \in Vrf /\ o # Grd /\ ~ Leaving(o) /\ x = GetID(o)
    BY <1>1, <2>1, <2>2 DEF HostCall
  <2>4. QED
    BY <1>3, <2>1, <2>2, <2>3
<1>7. QED
  BY <1>4, <1>5, <1>6

LEMMA KnownKept ==
    ASSUME Known, ids' = ids, reports' \subseteq reports,
           \A n \in host'.links : n \in host.links \/ \E o \in Obj : n \in LinksOf(o),
           host'.conf \subseteq host.conf, host'.throw \subseteq host.throw,
           \A v \in Vrf : Stored(v)' => \/ Stored(v) /\ db'[v].table = db[v].table
                                        \/ db'[v].table = NoTable
                                        \/ \E r \in reports : r.obj = v /\ db'[v].table = r.table
    PROVE  Known'
<1>1. LinksKnown'
  BY DEF Known, LinksKnown
<1>2. ConfKnown'
  BY DEF Known, ConfKnown
<1>3. ThrowKnown'
  BY DEF Known, ThrowKnown, Numbered
<1>4. TableKnown'
  BY DEF Known, TableKnown
<1>5. QED
  BY <1>1, <1>2, <1>3, <1>4 DEF Known

LEMMA KnownHandle ==
    ASSUME IInv, Known, NEW o \in Obj, NEW m \in Modules, Handle(m, o)
    PROVE  Known'
<1> DEFINE calls == Calls(m, o)
<1>1. db' = db
  BY DEF Handle
<1>2. PICK n \in 0..Reach(calls) :
        /\ n \in Nat /\ n <= Len(calls)
        /\ host' = HostAfter(calls)[n]
        /\ \E new : /\ reports' = reports \cup {new}
                    /\ new.obj = o /\ new.mod = m /\ new.ver = db[o].ver
                    /\ new.ok <=> Succeeds(calls, n)
                    /\ new.table = TableOf(m, o, new.ok)
        /\ n < Reach(calls) /\ Succeeds(calls, n) => o \in spoilt'
  BY HandleIs
<1>3. PICK new : /\ reports' = reports \cup {new}
                 /\ new.obj = o /\ new.mod = m /\ new.ver = db[o].ver
                 /\ new.ok <=> Succeeds(calls, n)
                 /\ new.table = TableOf(m, o, new.ok)
  BY <1>2, Zenon
<1>4. m \in Range(Subs(o))
  BY HandleIs
<1>5. ASSUME NEW x \in host'.links PROVE x = Tenant \/ \E p \in Obj : x \in LinksOf(p)
  <2>1. Has(host', "links", x) /\ "links" \in Parts
    BY <1>5 DEF Has, Parts
  <2>2. Has(host, "links", x) \/ \E i \in 1..n : calls[i] \in Own(m, o) /\ Gives(calls[i], "links", x)
    BY <1>2, <2>1, HandlerGives
  <2>3. CASE Has(host, "links", x)
    BY <2>3 DEF Has, Known, LinksKnown
  <2>4. CASE \E i \in 1..n : calls[i] \in Own(m, o) /\ Gives(calls[i], "links", x)
    BY <1>4, <2>4, GivenIs
  <2>5. QED
    BY <2>2, <2>3, <2>4
<1>6. ASSUME NEW x \in host'.conf PROVE \E p \in Obj : x \in ConfOf(p)
  <2>1. Has(host', "conf", x) /\ "conf" \in Parts
    BY <1>6 DEF Has, Parts
  <2>2. Has(host, "conf", x) \/ \E i \in 1..n : calls[i] \in Own(m, o) /\ Gives(calls[i], "conf", x)
    BY <1>2, <2>1, HandlerGives
  <2>3. CASE Has(host, "conf", x)
    BY <2>3 DEF Has, Known, ConfKnown
  <2>4. CASE \E i \in 1..n : calls[i] \in Own(m, o) /\ Gives(calls[i], "conf", x)
    BY <1>4, <2>4, GivenIs
  <2>5. QED
    BY <2>2, <2>3, <2>4
<1>7. ASSUME NEW x \in host'.throw PROVE \E v \in Numbered' : x = ids'[v]
  <2>1. Has(host', "throw", x) /\ "throw" \in Parts
    BY <1>7 DEF Has, Parts
  <2>2. Has(host, "throw", x) \/ \E i \in 1..n : calls[i] \in Own(m, o) /\ Gives(calls[i], "throw", x)
    BY <1>2, <2>1, HandlerGives
  <2>3. CASE Has(host, "throw", x)
    <3>1. PICK v \in Numbered : x = ids[v]
      BY <2>3 DEF Has, Known, ThrowKnown
    <3>2. v \in Vrf /\ ids[v] # 0 /\ ids'[v] = ids[v]
      BY <3>1, NumbersStay DEF Numbered
    <3>3. QED
      BY <3>1, <3>2 DEF Numbered
  <2>4. CASE \E i \in 1..n : calls[i] \in Own(m, o) /\ Gives(calls[i], "throw", x)
    <3>1. PICK i \in 1..n : calls[i] \in Own(m, o) /\ Gives(calls[i], "throw", x)
      BY <2>4
    <3>2. /\ m = "lgm" /\ ~ Leaving(o) /\ o \in Vrf /\ o # Grd
          /\ x = GetID(o) /\ calls[i].op = "RouteAdd"
      BY <1>4, <3>1, GivenIs
    <3>3. GetID(o) # 0
      BY <1>4, <3>2, ThrowAfterVrf
    <3>4. ids'[o] = GetID(o)
      BY <3>2, NumbersStay
    <3>5. QED
      BY <3>2, <3>3, <3>4 DEF Numbered
  <2>5. QED
    BY <2>2, <2>3, <2>4
<1>8. ASSUME NEW v \in Vrf
      PROVE  /\ Stored(v)' => db'[v].table \in {NoTable, 0, ids'[v]}
             /\ \A r \in reports' : r.obj = v => r.table \in {NoTable, 0, ids'[v]}
  <2>1. {NoTable, 0, ids[v]} \subseteq {NoTable, 0, ids'[v]}
    BY NumbersStay
  <2>2. Stored(v)' => db'[v].table \in {NoTable, 0, ids'[v]}
    <3>1. Stored(v)' => Stored(v)
      BY <1>1 DEF Stored
    <3>2. QED
      BY <1>1, <2>1, <3>1 DEF Known, TableKnown
  <2>3. ASSUME NEW r \in reports, r.obj = v PROVE r.table \in {NoTable, 0, ids'[v]}
    BY <2>1, <2>3 DEF Known, TableKnown
  <2>4. o = v => new.table \in {NoTable, 0, ids'[v]}
    <3>1. SUFFICES ASSUME o = v, new.table # NoTable, new.table # 0 PROVE new.table = ids'[v]
      OBVIOUS
    <3>2. m = "lgm" /\ v # Grd /\ ~ Leaving(o) /\ new.table = GetID(o)
      BY <1>3, <3>1 DEF TableOf
    <3>3. QED
      BY <3>1, <3>2, NumbersStay
  <2>5. QED
    BY <1>3, <2>2, <2>3, <2>4
<1>9. LinksKnown' /\ ConfKnown'
  BY <1>5, <1>6 DEF LinksKnown, ConfKnown
<1>10. ThrowKnown'
  BY <1>7 DEF ThrowKnown
<1>11. TableKnown'
  BY <1>8 DEF TableKnown
<1>12. QED
  BY <1>9, <1>10, <1>11 DEF Known

LEMMA KnownReport ==
    ASSUME IInv, Known, NEW q \in reports, Report(q)
    PROVE  Known'
<1>1. reports' \subseteq reports /\ ids' = ids /\ host' = host /\ db \in [Obj -> Object] /\ q.obj \in Obj
  BY ReportIs DEF IInv, ReportsSound
<1>2. ASSUME NEW v \in Vrf, Stored(v)'
      PROVE  \/ Stored(v) /\ db'[v].table = db[v].table
             \/ \E r \in reports : r.obj = v /\ db'[v].table = r.table
  <2>1. v \in Obj
    BY DEF Obj, Vpn
  <2>2. Stored(v) /\ (db'[v] = db[v] \/ (v = q.obj /\ Current(q)))
    BY <1>2, <2>1, ReportKeeps
  <2>3. CASE db'[v] = db[v]
    BY <2>2, <2>3
  <2>4. CASE db'[v] # db[v]
    <3>1. v = q.obj /\ db' # db
      BY <2>2, <2>4
    <3>2. PICK x : /\ db' = [db EXCEPT ![q.obj] = x]
                   /\ \/ x.oper = "Absent"
                      \/ x.table = IF q.table = NoTable THEN db[q.obj].table ELSE q.table
      BY <3>1, ReportIs
    <3>3. db'[v] = x /\ x.oper # "Absent"
      BY <1>1, <1>2, <3>1, <3>2 DEF Stored
    <3>4. QED
      BY <2>2, <3>1, <3>2, <3>3
  <2>5. QED
    BY <2>3, <2>4
<1>3. QED
  BY <1>1, <1>2, KnownKept

LEMMA KnownStep ==
    ASSUME IInv, Known, [Next]_vars
    PROVE  Known'
<1>0. \A v \in Vrf : v \in Obj
  BY DEF Obj, Vpn
<1>1. ASSUME NEW o \in Obj, Create(o) PROVE Known'
  <2>1. /\ \A p \in Obj : p # o => db'[p] = db[p]
        /\ ids' = ids /\ reports' = reports /\ host' = host
    BY <1>1, CreateIs
  <2>2. db'[o].table = NoTable
    <3>1. db'[o] = [oper |-> "Down", ver |-> db[o].ver + 1, st |-> Fresh, table |-> NoTable]
      BY <1>1 DEF Create, IInv
    <3>2. QED
      BY <3>1
  <2>3. \A v \in Vrf : Stored(v)' => (Stored(v) /\ db'[v].table = db[v].table) \/ db'[v].table = NoTable
    BY <1>0, <2>1, <2>2 DEF Stored
  <2>4. QED
    BY <2>1, <2>3, KnownKept
<1>2. ASSUME NEW o \in Obj, Delete(o) PROVE Known'
  <2>1. /\ Stored(o) /\ db'[o].table = db[o].table
        /\ \A p \in Obj : p # o => db'[p] = db[p]
        /\ ids' = ids /\ reports' = reports /\ host' = host
    BY <1>2, DeleteIs
  <2>2. \A v \in Vrf : Stored(v)' => Stored(v) /\ db'[v].table = db[v].table
    BY <1>0, <2>1 DEF Stored
  <2>3. QED
    BY <2>1, <2>2, KnownKept
<1>3. ASSUME NEW o \in Obj, NEW m \in Modules, Handle(m, o) PROVE Known'
  BY <1>3, KnownHandle
<1>4. ASSUME NEW r \in reports, Report(r) PROVE Known'
  BY <1>4, KnownReport
<1>5. ASSUME NEW r \in reports, Empties(r) PROVE Known'
  <2>1. ids' = ids /\ reports' \subseteq reports
    BY <1>5 DEF Empties, Restarted, AsksForReplay
  <2>2. host'.links = host.links /\ host'.conf = {} /\ host'.throw = host.throw
    <3>1. IsHost(host) /\ host' = [host EXCEPT !.conf = {}]
      BY <1>5 DEF Empties, Restarted, IInv, HostOK
    <3>2. host' = [links |-> host.links, up |-> host.up, addr |-> host.addr, master |-> host.master,
                   vlans |-> host.vlans, tables |-> host.tables, throw |-> host.throw, conf |-> {}]
      BY <3>1 DEF IsHost
    <3>3. QED
      BY <3>2
  <2>3. \A v \in Vrf : Stored(v)' => Stored(v) /\ db'[v].table = db[v].table
    <3>1. SUFFICES ASSUME NEW v \in Vrf, Stored(v)' PROVE Stored(v) /\ db'[v].table = db[v].table
      OBVIOUS
    <3>2. db'[v] = db[v] \/ (Stored(v) /\ db'[v].table = db[v].table)
      BY <1>0, <1>5, ReplayIs
    <3>3. QED
      BY <3>1, <3>2 DEF Stored
  <2>4. QED
    BY <2>1, <2>2, <2>3, KnownKept
<1>6. ASSUME NEW r \in reports, ReplayFails(r) PROVE Known'
  <2>1. db' = db /\ ids' = ids /\ reports' \subseteq reports /\ host' = host
    BY <1>6 DEF ReplayFails, AsksForReplay
  <2>2. QED
    BY <2>1, KnownKept DEF Stored
<1>7. ASSUME NEW b \in Bp, Plug(b) PROVE Known'
  <2>1. db' = db /\ ids' = ids /\ reports' = reports
    BY <1>7 DEF Plug
  <2>2. host'.links = host.links \cup {Port(b)} /\ host'.conf = host.conf /\ host'.throw = host.throw
    <3>1. IsHost(host) /\ host' = [host EXCEPT !.links = @ \cup {Port(b)}]
      BY <1>7 DEF Plug, IInv, HostOK
    <3>2. host' = [links |-> host.links \cup {Port(b)}, up |-> host.up, addr |-> host.addr,
                   master |-> host.master, vlans |-> host.vlans, tables |-> host.tables,
                   throw |-> host.throw, conf |-> host.conf]
      BY <3>1 DEF IsHost
    <3>3. QED
      BY <3>2
  <2>3. Port(b) \in LinksOf(b) /\ b \in Obj
    BY DevicesAssumption DEF LinksOf, Obj
  <2>4. QED
    BY <2>1, <2>2, <2>3, KnownKept DEF Stored
<1>8. ASSUME UNCHANGED vars PROVE Known'
  <2>1. db' = db /\ ids' = ids /\ reports' = reports /\ host' = host
    BY <1>8 DEF vars
  <2>2. QED
    BY <2>1, KnownKept DEF Stored
<1>9. QED
  BY <1>1, <1>2, <1>3, <1>4, <1>5, <1>6, <1>7, <1>8, ReplaysEmpty DEF Next

-----------------------------------------------------------------------------
(* The order in which a VRF's links go *)

\* A list of M + N elements is one of M elements followed by one of N.
Joins(c, a, M, b, N) ==
    /\ Len(c) = M + N
    /\ \A i \in 1..M : c[i] = a[i]
    /\ \A i \in 1..N : c[M + i] = b[i]

LEMMA JoinIs ==
    ASSUME NEW S, NEW a \in Seq(S), NEW b \in Seq(S)
    PROVE  a \o b \in Seq(S) /\ Joins(a \o b, a, Len(a), b, Len(b))
<1>1. a \o b \in Seq(S)
  OBVIOUS
<1>2. PICK c : c = a \o b
  OBVIOUS
<1>3. /\ Len(a) \in Nat /\ Len(b) \in Nat /\ Len(c) = Len(a) + Len(b)
      /\ \A i \in 1..Len(a) + Len(b) : c[i] = IF i <= Len(a) THEN a[i] ELSE b[i - Len(a)]
  BY <1>2, ConcatIs
<1>4. PICK M \in Nat, N \in Nat : M = Len(a) /\ N = Len(b)
  BY <1>3
<1>5. Len(c) = M + N /\ \A i \in 1..M + N : c[i] = IF i <= M THEN a[i] ELSE b[i - M]
  BY <1>3, <1>4, Zenon
<1>6. /\ \A i \in 1..M : i \in 1..M + N /\ i <= M
      /\ \A i \in 1..N : M + i \in 1..M + N /\ ~ (M + i <= M) /\ M + i - M = i
  OBVIOUS
<1>7. ASSUME NEW i \in 1..M PROVE c[i] = a[i]
  BY <1>5, <1>6
<1>8. ASSUME NEW i \in 1..N PROVE c[M + i] = b[i]
  BY <1>5, <1>6
<1>9. Joins(c, a, M, b, N)
  BY <1>5, <1>7, <1>8 DEF Joins
<1>10. QED
  BY <1>1, <1>2, <1>4, <1>9, Zenon

\* The tear-down of a VRF removes its own link last.
LEMMA TearDownVrfIs ==
    ASSUME NEW v \in Vrf, v # Grd
    PROVE  \E k \in Nat :
              /\ k >= 3 /\ Len(lgm_tearDownVrf(v)) = k + 1
              /\ lgm_tearDownVrf(v)[1] = LinkOrGone(VrfLink(v))
              /\ lgm_tearDownVrf(v)[2] = Deref(db[v].table = NoTable)
              /\ lgm_tearDownVrf(v)[k] = RouteFlush(db[v].table)
              /\ lgm_tearDownVrf(v)[k + 1] = LinkDel(VrfLink(v))
              /\ \A i \in 3..k - 1 : \E n \in {BrLink(v), VxlanLink(v)} :
                    lgm_tearDownVrf(v)[i] \in {LinkByName(n), LinkDel(n)}
              /\ v \in WithVni => /\ k = 7
                                  /\ lgm_tearDownVrf(v)[4] = LinkDel(VxlanLink(v))
                                  /\ lgm_tearDownVrf(v)[6] = LinkDel(BrLink(v))
<1>1. PICK a : a = << LinkOrGone(VrfLink(v)) >>
  OBVIOUS
<1>2. PICK d : d = << Deref(db[v].table = NoTable) >>
  OBVIOUS
<1>3. PICK e : e = << LinkByName(VxlanLink(v)), LinkDel(VxlanLink(v)),
                      LinkByName(BrLink(v)), LinkDel(BrLink(v)) >>
  OBVIOUS
<1>4. PICK f : f = IF v \notin WithVni THEN << >> ELSE e
  OBVIOUS
<1>5. PICK g : g = << RouteFlush(db[v].table), LinkDel(VrfLink(v)) >>
  OBVIOUS
<1>6. PICK q : q = lgm_tearDownVrf(v)
  OBVIOUS
<1>7. q = a \o (d \o f \o g)
  <2>1. lgm_tearDownVrf(v) = a \o (d \o (IF v \notin WithVni THEN << >> ELSE e) \o g)
    BY <1>1, <1>2, <1>3, <1>5, Zenon DEF lgm_tearDownVrf
  <2>2. QED
    BY <1>4, <1>6, <2>1
<1>8. /\ Len(a) = 1 /\ DOMAIN a = 1..1 /\ Len(d) = 1 /\ DOMAIN d = 1..1
      /\ Len(e) = 4 /\ DOMAIN e = 1..4 /\ Len(g) = 2 /\ DOMAIN g = 1..2
  BY <1>1, <1>2, <1>3, <1>5
<1>9. PICK S : S = {LinkOrGone(VrfLink(v)), Deref(db[v].table = NoTable),
                   LinkByName(VxlanLink(v)), LinkDel(VxlanLink(v)),
                   LinkByName(BrLink(v)), LinkDel(BrLink(v)),
                   RouteFlush(db[v].table), LinkDel(VrfLink(v))}
  OBVIOUS
<1>10. a \in Seq(S) /\ d \in Seq(S) /\ e \in Seq(S) /\ g \in Seq(S)
  <2>1. /\ LinkOrGone(VrfLink(v)) \in S /\ Deref(db[v].table = NoTable) \in S
        /\ RouteFlush(db[v].table) \in S /\ LinkDel(VrfLink(v)) \in S
        /\ LinkByName(VxlanLink(v)) \in S /\ LinkDel(VxlanLink(v)) \in S
        /\ LinkByName(BrLink(v)) \in S /\ LinkDel(BrLink(v)) \in S
    BY <1>9
  <2>2. a \in Seq(S) /\ d \in Seq(S) /\ g \in Seq(S)
    BY <1>1, <1>2, <1>5, <2>1
  <2>3. e \in Seq(S)
    BY <1>3, <2>1
  <2>4. QED
    BY <2>2, <2>3
<1>11. f \in Seq(S) /\ Len(f) = IF v \in WithVni THEN 4 ELSE 0
  <2>1. CASE v \in WithVni
    <3>1. f = e
      BY <1>4, <2>1
    <3>2. QED
      BY <1>8, <1>10, <2>1, <3>1
  <2>2. CASE v \notin WithVni
    <3>1. f = << >>
      BY <1>4, <2>2
    <3>2. << >> \in Seq(S) /\ Len(<< >>) = 0
      OBVIOUS
    <3>3. QED
      BY <2>2, <3>1, <3>2
  <2>3. QED
    BY <2>1, <2>2
<1>12. PICK N \in Nat : N = Len(f) /\ (N = 4 \/ N = 0) /\ (v \in WithVni => N = 4) /\ (N = 4 => f = e)
  BY <1>4, <1>11
<1>13. /\ Len(q) = N + 4
       /\ q[1] = a[1] /\ q[2] = d[1] /\ \A i \in 1..N : q[i + 2] = f[i]
       /\ q[N + 3] = g[1] /\ q[N + 4] = g[2]
  <2>1. /\ a \in Seq(S) /\ d \in Seq(S) /\ f \in Seq(S) /\ g \in Seq(S)
        /\ Len(a) = 1 /\ Len(d) = 1 /\ Len(g) = 2
    BY <1>8, <1>10, <1>11
  <2>2. PICK h : h = d \o f
    OBVIOUS
  <2>3. h \in Seq(S) /\ Joins(h, d, Len(d), f, Len(f))
    BY <2>1, <2>2, JoinIs, Zenon
  <2>4. Len(h) = N + 1 /\ h[1] = d[1] /\ \A i \in 1..N : h[i + 1] = f[i]
    <3>1. Joins(h, d, 1, f, N)
      BY <1>12, <2>1, <2>3, Zenon
    <3>2. 1 + N = N + 1 /\ 1 \in 1..1 /\ \A i \in 1..N : 1 + i = i + 1
      OBVIOUS
    <3>3. QED
      BY <3>1, <3>2 DEF Joins
  <2>5. PICK k : k = h \o g
    OBVIOUS
  <2>6. k \in Seq(S) /\ Joins(k, h, Len(h), g, Len(g))
    BY <2>1, <2>3, <2>5, JoinIs, Zenon
  <2>7. /\ Len(k) = N + 3 /\ \A i \in 1..N + 1 : k[i] = h[i]
        /\ k[N + 2] = g[1] /\ k[N + 3] = g[2]
    <3>1. Joins(k, h, N + 1, g, 2)
      BY <2>1, <2>4, <2>6, Zenon
    <3>2. N + 1 + 1 = N + 2 /\ N + 1 + 2 = N + 3 /\ 1 \in 1..2 /\ 2 \in 1..2
      OBVIOUS
    <3>3. QED
      BY <3>1, <3>2 DEF Joins
  <2>8. PICK z : /\ z = a \o k
                 /\ Len(z) = N + 4 /\ z[1] = a[1] /\ \A i \in 1..N + 3 : z[i + 1] = k[i]
    <3>1. PICK z : z = a \o k
      OBVIOUS
    <3>2. Joins(z, a, Len(a), k, Len(k))
      BY <2>1, <2>6, <3>1, JoinIs, Zenon
    <3>3. Joins(z, a, 1, k, N + 3)
      BY <2>1, <2>7, <3>2, Zenon
    <3>4. 1 + (N + 3) = N + 4 /\ 1 \in 1..1 /\ \A i \in 1..N + 3 : 1 + i = i + 1
      OBVIOUS
    <3>5. Len(z) = N + 4 /\ z[1] = a[1] /\ \A i \in 1..N + 3 : z[i + 1] = k[i]
      BY <3>3, <3>4 DEF Joins
    <3>6. QED
      BY <3>1, <3>5
  <2>9. /\ z[2] = d[1] /\ \A i \in 1..N : z[i + 2] = f[i]
        /\ z[N + 3] = g[1] /\ z[N + 4] = g[2]
    <3>1. /\ 1 \in 1..N + 3 /\ 1 \in 1..N + 1 /\ 1 + 1 = 2
          /\ \A i \in 1..N : i + 1 \in 1..N + 3 /\ i + 1 \in 1..N + 1 /\ i + 1 + 1 = i + 2
          /\ N + 2 \in 1..N + 3 /\ N + 2 + 1 = N + 3 /\ N + 3 \in 1..N + 3 /\ N + 3 + 1 = N + 4
      OBVIOUS
    <3>2. z[2] = d[1]
      BY <2>4, <2>7, <2>8, <3>1
    <3>3. ASSUME NEW i \in 1..N PROVE z[i + 2] = f[i]
      BY <2>4, <2>7, <2>8, <3>1
    <3>4. z[N + 3] = g[1] /\ z[N + 4] = g[2]
      BY <2>7, <2>8, <3>1
    <3>5. QED
      BY <3>2, <3>3, <3>4
  <2>10. q = z
    <3>1. q = a \o (h \o g)
      BY <1>7, <2>2
    <3>2. QED
      BY <2>5, <2>8, <3>1
  <2>11. QED
    BY <2>8, <2>9, <2>10
<1>14. /\ a[1] = LinkOrGone(VrfLink(v)) /\ d[1] = Deref(db[v].table = NoTable)
       /\ g[1] = RouteFlush(db[v].table) /\ g[2] = LinkDel(VrfLink(v))
       /\ e[1] = LinkByName(VxlanLink(v)) /\ e[2] = LinkDel(VxlanLink(v))
       /\ e[3] = LinkByName(BrLink(v)) /\ e[4] = LinkDel(BrLink(v))
  BY <1>1, <1>2, <1>3, <1>5
<1>15. PICK k \in Nat : k = N + 3
  BY <1>12
<1>16. /\ k >= 3 /\ Len(q) = k + 1 /\ q[k] = g[1] /\ q[k + 1] = g[2]
  <2>1. N + 4 = k + 1 /\ k >= 3
    BY <1>12, <1>15
  <2>2. QED
    BY <1>13, <1>15, <2>1
<1>17. ASSUME NEW i \in 3..k - 1
       PROVE  \E n \in {BrLink(v), VxlanLink(v)} : q[i] \in {LinkByName(n), LinkDel(n)}
  <2>1. i - 2 \in 1..N /\ i - 2 + 2 = i /\ N = 4
    BY <1>12, <1>15
  <2>2. q[i] = e[i - 2]
    BY <1>12, <1>13, <2>1
  <2>3. i - 2 = 1 \/ i - 2 = 2 \/ i - 2 = 3 \/ i - 2 = 4
    BY <2>1
  <2>4. QED
    BY <1>14, <2>2, <2>3
<1>18. ASSUME v \in WithVni PROVE k = 7 /\ q[4] = LinkDel(VxlanLink(v)) /\ q[6] = LinkDel(BrLink(v))
  <2>1. N = 4 /\ 2 \in 1..4 /\ 2 + 2 = 4 /\ 4 \in 1..4 /\ 4 + 2 = 6 /\ f = e
    BY <1>12, <1>18
  <2>2. QED
    BY <1>13, <1>14, <1>15, <2>1
<1>19. QED
  BY <1>6, <1>13, <1>14, <1>16, <1>17, <1>18

\* A tear-down of a VRF whose last call succeeded has left no link of it and no
\* throw route in its table.
LEMMA TearDownVrfLeaves ==
    ASSUME NamesDiffer, IInv, Known, NEW v \in Vrf, v # Grd, Leaving(v), Handle("lgm", v),
           NEW n \in 0..Reach(Calls("lgm", v)), n = Len(Calls("lgm", v)),
           host' = HostAfter(Calls("lgm", v))[n]
    PROVE  NamesOf(v) \cap host'.links = {} /\ ids[v] \notin host'.throw
<1> DEFINE calls == Calls("lgm", v)
<1>0. v \in Obj /\ "lgm" \in Modules /\ v \notin Lb /\ v \notin Svi
  BY DevicesAssumption DEF Obj, Vpn, Modules
<1>1. calls = lgm_tearDownVrf(v)
  <2>1. Calls("lgm", v) = IF Leaving(v) THEN lgm_tearDownVrf(v) ELSE lgm_setUpVrf(v)
    BY <1>0 DEF Calls, lgm_handlevrf
  <2>2. QED
    BY <2>1
<1>2. PICK k \in Nat :
        /\ k >= 3 /\ Len(calls) = k + 1
        /\ calls[2] = Deref(db[v].table = NoTable)
        /\ calls[k] = RouteFlush(db[v].table)
        /\ calls[k + 1] = LinkDel(VrfLink(v))
        /\ v \in WithVni => /\ k = 7
                            /\ calls[4] = LinkDel(VxlanLink(v))
                            /\ calls[6] = LinkDel(BrLink(v))
  BY <1>1, TearDownVrfIs
<1>3. "lgm" \in Range(Subs(v)) /\ Stored(v) /\ \A i \in 1..Len(calls) : calls[i] \in Own("lgm", v)
  BY <1>0, HandleIs
<1>4. Len(calls) \in Nat /\ HostOK(host) /\ IsHost(host)
  BY <1>2 DEF IInv, HostOK
<1>5. n = k + 1 /\ n \in 0..Reach(calls) /\ Reach(calls) \in Nat /\ 2 \in 1..Reach(calls)
  <2>1. Reach(calls) \in 0..Len(calls)
    BY <1>4, ReachIs
  <2>2. n = k + 1
    BY <1>2
  <2>3. QED
    BY <1>2, <2>1, <2>2
<1>6. host' = HostAfter(calls)[n]
  OBVIOUS
<1>7. db[v].table # NoTable
  <2>1. Possible(HostAfter(calls)[2 - 1], calls[2])
    BY <1>4, <1>5, ReachIs
  <2>2. PICK b \in BOOLEAN : b = (db[v].table = NoTable)
    OBVIOUS
  <2>3. calls[2].op = "Deref" /\ calls[2].link = b
    BY <1>2, <2>2 DEF Deref, Call
  <2>4. \A h : Possible(h, calls[2]) => ~ calls[2].link
    BY <2>3 DEF Possible
  <2>5. QED
    BY <2>1, <2>2, <2>3, <2>4
<1> HIDE DEF calls
<1>8. \A i \in 1..n : calls[i] \in Own("lgm", v)
  BY <1>2, <1>3, <1>5
<1>9. \A i \in 1..n : \A x : ~ Gives(calls[i], "links", x) /\ ~ Gives(calls[i], "throw", x)
  BY <1>0, <1>3, <1>8, GivenIs
<1>10. "links" \in Parts /\ "throw" \in Parts /\ k \in 1..n /\ k + 1 \in 1..n
  BY <1>2, <1>5 DEF Parts
<1>11. ASSUME NEW x \in NamesOf(v) PROVE x \notin host'.links
  <2>1. ~ Has(host, "links", x) \/ \E i \in 1..n : Takes(calls[i], "links", x)
    <3>1. CASE x = VrfLink(v)
      <4>1. Takes(calls[k + 1], "links", x)
        BY <1>2, <3>1 DEF Takes, LinkDel, Call
      <4>2. QED
        BY <1>10, <4>1
    <3>2. CASE x # VrfLink(v) /\ v \in WithVni
      <4>1. x = BrLink(v) \/ x = VxlanLink(v)
        BY <1>0, <3>2 DEF NamesOf
      <4>2. Takes(calls[6], "links", BrLink(v)) /\ Takes(calls[4], "links", VxlanLink(v))
        BY <1>2, <3>2 DEF Takes, LinkDel, Call
      <4>3. 4 \in 1..n /\ 6 \in 1..n
        <5>1. k = 7
          BY <1>2, <3>2
        <5>2. n = 8
          BY <1>5, <5>1
        <5>3. 4 \in 1..8 /\ 6 \in 1..8
          OBVIOUS
        <5>4. QED
          BY <5>2, <5>3, Zenon
      <4>4. QED
        BY <4>1, <4>2, <4>3
    <3>3. CASE x # VrfLink(v) /\ v \notin WithVni
      <4>1. x \notin LinksOf(v)
        BY <1>0, <3>3 DEF LinksOf
      <4>2. \A p \in Obj : x \notin LinksOf(p)
        BY <1>0, <4>1, NamesOfDiffer
      <4>3. x # Tenant
        BY <1>0, NamesOfDiffer
      <4>4. x \notin host.links
        BY <4>2, <4>3 DEF Known, LinksKnown
      <4>5. QED
        BY <4>4 DEF Has
    <3>4. QED
      BY <3>1, <3>2, <3>3
  <2>2. ~ Has(HostAfter(calls)[n], "links", x)
    BY <1>4, <1>5, <1>9, <1>10, <2>1, Ends
  <2>3. QED
    BY <1>6, <2>2 DEF Has
<1>12. ids[v] \notin host'.throw
  <2>1. db[v].table = 0 \/ db[v].table = ids[v]
    BY <1>3, <1>7 DEF Known, TableKnown
  <2>2. Takes(calls[k], "throw", ids[v])
    BY <1>2, <2>1 DEF Takes, RouteFlush, Call
  <2>3. ~ Has(HostAfter(calls)[n], "throw", ids[v])
    BY <1>4, <1>5, <1>9, <1>10, <2>2, Ends
  <2>4. QED
    BY <1>6, <2>3 DEF Has
<1>13. QED
  BY <1>11, <1>12

\* A VRF's other links and the throw route of its table come after its own link
\* and go before it.
VrfFirst ==
    \A v \in Vrf : \/ BrLink(v) \in host.links
                   \/ VxlanLink(v) \in host.links
                   \/ ids[v] # 0 /\ ids[v] \in host.throw
                   => VrfLink(v) \in host.links

GrdHasNoTable == Grd \in Vrf => ids[Grd] = 0

\* A throw route of a VRF's table was there for the VRF.
LEMMA ThrowIs ==
    ASSUME IInv, IInv', Known, NEW o \in Obj, NEW m \in Modules, Handle(m, o),
           NEW v \in Vrf, ids'[v] # 0, ids'[v] \in host.throw
    PROVE  ids[v] = ids'[v]
<1>1. PICK w \in Numbered : ids'[v] = ids[w]
  BY DEF Known, ThrowKnown
<1>2. w \in Vrf /\ ids'[w] = ids[w] /\ ids'[w] # 0
  BY <1>1, NumbersStay DEF Numbered
<1>3. \A y, z \in Numbered' : ids'[y] = ids'[z] => y = z
  BY DEF IInv, IdsSound
<1>4. w \in Numbered' /\ v \in Numbered'
  BY <1>2 DEF Numbered
<1>5. QED
  BY <1>1, <1>2, <1>3, <1>4

\* What is left of a VRF without its own link.
Trails(v, part, x) == \/ part = "links" /\ x \in {BrLink(v), VxlanLink(v)}
                      \/ part = "throw" /\ x = ids[v] /\ ids[v] # 0

LEMMA VrfFirstSetUp ==
    ASSUME NamesDiffer, IInv, NEW v \in Vrf, v # Grd, ~ Leaving(v), Handle("lgm", v),
           NEW n \in 0..Reach(Calls("lgm", v)), host' = HostAfter(Calls("lgm", v))[n],
           NEW part \in Parts, NEW x, part = "links" \/ part = "throw", Has(host', part, x),
           Has(host, part, x) => VrfLink(v) \in host.links
    PROVE  VrfLink(v) \in host'.links
<1> DEFINE calls == Calls("lgm", v)
<1>0. v \in Obj /\ "lgm" \in Modules /\ "links" \in Parts
  BY DEF Obj, Vpn, Modules, Parts
<1>1. "lgm" \in Range(Subs(v)) /\ Len(calls) \in Nat /\ \A i \in 1..Len(calls) : calls[i] \in Own("lgm", v)
  BY <1>0, HandleIs
<1>2. Reach(calls) \in 0..Len(calls) /\ HostOK(host)
  BY <1>1, ReachIs DEF IInv
<1>3. Has(host, part, x) \/ \E i \in 1..n : Gives(calls[i], part, x)
  BY <1>0, HandlerGives
<1>4. ASSUME NEW i \in 1..n, Gives(calls[i], part, x)
      PROVE  3 \in 1..n /\ Gives(calls[3], "links", VrfLink(v))
  <2>1. calls[i].op # "RouteList"
    BY <1>4 DEF Gives
  <2>2. n >= 3 /\ Gives(calls[3], "links", VrfLink(v))
    BY <1>0, <1>1, <2>1, ThrowAfterVrf
  <2>3. QED
    BY <1>2, <2>2
<1>5. host' = HostAfter(calls)[n] /\ n \in 0..Reach(calls)
  OBVIOUS
<1> HIDE DEF calls
<1>6. VrfLink(v) \in host.links \/ \E i \in 1..n : Gives(calls[i], "links", VrfLink(v))
  BY <1>3, <1>4
<1>7. ASSUME NEW i \in 1..n PROVE ~ Takes(calls[i], "links", VrfLink(v))
  <2>1. i \in 1..Len(calls)
    BY <1>1, <1>2, <1>5
  <2>2. HostCall(v, calls[i])
    BY <1>1, <2>1 DEF Own
  <2>3. calls[i].op # "LinkDel"
    BY <2>2 DEF HostCall
  <2>4. QED
    BY <2>3 DEF Takes
<1>8. Has(host, "links", VrfLink(v)) \/ \E i \in 1..n : Gives(calls[i], "links", VrfLink(v))
  BY <1>6 DEF Has
<1>9. Has(HostAfter(calls)[n], "links", VrfLink(v))
  BY <1>0, <1>1, <1>2, <1>5, <1>7, <1>8, Lasts
<1>10. QED
  BY <1>5, <1>9 DEF Has

LEMMA VrfFirstTearDown ==
    ASSUME NamesDiffer, IInv, Known, NEW v \in Vrf, v # Grd, Leaving(v), Handle("lgm", v),
           NEW n \in 0..Reach(Calls("lgm", v)), host' = HostAfter(Calls("lgm", v))[n],
           NEW part \in Parts, NEW x, Trails(v, part, x), Has(host', part, x),
           Has(host, part, x) => VrfLink(v) \in host.links
    PROVE  VrfLink(v) \in host'.links
<1> DEFINE calls == Calls("lgm", v)
<1>0. v \in Obj /\ "lgm" \in Modules /\ "links" \in Parts /\ v \notin Lb /\ v \notin Svi
  BY DevicesAssumption DEF Obj, Vpn, Modules, Parts
<1>1. "lgm" \in Range(Subs(v)) /\ Len(calls) \in Nat /\ \A i \in 1..Len(calls) : calls[i] \in Own("lgm", v)
  BY <1>0, HandleIs
<1>2. Reach(calls) \in 0..Len(calls) /\ HostOK(host)
  BY <1>1, ReachIs DEF IInv
<1>3. Has(host, part, x) \/ \E i \in 1..n : i \in 1..Len(calls) /\ Gives(calls[i], part, x)
  BY <1>0, HandlerGives
<1>4. \A i \in 1..Len(calls) : ~ Gives(calls[i], part, x)
  BY <1>0, <1>1, GivenIs DEF Trails
<1>5. VrfLink(v) \in host.links
  BY <1>3, <1>4
<1>6. n # Len(calls)
  <2>1. SUFFICES ASSUME n = Len(calls) PROVE FALSE
    OBVIOUS
  <2>2. NamesOf(v) \cap host'.links = {} /\ ids[v] \notin host'.throw
    BY <2>1, TearDownVrfLeaves
  <2>3. {BrLink(v), VxlanLink(v)} \subseteq NamesOf(v)
    BY <1>0 DEF NamesOf
  <2>4. QED
    BY <2>2, <2>3 DEF Trails, Has
<1>7. calls = lgm_tearDownVrf(v)
  <2>1. Calls("lgm", v) = IF Leaving(v) THEN lgm_tearDownVrf(v) ELSE lgm_setUpVrf(v)
    BY <1>0 DEF Calls, lgm_handlevrf
  <2>2. QED
    BY <2>1
<1>8. PICK k \in Nat :
        /\ k >= 3 /\ Len(calls) = k + 1
        /\ calls[1] = LinkOrGone(VrfLink(v))
        /\ calls[2] = Deref(db[v].table = NoTable)
        /\ calls[k] = RouteFlush(db[v].table)
        /\ \A i \in 3..k - 1 : \E y \in {BrLink(v), VxlanLink(v)} : calls[i] \in {LinkByName(y), LinkDel(y)}
  BY <1>7, TearDownVrfIs
<1>9. host' = HostAfter(calls)[n] /\ n \in 0..Reach(calls)
  OBVIOUS
<1> HIDE DEF calls
<1>10. n \in 0..k
  BY <1>2, <1>6, <1>8, <1>9
<1>11. ASSUME NEW i \in 1..n PROVE ~ Takes(calls[i], "links", VrfLink(v))
  <2>1. i = 1 \/ i = 2 \/ i = k \/ i \in 3..k - 1
    BY <1>8, <1>10
  <2>2. calls[1].op # "LinkDel" /\ calls[2].op # "LinkDel" /\ calls[k].op # "LinkDel"
    BY <1>8 DEF LinkOrGone, Deref, RouteFlush, Call
  <2>3. ASSUME i \in 3..k - 1 PROVE calls[i].link # VrfLink(v)
    <3>1. PICK y \in {BrLink(v), VxlanLink(v)} : calls[i] \in {LinkByName(y), LinkDel(y)}
      BY <1>8, <2>3
    <3>2. calls[i].link = y
      BY <3>1 DEF LinkByName, LinkDel, Call
    <3>3. y # VrfLink(v)
      BY DEF VrfLink, BrLink, VxlanLink
    <3>4. QED
      BY <3>2, <3>3
  <2>4. QED
    BY <2>1, <2>2, <2>3 DEF Takes
<1>12. Has(host, "links", VrfLink(v))
  BY <1>5 DEF Has
<1>13. Has(HostAfter(calls)[n], "links", VrfLink(v))
  BY <1>0, <1>1, <1>2, <1>9, <1>11, <1>12, Lasts
<1>14. QED
  BY <1>9, <1>13 DEF Has

\* The handlers of others, and FRR's, leave a VRF's links alone.
LEMMA VrfFirstOthers ==
    ASSUME NamesDiffer, IInv, IInv', NEW o \in Obj, NEW m \in Modules, Handle(m, o),
           NEW v \in Vrf, v # o \/ m # "lgm" \/ v = Grd, GrdHasNoTable,
           NEW n \in 0..Reach(Calls(m, o)), host' = HostAfter(Calls(m, o))[n],
           NEW part \in Parts, NEW x, Trails(v, part, x), Has(host', part, x),
           Has(host, part, x) => VrfLink(v) \in host.links
    PROVE  VrfLink(v) \in host'.links
<1> DEFINE calls == Calls(m, o)
<1>0. v \in Obj /\ "links" \in Parts /\ v \notin Lb /\ v \notin Svi
  BY DevicesAssumption DEF Obj, Vpn, Parts
<1>1. m \in Range(Subs(o)) /\ Len(calls) \in Nat /\ \A i \in 1..Len(calls) : calls[i] \in Own(m, o)
  BY HandleIs
<1>2. Reach(calls) \in 0..Len(calls) /\ HostOK(host)
  BY <1>1, ReachIs DEF IInv
<1>3. Has(host, part, x) \/ \E i \in 1..n : i \in 1..Len(calls) /\ Gives(calls[i], part, x)
  BY HandlerGives
<1>4. host' = HostAfter(calls)[n] /\ n \in 0..Reach(calls)
  OBVIOUS
<1>5. m \in {"lgm", "lci", "frr"} /\ (o = v => m # "lci")
  BY <1>0, <1>1, HandlerKinds
<1>6. {VrfLink(v), BrLink(v), VxlanLink(v)} = NamesOf(v)
  BY <1>0 DEF NamesOf
<1>7. ASSUME NEW y \in NamesOf(v), m # "frr" PROVE y \notin LinksOf(o)
  <2>1. y \in LinksOf(o) => o = v
    BY <1>0, NamesOfDiffer
  <2>2. o = v => v = Grd
    BY <1>5, <1>7
  <2>3. v = Grd => LinksOf(v) = {}
    BY <1>0 DEF LinksOf
  <2>4. QED
    BY <2>1, <2>2, <2>3
<1>8. ASSUME NEW i \in 1..Len(calls), Gives(calls[i], part, x) PROVE FALSE
  <2>1. calls[i] \in Own(m, o)
    BY <1>1
  <2>2. CASE part = "links"
    <3>1. m # "frr" /\ x \in LinksOf(o)
      BY <1>1, <1>8, <2>1, <2>2, GivenIs
    <3>2. x \in NamesOf(v)
      BY <1>6, <2>2 DEF Trails
    <3>3. QED
      BY <1>7, <3>1, <3>2
  <2>3. CASE part = "throw"
    <3>1. m = "lgm" /\ ~ Leaving(o) /\ o \in Vrf /\ o # Grd /\ x = GetID(o)
      BY <1>1, <1>8, <2>1, <2>3, GivenIs
    <3>2. ids'[o] = x
      BY <3>1, NumbersStay
    <3>3. o # v
      BY <3>1
    <3>4. x = ids[v] /\ ids[v] # 0 /\ ids'[v] = ids[v]
      BY <2>3, NumbersStay DEF Trails
    <3>5. o \in Numbered' /\ v \in Numbered'
      BY <3>1, <3>2, <3>4 DEF Numbered
    <3>6. \A y, z \in Numbered' : ids'[y] = ids'[z] => y = z
      BY DEF IInv, IdsSound
    <3>7. QED
      BY <3>2, <3>3, <3>4, <3>5, <3>6
  <2>4. QED
    BY <2>2, <2>3 DEF Trails
<1>9. VrfLink(v) \in host.links
  BY <1>3, <1>8
<1> HIDE DEF calls
<1>10. ASSUME NEW i \in 1..n PROVE ~ Takes(calls[i], "links", VrfLink(v))
  <2>1. calls[i] \in Own(m, o)
    BY <1>1, <1>2, <1>4
  <2>2. CASE m = "frr"
    <3>1. calls[i].op # "LinkDel"
      BY <2>1, <2>2 DEF Own, FrrCall
    <3>2. QED
      BY <3>1 DEF Takes
  <2>3. CASE m # "frr"
    <3>1. calls[i].op = "LinkDel" => calls[i].link \in LinksOf(o)
      BY <2>1, <2>3 DEF Own, HostCall
    <3>2. VrfLink(v) \notin LinksOf(o)
      BY <1>6, <1>7, <2>3
    <3>3. QED
      BY <3>1, <3>2 DEF Takes
  <2>4. QED
    BY <2>2, <2>3
<1>11. Has(host, "links", VrfLink(v))
  BY <1>9 DEF Has
<1>12. Has(HostAfter(calls)[n], "links", VrfLink(v))
  BY <1>0, <1>1, <1>2, <1>4, <1>10, <1>11, Lasts
<1>13. QED
  BY <1>4, <1>12 DEF Has

LEMMA VrfFirstHandle ==
    ASSUME NamesDiffer, IInv, IInv', Known, VrfFirst, GrdHasNoTable,
           NEW o \in Obj, NEW m \in Modules, Handle(m, o)
    PROVE  VrfFirst' /\ GrdHasNoTable'
<1>1. GrdHasNoTable'
  BY NumbersStay DEF GrdHasNoTable
<1>2. PICK n \in 0..Reach(Calls(m, o)) : host' = HostAfter(Calls(m, o))[n]
  BY DEF Handle
<1>3. ASSUME NEW v \in Vrf, NEW part \in {"links", "throw"}, NEW x, Has(host', part, x),
             \/ part = "links" /\ x \in {BrLink(v), VxlanLink(v)}
             \/ part = "throw" /\ x = ids'[v] /\ ids'[v] # 0
      PROVE  VrfLink(v) \in host'.links
  <2>1. part \in Parts /\ (part = "links" \/ part = "throw")
    BY DEF Parts
  <2>2. ASSUME Has(host, part, x) PROVE VrfLink(v) \in host.links
    <3>1. part = "throw" => ids[v] = ids'[v]
      <4>1. part = "throw" => ids'[v] \in host.throw /\ ids'[v] # 0
        BY <1>3, <2>2 DEF Has
      <4>2. QED
        BY <4>1, ThrowIs
    <3>2. QED
      BY <1>3, <2>2, <3>1 DEF VrfFirst, Has
  <2>3. CASE v = o /\ m = "lgm" /\ v # Grd /\ ~ Leaving(v)
    <3>1. Handle("lgm", v) /\ n \in 0..Reach(Calls("lgm", v)) /\ host' = HostAfter(Calls("lgm", v))[n]
      BY <1>2, <2>3
    <3>2. QED
      BY <1>3, <2>1, <2>2, <2>3, <3>1, VrfFirstSetUp
  <2>4. CASE ~ (v = o /\ m = "lgm" /\ v # Grd /\ ~ Leaving(v))
    <3>1. ids'[v] = ids[v]
      BY <2>4, NumbersStay
    <3>2. Trails(v, part, x)
      BY <1>3, <3>1 DEF Trails
    <3>3. CASE v = o /\ m = "lgm" /\ v # Grd
      <4>1. /\ Handle("lgm", v) /\ n \in 0..Reach(Calls("lgm", v)) /\ host' = HostAfter(Calls("lgm", v))[n]
            /\ Leaving(v)
        BY <1>2, <2>4, <3>3
      <4>2. QED
        BY <1>3, <2>1, <2>2, <3>2, <3>3, <4>1, VrfFirstTearDown
    <3>4. CASE ~ (v = o /\ m = "lgm" /\ v # Grd)
      BY <1>2, <1>3, <2>1, <2>2, <3>2, <3>4, VrfFirstOthers
    <3>5. QED
      BY <3>3, <3>4
  <2>5. QED
    BY <2>3, <2>4
<1>4. ASSUME NEW v \in Vrf,
             \/ BrLink(v) \in host'.links
             \/ VxlanLink(v) \in host'.links
             \/ ids'[v] # 0 /\ ids'[v] \in host'.throw
      PROVE  VrfLink(v) \in host'.links
  <2>1. CASE BrLink(v) \in host'.links
    <3>1. Has(host', "links", BrLink(v))
      BY <2>1 DEF Has
    <3>2. QED
      BY <1>3, <3>1
  <2>2. CASE VxlanLink(v) \in host'.links
    <3>1. Has(host', "links", VxlanLink(v))
      BY <2>2 DEF Has
    <3>2. QED
      BY <1>3, <3>1
  <2>3. CASE ids'[v] # 0 /\ ids'[v] \in host'.throw
    <3>1. Has(host', "throw", ids'[v])
      BY <2>3 DEF Has
    <3>2. QED
      BY <1>3, <2>3, <3>1
  <2>4. QED
    BY <1>4, <2>1, <2>2, <2>3
<1>5. VrfFirst'
  BY <1>4 DEF VrfFirst
<1>6. QED
  BY <1>1, <1>5

LEMMA VrfFirstStep ==
    ASSUME NamesDiffer, IInv, IInv', Known, VrfFirst, GrdHasNoTable, [Next]_vars
    PROVE  VrfFirst' /\ GrdHasNoTable'
<1>1. ASSUME ids' = ids, host'.throw = host.throw,
             \A v \in Vrf : /\ BrLink(v) \in host'.links => BrLink(v) \in host.links
                            /\ VxlanLink(v) \in host'.links => VxlanLink(v) \in host.links,
             host.links \subseteq host'.links
      PROVE  VrfFirst' /\ GrdHasNoTable'
  <2>1. VrfFirst'
    BY <1>1 DEF VrfFirst
  <2>2. GrdHasNoTable'
    BY <1>1 DEF GrdHasNoTable
  <2>3. QED
    BY <2>1, <2>2
<1>2. ASSUME ids' = ids, host' = host PROVE VrfFirst' /\ GrdHasNoTable'
  BY <1>1, <1>2
<1>3. ASSUME NEW o \in Obj, Create(o) PROVE VrfFirst' /\ GrdHasNoTable'
  BY <1>2, <1>3, CreateIs
<1>4. ASSUME NEW o \in Obj, Delete(o) PROVE VrfFirst' /\ GrdHasNoTable'
  BY <1>2, <1>4, DeleteIs
<1>5. ASSUME NEW o \in Obj, NEW m \in Modules, Handle(m, o) PROVE VrfFirst' /\ GrdHasNoTable'
  BY <1>5, VrfFirstHandle
<1>6. ASSUME NEW r \in reports, Report(r) PROVE VrfFirst' /\ GrdHasNoTable'
  BY <1>2, <1>6, ReportIs
<1>7. ASSUME NEW r \in reports, Empties(r) PROVE VrfFirst' /\ GrdHasNoTable'
  <2>1. ids' = ids
    BY <1>7 DEF Empties, Restarted, AsksForReplay
  <2>2. host'.links = host.links /\ host'.throw = host.throw
    <3>1. IsHost(host) /\ host' = [host EXCEPT !.conf = {}]
      BY <1>7 DEF Empties, Restarted, IInv, HostOK
    <3>2. host' = [links |-> host.links, up |-> host.up, addr |-> host.addr, master |-> host.master,
                   vlans |-> host.vlans, tables |-> host.tables, throw |-> host.throw, conf |-> {}]
      BY <3>1 DEF IsHost
    <3>3. QED
      BY <3>2
  <2>3. QED
    BY <1>1, <2>1, <2>2
<1>8. ASSUME NEW r \in reports, ReplayFails(r) PROVE VrfFirst' /\ GrdHasNoTable'
  BY <1>2, <1>8 DEF ReplayFails, AsksForReplay
<1>9. ASSUME NEW b \in Bp, Plug(b) PROVE VrfFirst' /\ GrdHasNoTable'
  <2>1. ids' = ids
    BY <1>9 DEF Plug
  <2>2. host'.links = host.links \cup {Port(b)} /\ host'.throw = host.throw
    <3>1. IsHost(host) /\ host' = [host EXCEPT !.links = @ \cup {Port(b)}]
      BY <1>9 DEF Plug, IInv, HostOK
    <3>2. host' = [links |-> host.links \cup {Port(b)}, up |-> host.up, addr |-> host.addr,
                   master |-> host.master, vlans |-> host.vlans, tables |-> host.tables,
                   throw |-> host.throw, conf |-> host.conf]
      BY <3>1 DEF IsHost
    <3>3. QED
      BY <3>2
  <2>3. \A v \in Vrf : BrLink(v) # Port(b) /\ VxlanLink(v) # Port(b)
    BY DEF BrLink, VxlanLink, Port
  <2>4. QED
    BY <1>1, <2>1, <2>2, <2>3
<1>10. CASE UNCHANGED vars
  BY <1>2, <1>10 DEF vars
<1>11. QED
  BY <1>3, <1>4, <1>5, <1>6, <1>7, <1>8, <1>9, <1>10, ReplaysEmpty DEF Next

-----------------------------------------------------------------------------
(* A tear-down that succeeds leaves nothing *)

\* A tear-down ends in success with its last call or because a link is gone.
LEMMA StoppedAt ==
    ASSUME NEW calls, Len(calls) \in Nat, NEW n, n = Reach(calls), Succeeds(calls, n), n # Len(calls)
    PROVE  /\ n \in 0..Len(calls) - 1 /\ calls[n + 1].op = "LinkOrGone"
           /\ calls[n + 1].link \notin HostAfter(calls)[n].links
<1>1. n \in 0..Len(calls) - 1 /\ ~ Possible(HostAfter(calls)[n], calls[n + 1])
  BY ReachIs
<1>2. calls[n + 1].op \in {"LinkOrGone", "ShowOrGone"}
  BY DEF Succeeds, Stops
<1>3. PICK c : c = calls[n + 1]
  OBVIOUS
<1>4. PICK h : h = HostAfter(calls)[n]
  OBVIOUS
<1>5. c.op = "ShowOrGone" => Possible(h, c)
  BY DEF Possible
<1>6. c.op = "LinkOrGone" => (Possible(h, c) <=> c.link \in h.links)
  BY DEF Possible
<1>7. QED
  BY <1>1, <1>2, <1>3, <1>4, <1>5, <1>6

\* What a tear-down does not give, and takes unless it was not there, is gone.
LEMMA LeftEnds ==
    ASSUME NamesDiffer, IInv, RefsInv, NEW o \in Obj, NEW m \in Modules, Handle(m, o),
           Leaving(o), Sound(o),
           NEW n \in 0..Reach(Calls(m, o)), host' = HostAfter(Calls(m, o))[n],
           NEW part \in Parts, NEW x, Left(m, o, NumberOf(o), part, x),
           ~ Has(host, part, x) \/ \E i \in 1..n : Takes(Calls(m, o)[i], part, x)
    PROVE  ~ Has(host', part, x)
<1> DEFINE calls == Calls(m, o)
<1>1. /\ m \in Range(Subs(o)) /\ Stored(o) /\ Len(calls) \in Nat
      /\ \A i \in 1..Len(calls) : calls[i] \in Own(m, o)
  BY HandleIs
<1>2. Reach(calls) \in 0..Len(calls) /\ HostOK(host)
  BY <1>1, ReachIs DEF IInv
<1>3. ASSUME NEW i \in 1..Len(calls) PROVE ~ Gives(calls[i], part, x)
  <2>1. calls[i] \in Own(m, o) /\ ~ Wanted(o)
    BY <1>1 DEF Wanted
  <2>2. CASE part = "throw"
    BY <1>1, <2>1, <2>2, GivenIs
  <2>3. CASE part # "throw"
    BY <1>1, <2>1, <2>3, NothingGiven
  <2>4. QED
    BY <2>2, <2>3
<1>4. /\ host' = HostAfter(calls)[n] /\ n \in 0..Reach(calls)
      /\ ~ Has(host, part, x) \/ \E i \in 1..n : Takes(calls[i], part, x)
  OBVIOUS
<1> HIDE DEF calls
<1>5. \A i \in 1..n : ~ Gives(calls[i], part, x)
  BY <1>1, <1>2, <1>3, <1>4
<1>6. ~ Has(HostAfter(calls)[n], part, x)
  BY <1>1, <1>2, <1>4, <1>5, Ends
<1>7. QED
  BY <1>4, <1>6

\* A link that an object does not make does not exist.
LEMMA NotMade ==
    ASSUME NamesDiffer, Known, NEW o \in Obj, NEW x \in NamesOf(o), x \notin LinksOf(o)
    PROVE  ~ Has(host, "links", x)
<1>1. \A p \in Obj : x \notin LinksOf(p)
  BY NamesOfDiffer
<1>2. x # Tenant
  BY NamesOfDiffer
<1>3. QED
  BY <1>1, <1>2 DEF Known, LinksKnown, Has

LEMMA BridgeLeavesNothing ==
    ASSUME NamesDiffer, IInv, RefsInv, Known, NEW l \in Lb, Handle("lgm", l), Leaving(l), Sound(l),
           NEW n \in 0..Reach(Calls("lgm", l)), n = Reach(Calls("lgm", l)),
           Succeeds(Calls("lgm", l), n), host' = HostAfter(Calls("lgm", l))[n],
           NEW part \in Parts, NEW x, Left("lgm", l, NumberOf(l), part, x)
    PROVE  ~ Has(host', part, x)
<1> DEFINE calls == Calls("lgm", l)
<1>0. l \in Obj /\ l \notin Vrf /\ l \notin Svi /\ l \notin Bp /\ "lgm" \in Modules
  BY DevicesAssumption DEF Obj, Vpn, Modules
<1>1. part = "links" /\ x = VlanLink(l) /\ x \in NamesOf(l)
  BY <1>0 DEF Left, NamesOf
<1>2. calls = lgm_tearDownBridge(l)
  <2>1. Calls("lgm", l) = IF Leaving(l) THEN lgm_tearDownBridge(l) ELSE lgm_setUpBridge(l)
    BY <1>0 DEF Calls, lgm_handleLB
  <2>2. QED
    BY <2>1
<1>3. CASE l \notin WithVni
  <2>1. x \notin LinksOf(l)
    BY <1>3 DEF LinksOf
  <2>2. ~ Has(host, part, x)
    BY <1>0, <1>1, <2>1, NotMade
  <2>3. QED
    BY <1>0, <2>2, LeftEnds
<1>4. CASE l \in WithVni
  <2>1. Len(calls) = 2 /\ calls[1] = LinkOrGone(VlanLink(l)) /\ calls[2] = LinkDel(VlanLink(l))
    BY <1>2, <1>4 DEF lgm_tearDownBridge
  <2>2. n = Reach(calls) /\ Succeeds(calls, n) /\ host' = HostAfter(calls)[n]
    OBVIOUS
  <2>3. CASE n = Len(calls)
    <3>1. Takes(calls[2], part, x) /\ 2 \in 1..n
      BY <1>1, <2>1, <2>3 DEF Takes, LinkDel, Call
    <3>2. QED
      BY <1>0, <3>1, LeftEnds
  <2>4. CASE n # Len(calls)
    <3> HIDE DEF calls
    <3>1. /\ n \in 0..Len(calls) - 1 /\ calls[n + 1].op = "LinkOrGone"
          /\ calls[n + 1].link \notin HostAfter(calls)[n].links
      <4>1. Len(calls) \in Nat /\ n # Len(calls)
        BY <2>1, <2>4
      <4>2. QED
        BY <2>2, <4>1, StoppedAt
    <3>2. n = 0 \/ n = 1
      <4>1. Len(calls) - 1 = 1
        BY <2>1
      <4>2. n \in 0..1
        BY <3>1, <4>1
      <4>3. QED
        BY <4>2
    <3>3. calls[2].op # "LinkOrGone" /\ calls[1].link = VlanLink(l)
      BY <2>1 DEF LinkOrGone, LinkDel, Call
    <3>4. n + 1 = 1
      BY <3>1, <3>2, <3>3
    <3>5. QED
      BY <1>1, <2>2, <3>1, <3>3, <3>4 DEF Has
  <2>5. QED
    BY <2>3, <2>4
<1>5. QED
  BY <1>3, <1>4

LEMMA SviLeavesNothing ==
    ASSUME NamesDiffer, IInv, RefsInv, Known, NEW s \in Svi, Handle("lgm", s), Leaving(s), Sound(s),
           NEW n \in 0..Reach(Calls("lgm", s)), n = Reach(Calls("lgm", s)),
           Succeeds(Calls("lgm", s), n), host' = HostAfter(Calls("lgm", s))[n],
           NEW part \in Parts, NEW x, Left("lgm", s, NumberOf(s), part, x)
    PROVE  ~ Has(host', part, x)
<1> DEFINE calls == Calls("lgm", s)
<1>0. s \in Obj /\ s \notin Vrf /\ s \notin Lb /\ s \notin Bp /\ "lgm" \in Modules
  BY DevicesAssumption DEF Obj, Vpn, Modules
<1>1. \/ part = "links" /\ x = SviLink(s)
      \/ part = "vlans" /\ x = TenantVlan(s)
  BY <1>0 DEF Left, NamesOf
<1>2. calls = lgm_tearDownSvi(s)
  <2>1. Calls("lgm", s) = IF Leaving(s) THEN lgm_tearDownSvi(s) ELSE lgm_setUpSvi(s)
    BY <1>0 DEF Calls, lgm_handlesvi
  <2>2. QED
    BY <2>1
<1>3. /\ Len(calls) = 5 /\ calls[1] = GetLB(LbOf[s]) /\ calls[2] = LinkByName(Tenant)
      /\ calls[3] = BridgeVlanDel(Tenant, VlanOf[LbOf[s]])
      /\ calls[4] = LinkOrGone(SviLink(s)) /\ calls[5] = LinkDel(SviLink(s))
  BY <1>2 DEF lgm_tearDownSvi
<1>4. n = Reach(calls) /\ Succeeds(calls, n) /\ host' = HostAfter(calls)[n]
  OBVIOUS
<1>5. n = 5 \/ (n = 3 /\ SviLink(s) \notin host'.links)
  <2> HIDE DEF calls
  <2>1. SUFFICES ASSUME n # 5 PROVE n = 3 /\ SviLink(s) \notin host'.links
    OBVIOUS
  <2>2. /\ n \in 0..4 /\ calls[n + 1].op = "LinkOrGone"
        /\ calls[n + 1].link \notin HostAfter(calls)[n].links
    <3>1. Len(calls) \in Nat /\ Len(calls) - 1 = 4 /\ n # Len(calls)
      BY <1>3, <2>1
    <3>2. n \in 0..Len(calls) - 1 /\ calls[n + 1].op = "LinkOrGone"
          /\ calls[n + 1].link \notin HostAfter(calls)[n].links
      BY <1>4, <3>1, StoppedAt
    <3>3. QED
      BY <3>1, <3>2
  <2>3. /\ calls[1].op # "LinkOrGone" /\ calls[2].op # "LinkOrGone" /\ calls[3].op # "LinkOrGone"
        /\ calls[5].op # "LinkOrGone" /\ calls[4].link = SviLink(s)
    BY <1>3 DEF GetLB, LinkByName, BridgeVlanDel, LinkOrGone, LinkDel, Call
  <2>4. n = 0 \/ n = 1 \/ n = 2 \/ n = 3 \/ n = 4
    BY <2>2
  <2>5. n = 3
    BY <2>2, <2>3, <2>4
  <2>6. n + 1 = 4
    BY <2>5
  <2>7. QED
    BY <1>4, <2>2, <2>3, <2>5, <2>6
<1>6. CASE part = "vlans"
  <2>1. Takes(calls[3], part, x) /\ 3 \in 1..n
    BY <1>1, <1>3, <1>5, <1>6 DEF Takes, BridgeVlanDel, Call, TenantVlan
  <2>2. QED
    BY <1>0, <2>1, LeftEnds
<1>7. CASE part = "links"
  <2>1. CASE n = 5
    <3>1. Takes(calls[5], part, x) /\ 5 \in 1..n
      BY <1>1, <1>3, <1>7, <2>1 DEF Takes, LinkDel, Call
    <3>2. QED
      BY <1>0, <3>1, LeftEnds
  <2>2. CASE n # 5
    BY <1>1, <1>5, <1>7, <2>2 DEF Has
  <2>3. QED
    BY <2>1, <2>2
<1>8. QED
  BY <1>1, <1>6, <1>7

LEMMA PortLeavesNothing ==
    ASSUME NamesDiffer, IInv, RefsInv, NEW b \in Bp, Handle("lci", b), Leaving(b), Sound(b),
           NEW n \in 0..Reach(Calls("lci", b)), n = Reach(Calls("lci", b)),
           Succeeds(Calls("lci", b), n), host' = HostAfter(Calls("lci", b))[n],
           NEW part \in Parts, NEW x, Left("lci", b, NumberOf(b), part, x)
    PROVE  ~ Has(host', part, x)
<1> DEFINE calls == Calls("lci", b)
<1>0. b \in Obj /\ "lci" \in Modules
  BY DEF Obj, Modules
<1>1. \/ part = "up" /\ x = Port(b)
      \/ part \in {"master", "vlans"} /\ x[1] = Port(b)
  BY DEF Left
<1>2. calls = lci_tearDownBp(b)
  <2>1. Calls("lci", b) = IF Leaving(b) THEN lci_tearDownBp(b) ELSE lci_setUpBp(b)
    BY DEF Calls, lci_handlebp
  <2>2. QED
    BY <2>1
<1>3. PICK q \in Seq(BeforeLast(b)) : calls = q \o << LinkDel(Port(b)) >>
  BY <1>2, PortCalls
<1>4. /\ Len(calls) = Len(q) + 1 /\ Len(q) \in Nat
      /\ \A i \in 1..Len(q) : calls[i] \in BeforeLast(b)
      /\ calls[Len(q) + 1] = LinkDel(Port(b))
  <2> HIDE DEF calls
  <2>1. q \in Seq(BeforeLast(b) \cup {LinkDel(Port(b))})
    OBVIOUS
  <2>2. QED
    BY <1>3, <2>1
<1>5. n = Reach(calls) /\ Succeeds(calls, n) /\ host' = HostAfter(calls)[n]
  OBVIOUS
<1>6. n = Len(calls)
  <2> HIDE DEF calls
  <2>1. SUFFICES ASSUME n # Len(calls) PROVE FALSE
    OBVIOUS
  <2>2. Len(calls) \in Nat
    BY <1>4
  <2>3. n \in 0..Len(calls) - 1 /\ calls[n + 1].op = "LinkOrGone"
    BY <1>5, <2>1, <2>2, StoppedAt
  <2>4. n + 1 \in 1..Len(q) \/ n + 1 = Len(q) + 1
    BY <1>4, <2>3
  <2>5. calls[Len(q) + 1].op # "LinkOrGone"
    BY <1>4 DEF LinkDel, Call
  <2>6. \A c \in BeforeLast(b) : c.op # "LinkOrGone"
    BY DEF BeforeLast, GetLB, Call
  <2>7. QED
    BY <1>4, <2>3, <2>4, <2>5, <2>6
<1>7. Takes(calls[Len(q) + 1], part, x)
  BY <1>1, <1>4 DEF Takes, LinkDel, Call
<1>8. Len(q) + 1 \in 1..n
  BY <1>4, <1>6
<1>9. QED
  BY <1>0, <1>7, <1>8, LeftEnds

\* There is no throw route without a VRF that has the table.
LEMMA NoThrow ==
    ASSUME Known, NEW v \in Vrf, ids[v] = 0
    PROVE  ids[v] \notin host.throw
BY DEF Known, ThrowKnown, Numbered

LEMMA VrfLeavesNothing ==
    ASSUME NamesDiffer, IInv, RefsInv, Known, VrfFirst, GrdHasNoTable,
           NEW v \in Vrf, Handle("lgm", v), Leaving(v), Sound(v),
           NEW n \in 0..Reach(Calls("lgm", v)), n = Reach(Calls("lgm", v)),
           Succeeds(Calls("lgm", v), n), host' = HostAfter(Calls("lgm", v))[n],
           NEW part \in Parts, NEW x, Left("lgm", v, NumberOf(v), part, x)
    PROVE  ~ Has(host', part, x)
<1> DEFINE calls == Calls("lgm", v)
<1>0. v \in Obj /\ v \notin Svi /\ v \notin Lb /\ v \notin Bp /\ "lgm" \in Modules
  BY DevicesAssumption DEF Obj, Vpn, Modules
<1>1. \/ part = "links" /\ x \in NamesOf(v)
      \/ part = "throw" /\ x = ids[v]
  BY <1>0 DEF Left, NumberOf
<1>2. CASE v = Grd
  <2>1. LinksOf(v) = {} /\ ids[v] = 0
    BY <1>0, <1>2 DEF LinksOf, GrdHasNoTable
  <2>2. ids[v] \notin host.throw
    BY <2>1, NoThrow
  <2>3. part = "links" => ~ Has(host, "links", x)
    BY <1>0, <1>1, <2>1, NotMade
  <2>4. ~ Has(host, part, x)
    BY <1>1, <2>2, <2>3 DEF Has
  <2>5. QED
    BY <1>0, <2>4, LeftEnds
<1>3. CASE v # Grd /\ n = Len(calls)
  <2>1. NamesOf(v) \cap host'.links = {} /\ ids[v] \notin host'.throw
    BY <1>3, TearDownVrfLeaves
  <2>2. QED
    BY <1>1, <2>1 DEF Has
<1>4. CASE v # Grd /\ n # Len(calls)
  <2>1. calls = lgm_tearDownVrf(v)
    <3>1. Calls("lgm", v) = IF Leaving(v) THEN lgm_tearDownVrf(v) ELSE lgm_setUpVrf(v)
      BY <1>0 DEF Calls, lgm_handlevrf
    <3>2. QED
      BY <3>1
  <2>2. PICK k \in Nat :
          /\ k >= 3 /\ Len(calls) = k + 1
          /\ calls[1] = LinkOrGone(VrfLink(v))
          /\ calls[2] = Deref(db[v].table = NoTable)
          /\ calls[k] = RouteFlush(db[v].table)
          /\ calls[k + 1] = LinkDel(VrfLink(v))
          /\ \A i \in 3..k - 1 : \E y \in {BrLink(v), VxlanLink(v)} : calls[i] \in {LinkByName(y), LinkDel(y)}
    BY <1>4, <2>1, TearDownVrfIs
  <2>3. /\ n \in 0..Len(calls) - 1 /\ calls[n + 1].op = "LinkOrGone"
        /\ calls[n + 1].link \notin HostAfter(calls)[n].links
    <3>1. Len(calls) \in Nat /\ n # Len(calls)
      BY <1>4, <2>2
    <3>2. n = Reach(calls) /\ Succeeds(calls, n)
      OBVIOUS
    <3> HIDE DEF calls
    <3>3. QED
      BY <3>1, <3>2, StoppedAt
  <2> HIDE DEF calls
  <2>4. n = 0
    <3>1. /\ calls[2].op # "LinkOrGone" /\ calls[k].op # "LinkOrGone" /\ calls[k + 1].op # "LinkOrGone"
      BY <2>2 DEF Deref, RouteFlush, LinkDel, Call
    <3>2. ASSUME NEW i \in 3..k - 1 PROVE calls[i].op # "LinkOrGone"
      <4>1. PICK y \in {BrLink(v), VxlanLink(v)} : calls[i] \in {LinkByName(y), LinkDel(y)}
        BY <2>2
      <4>2. QED
        BY <4>1 DEF LinkByName, LinkDel, Call
    <3>3. n \in 0..k
      BY <2>2, <2>3
    <3>4. n = 0 \/ n + 1 = 2 \/ n + 1 = k \/ n + 1 = k + 1 \/ n + 1 \in 3..k - 1
      BY <2>2, <3>3
    <3>5. QED
      BY <2>3, <3>1, <3>2, <3>4
  <2>5. VrfLink(v) \notin host.links
    <3>1. calls[1].link = VrfLink(v) /\ n + 1 = 1
      BY <2>2, <2>4 DEF LinkOrGone, Call
    <3>2. VrfLink(v) \notin HostAfter(calls)[0].links
      BY <2>3, <2>4, <3>1
    <3>3. Len(calls) \in Nat
      BY <2>2
    <3>4. HostAfter(calls)[0] = host
      BY <3>3, HostAfterIs
    <3>5. QED
      BY <3>2, <3>4
  <2>6. NamesOf(v) \cap host.links = {}
    BY <1>0, <2>5 DEF NamesOf, VrfFirst
  <2>7. ids[v] \notin host.throw
    BY <2>5, NoThrow DEF VrfFirst
  <2>8. ~ Has(host, part, x)
    BY <1>1, <2>6, <2>7 DEF Has
  <2>9. QED
    BY <1>0, <2>8, LeftEnds
<1>5. QED
  BY <1>2, <1>3, <1>4

\* The items of a VRF that FRR does not set up are not configured, nor is the
\* neighbor of an SVI without BGP.
LEMMA NotConfigured ==
    ASSUME NamesDiffer, Known
    PROVE  /\ Grd \in Vrf => <<"vni", Grd>> \notin host.conf /\ <<"bgp", Grd>> \notin host.conf
           /\ \A s \in Svi \ EnableBgp : Neighbor(s) \notin host.conf
<1>1. ASSUME NEW i \in host.conf
      PROVE  \/ \E p \in Vrf : p # Grd /\ i \in {<<"vni", p>>, <<"bgp", p>>}
             \/ \E p \in EnableBgp : i = <<"bgp", VrfOf[p]>> \/ i = <<"neighbor", VrfOf[p], VlanOf[LbOf[p]]>>
  <2>1. PICK p \in Obj : i \in ConfOf(p)
    BY DEF Known, ConfKnown
  <2>2. CASE p \in Vrf
    BY <2>1, <2>2 DEF ConfOf
  <2>3. CASE p \notin Vrf
    BY <2>1, <2>3 DEF ConfOf, Neighbor
  <2>4. QED
    BY <2>2, <2>3
<1>2. \A p \in EnableBgp : p \in Svi /\ VrfOf[p] # Grd /\ LbOf[p] \in Lb
  BY DevicesAssumption DEF NamesDiffer
<1>3. <<"vni", Grd>> \notin host.conf
  BY <1>1
<1>4. <<"bgp", Grd>> \notin host.conf
  BY <1>1, <1>2
<1>5. ASSUME NEW s \in Svi, s \notin EnableBgp, Neighbor(s) \in host.conf PROVE FALSE
  <2>1. PICK p \in EnableBgp : Neighbor(s) = <<"neighbor", VrfOf[p], VlanOf[LbOf[p]]>>
    BY <1>1, <1>5 DEF Neighbor
  <2>2. VlanOf[LbOf[p]] = VlanOf[LbOf[s]] /\ LbOf[s] \in Lb
    BY <2>1, DevicesAssumption DEF Neighbor
  <2>3. LbOf[p] = LbOf[s]
    BY <1>2, <2>2 DEF NamesDiffer, VlansDiffer
  <2>4. p = s
    BY <1>2, <2>3 DEF NamesDiffer
  <2>5. QED
    BY <1>5, <2>4
<1>6. QED
  BY <1>3, <1>4, <1>5

LEMMA FrrVrfLeavesNothing ==
    ASSUME NamesDiffer, IInv, RefsInv, Known,
           NEW v \in Vrf, Handle("frr", v), Leaving(v), Sound(v),
           NEW n \in 0..Reach(Calls("frr", v)), n = Reach(Calls("frr", v)),
           Succeeds(Calls("frr", v), n), host' = HostAfter(Calls("frr", v))[n],
           NEW part \in Parts, NEW x, Left("frr", v, NumberOf(v), part, x)
    PROVE  ~ Has(host', part, x)
<1> DEFINE calls == Calls("frr", v)
<1>0. v \in Obj /\ v \notin Svi /\ v \notin Lb /\ "frr" \in Modules
  BY DevicesAssumption DEF Obj, Vpn, Modules
<1>1. part = "conf" /\ x \in {<<"vni", v>>, <<"bgp", v>>}
  BY <1>0 DEF Left
<1>2. CASE v = Grd
  <2>1. ~ Has(host, part, x)
    BY <1>1, <1>2, NotConfigured DEF Has
  <2>2. QED
    BY <1>0, <2>1, LeftEnds
<1>3. CASE v # Grd
  <2>1. calls = frr_tearDownVrf(v)
    <3>1. Calls("frr", v) = IF Leaving(v) THEN frr_tearDownVrf(v) ELSE frr_setUpVrf(v)
      BY <1>0 DEF Calls, frr_handlevrf
    <3>2. QED
      BY <3>1
  <2>2. /\ Len(calls) = 4 /\ calls[1] = ShowOrGone(v) /\ calls[2] = Deref(v \notin WithVni)
        /\ calls[3] = NoConf(<<"bgp", v>>) /\ calls[4] = NoConf(<<"vni", v>>)
    BY <1>3, <2>1 DEF frr_tearDownVrf
  <2>3. n = Reach(calls) /\ Succeeds(calls, n)
    OBVIOUS
  <2>4. n = 4
    <3> HIDE DEF calls
    <3>1. SUFFICES ASSUME n # 4 PROVE FALSE
      OBVIOUS
    <3>2. Len(calls) \in Nat /\ Len(calls) - 1 = 3 /\ n # Len(calls)
      BY <2>2, <3>1
    <3>3. n \in 0..Len(calls) - 1 /\ calls[n + 1].op = "LinkOrGone"
      BY <2>3, <3>2, StoppedAt
    <3>4. /\ calls[1].op # "LinkOrGone" /\ calls[2].op # "LinkOrGone"
          /\ calls[3].op # "LinkOrGone" /\ calls[4].op # "LinkOrGone"
      BY <2>2 DEF ShowOrGone, Deref, NoConf, Call
    <3>5. n + 1 = 1 \/ n + 1 = 2 \/ n + 1 = 3 \/ n + 1 = 4
      <4>1. n \in 0..3
        BY <3>2, <3>3
      <4>2. QED
        BY <4>1
    <3>6. QED
      BY <3>3, <3>4, <3>5
  <2>5. Takes(calls[3], "conf", <<"bgp", v>>) /\ Takes(calls[4], "conf", <<"vni", v>>)
    BY <2>2 DEF Takes, NoConf, Call
  <2>6. 3 \in 1..n /\ 4 \in 1..n
    BY <2>4
  <2>7. \E i \in 1..n : Takes(calls[i], part, x)
    BY <1>1, <2>5, <2>6
  <2>8. QED
    BY <1>0, <2>7, LeftEnds
<1>4. QED
  BY <1>2, <1>3

LEMMA FrrSviLeavesNothing ==
    ASSUME NamesDiffer, IInv, RefsInv, Known,
           NEW s \in Svi, Handle("frr", s), Leaving(s), Sound(s),
           NEW n \in 0..Reach(Calls("frr", s)), n = Reach(Calls("frr", s)),
           Succeeds(Calls("frr", s), n), host' = HostAfter(Calls("frr", s))[n],
           NEW part \in Parts, NEW x, Left("frr", s, NumberOf(s), part, x)
    PROVE  ~ Has(host', part, x)
<1> DEFINE calls == Calls("frr", s)
<1>0. s \in Obj /\ s \notin Vrf /\ s \notin Lb /\ "frr" \in Modules
  BY DevicesAssumption DEF Obj, Vpn, Modules
<1>1. part = "conf" /\ x = Neighbor(s)
  BY <1>0 DEF Left
<1>2. CASE s \notin EnableBgp
  <2>1. ~ Has(host, part, x)
    BY <1>1, <1>2, NotConfigured DEF Has
  <2>2. QED
    BY <1>0, <2>1, LeftEnds
<1>3. CASE s \in EnableBgp
  <2>1. calls = frr_tearDownSvi(s)
    <3>1. Calls("frr", s) = IF Leaving(s) THEN frr_tearDownSvi(s) ELSE frr_setUpSvi(s)
      BY <1>0 DEF Calls, frr_handlesvi
    <3>2. QED
      BY <3>1
  <2>2. /\ Len(calls) = 3 /\ calls[1] = GetLB(LbOf[s]) /\ calls[2] = Conf(<<"bgp", VrfOf[s]>>)
        /\ calls[3] = NoConf(Neighbor(s))
    BY <1>3, <2>1 DEF frr_tearDownSvi
  <2>3. n = Reach(calls) /\ Succeeds(calls, n)
    OBVIOUS
  <2>4. n = 3
    <3> HIDE DEF calls
    <3>1. SUFFICES ASSUME n # 3 PROVE FALSE
      OBVIOUS
    <3>2. Len(calls) \in Nat /\ Len(calls) - 1 = 2 /\ n # Len(calls)
      BY <2>2, <3>1
    <3>3. n \in 0..Len(calls) - 1 /\ calls[n + 1].op = "LinkOrGone"
      BY <2>3, <3>2, StoppedAt
    <3>4. calls[1].op # "LinkOrGone" /\ calls[2].op # "LinkOrGone" /\ calls[3].op # "LinkOrGone"
      BY <2>2 DEF GetLB, Conf, NoConf, Call
    <3>5. n + 1 = 1 \/ n + 1 = 2 \/ n + 1 = 3
      <4>1. n \in 0..2
        BY <3>2, <3>3
      <4>2. QED
        BY <4>1
    <3>6. QED
      BY <3>3, <3>4, <3>5
  <2>5. Takes(calls[3], part, x)
    BY <1>1, <2>2 DEF Takes, NoConf, Call
  <2>6. 3 \in 1..n
    BY <2>4
  <2>7. QED
    BY <1>0, <2>5, <2>6, LeftEnds
<1>4. QED
  BY <1>2, <1>3

\* A module has nothing more to do for an object that goes or is gone.
Over(m, o) == ~ Stored(o) \/ (Leaving(o) /\ Done(m, o))

\* A module has left nothing of an object.
Bare(m, o) == \A part \in Parts : \A x : Left(m, o, NumberOf(o), part, x) => ~ Has(host, part, x)

\* A tear-down that succeeded has left nothing, and nothing comes after it until
\* the object is created again.
GoneInv == \A o \in Obj : \A m \in Range(Subs(o)) : Sound(o) /\ Over(m, o) => Bare(m, o)

LEMMA GoneKept ==
    ASSUME GoneInv, ids' = ids, spoilt \subseteq spoilt',
           \A part \in Parts : \A x : Has(host', part, x) =>
              Has(host, part, x) \/ (part = "links" /\ \E b \in Bp : x = Port(b)),
           \A o \in Obj : \A m \in Range(Subs(o)) : Over(m, o)' => Over(m, o)
    PROVE  GoneInv'
<1> SUFFICES ASSUME NEW o \in Obj, NEW m \in Range(Subs(o)), Sound(o)', Over(m, o)',
                    NEW part \in Parts, NEW x, Left(m, o, NumberOf(o)', part, x), Has(host', part, x)
             PROVE  FALSE
  BY DEF GoneInv, Bare
<1>1. Sound(o) /\ Over(m, o)
  BY DEF Sound
<1>2. NumberOf(o)' = NumberOf(o)
  BY DEF NumberOf
<1>3. Left(m, o, NumberOf(o), part, x)
  BY <1>2
<1>4. ~ Has(host, part, x)
  BY <1>1, <1>3 DEF GoneInv, Bare
<1>5. part = "links" /\ \E b \in Bp : x = <<"port", b>>
  BY <1>4 DEF Port
<1>6. o \notin Bp /\ x \in NamesOf(o)
  BY <1>3, <1>5 DEF Left
<1>7. \/ o \in Lb /\ x = <<"vxlan", VlanOf[o]>>
      \/ o \in Vrf /\ x \in {<<"vrf", o>>, <<"br", o>>, <<"vxlan", o>>}
      \/ o \in Svi /\ x = <<"svi", VrfOf[o], VlanOf[LbOf[o]]>>
  BY <1>6 DEF NamesOf, VlanLink, VrfLink, BrLink, VxlanLink, SviLink, Obj, Vpn
<1>8. QED
  BY <1>5, <1>7

\* What was bare before a handler's work is bare after it.
LEMMA BareHandle ==
    ASSUME NamesDiffer, IInv, IInv', RefsInv,
           NEW o \in Obj, NEW m \in Modules, Handle(m, o),
           NEW p \in Obj, NEW k \in Range(Subs(p)), ~ Wanted(p), Sound(p), Bare(k, p),
           NEW part \in Parts, NEW x, Left(k, p, NumberOf(p)', part, x), Known'
    PROVE  ~ Has(host', part, x)
<1>1. PICK n \in 0..Reach(Calls(m, o)) : host' = HostAfter(Calls(m, o))[n]
  BY DEF Handle
<1>2. m \in Range(Subs(o)) /\ Stored(o)
  BY HandleIs
<1>3. p \in Vrf => ids'[p] = ids[p]
  <2>1. p = o => Leaving(o)
    BY <1>2 DEF Wanted
  <2>2. QED
    BY <2>1, NumbersStay
<1>4. NumberOf(p)' = NumberOf(p)
  BY <1>3 DEF NumberOf
<1>5. Left(k, p, NumberOf(p), part, x)
  BY <1>4
<1>6. ~ Has(host, part, x)
  BY <1>5 DEF Bare
<1>7. SUFFICES ASSUME Has(host', part, x) PROVE FALSE
  OBVIOUS
<1>8. PICK i \in 1..n : /\ Calls(m, o)[i] \in Own(m, o)
                        /\ Gives(Calls(m, o)[i], part, x)
  BY <1>1, <1>6, <1>7, HandlerGives
<1>9. CASE part # "throw"
  BY <1>2, <1>5, <1>8, <1>9, NothingGiven
<1>10. CASE part = "throw"
  <2>1. m = "lgm" /\ ~ Leaving(o) /\ o \in Vrf /\ o # Grd /\ x = GetID(o)
    BY <1>2, <1>8, <1>10, GivenIs
  <2>2. ids'[o] = x
    BY <2>1, NumbersStay
  <2>3. p \in Vrf /\ x = ids'[p]
    BY <1>3, <1>5, <1>10 DEF Left, NumberOf
  <2>4. o # p
    BY <1>2, <2>1 DEF Wanted
  <2>5. x # 0
    <3>1. x \in host'.throw
      BY <1>7, <1>10 DEF Has
    <3>2. \E v \in Numbered' : x = ids'[v]
      BY <3>1 DEF Known, ThrowKnown
    <3>3. QED
      BY <3>2 DEF Numbered
  <2>6. o \in Numbered' /\ p \in Numbered'
    BY <2>1, <2>2, <2>3, <2>5 DEF Numbered
  <2>7. \A y, z \in Numbered' : ids'[y] = ids'[z] => y = z
    BY DEF IInv, IdsSound
  <2>8. QED
    BY <2>2, <2>3, <2>4, <2>6, <2>7
<1>11. QED
  BY <1>9, <1>10

\* A tear-down that has just succeeded, whichever it is.
LEMMA BareNow ==
    ASSUME NamesDiffer, IInv, RefsInv, Known, VrfFirst, GrdHasNoTable,
           NEW o \in Obj, NEW m \in Modules, Handle(m, o), Leaving(o), Sound(o),
           NEW n \in 0..Reach(Calls(m, o)), n = Reach(Calls(m, o)), Succeeds(Calls(m, o), n),
           host' = HostAfter(Calls(m, o))[n],
           NEW part \in Parts, NEW x, Left(m, o, NumberOf(o), part, x)
    PROVE  ~ Has(host', part, x)
<1>1. m \in Range(Subs(o))
  BY HandleIs
<1>2. \/ m = "lgm" /\ o \in Lb
      \/ m = "lgm" /\ o \in Vrf
      \/ m = "lgm" /\ o \in Svi
      \/ m = "frr" /\ o \in Vrf
      \/ m = "frr" /\ o \in Svi
      \/ m = "lci" /\ o \in Bp
  BY <1>1, HandlerKinds
<1>3. CASE m = "lgm" /\ o \in Lb
  BY <1>3, BridgeLeavesNothing
<1>4. CASE m = "lgm" /\ o \in Vrf
  BY <1>4, VrfLeavesNothing
<1>5. CASE m = "lgm" /\ o \in Svi
  BY <1>5, SviLeavesNothing
<1>6. CASE m = "frr" /\ o \in Vrf
  BY <1>6, FrrVrfLeavesNothing
<1>7. CASE m = "frr" /\ o \in Svi
  BY <1>7, FrrSviLeavesNothing
<1>8. CASE m = "lci" /\ o \in Bp
  BY <1>8, PortLeavesNothing
<1>9. QED
  BY <1>2, <1>3, <1>4, <1>5, <1>6, <1>7, <1>8

LEMMA GoneHandle ==
    ASSUME NamesDiffer, IInv, IInv', RefsInv, Known, Known', VrfFirst, GrdHasNoTable, GoneInv,
           NEW o \in Obj, NEW m \in Modules, Handle(m, o)
    PROVE  GoneInv'
<1> SUFFICES ASSUME NEW p \in Obj, NEW k \in Range(Subs(p)), Sound(p)', Over(k, p)',
                    NEW part \in Parts, NEW x, Left(k, p, NumberOf(p)', part, x)
             PROVE  ~ Has(host', part, x)
  BY DEF GoneInv, Bare
<1>1. db' = db
  BY DEF Handle
<1>2. spoilt \subseteq spoilt' /\ Sound(p)
  <2>1. spoilt \subseteq spoilt'
    BY HandleIs
  <2>2. QED
    BY <2>1 DEF Sound
<1>3. ~ Wanted(p)
  BY <1>1 DEF Over, Wanted, Stored, Leaving
<1>4. CASE Over(k, p)
  <2>1. Bare(k, p)
    BY <1>2, <1>4 DEF GoneInv
  <2>2. QED
    BY <1>2, <1>3, <2>1, BareHandle
<1>5. CASE ~ Over(k, p)
  <2>1. PICK n \in 0..Reach(Calls(m, o)) :
          /\ host' = HostAfter(Calls(m, o))[n]
          /\ \E new : /\ reports' = reports \cup {new}
                      /\ new.obj = o /\ new.mod = m /\ new.ver = db[o].ver
                      /\ new.ok <=> Succeeds(Calls(m, o), n)
          /\ n < Reach(Calls(m, o)) /\ Succeeds(Calls(m, o), n) => o \in spoilt'
    BY HandleIs
  <2>2. PICK new : /\ reports' = reports \cup {new}
                   /\ new.obj = o /\ new.mod = m /\ new.ver = db[o].ver
                   /\ new.ok <=> Succeeds(Calls(m, o), n)
    BY <2>1, Zenon
  <2>3. Leaving(p) /\ Done(k, p)' /\ ~ Done(k, p)
    BY <1>1, <1>5 DEF Over, Stored, Leaving
  <2>4. p = o /\ k = m /\ new.ok
    BY <1>1, <2>2, <2>3 DEF Done
  <2>5. Succeeds(Calls(m, o), n) /\ o \notin spoilt'
    BY <2>2, <2>4 DEF Sound
  <2>6. n = Reach(Calls(m, o))
    <3>1. Reach(Calls(m, o)) \in Nat
      BY HandleIs
    <3>2. ~ (n < Reach(Calls(m, o)))
      BY <2>1, <2>5
    <3>3. QED
      BY <3>1, <3>2
  <2>7. NumberOf(p)' = NumberOf(p)
    BY <2>3, <2>4, NumbersStay DEF NumberOf
  <2>8. Left(m, o, NumberOf(o), part, x) /\ Leaving(o) /\ Sound(o)
    BY <1>2, <2>3, <2>4, <2>7
  <2>9. QED
    BY <2>1, <2>5, <2>6, <2>8, BareNow
<1>6. QED
  BY <1>4, <1>5

\* An object leaves the store when all its modules have torn it down.
LEMMA ReportRemoves ==
    ASSUME IInv, NEW r \in reports, Report(r), NEW o \in Obj, Stored(o), ~ Stored(o)',
           NEW m \in Range(Subs(o))
    PROVE  Leaving(o) /\ Done(m, o)
<1>1. o = r.obj /\ Current(r) /\ db \in [Obj -> Object] /\ m \in Modules
  <2>1. db'[o] # db[o]
    BY DEF Stored
  <2>2. QED
    BY <2>1, ReportKeeps, HandlerKinds DEF IInv
<1>2. PICK y \in Object : y = db[o]
  BY <1>1
<1>3. PICK s : s = [y.st EXCEPT ![r.mod] = IF r.ok THEN "Success" ELSE "Error"]
  OBVIOUS
<1>4. PICK u : u = Updated(r)
  OBVIOUS
<1>5. u.oper = y.oper /\ u.st = s
  <2>1. PICK t : t = IF r.table = NoTable THEN y.table ELSE r.table
    OBVIOUS
  <2>2. u = [y EXCEPT !.st[r.mod] = IF r.ok THEN "Success" ELSE "Error",
                      !.table = IF r.table = NoTable THEN @ ELSE r.table]
    BY <1>1, <1>2, <1>4 DEF Updated
  <2>3. y = [oper |-> y.oper, ver |-> y.ver, st |-> y.st, table |-> y.table]
    BY <1>2 DEF Object
  <2>4. u = [oper |-> y.oper, ver |-> y.ver, st |-> s, table |-> t]
    BY <1>3, <2>1, <2>2, <2>3
  <2>5. QED
    BY <2>4
<1>6. PICK up : up = [u EXCEPT !.oper = "Up"]
  OBVIOUS
<1>7. up.oper = "Up"
  <2>1. PICK t : u = [oper |-> y.oper, ver |-> y.ver, st |-> s, table |-> t]
    <3>1. PICK t : t = IF r.table = NoTable THEN y.table ELSE r.table
      OBVIOUS
    <3>2. u = [y EXCEPT !.st[r.mod] = IF r.ok THEN "Success" ELSE "Error",
                        !.table = IF r.table = NoTable THEN @ ELSE r.table]
      BY <1>1, <1>2, <1>4 DEF Updated
    <3>3. y = [oper |-> y.oper, ver |-> y.ver, st |-> y.st, table |-> y.table]
      BY <1>2 DEF Object
    <3>4. u = [oper |-> y.oper, ver |-> y.ver, st |-> s, table |-> t]
      BY <1>3, <3>1, <3>2, <3>3
    <3>5. QED
      BY <3>4
  <2>2. up = [oper |-> "Up", ver |-> y.ver, st |-> s, table |-> t]
    BY <1>6, <2>1
  <2>3. QED
    BY <2>2
<1>8. PICK gone : db' = [db EXCEPT ![o] = IF ~ AllSuccess(u, o) THEN u ELSE IF Leaving(o) THEN gone ELSE up]
  BY <1>1, <1>4, <1>6 DEF Report
<1>9. db'[o] = IF ~ AllSuccess(u, o) THEN u ELSE IF Leaving(o) THEN gone ELSE up
  BY <1>1, <1>8
<1>10. u.oper # "Absent" /\ db'[o].oper = "Absent"
  BY <1>2, <1>5 DEF Stored
<1>11. AllSuccess(u, o) /\ Leaving(o)
  BY <1>7, <1>9, <1>10
<1>12. u.st[m] = "Success"
  BY <1>11 DEF AllSuccess, Range
<1>13. y.st \in [Modules -> {"Pending", "Success", "Error"}]
  BY <1>2 DEF Object
<1>14. CASE m = r.mod
  <2>1. r.ok
    BY <1>1, <1>3, <1>5, <1>12, <1>13, <1>14
  <2>2. QED
    BY <1>1, <1>11, <1>14, <2>1 DEF Done, Current
<1>15. CASE m # r.mod
  <2>1. db[o].st[m] = "Success"
    BY <1>1, <1>2, <1>3, <1>5, <1>12, <1>13, <1>15
  <2>2. QED
    BY <1>11, <2>1 DEF Done
<1>16. QED
  BY <1>14, <1>15

LEMMA GoneStep ==
    ASSUME NamesDiffer, IInv, IInv', RefsInv, Known, Known', VrfFirst, GrdHasNoTable, GoneInv, [Next]_vars
    PROVE  GoneInv'
<1>1. ASSUME host' = host
      PROVE  \A part \in Parts : \A x : Has(host', part, x) =>
                Has(host, part, x) \/ (part = "links" /\ \E b \in Bp : x = Port(b))
  BY <1>1
<1>2. ASSUME NEW o \in Obj, Create(o) PROVE GoneInv'
  <2>1. /\ Wanted(o)' /\ \A p \in Obj : p # o => db'[p] = db[p]
        /\ spoilt \subseteq spoilt' /\ host' = host /\ ids' = ids /\ reports' = reports
    BY <1>2, CreateIs
  <2>2. ASSUME NEW p \in Obj, NEW m \in Range(Subs(p)), Over(m, p)' PROVE Over(m, p)
    <3>1. p # o
      BY <2>1, <2>2 DEF Over, Wanted
    <3>2. db'[p] = db[p]
      BY <2>1, <3>1
    <3>3. QED
      BY <2>1, <2>2, <3>2 DEF Over, Stored, Leaving, Done
  <2>3. QED
    BY <1>1, <2>1, <2>2, GoneKept
<1>3. ASSUME NEW o \in Obj, Delete(o) PROVE GoneInv'
  <2>1. /\ Stored(o) /\ Leaving(o)' /\ db'[o].ver = db[o].ver + 1
        /\ \A m \in Modules : db'[o].st[m] # "Success"
        /\ \A p \in Obj : p # o => db'[p] = db[p]
        /\ spoilt' = spoilt /\ host' = host /\ ids' = ids /\ reports' = reports
    BY <1>3, DeleteIs
  <2>2. ASSUME NEW p \in Obj, NEW m \in Range(Subs(p)), Over(m, p)' PROVE Over(m, p)
    <3>1. ASSUME p = o PROVE FALSE
      <4>1. Done(m, o)' /\ m \in Modules
        BY <2>1, <2>2, <3>1, HandlerKinds DEF Over, Stored, Leaving
      <4>2. db'[o].st[m] = "Success"
        BY <2>1, <4>1, NotYetDone
      <4>3. QED
        BY <2>1, <4>1, <4>2
    <3>2. db'[p] = db[p]
      BY <2>1, <3>1
    <3>3. QED
      BY <2>1, <2>2, <3>2 DEF Over, Stored, Leaving, Done
  <2>3. QED
    BY <1>1, <2>1, <2>2, GoneKept
<1>4. ASSUME NEW o \in Obj, NEW m \in Modules, Handle(m, o) PROVE GoneInv'
  BY <1>4, GoneHandle
<1>5. ASSUME NEW r \in reports, Report(r) PROVE GoneInv'
  <2>1. ids' = ids /\ spoilt' = spoilt /\ host' = host
    BY <1>5, ReportIs
  <2>2. ASSUME NEW p \in Obj, NEW m \in Range(Subs(p)), Over(m, p)' PROVE Over(m, p)
    <3>1. CASE Stored(p) /\ ~ Stored(p)'
      BY <1>5, <3>1, ReportRemoves DEF Over
    <3>2. CASE Stored(p)'
      <4>1. Leaving(p)' /\ Done(m, p)' /\ m \in Modules
        BY <2>2, <3>2, HandlerKinds DEF Over
      <4>2. Leaving(p) /\ Done(m, p)
        BY <1>5, <3>2, <4>1, ReportKeeps, ReportDone
      <4>3. QED
        BY <4>2 DEF Over
    <3>3. CASE ~ Stored(p)
      BY <3>3 DEF Over
    <3>4. QED
      BY <3>1, <3>2, <3>3
  <2>3. QED
    BY <1>1, <2>1, <2>2, GoneKept
<1>6. ASSUME NEW r \in reports, Empties(r) PROVE GoneInv'
  <2>1. ids' = ids /\ spoilt' = spoilt
    BY <1>6 DEF Empties, Restarted, AsksForReplay
  <2>2. \A part \in Parts : \A x : Has(host', part, x) => Has(host, part, x)
    <3>1. IsHost(host) /\ host' = [host EXCEPT !.conf = {}]
      BY <1>6 DEF Empties, Restarted, IInv, HostOK
    <3>2. host' = [links |-> host.links, up |-> host.up, addr |-> host.addr, master |-> host.master,
                   vlans |-> host.vlans, tables |-> host.tables, throw |-> host.throw, conf |-> {}]
      BY <3>1 DEF IsHost
    <3>3. /\ host'.links = host.links /\ host'.up = host.up /\ host'.addr = host.addr
          /\ host'.master = host.master /\ host'.vlans = host.vlans
          /\ host'.tables = host.tables /\ host'.throw = host.throw /\ host'.conf = {}
      BY <3>2
    <3>4. QED
      BY <3>3 DEF Has
  <2>3. ASSUME NEW p \in Obj, NEW m \in Range(Subs(p)), Over(m, p)' PROVE Over(m, p)
    <3>1. db'[p] = db[p] \/ (Stored(p)' /\ Stored(p) /\ (Leaving(p)' <=> Leaving(p)))
      BY <1>6, ReplayIs
    <3>2. Stored(p)' = Stored(p) /\ (Leaving(p)' <=> Leaving(p))
      BY <3>1 DEF Stored, Leaving
    <3>3. m \in Modules
      BY HandlerKinds
    <3>4. Done(m, p)' => Done(m, p)
      BY <1>6, <3>3, ReplayDone
    <3>5. QED
      BY <2>3, <3>2, <3>4 DEF Over
  <2>4. QED
    BY <2>1, <2>2, <2>3, GoneKept
<1>7. ASSUME NEW r \in reports, ReplayFails(r) PROVE GoneInv'
  <2>1. db' = db /\ host' = host /\ ids' = ids /\ spoilt' = spoilt /\ reports' \subseteq reports
    BY <1>7 DEF ReplayFails, AsksForReplay
  <2>2. \A p \in Obj : \A m \in Range(Subs(p)) : Over(m, p)' => Over(m, p)
    BY <2>1 DEF Over, Stored, Leaving, Done
  <2>3. QED
    BY <1>1, <2>1, <2>2, GoneKept
<1>8. ASSUME NEW b \in Bp, Plug(b) PROVE GoneInv'
  <2>1. db' = db /\ ids' = ids /\ spoilt' = spoilt /\ reports' = reports
    BY <1>8 DEF Plug
  <2>2. \A part \in Parts : \A x : Has(host', part, x) =>
           Has(host, part, x) \/ (part = "links" /\ \E c \in Bp : x = Port(c))
    <3>1. IsHost(host) /\ host' = [host EXCEPT !.links = @ \cup {Port(b)}]
      BY <1>8 DEF Plug, IInv, HostOK
    <3>2. host' = [links |-> host.links \cup {Port(b)}, up |-> host.up, addr |-> host.addr,
                   master |-> host.master, vlans |-> host.vlans, tables |-> host.tables,
                   throw |-> host.throw, conf |-> host.conf]
      BY <3>1 DEF IsHost
    <3>3. /\ host'.links = host.links \cup {Port(b)} /\ host'.up = host.up /\ host'.addr = host.addr
          /\ host'.master = host.master /\ host'.vlans = host.vlans
          /\ host'.tables = host.tables /\ host'.throw = host.throw /\ host'.conf = host.conf
      BY <3>2
    <3>4. QED
      BY <3>3 DEF Has
  <2>3. \A p \in Obj : \A m \in Range(Subs(p)) : Over(m, p)' => Over(m, p)
    BY <2>1 DEF Over, Stored, Leaving, Done
  <2>4. QED
    BY <2>1, <2>2, <2>3, GoneKept
<1>9. ASSUME UNCHANGED vars PROVE GoneInv'
  <2>1. db' = db /\ host' = host /\ ids' = ids /\ spoilt' = spoilt /\ reports' = reports
    BY <1>9 DEF vars
  <2>2. \A p \in Obj : \A m \in Range(Subs(p)) : Over(m, p)' => Over(m, p)
    BY <2>1 DEF Over, Stored, Leaving, Done
  <2>3. QED
    BY <1>1, <2>1, <2>2, GoneKept
<1>10. QED
  BY <1>2, <1>3, <1>4, <1>5, <1>6, <1>7, <1>8, <1>9, ReplaysEmpty DEF Next

\* At the start there are the tenant bridge and the plugged ports.
LEMMA InitGone ==
    ASSUME NamesDiffer, Init
    PROVE  Known /\ VrfFirst /\ GrdHasNoTable /\ GoneInv
<1>1. /\ host.links = {Tenant} \cup {Port(b) : b \in Plugged} /\ host.up = {Tenant}
      /\ host.addr = {} /\ host.master = {} /\ host.vlans = {} /\ host.tables = {}
      /\ host.throw = {} /\ host.conf = {}
  <2>1. host = EmptyHost
    BY DEF Init
  <2>2. QED
    BY <2>1 DEF EmptyHost
<1>2. ids = [v \in Vrf |-> 0] /\ reports = {}
  BY DEF Init
<1>3. \A v \in Vrf : ids[v] = 0
  BY <1>2
<1>4. \A o \in Obj : ~ Stored(o)
  <2>1. ASSUME NEW o \in Obj PROVE ~ Stored(o)
    <3>1. db[o] = [oper |-> "Absent", ver |-> 0, st |-> Fresh, table |-> NoTable]
      BY DEF Init
    <3>2. db[o].oper = "Absent"
      BY <3>1
    <3>3. QED
      BY <3>2 DEF Stored
  <2>2. QED
    BY <2>1
<1>5. \A n \in host.links : n = Tenant \/ \E b \in Bp : b \in Obj /\ n = Port(b)
  BY <1>1, DevicesAssumption DEF Obj
<1>6. \A b \in Bp : LinksOf(b) = {Port(b)}
  BY DevicesAssumption DEF LinksOf
<1>7. Known
  <2>1. LinksKnown
    BY <1>5, <1>6 DEF LinksKnown
  <2>2. ConfKnown /\ ThrowKnown
    BY <1>1 DEF ConfKnown, ThrowKnown
  <2>3. TableKnown
    BY <1>2, <1>4 DEF TableKnown, Obj, Vpn
  <2>4. QED
    BY <2>1, <2>2, <2>3 DEF Known
<1>8. VrfFirst
  <2>1. ASSUME NEW v \in Vrf PROVE BrLink(v) \notin host.links /\ VxlanLink(v) \notin host.links
    BY <1>5 DEF Tenant, Port, BrLink, VxlanLink
  <2>2. QED
    BY <1>1, <2>1 DEF VrfFirst
<1>9. GrdHasNoTable
  BY <1>3 DEF GrdHasNoTable
<1>10. GoneInv
  <2>1. SUFFICES ASSUME NEW o \in Obj, NEW m \in Range(Subs(o)), NEW part \in Parts, NEW x,
                        Left(m, o, NumberOf(o), part, x), Has(host, part, x)
                 PROVE  FALSE
    BY DEF GoneInv, Bare
  <2>2. part \in {"links", "up"}
    BY <1>1, <2>1 DEF Has
  <2>3. CASE part = "up"
    <3>1. x = Port(o)
      BY <2>1, <2>3 DEF Left
    <3>2. x = Tenant
      BY <1>1, <2>1, <2>3 DEF Has
    <3>3. QED
      BY <3>1, <3>2 DEF Port, Tenant
  <2>4. CASE part = "links"
    <3>1. o \notin Bp /\ x \in NamesOf(o)
      BY <2>1, <2>4 DEF Left
    <3>2. x \in host.links
      BY <2>1, <2>4 DEF Has
    <3>3. x # Tenant
      BY <3>1, NamesOfDiffer
    <3>4. PICK b \in Bp : b \in Obj /\ x = Port(b)
      BY <1>5, <3>2, <3>3
    <3>5. x \in LinksOf(b)
      BY <1>6, <3>4
    <3>6. o = b
      BY <3>1, <3>4, <3>5, NamesOfDiffer
    <3>7. QED
      BY <3>1, <3>6
  <2>5. QED
    BY <2>2, <2>3, <2>4
<1>11. QED
  BY <1>7, <1>8, <1>9, <1>10

LEMMA GoneInductive ==
    NamesDiffer => (Spec => [](IInv /\ RefsInv /\ Known /\ VrfFirst /\ GrdHasNoTable /\ GoneInv))
<1> SUFFICES ASSUME NamesDiffer
             PROVE  Spec => [](IInv /\ RefsInv /\ Known /\ VrfFirst /\ GrdHasNoTable /\ GoneInv)
  OBVIOUS
<1>1. Init => Known /\ VrfFirst /\ GrdHasNoTable /\ GoneInv
  BY InitGone
<1>2. /\ IInv /\ IInv' /\ RefsInv /\ [Next]_vars
      /\ Known /\ VrfFirst /\ GrdHasNoTable /\ GoneInv
      => (Known /\ VrfFirst /\ GrdHasNoTable /\ GoneInv)'
  <2>1. SUFFICES ASSUME IInv, IInv', RefsInv, [Next]_vars, Known, VrfFirst, GrdHasNoTable, GoneInv
                 PROVE  Known' /\ VrfFirst' /\ GrdHasNoTable' /\ GoneInv'
    OBVIOUS
  <2>2. Known'
    BY <2>1, KnownStep
  <2>3. VrfFirst' /\ GrdHasNoTable'
    BY <2>1, VrfFirstStep
  <2>4. GoneInv'
    BY <2>1, <2>2, GoneStep
  <2>5. QED
    BY <2>2, <2>3, <2>4
<1>3. QED
  BY <1>1, <1>2, RefsInductive, PTL DEF Spec

LEMMA BareIsGone ==
    ASSUME NEW o \in Obj, \A m \in Range(Subs(o)) : Bare(m, o)
    PROVE  ~ LeftOver(o)
<1>1. /\ o \in Lb => o \notin Bp \cup Vrf \cup Svi
      /\ o \in Vrf => o \notin Bp \cup Lb \cup Svi
      /\ o \in Svi => o \notin Bp \cup Vrf \cup Lb
      /\ o \in Bp => o \notin Lb \cup Vrf \cup Svi
  BY DevicesAssumption
<1>2. /\ o \notin Bp => Bare("lgm", o)
      /\ o \in Vrf \cup Svi => Bare("frr", o)
      /\ o \in Bp => Bare("lci", o)
  BY <1>1 DEF Range, Subs, Obj, Vpn
<1>3. ASSUME o \in Lb PROVE VlanLink(o) \notin host.links
  <2>1. Left("lgm", o, NumberOf(o), "links", VlanLink(o)) /\ "links" \in Parts
    BY <1>1, <1>3 DEF Left, NamesOf, Parts
  <2>2. QED
    BY <1>1, <1>2, <1>3, <2>1 DEF Bare, Has
<1>4. ASSUME o \in Vrf
      PROVE  /\ {VrfLink(o), BrLink(o), VxlanLink(o)} \cap host.links = {}
             /\ ids[o] \notin host.throw
             /\ {<<"vni", o>>, <<"bgp", o>>} \cap host.conf = {}
  <2>1. \A n \in {VrfLink(o), BrLink(o), VxlanLink(o)} : Left("lgm", o, NumberOf(o), "links", n)
    BY <1>1, <1>4 DEF Left, NamesOf
  <2>2. Left("lgm", o, NumberOf(o), "throw", ids[o])
    BY <1>4 DEF Left, NumberOf
  <2>3. \A i \in {<<"vni", o>>, <<"bgp", o>>} : Left("frr", o, NumberOf(o), "conf", i)
    BY <1>4 DEF Left
  <2>4. "links" \in Parts /\ "throw" \in Parts /\ "conf" \in Parts
    BY DEF Parts
  <2>5. Bare("lgm", o) /\ Bare("frr", o)
    BY <1>1, <1>2, <1>4
  <2>6. \A n \in {VrfLink(o), BrLink(o), VxlanLink(o)} : n \notin host.links
    BY <2>1, <2>4, <2>5 DEF Bare, Has
  <2>7. ids[o] \notin host.throw
    BY <2>2, <2>4, <2>5 DEF Bare, Has
  <2>8. \A i \in {<<"vni", o>>, <<"bgp", o>>} : i \notin host.conf
    BY <2>3, <2>4, <2>5 DEF Bare, Has
  <2>9. QED
    BY <2>6, <2>7, <2>8
<1>5. ASSUME o \in Svi
      PROVE  /\ SviLink(o) \notin host.links
             /\ <<Tenant, VlanOf[LbOf[o]]>> \notin host.vlans
             /\ Neighbor(o) \notin host.conf
  <2>1. Left("lgm", o, NumberOf(o), "links", SviLink(o))
    BY <1>1, <1>5 DEF Left, NamesOf
  <2>2. Left("lgm", o, NumberOf(o), "vlans", <<Tenant, VlanOf[LbOf[o]]>>)
    BY <1>5 DEF Left, TenantVlan
  <2>3. Left("frr", o, NumberOf(o), "conf", Neighbor(o))
    BY <1>5 DEF Left
  <2>4. "links" \in Parts /\ "vlans" \in Parts /\ "conf" \in Parts
    BY DEF Parts
  <2>5. Bare("lgm", o) /\ Bare("frr", o)
    BY <1>1, <1>2, <1>5
  <2>6. QED
    BY <2>1, <2>2, <2>3, <2>4, <2>5 DEF Bare, Has
<1>6. ASSUME o \in Bp
      PROVE  /\ Port(o) \notin host.up
             /\ \A p \in host.master : p[1] # Port(o)
             /\ \A p \in host.vlans : p[1] # Port(o)
  <2>1. Left("lci", o, NumberOf(o), "up", Port(o))
    BY <1>6 DEF Left
  <2>2. \A p : p[1] = Port(o) => /\ Left("lci", o, NumberOf(o), "master", p)
                                 /\ Left("lci", o, NumberOf(o), "vlans", p)
    BY <1>6 DEF Left
  <2>3. "up" \in Parts /\ "master" \in Parts /\ "vlans" \in Parts
    BY DEF Parts
  <2>4. Bare("lci", o)
    BY <1>2, <1>6
  <2>5. QED
    BY <2>1, <2>2, <2>3, <2>4 DEF Bare, Has
<1>7. QED
  BY <1>1, <1>3, <1>4, <1>5, <1>6 DEF LeftOver

\* Where bridges have different VLANs, a bridge is named by one SVI only, and no
\* SVI with BGP is on the global routing domain: an object that has left the
\* store has left no link, no route and no configuration on the host, wherever
\* its set-up stopped and however often its tear-down was tried, unless a failed
\* look-up was taken for absence.
THEOREM GoneLeavesNoTrace == NamesDiffer => (Spec => []GoneWithoutTrace)
<1> SUFFICES ASSUME NamesDiffer PROVE Spec => []GoneWithoutTrace
  OBVIOUS
<1>1. GoneInv => GoneWithoutTrace
  <2>1. SUFFICES ASSUME GoneInv, NEW o \in Obj, ~ Stored(o), Sound(o)
                 PROVE  ~ LeftOver(o)
    BY DEF GoneWithoutTrace
  <2>2. \A m \in Range(Subs(o)) : Bare(m, o)
    BY <2>1 DEF GoneInv, Over
  <2>3. QED
    BY <2>2, BareIsGone
<1>2. QED
  BY <1>1, GoneInductive, PTL
=============================================================================
