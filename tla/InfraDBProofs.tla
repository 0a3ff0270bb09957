---------------------------- MODULE InfraDBProofs ----------------------------
(* Proofs about InfraDB, for any objects, VNIs, addresses and bounds.        *)
EXTENDS InfraDB, TLAPS

\* Steps that leave the store alone.
Quiet ==
    /\ UNCHANGED <<db, vpns, index, found, faults, spoilt>>
    /\ tasks' \subseteq tasks
    /\ updates' = 0 => updates = 0

\* The steps that write to the store.
CreateVpnStep == \E c \in calls, k \in 0 .. 3 : c.obj \in Vpn /\ CreateVpn(c, k)
CreateSviStep == \E c \in calls, k \in 0 .. 4 : c.op = "Create" /\ CreateSvi(c, k)
CreateBPStep  == \E c \in calls, D \in SUBSET Lb, k \in 0 .. 2 : c.op = "Create" /\ CreateBP(c, D, k)
UpdateStep    == \E c \in calls, k \in 0 .. 1 : Update(c, k)
DeleteStep    == \E c \in calls, k \in 0 .. 1 : Delete(c, k)
SetUpStep     == \E o \in Obj : SetUp(o)
VpnGoneStep   == \E o \in Obj, k \in 1 .. 3 : VpnGone(o, k)
SviGoneStep   == \E s \in Obj, k \in 1 .. 4 : SviGone(s, k)
BpGoneStep    == \E b \in Obj, D \in SUBSET Lb, k \in 0 .. 2 : BpGone(b, D, k)

StoreStep ==
    \/ CreateVpnStep \/ CreateSviStep \/ CreateBPStep
    \/ UpdateStep \/ DeleteStep
    \/ SetUpStep \/ VpnGoneStep \/ SviGoneStep \/ BpGoneStep

-----------------------------------------------------------------------------
(* Facts about the operators                                                 *)

(* What a call in flight holds (gRPC requests).                              *)
LEMMA CallFacts ==
    ASSUME TypeOK, NEW c \in calls
    PROVE  /\ c.op \in {"Create", "Update", "Delete"}
           /\ c.obj \in Obj /\ c.vni \in Vni \cup {NoVni} /\ c.mac \in Mac \cup {NoMac}
           /\ c.refs \in SUBSET Vpn
  BY DEF TypeOK, Requests, Removal, Obj, Vpn

(* An SVI is asked for with a VRF and a logical bridge.                      *)
LEMMA SviCall ==
    ASSUME TypeOK, NEW c \in calls, c.op = "Create", c.obj \in Svi
    PROVE  \E v \in Vrf, l \in Lb : c.refs = {v, l}
  <1>1. c \in [op : {"Create"}, obj : Svi, vni : {NoVni}, mac : {NoMac},
               refs : {{v, l} : v \in Vrf, l \in Lb}]
    BY NamesAssumption DEF TypeOK, Requests, Removal, Obj, Vpn
  <1> QED BY <1>1

(* A bridge port is asked for with its address.                              *)
LEMMA BPCall ==
    ASSUME TypeOK, NEW c \in calls, c.op = "Create", c.obj \in Bp
    PROVE  c.mac \in Mac /\ c.refs \subseteq Lb
  <1>1. c \in [op : {"Create"}, obj : Bp, vni : {NoVni}, mac : Mac, refs : SUBSET Lb]
    BY NamesAssumption DEF TypeOK, Requests, Removal, Obj, Vpn
  <1> QED BY <1>1

(* Kinds of objects are disjoint.                                            *)
LEMMA Kinds ==
    /\ Vrf \cap Lb = {} /\ Vpn \cap Svi = {} /\ Vpn \cap Bp = {} /\ Svi \cap Bp = {}
    /\ Obj = Vpn \cup Svi \cup Bp /\ Vrf \subseteq Vpn /\ Lb \subseteq Vpn
  BY NamesAssumption DEF Obj, Vpn

(* A function whose writes are not all done has met a store error.           *)
LEMMA WritesFacts ==
    ASSUME TypeOK, NEW k \in Nat, NEW n \in Nat, Writes(k, n)
    PROVE  /\ k <= n /\ faults' \in Nat
           /\ faults' = 0 => k = n /\ faults = 0
  BY DEF Writes, TypeOK

(* What is built from a call is an object that is down and has no users.     *)
LEMMA NewFacts ==
    ASSUME TypeOK, NEW c \in calls
    PROVE  New(c) \in Object /\ New(c).oper = "Down" /\ New(c).users = {} /\ New(c).macs = {}
  BY CallFacts DEF New, Object, Oper

(* What is left of a deleted object is an object like any other.             *)
LEMMA AbsentFacts == Absent \in Object
  BY DEF Absent, Object, Oper

(* Every step leaves the store alone or is one of the nine that write.       *)
LEMMA NextSteps ==
    ASSUME TypeOK, [Next]_vars
    PROVE  Quiet \/ StoreStep
  <1>1. CASE UNCHANGED vars
    BY <1>1 DEF vars, Quiet
  <1>2. CASE Lookup
    <2>1. updates \in Nat
      BY DEF TypeOK
    <2> QED BY <1>2, <2>1 DEF Lookup, LookupForCreate, LookupForUpdate, LookupForDelete, InFlight, Quiet
  <1>3. ASSUME NEW c \in calls, CallStep(c)
        PROVE  Quiet \/ StoreStep
    <2>1. CASE CreateStep(c)
      <3>1. CASE CreateRefused(c)
        BY <3>1 DEF CreateRefused, Refused, Answered, Quiet
      <3>2. CASE \E k \in 0 .. 3 : CreateVrf(c, k) \/ CreateLB(c, k)
        BY <3>2 DEF CreateVrf, CreateLB, StoreStep, CreateVpnStep, Vpn
      <3>3. CASE \E k \in 0 .. 4 : CreateSvi(c, k)
        BY <2>1, <3>3 DEF CreateStep, StoreStep, CreateSviStep
      <3>4. CASE \E D \in SUBSET Lb, k \in 0 .. 2 : CreateBP(c, D, k)
        BY <2>1, <3>4 DEF CreateStep, StoreStep, CreateBPStep
      <3> QED BY <2>1, <3>1, <3>2, <3>3, <3>4 DEF CreateStep
    <2>2. CASE \E k \in 0 .. 1 : Update(c, k)
      BY <2>2 DEF StoreStep, UpdateStep
    <2>3. CASE \E k \in 0 .. 1 : Delete(c, k)
      BY <2>3 DEF StoreStep, DeleteStep
    <2>4. CASE DeleteRefused(c)
      BY <2>4 DEF DeleteRefused, Refused, Answered, Quiet
    <2> QED BY <1>3, <2>1, <2>2, <2>3, <2>4 DEF CallStep
  <1>4. ASSUME NEW o \in Obj, StatusStep(o)
        PROVE  Quiet \/ StoreStep
    <2>1. CASE Dropped(o)
      BY <2>1 DEF Dropped, Quiet
    <2> QED BY <1>4, <2>1 DEF StatusStep, StoreStep, SetUpStep, VpnGoneStep, SviGoneStep, BpGoneStep
  <1> QED BY <1>1, <1>2, <1>3, <1>4 DEF Next

-----------------------------------------------------------------------------
(* Types                                                                     *)

(* The contents of the store keep their types.                               *)
StoreTyped ==
    /\ db \in [Obj -> Object]
    /\ vpns \subseteq Vni
    /\ index \subseteq Obj /\ tasks \subseteq Obj /\ spoilt \subseteq Vpn
    /\ found \subseteq {"vpns", "vrfs", "lbs", "svis", "bps"}
    /\ faults \in Nat

CallsTyped ==
    /\ calls \subseteq Requests("Create") \cup Requests("Update") \cup {Removal(o) : o \in Obj}
    /\ ops \in Nat /\ updates \in Nat

(* Calls in flight stay requests and removals (the gRPC look-ups).         *)
LEMMA CallsTypedStep ==
    ASSUME TypeOK, [Next]_vars
    PROVE  CallsTyped'
  <1> USE DEF TypeOK, CallsTyped
  <1>1. CASE UNCHANGED vars
    BY <1>1 DEF vars, Requests, Removal
  <1>2. CASE Lookup
    <2>1. ASSUME NEW c \in Requests("Create"), LookupForCreate(c)
          PROVE  CallsTyped'
      BY <2>1 DEF LookupForCreate, InFlight
    <2>2. ASSUME NEW c \in Requests("Update"), LookupForUpdate(c)
          PROVE  CallsTyped'
      BY <2>2 DEF LookupForUpdate, InFlight
    <2>3. ASSUME NEW o \in Obj, LookupForDelete(o)
          PROVE  CallsTyped'
      BY <2>3 DEF LookupForDelete, InFlight
    <2> QED BY <1>2, <2>1, <2>2, <2>3 DEF Lookup
  <1>3. ASSUME NEW c \in calls, CallStep(c)
        PROVE  CallsTyped'
    <2>1. Answered(c)
      BY <1>3 DEF CallStep, CreateStep, CreateVrf, CreateLB, CreateVpn, CreateSvi, CreateBP,
                  CreateRefused, Update, Delete, DeleteRefused, Refused
    <2> QED BY <2>1 DEF Answered
  <1>4. ASSUME NEW o \in Obj, StatusStep(o)
        PROVE  CallsTyped'
    <2>1. UNCHANGED <<calls, ops, updates>>
      BY <1>4 DEF StatusStep, SetUp, VpnGone, SviGone, BpGone, Dropped, Finishes
    <2> QED BY <2>1
  <1> QED BY <1>1, <1>2, <1>3, <1>4 DEF Next

(* An object with some fields replaced by values of their types.             *)
LEMMA ObjectFields ==
    ASSUME NEW r \in Object
    PROVE  /\ \A x \in Oper : [r EXCEPT !.oper = x] \in Object
           /\ \A x \in SUBSET (Svi \cup Bp) : [r EXCEPT !.users = x] \in Object
           /\ \A x \in SUBSET (Svi \cup Bp), y \in SUBSET (Mac \X Bp) :
                 [r EXCEPT !.users = x, !.macs = y] \in Object
           /\ \A x \in SUBSET Vpn : [r EXCEPT !.refs = x] \in Object
           /\ r.users \in SUBSET (Svi \cup Bp) /\ r.macs \in SUBSET (Mac \X Bp)
           /\ r.refs \in SUBSET Vpn /\ r.oper \in Oper
           /\ r.vni \in Vni \cup {NoVni} /\ r.mac \in Mac \cup {NoMac}
  BY DEF Object

\* What CreateSvi writes, object by object.
SviAdded(c, k, v, l) ==
    /\ c.obj \in Svi /\ v \in Vrf /\ l \in Lb /\ c.refs = {v, l}
    /\ Stored(v) /\ Stored(l) /\ c.obj \notin db[v].users
    /\ db' = [o \in Obj |-> db'[o]]
    /\ db'[v] = IF k >= 1 THEN [db[v] EXCEPT !.users = @ \cup {c.obj}] ELSE db[v]
    /\ db'[l] = IF k >= 2 THEN [db[l] EXCEPT !.users = @ \cup {c.obj}] ELSE db[l]
    /\ db'[c.obj] = IF k >= 3 THEN New(c) ELSE db[c.obj]
    /\ \A o \in Obj \ {v, l, c.obj} : db'[o] = db[o]
    /\ k >= 2 => TakesSvi(l, c.obj)
    /\ Writes(k, IF TakesSvi(l, c.obj) THEN 4 ELSE 1)
    /\ spoilt' = spoilt \cup {o \in (IF k >= 1 THEN {v} ELSE {}) \cup (IF k >= 2 THEN {l} ELSE {}) : Leaving(o)}

(* CreateSvi writes the VRF, then the bridge, then the SVI.                  *)
LEMMA CreateSviFacts ==
    ASSUME TypeOK, NEW c \in calls, c.op = "Create", NEW k \in 0 .. 4, CreateSvi(c, k)
    PROVE  \E v, l \in Vpn : SviAdded(c, k, v, l)
  <1> USE Kinds
  <1>1. c.obj \in Svi
    BY DEF CreateSvi
  <1>2. PICK v \in c.refs \cap Vrf, l \in c.refs \cap Lb :
          /\ Stored(v) /\ Stored(l) /\ TakesSvi(v, c.obj)
          /\ db' = [db EXCEPT ![v].users = IF k >= 1 THEN @ \cup {c.obj} ELSE @,
                              ![l].users = IF k >= 2 THEN @ \cup {c.obj} ELSE @,
                              ![c.obj]   = IF k >= 3 THEN New(c) ELSE @]
          /\ Writes(k, IF TakesSvi(l, c.obj) THEN 4 ELSE 1)
          /\ Spoil({o \in (IF k >= 1 THEN {v} ELSE {}) \cup (IF k >= 2 THEN {l} ELSE {}) : Leaving(o)})
    BY DEF CreateSvi
  <1>3. c.refs = {v, l}
    BY <1>1, SviCall
  <1>4. v # l /\ c.obj # v /\ c.obj # l
    BY <1>1
  <1>5. db \in [Obj -> Object] /\ v \in Obj /\ l \in Obj /\ c.obj \in Obj
    BY <1>1 DEF TypeOK
  <1>6. c.obj \notin db[v].users
    BY <1>2 DEF TakesSvi
  <1>7. k >= 2 => TakesSvi(l, c.obj)
    BY <1>2 DEF Writes
  <1>8. /\ db' = [o \in Obj |-> db'[o]]
        /\ db'[c.obj] = IF k >= 3 THEN New(c) ELSE db[c.obj]
        /\ \A o \in Obj \ {v, l, c.obj} : db'[o] = db[o]
    BY <1>2, <1>4, <1>5
  <1>9. db'[v] = IF k >= 1 THEN [db[v] EXCEPT !.users = @ \cup {c.obj}] ELSE db[v]
    <2>1. db'[v] = [db[v] EXCEPT !.users = IF k >= 1 THEN @ \cup {c.obj} ELSE @]
      BY <1>2, <1>4, <1>5
    <2>2. db[v] = [db[v] EXCEPT !.users = @]
      BY <1>5 DEF Object
    <2> QED BY <2>1, <2>2
  <1>10. db'[l] = IF k >= 2 THEN [db[l] EXCEPT !.users = @ \cup {c.obj}] ELSE db[l]
    <2>1. db'[l] = [db[l] EXCEPT !.users = IF k >= 2 THEN @ \cup {c.obj} ELSE @]
      BY <1>2, <1>4, <1>5
    <2>2. db[l] = [db[l] EXCEPT !.users = @]
      BY <1>5 DEF Object
    <2> QED BY <2>1, <2>2
  <1> QED BY <1>1, <1>2, <1>3, <1>6, <1>7, <1>8, <1>9, <1>10 DEF SviAdded, Spoil

\* What UpdateSviStatus writes when the SVI is gone.
SviRemoved(s, k, v, l) ==
    /\ s \in Svi /\ v \in db[s].refs \cap Vrf /\ l \in db[s].refs \cap Lb
    /\ db' = [o \in Obj |-> db'[o]]
    /\ db'[v] = [db[v] EXCEPT !.users = @ \ {s}]
    /\ db'[l] = IF k >= 2 THEN [db[l] EXCEPT !.users = @ \ {s}] ELSE db[l]
    /\ db'[s] = IF k >= 3 THEN Absent ELSE db[s]
    /\ \A o \in Obj \ {v, l, s} : db'[o] = db[o]
    /\ Writes(k, IF s \in db[l].users THEN Reached(s, 4) ELSE 1)

(* UpdateSviStatus writes the VRF, then the bridge, then the SVI.          *)
LEMMA SviGoneFacts ==
    ASSUME TypeOK, NEW s \in Obj, NEW k \in 1 .. 4, SviGone(s, k)
    PROVE  \E v, l \in Vpn : SviRemoved(s, k, v, l)
  <1> USE Kinds
  <1>1. s \in Svi
    BY DEF SviGone
  <1>2. PICK v \in db[s].refs \cap Vrf, l \in db[s].refs \cap Lb :
          /\ db' = [db EXCEPT ![v].users = @ \ {s},
                              ![l].users = IF k >= 2 THEN @ \ {s} ELSE @,
                              ![s]       = IF k >= 3 THEN Absent ELSE @]
          /\ Writes(k, IF s \in db[l].users THEN Reached(s, 4) ELSE 1)
    BY DEF SviGone
  <1>3. v # l /\ s # v /\ s # l
    BY <1>1
  <1>4. db \in [Obj -> Object] /\ v \in Obj /\ l \in Obj
    BY DEF TypeOK
  <1>5. /\ db' = [o \in Obj |-> db'[o]]
        /\ db'[v] = [db[v] EXCEPT !.users = @ \ {s}]
        /\ db'[s] = IF k >= 3 THEN Absent ELSE db[s]
        /\ \A o \in Obj \ {v, l, s} : db'[o] = db[o]
    BY <1>2, <1>3, <1>4
  <1>6. db'[l] = IF k >= 2 THEN [db[l] EXCEPT !.users = @ \ {s}] ELSE db[l]
    <2>1. db'[l] = [db[l] EXCEPT !.users = IF k >= 2 THEN @ \ {s} ELSE @]
      BY <1>2, <1>3, <1>4
    <2>2. db[l] = [db[l] EXCEPT !.users = @]
      BY <1>4 DEF Object
    <2> QED BY <2>1, <2>2
  <1> QED BY <1>1, <1>2, <1>5, <1>6 DEF SviRemoved

(* The functions that write to the store keep the types of its contents.   *)
LEMMA StoreTypedStep ==
    ASSUME TypeOK, StoreStep
    PROVE  StoreTyped'
  <1> USE Kinds
  <1>1. ASSUME NEW c \in calls, NEW k \in 0 .. 3, c.obj \in Vpn, CreateVpn(c, k)
        PROVE  StoreTyped'
    <2>1. db' \in [Obj -> Object]
      BY <1>1, NewFacts DEF CreateVpn, TypeOK
    <2>2. vpns' \subseteq Vni /\ index' \subseteq Obj
      BY <1>1, CallFacts DEF CreateVpn, TypeOK
    <2>3. found' \subseteq {"vpns", "vrfs", "lbs", "svis", "bps"}
      BY <1>1 DEF CreateVpn, TypeOK, MapOf
    <2>4. tasks' \subseteq Obj
      BY <1>1, CallFacts DEF CreateVpn, Announced, TypeOK
    <2>5. faults' \in Nat
      BY <1>1, WritesFacts DEF CreateVpn
    <2>6. spoilt' \subseteq Vpn
      BY <1>1 DEF CreateVpn, Spoil, TypeOK
    <2> QED BY <2>1, <2>2, <2>3, <2>4, <2>5, <2>6 DEF StoreTyped
  <1>2. ASSUME NEW c \in calls, NEW k \in 0 .. 4, c.op = "Create", CreateSvi(c, k)
        PROVE  StoreTyped'
    <2>1. PICK v \in Vpn, l \in Vpn : SviAdded(c, k, v, l)
      BY <1>2, CreateSviFacts
    <2>2. \A o \in Obj : db'[o] \in Object
      <3>1. db[v] \in Object /\ db[l] \in Object /\ v # l /\ c.obj # v /\ c.obj # l
        BY <2>1 DEF TypeOK, SviAdded
      <3>2. db'[v] \in Object /\ db'[l] \in Object
        <4>1. /\ [db[v] EXCEPT !.users = @ \cup {c.obj}] \in Object
              /\ [db[l] EXCEPT !.users = @ \cup {c.obj}] \in Object
          BY <2>1, <3>1 DEF SviAdded, Object
        <4> QED BY <2>1, <3>1, <4>1 DEF SviAdded
      <3>3. db'[c.obj] \in Object
        BY <2>1, NewFacts DEF TypeOK, SviAdded
      <3> QED BY <2>1, <3>2, <3>3 DEF TypeOK, SviAdded
    <2>3. db' \in [Obj -> Object]
      BY <2>1, <2>2 DEF SviAdded
    <2>4. vpns' \subseteq Vni /\ index' \subseteq Obj
          /\ found' \subseteq {"vpns", "vrfs", "lbs", "svis", "bps"}
      BY <1>2 DEF CreateSvi, TypeOK
    <2>5. tasks' \subseteq Obj
      BY <1>2, CallFacts DEF CreateSvi, Announced, TypeOK
    <2>6. faults' \in Nat
      BY <2>1, WritesFacts DEF SviAdded
    <2>7. spoilt' \subseteq Vpn
      BY <2>1 DEF SviAdded, TypeOK
    <2> QED BY <2>3, <2>4, <2>5, <2>6, <2>7 DEF StoreTyped
  <1>3. ASSUME NEW c \in calls, NEW D \in SUBSET Lb, NEW k \in 0 .. 2,
               c.op = "Create", CreateBP(c, D, k)
        PROVE  StoreTyped'
    <2> DEFINE Took(o) == [db[o] EXCEPT !.users = @ \cup {c.obj}, !.macs = @ \cup {<<c.mac, c.obj>>}]
    <2>1. db' \in [Obj -> Object]
      <3>1. c.mac \in Mac /\ c.obj \in Bp
        BY <1>3, BPCall DEF CreateBP
      <3>2. \A o \in D : Took(o) \in Object
        <4>1. ASSUME NEW o \in D
              PROVE  Took(o) \in Object
          <5>1. db[o] \in Object
            BY DEF TypeOK
          <5>2. /\ db[o].users \cup {c.obj} \subseteq Svi \cup Bp
                /\ db[o].macs \cup {<<c.mac, c.obj>>} \subseteq Mac \X Bp
            BY <3>1, <5>1 DEF Object
          <5> QED BY <5>1, <5>2 DEF Object
        <4> QED BY <4>1
      <3>3. [New(c) EXCEPT !.refs = D] \in Object
        BY NewFacts, ObjectFields
      <3> QED BY <1>3, <3>2, <3>3 DEF CreateBP, TypeOK
    <2>2. vpns' \subseteq Vni /\ index' \subseteq Obj
          /\ found' \subseteq {"vpns", "vrfs", "lbs", "svis", "bps"}
      BY <1>3 DEF CreateBP, TypeOK
    <2>4. tasks' \subseteq Obj
      BY <1>3, CallFacts DEF CreateBP, Announced, TypeOK
    <2>5. faults' \in Nat
      <3>1. UNCHANGED faults \/ Writes(k, 2) \/ Writes(0, 1)
        BY <1>3 DEF CreateBP
      <3> QED BY <3>1 DEF Writes, TypeOK
    <2>6. spoilt' \subseteq Vpn
      BY <1>3 DEF CreateBP, Spoil, TypeOK
    <2> QED BY <2>1, <2>2, <2>4, <2>5, <2>6 DEF StoreTyped
  <1>4. ASSUME NEW c \in calls, NEW k \in 0 .. 1, Update(c, k)
        PROVE  StoreTyped'
    <2>1. db' \in [Obj -> Object]
      BY <1>4, NewFacts, CallFacts DEF Update, TypeOK
    <2>4. tasks' \subseteq Obj
      BY <1>4, CallFacts DEF Update, Announced, TypeOK
    <2>5. faults' \in Nat
      BY <1>4, WritesFacts DEF Update
    <2>6. spoilt' \subseteq Vpn
      BY <1>4, CallFacts DEF Update, Spoil, TypeOK
    <2> QED BY <1>4, <2>1, <2>4, <2>5, <2>6 DEF StoreTyped, Update, TypeOK
  <1>5. ASSUME NEW c \in calls, NEW k \in 0 .. 1, Delete(c, k)
        PROVE  StoreTyped'
    <2>1. db' \in [Obj -> Object]
      <3>1. c.obj \in Obj /\ db[c.obj] \in Object
        BY CallFacts DEF TypeOK
      <3>2. [db[c.obj] EXCEPT !.oper = "ToBeDeleted"] \in Object
        BY <3>1 DEF Object, Oper
      <3> QED BY <1>5, <3>1, <3>2 DEF Delete, TypeOK
    <2>4. tasks' \subseteq Obj
      BY <1>5, CallFacts DEF Delete, Announced, TypeOK
    <2>5. faults' \in Nat
      BY <1>5, WritesFacts DEF Delete
    <2> QED BY <1>5, <2>1, <2>4, <2>5 DEF StoreTyped, Delete, TypeOK
  <1>6. ASSUME NEW o \in Obj, SetUp(o)
        PROVE  StoreTyped'
    <2>1. db' \in [Obj -> Object]
      <3>1. [db[o] EXCEPT !.oper = "Up"] \in Object
        BY DEF TypeOK, Object, Oper
      <3> QED BY <1>6, <3>1 DEF SetUp, TypeOK
    <2> QED BY <1>6, <2>1 DEF StoreTyped, SetUp, Finishes, Done, TypeOK
  <1>7. ASSUME NEW o \in Obj, NEW k \in 1 .. 3, VpnGone(o, k)
        PROVE  StoreTyped'
    <2>1. db' \in [Obj -> Object]
      BY <1>7, AbsentFacts DEF VpnGone, TypeOK
    <2>2. faults' \in Nat
      BY <1>7 DEF VpnGone, Writes, TypeOK
    <2> QED BY <1>7, <2>1, <2>2 DEF StoreTyped, VpnGone, Unlisted, Done, TypeOK, Finishes
  <1>8. ASSUME NEW s \in Obj, NEW k \in 1 .. 4, SviGone(s, k)
        PROVE  StoreTyped'
    <2>1. PICK v \in Vpn, l \in Vpn : SviRemoved(s, k, v, l)
      BY <1>8, SviGoneFacts
    <2>2. \A o \in Obj : db'[o] \in Object
      <3>1. db[v] \in Object /\ db[l] \in Object /\ v # l /\ s # v /\ s # l
        BY <2>1 DEF TypeOK, SviRemoved
      <3>2. db'[v] \in Object /\ db'[l] \in Object
        <4>1. /\ [db[v] EXCEPT !.users = @ \ {s}] \in Object
              /\ [db[l] EXCEPT !.users = @ \ {s}] \in Object
          BY <2>1, <3>1 DEF SviRemoved, Object
        <4> QED BY <2>1, <3>1, <4>1 DEF SviRemoved
      <3> QED BY <2>1, <3>2, AbsentFacts DEF TypeOK, SviRemoved
    <2>3. db' \in [Obj -> Object]
      BY <2>1, <2>2 DEF SviRemoved
    <2>4. faults' \in Nat
      BY <2>1 DEF SviRemoved, Writes, TypeOK
    <2>5. db[s].refs \subseteq Vpn
      BY ObjectFields DEF TypeOK
    <2> QED BY <1>8, <2>3, <2>4, <2>5 DEF StoreTyped, SviGone, Unlisted, Done, TypeOK, Finishes, Spoil
  <1>9. ASSUME NEW b \in Obj, NEW D \in SUBSET Lb, NEW k \in 0 .. 2, BpGone(b, D, k)
        PROVE  StoreTyped'
    <2>1. db' \in [Obj -> Object]
      <3>1. \A o \in D : [db[o] EXCEPT !.users = @ \ {b}, !.macs = @ \ ({db[b].mac} \X Bp)] \in Object
        <4> SUFFICES ASSUME NEW o \in D
                     PROVE  [db[o] EXCEPT !.users = @ \ {b}, !.macs = @ \ ({db[b].mac} \X Bp)] \in Object
          OBVIOUS
        <4>1. db[o] \in Object
          BY DEF TypeOK
        <4> QED BY <4>1 DEF Object
      <3> QED BY <1>9, <3>1, AbsentFacts DEF BpGone, TypeOK
    <2>2. faults' \in Nat
      <3>1. UNCHANGED faults \/ Writes(k, Reached(b, 2)) \/ Writes(0, 1)
        BY <1>9 DEF BpGone
      <3> QED BY <3>1 DEF Writes, TypeOK
    <2> QED BY <1>9, <2>1, <2>2 DEF StoreTyped, BpGone, Unlisted, Done, TypeOK, Finishes, Spoil
  <1> QED BY <1>1, <1>2, <1>3, <1>4, <1>5, <1>6, <1>7, <1>8, <1>9
          DEF StoreStep, CreateVpnStep, CreateSviStep, CreateBPStep, UpdateStep, DeleteStep,
              SetUpStep, VpnGoneStep, SviGoneStep, BpGoneStep

(* The empty store has the types.                                          *)
LEMMA TypeInit == Init => TypeOK
  BY AbsentFacts DEF Init, TypeOK

(* Every step keeps the types of the store and of the calls.               *)
LEMMA TypeStep ==
    ASSUME TypeOK, [Next]_vars
    PROVE  TypeOK'
  <1>1. StoreTyped'
    <2>1. CASE Quiet
      BY <2>1 DEF Quiet, StoreTyped, TypeOK
    <2> QED BY <2>1, NextSteps, StoreTypedStep
  <1>2. CallsTyped'
    BY CallsTypedStep
  <1> QED BY <1>1, <1>2 DEF StoreTyped, CallsTyped, TypeOK

-----------------------------------------------------------------------------
(* What the steps on SVIs and bridge ports change, field by field            *)

\* An object gets or loses a user and is otherwise as it was, its references
\* and its table of addresses apart.
Takes(o, u) ==
    /\ db'[o].oper = db[o].oper /\ db'[o].vni = db[o].vni
    /\ db'[o].users = db[o].users \cup {u}

Loses(o, u) ==
    /\ db'[o].oper = db[o].oper /\ db'[o].vni = db[o].vni
    /\ db'[o].users = db[o].users \ {u}

(* A new SVI changes its VRF's and its bridge's users, and itself.           *)
LEMMA SviAddedFields ==
    ASSUME TypeOK, NEW c \in calls, NEW k \in 0 .. 4, NEW v \in Vpn, NEW l \in Vpn,
           SviAdded(c, k, v, l)
    PROVE  /\ v # l /\ c.obj # v /\ c.obj # l /\ c.obj \in Obj /\ v \in Obj /\ l \in Obj
           /\ k >= 1 => Takes(v, c.obj) /\ db'[v].macs = db[v].macs
           /\ k >= 2 => Takes(l, c.obj) /\ db'[l].macs = db[l].macs
           /\ k >= 3 => db'[c.obj] = New(c)
           /\ k < 1 => db'[v] = db[v]
           /\ k < 2 => db'[l] = db[l]
           /\ k < 3 => db'[c.obj] = db[c.obj]
  <1>1. db[v] \in Object /\ db[l] \in Object /\ v # l /\ c.obj # v /\ c.obj # l
        /\ c.obj \in Obj /\ v \in Obj /\ l \in Obj
    BY Kinds DEF TypeOK, SviAdded
  <1>2. ASSUME NEW o \in {v, l}, db'[o] = [db[o] EXCEPT !.users = @ \cup {c.obj}]
        PROVE  Takes(o, c.obj) /\ db'[o].macs = db[o].macs
    BY <1>1, <1>2 DEF Takes, Object
  <1>3. k >= 1 => db'[v] = [db[v] EXCEPT !.users = @ \cup {c.obj}]
    BY DEF SviAdded
  <1>4. k >= 2 => db'[l] = [db[l] EXCEPT !.users = @ \cup {c.obj}]
    BY DEF SviAdded
  <1> QED BY <1>1, <1>2, <1>3, <1>4 DEF SviAdded

(* An SVI that goes changes its VRF's and its bridge's users, and itself.    *)
LEMMA SviRemovedFields ==
    ASSUME TypeOK, NEW s \in Obj, NEW k \in 1 .. 4, NEW v \in Vpn, NEW l \in Vpn,
           SviRemoved(s, k, v, l)
    PROVE  /\ v # l /\ s # v /\ s # l /\ v \in Obj /\ l \in Obj
           /\ Loses(v, s) /\ db'[v].macs = db[v].macs
           /\ k >= 2 => Loses(l, s) /\ db'[l].macs = db[l].macs
           /\ k < 2 => db'[l] = db[l]
  <1>1. db[v] \in Object /\ db[l] \in Object /\ v # l /\ s # v /\ s # l /\ v \in Obj /\ l \in Obj
    BY Kinds DEF TypeOK, SviRemoved
  <1>2. ASSUME NEW o \in {v, l}, db'[o] = [db[o] EXCEPT !.users = @ \ {s}]
        PROVE  Loses(o, s) /\ db'[o].macs = db[o].macs
    BY <1>1, <1>2 DEF Loses, Object
  <1>3. db'[v] = [db[v] EXCEPT !.users = @ \ {s}]
    BY DEF SviRemoved
  <1>4. k >= 2 => db'[l] = [db[l] EXCEPT !.users = @ \ {s}]
    BY DEF SviRemoved
  <1> QED BY <1>1, <1>2, <1>3, <1>4 DEF SviRemoved

(* The fields of an object.                                                  *)
LEMMA ObjectRecord ==
    ASSUME NEW r \in Object
    PROVE  r = [oper |-> r.oper, vni |-> r.vni, mac |-> r.mac, refs |-> r.refs,
                users |-> r.users, macs |-> r.macs]
  BY DEF Object

(* A new bridge port changes the users and addresses of bridges that had     *)
(* neither it nor its address, and itself.                                   *)
LEMMA CreateBPFields ==
    ASSUME TypeOK, NEW c \in calls, NEW D \in SUBSET Lb, NEW k \in 0 .. 2,
           c.op = "Create", CreateBP(c, D, k)
    PROVE  /\ c.obj \in Bp /\ c.mac \in Mac
           /\ \A l \in D : /\ Stored(l) /\ c.obj \notin db[l].users
                           /\ ~\E x \in Bp : <<c.mac, x>> \in db[l].macs
                           /\ Takes(l, c.obj)
                           /\ db'[l].macs = db[l].macs \cup {<<c.mac, c.obj>>}
           /\ \/ k >= 1 /\ db'[c.obj].oper = "Down" /\ db'[c.obj].mac = c.mac /\ db'[c.obj].refs = D
              \/ k = 0 /\ db'[c.obj] = db[c.obj]
           /\ \A o \in Obj \ (D \cup {c.obj}) : db'[o] = db[o]
           /\ spoilt' = spoilt \cup {l \in D : Leaving(l)}
  <1> USE Kinds
  <1>1. c.obj \in Bp /\ c.mac \in Mac
    BY BPCall DEF CreateBP
  <1>2. db' = [o \in Obj |->
                 IF o \in D THEN [db[o] EXCEPT !.users = @ \cup {c.obj},
                                               !.macs = @ \cup {<<c.mac, c.obj>>}]
                 ELSE IF o = c.obj /\ k >= 1 THEN [New(c) EXCEPT !.refs = D]
                 ELSE db[o]]
    BY DEF CreateBP
  <1>3. \A l \in D : Stored(l) /\ TakesPort(l, c.obj, c.mac)
    BY DEF CreateBP
  <1>4. ASSUME NEW l \in D
        PROVE  Takes(l, c.obj) /\ db'[l].macs = db[l].macs \cup {<<c.mac, c.obj>>}
    <2>1. db[l] \in Object
      BY DEF TypeOK
    <2>2. db'[l] = [db[l] EXCEPT !.users = @ \cup {c.obj}, !.macs = @ \cup {<<c.mac, c.obj>>}]
      BY <1>2
    <2>3. /\ db'[l].oper = db[l].oper /\ db'[l].vni = db[l].vni
          /\ db'[l].users = db[l].users \cup {c.obj}
          /\ db'[l].macs = db[l].macs \cup {<<c.mac, c.obj>>}
      <3>1. db[l] = [oper |-> db[l].oper, vni |-> db[l].vni, mac |-> db[l].mac, refs |-> db[l].refs,
                     users |-> db[l].users, macs |-> db[l].macs]
        BY <2>1, ObjectRecord
      <3>2. db'[l] = [oper |-> db[l].oper, vni |-> db[l].vni, mac |-> db[l].mac, refs |-> db[l].refs,
                      users |-> db[l].users \cup {c.obj},
                      macs |-> db[l].macs \cup {<<c.mac, c.obj>>}]
        BY ONLY <2>2, <3>1
      <3> QED BY ONLY <3>2
    <2> QED BY <2>3 DEF Takes
  <1>5. spoilt' = spoilt \cup {l \in D : Leaving(l)}
    BY DEF CreateBP, Spoil
  <1>6. c.obj \in Obj \ D
    BY <1>1
  <1>7. /\ \/ k >= 1 /\ db'[c.obj].oper = "Down" /\ db'[c.obj].mac = c.mac /\ db'[c.obj].refs = D
           \/ k = 0 /\ db'[c.obj] = db[c.obj]
        /\ \A o \in Obj \ (D \cup {c.obj}) : db'[o] = db[o]
    <2>1. ASSUME NEW o \in Obj, o \notin D
          PROVE  db'[o] = IF o = c.obj /\ k >= 1 THEN [New(c) EXCEPT !.refs = D] ELSE db[o]
      BY <1>2, <2>1
    <2>2. k = 0 \/ k >= 1
      OBVIOUS
    <2>3. [New(c) EXCEPT !.refs = D] = [oper |-> "Down", vni |-> c.vni, mac |-> c.mac, refs |-> D,
                                        users |-> {}, macs |-> {}]
      BY DEF New
    <2>4. k >= 1 => db'[c.obj] = [oper |-> "Down", vni |-> c.vni, mac |-> c.mac, refs |-> D,
                                  users |-> {}, macs |-> {}]
      BY <1>6, <2>1, <2>3
    <2> QED BY <1>6, <2>1, <2>2, <2>4
  <1> QED BY <1>1, <1>3, <1>4, <1>5, <1>7 DEF TakesPort

(* A bridge port that goes changes the users and addresses of its bridges,   *)
(* and itself after all of them.                                             *)
LEMMA BpGoneFields ==
    ASSUME TypeOK, NEW b \in Obj, NEW D \in SUBSET Lb, NEW k \in 0 .. 2, BpGone(b, D, k)
    PROVE  /\ b \in Bp /\ D \subseteq db[b].refs
           /\ k >= 1 => D = db[b].refs
           /\ \A l \in D : /\ Loses(l, b)
                           /\ db'[l].macs = db[l].macs \ ({db[b].mac} \X Bp)
           /\ k >= 1 => db'[b] = Absent
           /\ k < 1 => db'[b] = db[b]
           /\ \A o \in Obj \ (D \cup {b}) : db'[o] = db[o]
           /\ spoilt' = IF k = 0 THEN spoilt \cup D ELSE spoilt
  <1> USE Kinds
  <1>1. b \in Bp /\ D \subseteq db[b].refs /\ (k >= 1 => D = db[b].refs)
    <2>1. b \in Bp /\ D \subseteq db[b].refs
      BY DEF BpGone
    <2>2. D # db[b].refs => k = 0
      BY DEF BpGone
    <2> QED BY <2>1, <2>2
  <1>2. db' = [o \in Obj |->
                 IF o \in D THEN [db[o] EXCEPT !.users = @ \ {b},
                                               !.macs = @ \ ({db[b].mac} \X Bp)]
                 ELSE IF o = b /\ k >= 1 THEN Absent
                 ELSE db[o]]
    BY DEF BpGone
  <1>3. ASSUME NEW l \in D
        PROVE  Loses(l, b) /\ db'[l].macs = db[l].macs \ ({db[b].mac} \X Bp)
    <2>1. db[l] \in Object
      BY DEF TypeOK
    <2>2. db'[l] = [db[l] EXCEPT !.users = @ \ {b}, !.macs = @ \ ({db[b].mac} \X Bp)]
      BY <1>2
    <2>3. /\ db'[l].oper = db[l].oper /\ db'[l].vni = db[l].vni
          /\ db'[l].users = db[l].users \ {b}
          /\ db'[l].macs = db[l].macs \ ({db[b].mac} \X Bp)
      <3>1. db[l] = [oper |-> db[l].oper, vni |-> db[l].vni, mac |-> db[l].mac, refs |-> db[l].refs,
                     users |-> db[l].users, macs |-> db[l].macs]
        BY <2>1, ObjectRecord
      <3>2. db'[l] = [oper |-> db[l].oper, vni |-> db[l].vni, mac |-> db[l].mac, refs |-> db[l].refs,
                      users |-> db[l].users \ {b},
                      macs |-> db[l].macs \ ({db[b].mac} \X Bp)]
        BY ONLY <2>2, <3>1
      <3> QED BY ONLY <3>2
    <2> QED BY <2>3 DEF Loses
  <1>4. spoilt' = IF k = 0 THEN spoilt \cup D ELSE spoilt
    BY DEF BpGone, Spoil
  <1>5. b \in Obj \ D
    BY <1>1
  <1>6. /\ k >= 1 => db'[b] = Absent
        /\ k < 1 => db'[b] = db[b]
        /\ \A o \in Obj \ (D \cup {b}) : db'[o] = db[o]
    <2>1. ASSUME NEW o \in Obj, o \notin D
          PROVE  db'[o] = IF o = b /\ k >= 1 THEN Absent ELSE db[o]
      BY <1>2, <2>1
    <2> QED BY <1>5, <2>1
  <1> QED BY <1>1, <1>3, <1>4, <1>6

-----------------------------------------------------------------------------
(* What CreateX announces is listed                                          *)

(* Only the look-up of an update brings a call for an update, and counts it.*)
LEMMA UpdatesCountedStep ==
    ASSUME TypeOK, UpdatesCounted, [Next]_vars
    PROVE  UpdatesCounted'
  <1> USE DEF UpdatesCounted
  <1>0. updates \in Nat
    BY DEF TypeOK
  <1>1. CASE UNCHANGED vars
    BY <1>1 DEF vars
  <1>2. CASE Lookup
    <2>1. ASSUME NEW c \in Requests("Create"), LookupForCreate(c)
          PROVE  UpdatesCounted'
      BY <2>1 DEF LookupForCreate, InFlight, Requests
    <2>2. ASSUME NEW c \in Requests("Update"), LookupForUpdate(c)
          PROVE  UpdatesCounted'
      BY <1>0, <2>2 DEF LookupForUpdate
    <2>3. ASSUME NEW o \in Obj, LookupForDelete(o)
          PROVE  UpdatesCounted'
      BY <2>3 DEF LookupForDelete, InFlight, Removal
    <2> QED BY <1>2, <2>1, <2>2, <2>3 DEF Lookup
  <1>3. ASSUME NEW c \in calls, CallStep(c)
        PROVE  UpdatesCounted'
    <2>1. Answered(c)
      BY <1>3 DEF CallStep, CreateStep, CreateVrf, CreateLB, CreateVpn, CreateSvi, CreateBP,
                  CreateRefused, Update, Delete, DeleteRefused, Refused
    <2> QED BY <2>1 DEF Answered
  <1>4. ASSUME NEW o \in Obj, StatusStep(o)
        PROVE  UpdatesCounted'
    <2>1. UNCHANGED <<calls, updates>>
      BY <1>4 DEF StatusStep, SetUp, VpnGone, SviGone, BpGone, Dropped, Finishes
    <2> QED BY <2>1
  <1> QED BY <1>1, <1>2, <1>3, <1>4 DEF Next

(* CreateX writes the map of names before CreateTask, UpdateXStatus the    *)
(* object before its map: no task is for an object that is not listed.     *)
LEMMA AnnouncedStep ==
    ASSUME TypeOK, UpdatesCounted, AnnouncedIsListed, StoreStep
    PROVE  AnnouncedIsListed'
  <1> USE Kinds
  <1> USE DEF AnnouncedIsListed, Stored, Leaving, Announced, Done
  <1>0. db \in [Obj -> Object] /\ tasks \subseteq Obj
    BY DEF TypeOK
  <1>1. ASSUME NEW c \in calls, NEW k \in 0 .. 3, c.obj \in Vpn, CreateVpn(c, k)
        PROVE  AnnouncedIsListed'
    BY <1>0, <1>1 DEF CreateVpn, Answered
  <1>2. ASSUME NEW c \in calls, NEW k \in 0 .. 4, c.op = "Create", CreateSvi(c, k)
        PROVE  AnnouncedIsListed'
    <2>1. PICK v \in Vpn, l \in Vpn : SviAdded(c, k, v, l)
      BY <1>2, CreateSviFacts
    <2>2. \A o \in Obj : o # c.obj \/ k < 3 => db'[o].oper = db[o].oper
      BY <2>1, SviAddedFields DEF SviAdded, Takes
    <2>3. Announced(c.obj, k, 3, 4) /\ updates' = updates
          /\ index' = IF k >= 4 THEN index \cup {c.obj} ELSE index
      BY <1>2 DEF CreateSvi, Answered
    <2> QED BY <1>0, <2>2, <2>3
  <1>3. ASSUME NEW c \in calls, NEW D \in SUBSET Lb, NEW k \in 0 .. 2,
               c.op = "Create", CreateBP(c, D, k)
        PROVE  AnnouncedIsListed'
    <2>1. \A o \in Obj : o # c.obj \/ k = 0 => db'[o].oper = db[o].oper
      <3>1. \A l \in D : db'[l].oper = db[l].oper
        <4>1. \A l \in D : Takes(l, c.obj)
          BY <1>3, CreateBPFields
        <4> QED BY <4>1 DEF Takes
      <3>2. \A o \in Obj \ (D \cup {c.obj}) : db'[o] = db[o]
        BY <1>3, CreateBPFields
      <3>3. k = 0 => db'[c.obj] = db[c.obj]
        BY <1>3, CreateBPFields
      <3> QED BY <3>1, <3>2, <3>3
    <2>2. Announced(c.obj, k, 1, 2) /\ updates' = updates
          /\ index' = IF k >= 2 THEN index \cup {c.obj} ELSE index
      BY <1>3 DEF CreateBP, Answered
    <2> QED BY <1>0, <2>1, <2>2
  <1>4. ASSUME NEW c \in calls, NEW k \in 0 .. 1, Update(c, k)
        PROVE  AnnouncedIsListed'
    BY <1>4 DEF Update, Answered, UpdatesCounted
  <1>5. ASSUME NEW c \in calls, NEW k \in 0 .. 1, Delete(c, k)
        PROVE  AnnouncedIsListed'
    <2>1. db[c.obj] \in Object /\ c.obj \in Obj
      BY <1>0, CallFacts
    <2>2. [db[c.obj] EXCEPT !.oper = "ToBeDeleted"].oper = "ToBeDeleted"
      BY <2>1 DEF Object
    <2> QED BY <1>0, <1>5, <2>1, <2>2 DEF Delete, Answered
  <1>6. ASSUME NEW o \in Obj, SetUp(o)
        PROVE  AnnouncedIsListed'
    BY <1>0, <1>6 DEF SetUp, Finishes
  <1>7. ASSUME NEW o \in Obj, NEW k \in 1 .. 3, VpnGone(o, k)
        PROVE  AnnouncedIsListed'
    BY <1>0, <1>7 DEF VpnGone, Finishes, Unlisted, Absent
  <1>8. ASSUME NEW s \in Obj, NEW k \in 1 .. 4, SviGone(s, k)
        PROVE  AnnouncedIsListed'
    <2>1. PICK v \in Vpn, l \in Vpn : SviRemoved(s, k, v, l)
      BY <1>8, SviGoneFacts
    <2>2. /\ \A o \in Obj : o # s \/ k < 3 => db'[o].oper = db[o].oper
          /\ k >= 3 => db'[s].oper = "Absent"
      BY <2>1, SviRemovedFields DEF SviRemoved, Loses, Absent
    <2>3. Leaving(s) /\ tasks' \subseteq tasks /\ updates' = updates
          /\ index' = IF k >= 4 THEN index \ {s} ELSE index
      BY <1>8 DEF SviGone, Finishes, Unlisted
    <2> QED BY <1>0, <2>2, <2>3
  <1>9. ASSUME NEW b \in Obj, NEW D \in SUBSET Lb, NEW k \in 0 .. 2, BpGone(b, D, k)
        PROVE  AnnouncedIsListed'
    <2>1. /\ \A o \in Obj : o # b \/ k < 1 => db'[o].oper = db[o].oper
          /\ k >= 1 => db'[b].oper = "Absent"
      BY <1>9, BpGoneFields DEF Loses, Absent
    <2>2. Leaving(b) /\ tasks' \subseteq tasks /\ updates' = updates
          /\ index' = IF k >= 2 THEN index \ {b} ELSE index
      BY <1>9 DEF BpGone, Finishes, Unlisted
    <2> QED BY <1>0, <2>1, <2>2
  <1> QED BY <1>1, <1>2, <1>3, <1>4, <1>5, <1>6, <1>7, <1>8, <1>9
          DEF StoreStep, CreateVpnStep, CreateSviStep, CreateBPStep, UpdateStep, DeleteStep,
              SetUpStep, VpnGoneStep, SviGoneStep, BpGoneStep

-----------------------------------------------------------------------------
(* References                                                                *)

(* CreateSvi and CreateBP write a reference into what it refers to first, and*)
(* DeleteX refuses what is in use: references hold unless they are spoilt. *)
LEMMA ReferencesStep ==
    ASSUME TypeOK, RefersToStored, LeavingUnused, StoreStep
    PROVE  RefersToStored' /\ LeavingUnused'
  <1> DEFINE Goal == RefersToStored' /\ LeavingUnused'
  <1> USE Kinds
  <1>0. /\ db \in [Obj -> Object] /\ spoilt \subseteq Vpn
        /\ \A o \in Obj : db[o].refs \subseteq Vpn
    BY ObjectFields DEF TypeOK
  <1>1. ASSUME NEW c \in calls, NEW k \in 0 .. 3, c.obj \in Vpn, CreateVpn(c, k)
        PROVE  Goal
    <2>1. /\ spoilt' = spoilt \cup (IF k >= 1 /\ Stored(c.obj) THEN {c.obj} ELSE {})
          /\ db' = IF k >= 1 THEN [db EXCEPT ![c.obj] = New(c)] ELSE db
      BY <1>1 DEF CreateVpn, Spoil
    <2>2. \A u \in Svi \cup Bp : db'[u] = db[u]
      BY <1>0, <1>1, <2>1
    <2>3. \A o \in Vpn \ spoilt' :
             \/ db'[o] = db[o]
             \/ ~Stored(o) /\ db'[o].oper = "Down" /\ db'[o].users = {}
      BY <1>0, <2>1, NewFacts
    <2>4. \A o \in Vpn \ spoilt' : o \notin spoilt
      BY <2>1
    <2>5. RefersToStored'
      BY <1>0, <2>2, <2>3, <2>4 DEF RefersToStored, Stored
    <2>6. LeavingUnused'
      BY <2>3, <2>4 DEF LeavingUnused, Leaving
    <2> QED BY <2>5, <2>6
  <1>2. ASSUME NEW c \in calls, NEW k \in 0 .. 4, c.op = "Create", CreateSvi(c, k)
        PROVE  Goal
    <2>1. PICK v \in Vpn, l \in Vpn : SviAdded(c, k, v, l)
      BY <1>2, CreateSviFacts
    <2>2. \A o \in Vpn : db'[o].oper = db[o].oper /\ db[o].users \subseteq db'[o].users
      BY <2>1, SviAddedFields DEF SviAdded, Takes
    <2>3. \A u \in (Svi \cup Bp) \ {c.obj} : db'[u] = db[u]
      BY <2>1, SviAddedFields DEF SviAdded
    <2>4. \/ db'[c.obj] = db[c.obj]
          \/ /\ db'[c.obj].refs = {v, l} /\ Stored(v) /\ Stored(l)
             /\ c.obj \in db'[v].users /\ c.obj \in db'[l].users
      BY <2>1, SviAddedFields DEF SviAdded, Takes, New
    <2>5. \A o \in Vpn : \/ db'[o].users = db[o].users
                         \/ Leaving(o) => o \in spoilt'
      BY <2>1, SviAddedFields DEF SviAdded
    <2>6. \A o \in Vpn \ spoilt' : o \notin spoilt
      BY <2>1 DEF SviAdded
    <2>7. RefersToStored'
      <3> SUFFICES ASSUME NEW u \in Svi \cup Bp, db'[u].oper # "Absent",
                          NEW o \in db'[u].refs, o \notin spoilt'
                   PROVE  db'[o].oper # "Absent" /\ u \in db'[o].users
        BY DEF RefersToStored, Stored
      <3>1. CASE db'[u] = db[u]
        <4>1. db[o].oper # "Absent" /\ u \in db[o].users /\ o \in Vpn
          BY <1>0, <2>1, <3>1 DEF RefersToStored, Stored, SviAdded
        <4> QED BY <2>2, <4>1
      <3>2. CASE db'[u] # db[u]
        <4>1. u = c.obj /\ o \in {v, l}
          BY <2>3, <2>4, <3>2
        <4> QED BY <2>2, <2>4, <3>2, <4>1 DEF Stored
      <3> QED BY <3>1, <3>2
    <2>8. LeavingUnused'
      BY <2>2, <2>5, <2>6 DEF LeavingUnused, Leaving
    <2> QED BY <2>7, <2>8
  <1>3. ASSUME NEW c \in calls, NEW D \in SUBSET Lb, NEW k \in 0 .. 2,
               c.op = "Create", CreateBP(c, D, k)
        PROVE  Goal
    <2>1. c.obj \in Bp /\ spoilt' = spoilt \cup {l \in D : Leaving(l)}
      BY <1>3, CreateBPFields
    <2>2. \A l \in D : Stored(l) /\ Takes(l, c.obj)
      BY <1>3, CreateBPFields
    <2>3. \A o \in Obj \ (D \cup {c.obj}) : db'[o] = db[o]
      BY <1>3, CreateBPFields
    <2>4. \A o \in Vpn : db'[o].oper = db[o].oper /\ db[o].users \subseteq db'[o].users
      BY <2>1, <2>2, <2>3 DEF Takes
    <2>5. db'[c.obj] = db[c.obj] \/ db'[c.obj].refs = D
      BY <1>3, CreateBPFields
    <2>6. RefersToStored'
      <3> SUFFICES ASSUME NEW u \in Svi \cup Bp, db'[u].oper # "Absent",
                          NEW o \in db'[u].refs, o \notin spoilt'
                   PROVE  db'[o].oper # "Absent" /\ u \in db'[o].users
        BY DEF RefersToStored, Stored
      <3>1. CASE db'[u] = db[u]
        <4>1. db[o].oper # "Absent" /\ u \in db[o].users /\ o \in Vpn
          BY <1>0, <2>1, <3>1 DEF RefersToStored, Stored
        <4> QED BY <2>4, <4>1
      <3>2. CASE db'[u] # db[u]
        <4>1. u = c.obj /\ o \in D
          BY <2>3, <2>5, <3>2
        <4> QED BY <2>2, <4>1 DEF Stored, Takes
      <3> QED BY <3>1, <3>2
    <2>7. LeavingUnused'
      <3> SUFFICES ASSUME NEW o \in Vpn \ spoilt', db'[o].oper = "ToBeDeleted"
                   PROVE  db'[o].users = {}
        BY DEF LeavingUnused, Leaving
      <3>1. o \notin D /\ o \notin spoilt
        BY <2>1, <2>4 DEF Leaving
      <3> QED BY <2>1, <2>3, <3>1 DEF LeavingUnused, Leaving
    <2> QED BY <2>6, <2>7
  <1>4. ASSUME NEW c \in calls, NEW k \in 0 .. 1, Update(c, k)
        PROVE  Goal
    <2>1. c.obj \in Obj
      BY CallFacts
    <2>2. \A o \in Obj : db'[o] = IF o = c.obj /\ k = 1 THEN New(c) ELSE db[o]
      BY <1>0, <1>4, <2>1 DEF Update
    <2>3. /\ \A o \in Vpn \ spoilt' : o \notin spoilt /\ db'[o] = db[o]
          /\ k = 1 => c.refs \subseteq spoilt'
      BY <1>4, <2>2 DEF Update, Spoil
    <2>4. New(c).refs = c.refs
      BY DEF New
    <2>5. RefersToStored'
      BY <1>0, <2>2, <2>3, <2>4 DEF RefersToStored, Stored
    <2>6. LeavingUnused'
      BY <2>3 DEF LeavingUnused, Leaving
    <2> QED BY <2>5, <2>6
  <1>5. ASSUME NEW c \in calls, NEW k \in 0 .. 1, Delete(c, k)
        PROVE  Goal
    <2>1. c.obj \in Obj /\ db[c.obj] \in Object /\ Stored(c.obj) /\ db[c.obj].users = {}
      BY <1>0, <1>5, CallFacts DEF Delete, InUse
    <2>2. /\ \A o \in Obj \ {c.obj} : db'[o] = db[o]
          /\ db'[c.obj] = IF k = 1 THEN [db[c.obj] EXCEPT !.oper = "ToBeDeleted"] ELSE db[c.obj]
      BY <1>0, <1>5, <2>1 DEF Delete
    <2>3. \A o \in Obj : /\ db'[o].refs = db[o].refs /\ db'[o].users = db[o].users
                         /\ db'[o].oper = "Absent" <=> db[o].oper = "Absent"
                         /\ db'[o].oper = "ToBeDeleted" => Leaving(o) \/ db[o].users = {}
      <3> DEFINE r == [db[c.obj] EXCEPT !.oper = "ToBeDeleted"]
      <3>1. r.refs = db[c.obj].refs /\ r.users = db[c.obj].users /\ r.oper = "ToBeDeleted"
        BY <2>1 DEF Object
      <3> QED BY <2>1, <2>2, <3>1 DEF Stored, Leaving
    <2>4. spoilt' = spoilt
      BY <1>5 DEF Delete
    <2>5. RefersToStored'
      BY <1>0, <2>3, <2>4 DEF RefersToStored, Stored
    <2>6. LeavingUnused'
      BY <2>3, <2>4 DEF LeavingUnused, Leaving
    <2> QED BY <2>5, <2>6
  <1>6. ASSUME NEW p \in Obj, SetUp(p)
        PROVE  Goal
    <2>1. db[p] \in Object /\ Stored(p)
      BY <1>0, <1>6 DEF SetUp, Finishes
    <2>2. \A o \in Obj : db'[o] = IF o = p THEN [db[o] EXCEPT !.oper = "Up"] ELSE db[o]
      BY <1>0, <1>6 DEF SetUp
    <2>3. \A o \in Obj : /\ db'[o].refs = db[o].refs /\ db'[o].users = db[o].users
                         /\ db'[o].oper = "Absent" <=> db[o].oper = "Absent"
                         /\ db'[o].oper = "ToBeDeleted" => Leaving(o)
      <3> DEFINE r == [db[p] EXCEPT !.oper = "Up"]
      <3>1. r.refs = db[p].refs /\ r.users = db[p].users /\ r.oper = "Up"
        BY <2>1 DEF Object
      <3>2. db'[p] = r
        BY <2>2
      <3>3. \A o \in Obj \ {p} : db'[o] = db[o]
        BY <2>2
      <3> QED BY <2>1, <3>1, <3>2, <3>3 DEF Stored, Leaving
    <2>4. spoilt' = spoilt
      BY <1>6 DEF SetUp
    <2>5. RefersToStored'
      BY <1>0, <2>3, <2>4 DEF RefersToStored, Stored
    <2>6. LeavingUnused'
      BY <2>3, <2>4 DEF LeavingUnused, Leaving
    <2> QED BY <2>5, <2>6
  <1>7. ASSUME NEW p \in Obj, NEW k \in 1 .. 3, VpnGone(p, k)
        PROVE  Goal
    <2>1. /\ p \in Vpn /\ Leaving(p) /\ spoilt' = spoilt
          /\ db' = [db EXCEPT ![p] = Absent]
      BY <1>7 DEF VpnGone
    <2>2. \A o \in Obj : o # p => db'[o] = db[o]
      BY <1>0, <2>1
    <2>3. db'[p].oper = "Absent"
      BY <1>0, <2>1 DEF Absent
    <2>4. p \in spoilt \/ db[p].users = {}
      BY <2>1 DEF LeavingUnused
    <2>5. RefersToStored'
      <3> SUFFICES ASSUME NEW u \in Svi \cup Bp, db'[u].oper # "Absent",
                          NEW o \in db'[u].refs, o \notin spoilt'
                   PROVE  db'[o].oper # "Absent" /\ u \in db'[o].users
        BY DEF RefersToStored, Stored
      <3>1. u # p /\ db'[u] = db[u]
        BY <2>1, <2>2
      <3>2. db[o].oper # "Absent" /\ u \in db[o].users /\ o \in Vpn
        BY <1>0, <2>1, <3>1 DEF RefersToStored, Stored
      <3>3. o # p
        BY <2>1, <2>4, <3>2
      <3> QED BY <2>2, <3>2, <3>3
    <2>6. LeavingUnused'
      BY <2>1, <2>2, <2>3 DEF LeavingUnused, Leaving
    <2> QED BY <2>5, <2>6
  <1>8. ASSUME NEW s \in Obj, NEW k \in 1 .. 4, SviGone(s, k)
        PROVE  Goal
    <2>1. PICK v \in Vpn, l \in Vpn : SviRemoved(s, k, v, l)
      BY <1>8, SviGoneFacts
    <2>2. \A o \in Vpn : /\ db'[o].oper = db[o].oper
                         /\ db[o].users \ {s} \subseteq db'[o].users
                         /\ db'[o].users \subseteq db[o].users
      BY <2>1, SviRemovedFields DEF SviRemoved, Loses
    <2>3. \A u \in (Svi \cup Bp) \ {s} : db'[u] = db[u]
      BY <2>1, SviRemovedFields DEF SviRemoved
    <2>4. k >= 3 => db'[s].oper = "Absent"
      BY <2>1 DEF SviRemoved, Absent
    <2>5. k < 3 => db'[s] = db[s]
      BY <2>1 DEF SviRemoved
    <2>6. spoilt' = spoilt \cup (IF k < 3 THEN db[s].refs ELSE {})
      BY <1>8 DEF SviGone, Spoil
    <2>7. RefersToStored'
      <3> SUFFICES ASSUME NEW u \in Svi \cup Bp, db'[u].oper # "Absent",
                          NEW o \in db'[u].refs, o \notin spoilt'
                   PROVE  db'[o].oper # "Absent" /\ u \in db'[o].users
        BY DEF RefersToStored, Stored
      <3>1. u # s
        BY <2>4, <2>5, <2>6
      <3>2. db[o].oper # "Absent" /\ u \in db[o].users /\ o \in Vpn
        BY <1>0, <2>3, <2>6, <3>1 DEF RefersToStored, Stored
      <3> QED BY <2>2, <3>1, <3>2
    <2>8. LeavingUnused'
      BY <2>2, <2>6 DEF LeavingUnused, Leaving
    <2> QED BY <2>7, <2>8
  <1>9. ASSUME NEW b \in Obj, NEW D \in SUBSET Lb, NEW k \in 0 .. 2, BpGone(b, D, k)
        PROVE  Goal
    <2>1. /\ b \in Bp /\ D \subseteq db[b].refs
          /\ spoilt' = IF k = 0 THEN spoilt \cup D ELSE spoilt
      BY <1>9, BpGoneFields
    <2>2. \A l \in D : Loses(l, b)
      BY <1>9, BpGoneFields
    <2>3. \A o \in Obj \ (D \cup {b}) : db'[o] = db[o]
      BY <1>9, BpGoneFields
    <2>4. (k >= 1 => db'[b] = Absent) /\ (k < 1 => db'[b] = db[b])
      BY <1>9, BpGoneFields
    <2>5. \A o \in Vpn : /\ db'[o].oper = db[o].oper
                         /\ db[o].users \ {b} \subseteq db'[o].users
                         /\ db'[o].users \subseteq db[o].users
      BY <2>1, <2>2, <2>3 DEF Loses
    <2>6. RefersToStored'
      <3> SUFFICES ASSUME NEW u \in Svi \cup Bp, db'[u].oper # "Absent",
                          NEW o \in db'[u].refs, o \notin spoilt'
                   PROVE  db'[o].oper # "Absent" /\ u \in db'[o].users
        BY DEF RefersToStored, Stored
      <3>1. db'[u] = db[u]
        BY <2>3, <2>4 DEF Absent
      <3>2. db[o].oper # "Absent" /\ u \in db[o].users /\ o \in Vpn
        BY <1>0, <2>1, <3>1 DEF RefersToStored, Stored
      <3>3. CASE u # b
        BY <2>5, <3>2, <3>3
      <3>4. CASE u = b
        <4>1. k = 0 /\ o \notin D
          BY <2>1, <2>4, <3>4 DEF Absent
        <4> QED BY <2>1, <2>3, <3>2, <4>1
      <3> QED BY <3>3, <3>4
    <2>7. LeavingUnused'
      BY <2>1, <2>5 DEF LeavingUnused, Leaving
    <2> QED BY <2>6, <2>7
  <1> QED BY <1>1, <1>2, <1>3, <1>4, <1>5, <1>6, <1>7, <1>8, <1>9
          DEF StoreStep, CreateVpnStep, CreateSviStep, CreateBPStep, UpdateStep, DeleteStep,
              SetUpStep, VpnGoneStep, SviGoneStep, BpGoneStep

-----------------------------------------------------------------------------
(* Addresses                                                                 *)

\* A table of addresses agrees with the bridge ports among the users.
Agrees(M, U) ==
    /\ \A p, q \in M : p[1] = q[1] \/ p[2] = q[2] => p = q
    /\ {p[2] : p \in M} = U \cap Bp

(* AddBridgePort: a new port with a new address.                           *)
LEMMA AgreesAdd ==
    ASSUME NEW M \in SUBSET (Mac \X Bp), NEW U, NEW m \in Mac, NEW b \in Bp,
           Agrees(M, U), b \notin U, ~\E x \in Bp : <<m, x>> \in M
    PROVE  Agrees(M \cup {<<m, b>>}, U \cup {b})
  <1>1. \A p \in M : p[1] # m /\ p[2] # b
    <2> SUFFICES ASSUME NEW p \in M PROVE p[1] # m /\ p[2] # b
      OBVIOUS
    <2>1. PICK a \in Mac, x \in Bp : p = <<a, x>>
      OBVIOUS
    <2>2. p[2] \in U
      BY DEF Agrees
    <2> QED BY <2>1, <2>2
  <1>2. <<m, b>>[1] = m /\ <<m, b>>[2] = b
    OBVIOUS
  <1>3. \A p, q \in M \cup {<<m, b>>} : p[1] = q[1] \/ p[2] = q[2] => p = q
    BY <1>1, <1>2 DEF Agrees
  <1>4. {p[2] : p \in M \cup {<<m, b>>}} = {p[2] : p \in M} \cup {b}
    BY <1>2
  <1> QED BY <1>3, <1>4 DEF Agrees

(* DeleteBridgePort: the address of a port is its own, so that no other port*)
(* loses an address.                                                       *)
LEMMA AgreesRemove ==
    ASSUME NEW M \in SUBSET (Mac \X Bp), NEW U, NEW m \in Mac, NEW b \in Bp,
           Agrees(M, U), <<m, b>> \in M
    PROVE  /\ M \ ({m} \X Bp) = M \ {<<m, b>>}
           /\ Agrees(M \ ({m} \X Bp), U \ {b})
  <1>1. \A p \in M : p[1] = m \/ p[2] = b => p = <<m, b>>
    <2>1. <<m, b>>[1] = m /\ <<m, b>>[2] = b
      OBVIOUS
    <2> QED BY <2>1 DEF Agrees
  <1>2. M \ ({m} \X Bp) = M \ {<<m, b>>}
    <2>1. ASSUME NEW p \in M
          PROVE  p \in {m} \X Bp <=> p = <<m, b>>
      <3>1. PICK a \in Mac, x \in Bp : p = <<a, x>>
        OBVIOUS
      <3>2. p[1] = a
        BY <3>1
      <3> QED BY <1>1, <3>1, <3>2
    <2> QED BY <2>1
  <1>3. {p[2] : p \in M \ {<<m, b>>}} = {p[2] : p \in M} \ {b}
    <2>1. <<m, b>>[2] = b
      OBVIOUS
    <2>2. \A p \in M : p[2] = b <=> p = <<m, b>>
      BY <1>1, <2>1
    <2> QED BY <2>2
  <1> QED BY <1>2, <1>3 DEF Agrees

(* Every step keeps BridgePorts and MacTable of a bridge in agreement, and *)
(* the address of a port the one its bridges know it by.                   *)
LEMMA AddressesStep ==
    ASSUME TypeOK, RefersToStored, LeavingUnused, MacTableAgrees, AddressKept, StoreStep
    PROVE  MacTableAgrees' /\ AddressKept'
  <1> DEFINE Goal == MacTableAgrees' /\ AddressKept'
  <1> USE Kinds
  <1>0. /\ db \in [Obj -> Object] /\ spoilt \subseteq Vpn
        /\ \A o \in Obj : db[o].refs \subseteq Vpn /\ db[o].macs \subseteq Mac \X Bp
    BY ObjectFields DEF TypeOK
  <1>a. MacTableAgrees <=> \A l \in Lb \ spoilt : Agrees(db[l].macs, db[l].users)
    BY DEF MacTableAgrees, Agrees
  <1>b. MacTableAgrees' <=> \A l \in Lb \ spoilt' : Agrees(db'[l].macs, db'[l].users)
    BY DEF MacTableAgrees, Agrees
  <1>c. Agrees({}, {})
    BY DEF Agrees
  <1>d. ASSUME NEW b \in Bp, Stored(b), NEW l \in db[b].refs, l \notin spoilt
        PROVE  l \in Vpn /\ Stored(l) /\ b \in db[l].users /\ <<db[b].mac, b>> \in db[l].macs
    BY <1>0, <1>d DEF RefersToStored, AddressKept
  \* It is enough to say what becomes of tables, ports and their addresses.
  <1>e. ASSUME spoilt \subseteq spoilt',
               \A l \in Lb \ spoilt' :
                  \/ db'[l].macs = db[l].macs /\ db'[l].users \cap Bp = db[l].users \cap Bp
                  \/ /\ db'[l].macs = {} /\ db'[l].users = {}
                     /\ ~Stored(l) \/ db[l].users = {},
               \A l \in Vrf \ spoilt' :
                  db'[l].macs = db[l].macs \/ ~Stored(l) \/ db[l].users = {},
               \A b \in Bp : db'[b].oper # "Absent" =>
                  \/ Stored(b) /\ db'[b].mac = db[b].mac /\ db'[b].refs = db[b].refs
                  \/ db'[b].refs \subseteq spoilt'
        PROVE  Goal
    <2>1. \A l \in Lb \ spoilt' : Agrees(db'[l].macs, db'[l].users)
      BY <1>a, <1>c, <1>e DEF Agrees
    <2>2. AddressKept'
      <3> SUFFICES ASSUME NEW b \in Bp, db'[b].oper # "Absent", NEW l \in db'[b].refs, l \notin spoilt'
                   PROVE  <<db'[b].mac, b>> \in db'[l].macs
        BY DEF AddressKept, Stored
      <3>1. Stored(b) /\ db'[b].mac = db[b].mac /\ db'[b].refs = db[b].refs
        BY <1>e
      <3>2. l \in Vpn /\ Stored(l) /\ b \in db[l].users /\ <<db[b].mac, b>> \in db[l].macs
        BY <1>d, <1>e, <3>1
      <3>3. db'[l].macs = db[l].macs
        BY <1>e, <3>2 DEF Vpn
      <3> QED BY <3>1, <3>2, <3>3
    <2> QED BY <1>b, <2>1, <2>2
  <1>1. ASSUME NEW c \in calls, NEW k \in 0 .. 3, c.obj \in Vpn, CreateVpn(c, k)
        PROVE  Goal
    <2>1. /\ spoilt' = spoilt \cup (IF k >= 1 /\ Stored(c.obj) THEN {c.obj} ELSE {})
          /\ db' = IF k >= 1 THEN [db EXCEPT ![c.obj] = New(c)] ELSE db
      BY <1>1 DEF CreateVpn, Spoil
    <2>2. \A b \in Bp : db'[b] = db[b]
      BY <1>0, <1>1, <2>1
    <2>3. \A o \in Vpn \ spoilt' :
             \/ db'[o] = db[o]
             \/ ~Stored(o) /\ db'[o].macs = {} /\ db'[o].users = {}
      BY <1>0, <2>1, NewFacts
    <2> QED BY <1>e, <2>1, <2>2, <2>3 DEF Stored
  <1>2. ASSUME NEW c \in calls, NEW k \in 0 .. 4, c.op = "Create", CreateSvi(c, k)
        PROVE  Goal
    <2>1. PICK v \in Vpn, l \in Vpn : SviAdded(c, k, v, l)
      BY <1>2, CreateSviFacts
    <2>2. \A o \in Vpn : db'[o].macs = db[o].macs /\ db'[o].users \cap Bp = db[o].users \cap Bp
      BY <2>1, SviAddedFields DEF SviAdded, Takes
    <2>3. \A b \in Bp : db'[b] = db[b]
      BY <2>1 DEF SviAdded
    <2>4. spoilt \subseteq spoilt'
      BY <2>1 DEF SviAdded
    <2> QED BY <1>e, <2>2, <2>3, <2>4 DEF Stored
  <1>3. ASSUME NEW c \in calls, NEW D \in SUBSET Lb, NEW k \in 0 .. 2,
               c.op = "Create", CreateBP(c, D, k)
        PROVE  Goal
    <2>1. /\ c.obj \in Bp /\ c.mac \in Mac /\ spoilt \subseteq spoilt'
          /\ \A l \in D : c.obj \notin db[l].users /\ ~\E x \in Bp : <<c.mac, x>> \in db[l].macs
      BY <1>3, CreateBPFields
    <2>2. \A l \in D : Takes(l, c.obj) /\ db'[l].macs = db[l].macs \cup {<<c.mac, c.obj>>}
      BY <1>3, CreateBPFields
    <2>3. \A o \in Obj \ (D \cup {c.obj}) : db'[o] = db[o]
      BY <1>3, CreateBPFields
    <2>4. \/ db'[c.obj].mac = c.mac /\ db'[c.obj].refs = D
          \/ db'[c.obj] = db[c.obj]
      BY <1>3, CreateBPFields
    <2>5. \A l \in Lb \ spoilt' : Agrees(db'[l].macs, db'[l].users)
      <3> SUFFICES ASSUME NEW l \in Lb \ spoilt'
                   PROVE  Agrees(db'[l].macs, db'[l].users)
        OBVIOUS
      <3>1. Agrees(db[l].macs, db[l].users) /\ db[l].macs \subseteq Mac \X Bp
        BY <1>0, <1>a, <2>1
      <3>2. CASE l \in D
        <4>1. db[l].macs \in SUBSET (Mac \X Bp)
          BY <3>1
        <4>2. Agrees(db[l].macs \cup {<<c.mac, c.obj>>}, db[l].users \cup {c.obj})
          BY ONLY <2>1, <3>1, <3>2, <4>1, AgreesAdd
        <4>3. db'[l].users = db[l].users \cup {c.obj}
          BY <2>2, <3>2 DEF Takes
        <4> QED BY <2>2, <3>2, <4>2, <4>3
      <3>3. CASE l \notin D
        BY <2>1, <2>3, <3>1, <3>3
      <3> QED BY <3>2, <3>3
    <2>6. AddressKept'
      <3> SUFFICES ASSUME NEW b \in Bp, db'[b].oper # "Absent", NEW l \in db'[b].refs, l \notin spoilt'
                   PROVE  <<db'[b].mac, b>> \in db'[l].macs
        BY DEF AddressKept, Stored
      <3>1. CASE db'[b] = db[b]
        <4>1. l \in Vpn /\ <<db[b].mac, b>> \in db[l].macs
          BY <1>d, <2>1, <3>1 DEF Stored
        <4>2. db[l].macs \subseteq db'[l].macs
          BY <2>1, <2>2, <2>3, <4>1
        <4> QED BY <3>1, <4>1, <4>2
      <3>2. CASE db'[b] # db[b]
        <4>1. b = c.obj /\ db'[b].mac = c.mac /\ l \in D
          BY <2>3, <2>4, <3>2
        <4> QED BY <2>2, <4>1
      <3> QED BY <3>1, <3>2
    <2> QED BY <1>b, <2>5, <2>6
  <1>4. ASSUME NEW c \in calls, NEW k \in 0 .. 1, Update(c, k)
        PROVE  Goal
    <2>1. c.obj \in Obj
      BY CallFacts
    <2>2. \A o \in Obj : db'[o] = IF o = c.obj /\ k = 1 THEN New(c) ELSE db[o]
      BY <1>0, <1>4, <2>1 DEF Update
    <2>3. /\ \A o \in Vpn \ spoilt' : db'[o] = db[o]
          /\ k = 1 => c.refs \subseteq spoilt'
          /\ spoilt \subseteq spoilt'
      BY <1>4, <2>2 DEF Update, Spoil
    <2>4. New(c).refs = c.refs
      BY DEF New
    <2>5. \A b \in Bp : db'[b] = db[b] \/ db'[b].refs \subseteq spoilt'
      BY <2>2, <2>3, <2>4
    <2> QED BY <1>e, <2>3, <2>5 DEF Stored
  <1>5. ASSUME NEW c \in calls, NEW k \in 0 .. 1, Delete(c, k)
        PROVE  Goal
    <2>1. c.obj \in Obj /\ db[c.obj] \in Object /\ Stored(c.obj)
      BY <1>0, <1>5, CallFacts DEF Delete
    <2>2. /\ \A o \in Obj \ {c.obj} : db'[o] = db[o]
          /\ db'[c.obj] = IF k = 1 THEN [db[c.obj] EXCEPT !.oper = "ToBeDeleted"] ELSE db[c.obj]
      BY <1>0, <1>5, <2>1 DEF Delete
    <2>3. db'[c.obj].macs = db[c.obj].macs /\ db'[c.obj].users = db[c.obj].users
          /\ db'[c.obj].refs = db[c.obj].refs /\ db'[c.obj].mac = db[c.obj].mac
      BY <2>1, <2>2 DEF Object
    <2>4. spoilt' = spoilt
      BY <1>5 DEF Delete
    <2> QED BY <1>e, <2>1, <2>2, <2>3, <2>4 DEF Stored
  <1>6. ASSUME NEW p \in Obj, SetUp(p)
        PROVE  Goal
    <2>1. db[p] \in Object /\ Stored(p)
      BY <1>0, <1>6 DEF SetUp, Finishes
    <2>2. /\ \A o \in Obj \ {p} : db'[o] = db[o]
          /\ db'[p] = [db[p] EXCEPT !.oper = "Up"]
      BY <1>0, <1>6 DEF SetUp
    <2>3. db'[p].macs = db[p].macs /\ db'[p].users = db[p].users
          /\ db'[p].refs = db[p].refs /\ db'[p].mac = db[p].mac
      BY <2>1, <2>2 DEF Object
    <2>4. spoilt' = spoilt
      BY <1>6 DEF SetUp
    <2> QED BY <1>e, <2>1, <2>2, <2>3, <2>4 DEF Stored
  <1>7. ASSUME NEW p \in Obj, NEW k \in 1 .. 3, VpnGone(p, k)
        PROVE  Goal
    <2>1. /\ p \in Vpn /\ Leaving(p) /\ spoilt' = spoilt
          /\ db' = [db EXCEPT ![p] = Absent]
      BY <1>7 DEF VpnGone
    <2>2. \A o \in Obj : o # p => db'[o] = db[o]
      BY <1>0, <2>1
    <2>3. db'[p].macs = {} /\ db'[p].users = {}
      BY <1>0, <2>1 DEF Absent
    <2>4. p \in spoilt \/ db[p].users = {}
      BY <2>1 DEF LeavingUnused
    <2> QED BY <1>e, <2>1, <2>2, <2>3, <2>4 DEF Stored
  <1>8. ASSUME NEW s \in Obj, NEW k \in 1 .. 4, SviGone(s, k)
        PROVE  Goal
    <2>1. PICK v \in Vpn, l \in Vpn : SviRemoved(s, k, v, l)
      BY <1>8, SviGoneFacts
    <2>2. \A o \in Vpn : db'[o].macs = db[o].macs /\ db'[o].users \cap Bp = db[o].users \cap Bp
      BY <2>1, SviRemovedFields DEF SviRemoved, Loses
    <2>3. \A b \in Bp : db'[b] = db[b]
      BY <2>1 DEF SviRemoved
    <2>4. spoilt \subseteq spoilt'
      BY <1>8 DEF SviGone, Spoil
    <2> QED BY <1>e, <2>2, <2>3, <2>4 DEF Stored
  <1>9. ASSUME NEW b \in Obj, NEW D \in SUBSET Lb, NEW k \in 0 .. 2, BpGone(b, D, k)
        PROVE  Goal
    <2>1. /\ b \in Bp /\ D \subseteq db[b].refs /\ Stored(b)
          /\ spoilt' = IF k = 0 THEN spoilt \cup D ELSE spoilt
      <3>1. Stored(b)
        BY <1>9 DEF BpGone, Finishes
      <3> QED BY <1>9, <3>1, BpGoneFields
    <2>2. \A l \in D : Loses(l, b) /\ db'[l].macs = db[l].macs \ ({db[b].mac} \X Bp)
      BY <1>9, BpGoneFields
    <2>3. \A o \in Obj \ (D \cup {b}) : db'[o] = db[o]
      BY <1>9, BpGoneFields
    <2>4. (k >= 1 => db'[b] = Absent) /\ (k < 1 => db'[b] = db[b])
      BY <1>9, BpGoneFields
    <2>5. db[b].mac \in Mac \cup {NoMac}
      BY <1>0, ObjectFields
    <2>6. ASSUME NEW l \in D, l \notin spoilt'
          PROVE  /\ Agrees(db'[l].macs, db'[l].users)
                 /\ db'[l].macs = db[l].macs \ {<<db[b].mac, b>>}
      <3>1. l \in Lb \ spoilt /\ l \in db[b].refs
        BY <2>1, <2>6
      <3>2. <<db[b].mac, b>> \in db[l].macs /\ db[l].macs \subseteq Mac \X Bp
        BY <1>0, <1>d, <2>1, <3>1
      <3>3. db[b].mac \in Mac
        BY <3>2
      <3>4. Agrees(db[l].macs, db[l].users)
        BY <1>a, <3>1
      <3>5. /\ db[l].macs \ ({db[b].mac} \X Bp) = db[l].macs \ {<<db[b].mac, b>>}
            /\ Agrees(db[l].macs \ ({db[b].mac} \X Bp), db[l].users \ {b})
        <4>1. db[l].macs \in SUBSET (Mac \X Bp)
          BY <3>2
        <4> QED BY ONLY <2>1, <3>2, <3>3, <3>4, <4>1, AgreesRemove
      <3>6. db'[l].users = db[l].users \ {b}
        BY <2>2 DEF Loses
      <3> QED BY <2>2, <3>5, <3>6
    <2>7. \A l \in Lb \ spoilt' : Agrees(db'[l].macs, db'[l].users)
      <3> SUFFICES ASSUME NEW l \in Lb \ spoilt'
                   PROVE  Agrees(db'[l].macs, db'[l].users)
        OBVIOUS
      <3>1. CASE l \in D
        BY <2>6, <3>1
      <3>2. CASE l \notin D
        BY <1>a, <2>1, <2>3, <3>2
      <3> QED BY <3>1, <3>2
    <2>8. AddressKept'
      <3> SUFFICES ASSUME NEW x \in Bp, db'[x].oper # "Absent", NEW l \in db'[x].refs, l \notin spoilt'
                   PROVE  <<db'[x].mac, x>> \in db'[l].macs
        BY DEF AddressKept, Stored
      <3>1. db'[x] = db[x] /\ (x = b => k = 0)
        BY <2>3, <2>4 DEF Absent
      <3>2. l \in Vpn /\ <<db[x].mac, x>> \in db[l].macs
        BY <1>d, <2>1, <3>1 DEF Stored
      <3>3. CASE l \in D
        <4>1. x # b
          BY <2>1, <3>1, <3>3
        <4>2. <<db[x].mac, x>> # <<db[b].mac, b>>
          BY <4>1
        <4> QED BY <2>6, <3>1, <3>2, <3>3, <4>2
      <3>4. CASE l \notin D
        BY <2>1, <2>3, <3>1, <3>2, <3>4
      <3> QED BY <3>3, <3>4
    <2> QED BY <1>b, <2>7, <2>8
  <1> QED BY <1>1, <1>2, <1>3, <1>4, <1>5, <1>6, <1>7, <1>8, <1>9
          DEF StoreStep, CreateVpnStep, CreateSviStep, CreateBPStep, UpdateStep, DeleteStep,
              SetUpStep, VpnGoneStep, SviGoneStep, BpGoneStep

-----------------------------------------------------------------------------
(* VNIs and the maps of names, while nothing has failed                      *)

(* A step that leaves the store undisturbed found it so, and is no update.   *)
LEMMA UndisturbedBefore ==
    ASSUME TypeOK, UpdatesCounted, StoreStep, Undisturbed'
    PROVE  updates = 0 /\ ~UpdateStep
  <1>1. updates' = updates
    BY ZenonT(30) DEF StoreStep, CreateVpnStep, CreateSviStep, CreateBPStep, UpdateStep, DeleteStep,
           SetUpStep, VpnGoneStep, SviGoneStep, BpGoneStep, CreateVpn, CreateSvi, CreateBP,
           Update, Delete, SetUp, VpnGone, SviGone, BpGone, Answered, Finishes
  <1> QED BY <1>1 DEF UpdateStep, Update, UpdatesCounted, Undisturbed

(* CreateVrf, CreateLB and removeVniFromVpns keep vpns in step with the      *)
(* objects, so that no VNI is given out twice.                               *)
LEMMA VniStep ==
    ASSUME TypeOK, UpdatesCounted, VniExclusive, VniReserved, StoreStep
    PROVE  VniExclusive' /\ VniReserved'
  <1> DEFINE Goal == VniExclusive' /\ VniReserved'
  <1> USE Kinds
  <1>0. /\ db \in [Obj -> Object]
        /\ \A o \in Vpn : o \in Obj
    BY DEF TypeOK
  <1>u. Undisturbed' => updates = 0 /\ ~UpdateStep
    BY UndisturbedBefore
  <1>f. ASSUME NEW k \in Nat, NEW n \in Nat, Writes(k, n), Undisturbed'
        PROVE  k = n /\ Undisturbed
    BY <1>f, <1>u, WritesFacts DEF Undisturbed
  <1>e. ASSUME vpns' = vpns, found \subseteq found', Undisturbed' => Undisturbed,
               \A o \in Vpn : /\ db'[o].oper = "Absent" <=> db[o].oper = "Absent"
                              /\ db'[o].vni = db[o].vni
        PROVE  Goal
    BY <1>e DEF VniExclusive, VniReserved, Stored
  <1>1. ASSUME NEW c \in calls, NEW k \in 0 .. 3, c.obj \in Vpn, CreateVpn(c, k)
        PROVE  Goal
    <2> SUFFICES ASSUME Undisturbed' PROVE Goal
      BY DEF VniExclusive, VniReserved
    <2>1. k = 3 /\ Undisturbed
      BY <1>1, <1>f DEF CreateVpn
    <2>2. /\ db' = [db EXCEPT ![c.obj] = New(c)]
          /\ vpns' = vpns \cup ({c.vni} \ {NoVni})
          /\ found \subseteq found' /\ (c.vni # NoVni => "vpns" \in found')
          /\ ~VniInUse(c)
      BY <1>1, <2>1 DEF CreateVpn
    <2>3. \A o \in Vpn : o # c.obj => db'[o] = db[o]
      BY <1>0, <2>2
    <2>4. db'[c.obj].vni = c.vni
      BY <1>0, <1>1, <2>2 DEF New
    <2>5. \A o \in Vpn : Stored(o) /\ db[o].vni # NoVni => db[o].vni # c.vni
      BY <2>1, <2>2 DEF VniReserved, VniInUse
    <2>6. VniExclusive'
      BY <2>1, <2>3, <2>4, <2>5 DEF VniExclusive, Stored
    <2>7. VniReserved'
      BY <2>1, <2>2, <2>3, <2>4 DEF VniReserved, Stored
    <2> QED BY <2>6, <2>7
  <1>2. ASSUME NEW c \in calls, NEW k \in 0 .. 4, c.op = "Create", CreateSvi(c, k)
        PROVE  Goal
    <2>1. PICK v \in Vpn, l \in Vpn : SviAdded(c, k, v, l)
      BY <1>2, CreateSviFacts
    <2>2. \A o \in Vpn : db'[o].oper = db[o].oper /\ db'[o].vni = db[o].vni
      BY <2>1, SviAddedFields DEF SviAdded, Takes
    <2>3. vpns' = vpns /\ found \subseteq found'
      BY <1>2 DEF CreateSvi
    <2>4. Undisturbed' => Undisturbed
      BY <1>f, <2>1 DEF SviAdded
    <2> QED BY <1>e, <2>2, <2>3, <2>4
  <1>3. ASSUME NEW c \in calls, NEW D \in SUBSET Lb, NEW k \in 0 .. 2,
               c.op = "Create", CreateBP(c, D, k)
        PROVE  Goal
    <2>1. \A l \in D : Takes(l, c.obj)
      BY <1>3, CreateBPFields
    <2>2. c.obj \in Bp /\ \A o \in Obj \ (D \cup {c.obj}) : db'[o] = db[o]
      BY <1>3, CreateBPFields
    <2>3. \A o \in Vpn : db'[o].oper = db[o].oper /\ db'[o].vni = db[o].vni
      BY <2>1, <2>2 DEF Takes
    <2>4. vpns' = vpns /\ found \subseteq found'
      BY <1>3 DEF CreateBP
    <2>5. UNCHANGED faults \/ Writes(k, 2) \/ Writes(0, 1)
      BY <1>3 DEF CreateBP
    <2>6. Undisturbed' => Undisturbed
      BY <1>f, <1>u, <2>5 DEF Undisturbed
    <2> QED BY <1>e, <2>3, <2>4, <2>6
  <1>4. CASE UpdateStep
    BY <1>4, <1>u DEF VniExclusive, VniReserved
  <1>5. ASSUME NEW c \in calls, NEW k \in 0 .. 1, Delete(c, k)
        PROVE  Goal
    <2>1. c.obj \in Obj /\ db[c.obj] \in Object /\ Stored(c.obj)
      BY <1>0, <1>5, CallFacts DEF Delete
    <2>2. /\ \A o \in Obj \ {c.obj} : db'[o] = db[o]
          /\ db'[c.obj] = IF k = 1 THEN [db[c.obj] EXCEPT !.oper = "ToBeDeleted"] ELSE db[c.obj]
      BY <1>0, <1>5, <2>1 DEF Delete
    <2>3. db'[c.obj].oper # "Absent" /\ db'[c.obj].vni = db[c.obj].vni
      BY <2>1, <2>2 DEF Object, Stored
    <2>4. vpns' = vpns /\ found' = found /\ (Undisturbed' => Undisturbed)
      BY <1>5, <1>f DEF Delete
    <2> QED BY <1>e, <2>1, <2>2, <2>3, <2>4 DEF Stored
  <1>6. ASSUME NEW p \in Obj, SetUp(p)
        PROVE  Goal
    <2>1. db[p] \in Object /\ Stored(p)
      BY <1>0, <1>6 DEF SetUp, Finishes
    <2>2. /\ \A o \in Obj \ {p} : db'[o] = db[o]
          /\ db'[p] = [db[p] EXCEPT !.oper = "Up"]
      BY <1>0, <1>6 DEF SetUp
    <2>3. db'[p].oper # "Absent" /\ db'[p].vni = db[p].vni
      BY <2>1, <2>2 DEF Object, Stored
    <2>4. vpns' = vpns /\ found' = found /\ (Undisturbed' => Undisturbed)
      BY <1>6 DEF SetUp, Finishes, Undisturbed
    <2> QED BY <1>e, <2>1, <2>2, <2>3, <2>4 DEF Stored
  <1>7. ASSUME NEW p \in Obj, NEW k \in 1 .. 3, VpnGone(p, k)
        PROVE  Goal
    <2> SUFFICES ASSUME Undisturbed' PROVE Goal
      BY DEF VniExclusive, VniReserved
    <2> DEFINE n == IF db[p].vni = NoVni \/ "vpns" \in found THEN Reached(p, 3) ELSE 1
    <2>0. n \in Nat
      BY DEF Reached
    <2>1. k = n /\ Undisturbed
      BY <1>7, <1>f, <2>0 DEF VpnGone
    <2>2. /\ p \in Vpn /\ Stored(p) /\ found' = found
          /\ db' = [db EXCEPT ![p] = Absent]
          /\ vpns' = IF k >= 2 THEN vpns \ {db[p].vni} ELSE vpns
      BY <1>7 DEF VpnGone, Finishes
    <2>3. k >= 2
      BY <2>1, <2>2 DEF VniReserved, Reached
    <2>4. \A o \in Vpn : o # p => db'[o] = db[o]
      BY <1>0, <2>2
    <2>5. db'[p].oper = "Absent"
      BY <1>0, <2>2 DEF Absent
    <2>6. VniExclusive'
      BY <2>1, <2>4, <2>5 DEF VniExclusive, Stored
    <2>7. VniReserved'
      <3> SUFFICES ASSUME NEW o \in Vpn, db'[o].oper # "Absent", db'[o].vni # NoVni
                   PROVE  db'[o].vni \in vpns' /\ "vpns" \in found'
        BY DEF VniReserved, Stored
      <3>1. o # p /\ db'[o] = db[o]
        BY <2>4, <2>5
      <3>2. db[o].vni # db[p].vni
        BY <2>1, <2>2, <3>1 DEF VniExclusive, Stored
      <3> QED BY <2>1, <2>2, <2>3, <3>1, <3>2 DEF VniReserved, Stored
    <2> QED BY <2>6, <2>7
  <1>8. ASSUME NEW s \in Obj, NEW k \in 1 .. 4, SviGone(s, k)
        PROVE  Goal
    <2>1. PICK v \in Vpn, l \in Vpn : SviRemoved(s, k, v, l)
      BY <1>8, SviGoneFacts
    <2>2. \A o \in Vpn : db'[o].oper = db[o].oper /\ db'[o].vni = db[o].vni
      BY <2>1, SviRemovedFields DEF SviRemoved, Loses
    <2>3. vpns' = vpns /\ found' = found
      BY <1>8 DEF SviGone, Finishes
    <2>4. Undisturbed' => Undisturbed
      <3>1. (IF s \in db[l].users THEN Reached(s, 4) ELSE 1) \in Nat
        BY DEF Reached
      <3> QED BY <1>f, <2>1, <3>1 DEF SviRemoved
    <2> QED BY <1>e, <2>2, <2>3, <2>4
  <1>9. ASSUME NEW b \in Obj, NEW D \in SUBSET Lb, NEW k \in 0 .. 2, BpGone(b, D, k)
        PROVE  Goal
    <2>1. b \in Bp /\ \A o \in Obj \ (D \cup {b}) : db'[o] = db[o]
      BY <1>9, BpGoneFields
    <2>2. \A l \in D : Loses(l, b)
      BY <1>9, BpGoneFields
    <2>3. \A o \in Vpn : db'[o].oper = db[o].oper /\ db'[o].vni = db[o].vni
      BY <2>1, <2>2 DEF Loses
    <2>4. vpns' = vpns /\ found' = found
      BY <1>9 DEF BpGone, Finishes
    <2>5. UNCHANGED faults \/ Writes(k, Reached(b, 2)) \/ Writes(0, 1)
      BY <1>9 DEF BpGone
    <2>6. Reached(b, 2) \in Nat
      BY DEF Reached
    <2>7. Undisturbed' => Undisturbed
      BY <1>f, <1>u, <2>5, <2>6 DEF Undisturbed
    <2> QED BY <1>e, <2>3, <2>4, <2>7
  <1> QED BY <1>1, <1>2, <1>3, <1>4, <1>5, <1>6, <1>7, <1>8, <1>9
          DEF StoreStep, CreateVpnStep, CreateSviStep, CreateBPStep, DeleteStep,
              SetUpStep, VpnGoneStep, SviGoneStep, BpGoneStep

(* CreateX lists what it stores and UpdateXStatus what it removes no more:   *)
(* an undisturbed function makes all its writes, or none that matter here.   *)
LEMMA ListedStep ==
    ASSUME TypeOK, UpdatesCounted, VniReserved, ListedIsStored, MapsWritten, StoreStep
    PROVE  ListedIsStored' /\ MapsWritten'
  <1> DEFINE Goal == ListedIsStored' /\ MapsWritten'
  <1> USE Kinds
  <1>0. db \in [Obj -> Object] /\ index \subseteq Obj
    BY DEF TypeOK
  <1>u. Undisturbed' => updates = 0 /\ ~UpdateStep
    BY UndisturbedBefore
  <1>f. ASSUME NEW k \in Nat, NEW n \in Nat, Writes(k, n), Undisturbed'
        PROVE  k = n /\ Undisturbed
    BY <1>f, <1>u, WritesFacts DEF Undisturbed
  <1>g. SUFFICES ASSUME Undisturbed' PROVE Goal
    BY DEF ListedIsStored, MapsWritten
  \* Nothing appears or disappears, or one object does, with its name.
  <1>a. ASSUME Undisturbed, index' = index, found \subseteq found',
               \A o \in Obj : db'[o].oper = "Absent" <=> db[o].oper = "Absent"
        PROVE  Goal
    BY <1>a DEF ListedIsStored, MapsWritten, Stored
  <1>b. ASSUME Undisturbed, NEW p \in Obj, index' = index \cup {p},
               found \subseteq found', MapOf(p) \in found', db'[p].oper # "Absent",
               \A o \in Obj \ {p} : db'[o].oper = "Absent" <=> db[o].oper = "Absent"
        PROVE  Goal
    BY <1>b DEF ListedIsStored, MapsWritten, Stored
  <1>c. ASSUME Undisturbed, NEW p \in Obj, index' = index \ {p},
               found \subseteq found', db'[p].oper = "Absent",
               \A o \in Obj \ {p} : db'[o].oper = "Absent" <=> db[o].oper = "Absent"
        PROVE  Goal
    BY <1>c DEF ListedIsStored, MapsWritten, Stored
  <1>1. ASSUME NEW c \in calls, NEW k \in 0 .. 3, c.obj \in Vpn, CreateVpn(c, k)
        PROVE  Goal
    <2>1. k = 3 /\ Undisturbed
      BY <1>1, <1>f, <1>g DEF CreateVpn
    <2>2. /\ db' = [db EXCEPT ![c.obj] = New(c)]
          /\ index' = index \cup {c.obj}
          /\ found \subseteq found' /\ MapOf(c.obj) \in found'
      BY <1>1, <2>1 DEF CreateVpn
    <2>3. c.obj \in Obj
      BY <1>1
    <2>4. db'[c.obj].oper = "Down" /\ \A o \in Obj \ {c.obj} : db'[o] = db[o]
      BY <1>0, <2>2, <2>3 DEF New
    <2> QED BY <1>b, <2>1, <2>2, <2>3, <2>4
  <1>2. ASSUME NEW c \in calls, NEW k \in 0 .. 4, c.op = "Create", CreateSvi(c, k)
        PROVE  Goal
    <2>1. PICK v \in Vpn, l \in Vpn : SviAdded(c, k, v, l)
      BY <1>2, CreateSviFacts
    <2>2. c.obj \in Svi /\ c.obj \in Obj /\ \A o \in Obj \ {c.obj} : db'[o].oper = db[o].oper
      BY <2>1, SviAddedFields DEF SviAdded, Takes
    <2>3. (k = 4 \/ k = 1) /\ Undisturbed
      <3>1. PICK n \in {1, 4} : Writes(k, n)
        BY <2>1 DEF SviAdded
      <3> QED BY <1>f, <1>g, <3>1
    <2>4. CASE k = 4
      <3>1. db'[c.obj].oper = "Down"
        BY <2>1, <2>4 DEF SviAdded, New
      <3>2. /\ index' = index \cup {c.obj} /\ found \subseteq found'
            /\ "svis" \in found'
        BY <1>2, <2>4 DEF CreateSvi
      <3>3. MapOf(c.obj) = "svis"
        BY <2>2 DEF MapOf, Vpn
      <3> QED BY <1>b, <2>2, <2>3, <3>1, <3>2, <3>3
    <2>5. CASE k = 1
      <3>1. index' = index /\ found' = found
        BY <1>2, <2>5 DEF CreateSvi
      <3>2. db'[c.obj] = db[c.obj]
        BY <2>1, <2>5 DEF SviAdded
      <3> QED BY <1>a, <2>2, <2>3, <3>1, <3>2
    <2> QED BY <2>3, <2>4, <2>5
  <1>3. ASSUME NEW c \in calls, NEW D \in SUBSET Lb, NEW k \in 0 .. 2,
               c.op = "Create", CreateBP(c, D, k)
        PROVE  Goal
    <2>1. \A l \in D : Takes(l, c.obj)
      BY <1>3, CreateBPFields
    <2>2. c.obj \in Bp /\ \A o \in Obj \ (D \cup {c.obj}) : db'[o] = db[o]
      BY <1>3, CreateBPFields
    <2>3. c.obj \in Obj /\ \A o \in Obj \ {c.obj} : db'[o].oper = db[o].oper
      BY <2>1, <2>2 DEF Takes
    <2>4. \/ k >= 1 /\ db'[c.obj].oper = "Down"
          \/ k = 0 /\ db'[c.obj] = db[c.obj]
      BY <1>3, CreateBPFields
    <2>5. Writes(k, 2) \/ (k = 0 /\ (UNCHANGED faults \/ Writes(0, 1)))
      <3>1. CASE D = BridgesOf(c)
        BY <1>3, <3>1 DEF CreateBP
      <3>2. CASE D # BridgesOf(c)
        <4>1. UNCHANGED faults \/ Writes(0, 1)
          BY <1>3, <3>2 DEF CreateBP
        <4>2. k = 0
          BY <1>3, <3>2 DEF CreateBP
        <4> QED BY <4>1, <4>2
      <3> QED BY <3>1, <3>2
    <2>n. /\ index' = IF k >= 2 THEN index \cup {c.obj} ELSE index
          /\ found' = IF k >= 2 THEN found \cup {"bps"} ELSE found
      BY <1>3 DEF CreateBP
    <2>6. (k = 2 \/ k = 0) /\ Undisturbed
      BY <1>f, <1>g, <1>u, <2>5 DEF Undisturbed
    <2>7. CASE k = 2
      <3>1. index' = index \cup {c.obj} /\ found \subseteq found' /\ "bps" \in found'
        BY <2>n, <2>7
      <3>2. MapOf(c.obj) = "bps"
        BY <2>2 DEF MapOf, Vpn
      <3>3. db'[c.obj].oper # "Absent"
        BY <2>4, <2>7
      <3> QED BY <1>b, <2>3, <2>6, <3>1, <3>2, <3>3
    <2>8. CASE k = 0
      <3>1. index' = index /\ found' = found
        BY <2>n, <2>8
      <3> QED BY <1>a, <2>3, <2>4, <2>6, <2>8, <3>1
    <2> QED BY <2>6, <2>7, <2>8
  <1>4. CASE UpdateStep
    BY <1>4, <1>g, <1>u
  <1>5. ASSUME NEW c \in calls, NEW k \in 0 .. 1, Delete(c, k)
        PROVE  Goal
    <2>1. c.obj \in Obj /\ db[c.obj] \in Object /\ Stored(c.obj)
      BY <1>0, <1>5, CallFacts DEF Delete
    <2>2. /\ \A o \in Obj \ {c.obj} : db'[o] = db[o]
          /\ db'[c.obj] = IF k = 1 THEN [db[c.obj] EXCEPT !.oper = "ToBeDeleted"] ELSE db[c.obj]
      BY <1>0, <1>5, <2>1 DEF Delete
    <2>3. db'[c.obj].oper # "Absent"
      BY <2>1, <2>2 DEF Object, Stored
    <2>4. index' = index /\ found' = found /\ Undisturbed
      BY <1>5, <1>f, <1>g DEF Delete
    <2> QED BY <1>a, <2>1, <2>2, <2>3, <2>4 DEF Stored
  <1>6. ASSUME NEW p \in Obj, SetUp(p)
        PROVE  Goal
    <2>1. db[p] \in Object /\ Stored(p)
      BY <1>0, <1>6 DEF SetUp, Finishes
    <2>2. /\ \A o \in Obj \ {p} : db'[o] = db[o]
          /\ db'[p] = [db[p] EXCEPT !.oper = "Up"]
      BY <1>0, <1>6 DEF SetUp
    <2>3. db'[p].oper # "Absent"
      BY <2>1, <2>2 DEF Object, Stored
    <2>4. index' = index /\ found' = found /\ Undisturbed
      BY <1>6, <1>g DEF SetUp, Finishes, Undisturbed
    <2> QED BY <1>a, <2>1, <2>2, <2>3, <2>4 DEF Stored
  <1>7. ASSUME NEW p \in Obj, NEW k \in 1 .. 3, VpnGone(p, k)
        PROVE  Goal
    <2> DEFINE n == IF db[p].vni = NoVni \/ "vpns" \in found THEN Reached(p, 3) ELSE 1
    <2>0. n \in Nat
      BY DEF Reached
    <2>1. k = n /\ Undisturbed
      BY <1>7, <1>f, <1>g, <2>0 DEF VpnGone
    <2>2. /\ p \in Vpn /\ Stored(p) /\ found' = found
          /\ db' = [db EXCEPT ![p] = Absent]
      BY <1>7 DEF VpnGone, Finishes
    <2>3. k = 3
      BY <2>1, <2>2 DEF VniReserved, MapsWritten, Reached
    <2>4. index' = index \ {p}
      BY <1>7, <2>3 DEF VpnGone, Unlisted
    <2>5. db'[p].oper = "Absent" /\ \A o \in Obj \ {p} : db'[o] = db[o]
      BY <1>0, <2>2 DEF Absent
    <2> QED BY <1>c, <2>1, <2>2, <2>4, <2>5
  <1>8. ASSUME NEW s \in Obj, NEW k \in 1 .. 4, SviGone(s, k)
        PROVE  Goal
    <2>1. PICK v \in Vpn, l \in Vpn : SviRemoved(s, k, v, l)
      BY <1>8, SviGoneFacts
    <2>2. \A o \in Obj \ {s} : db'[o].oper = db[o].oper
      BY <2>1, SviRemovedFields DEF SviRemoved, Loses
    <2>3. Stored(s) /\ found' = found /\ index' = IF k >= 4 THEN index \ {s} ELSE index
      BY <1>8 DEF SviGone, Finishes, Unlisted
    <2>4. /\ k = (IF s \in db[l].users THEN Reached(s, 4) ELSE 1)
          /\ Undisturbed
      <3>1. (IF s \in db[l].users THEN Reached(s, 4) ELSE 1) \in Nat
        BY DEF Reached
      <3> QED BY <1>f, <1>g, <2>1, <3>1 DEF SviRemoved
    <2>5. k = 4 \/ k = 1
      BY <2>3, <2>4 DEF MapsWritten, Reached
    <2>6. CASE k = 4
      <3>1. db'[s].oper = "Absent"
        BY <2>1, <2>6 DEF SviRemoved, Absent
      <3> QED BY <1>c, <2>2, <2>3, <2>4, <2>6, <3>1
    <2>7. CASE k = 1
      <3>1. db'[s] = db[s]
        BY <2>1, <2>7 DEF SviRemoved
      <3> QED BY <1>a, <2>2, <2>3, <2>4, <2>7, <3>1
    <2> QED BY <2>5, <2>6, <2>7
  <1>9. ASSUME NEW b \in Obj, NEW D \in SUBSET Lb, NEW k \in 0 .. 2, BpGone(b, D, k)
        PROVE  Goal
    <2>1. b \in Bp /\ \A o \in Obj \ (D \cup {b}) : db'[o] = db[o]
      BY <1>9, BpGoneFields
    <2>2. \A l \in D : Loses(l, b)
      BY <1>9, BpGoneFields
    <2>3. \A o \in Obj \ {b} : db'[o].oper = db[o].oper
      BY <2>1, <2>2 DEF Loses
    <2>4. (k >= 1 => db'[b] = Absent) /\ (k < 1 => db'[b] = db[b])
      BY <1>9, BpGoneFields
    <2>5. Stored(b) /\ found' = found /\ index' = IF k >= 2 THEN index \ {b} ELSE index
      BY <1>9 DEF BpGone, Finishes, Unlisted
    <2>6. Writes(k, Reached(b, 2)) \/ (k = 0 /\ (UNCHANGED faults \/ Writes(0, 1)))
      <3>1. CASE D = db[b].refs
        BY <1>9, <3>1 DEF BpGone
      <3>2. CASE D # db[b].refs
        <4>1. UNCHANGED faults \/ Writes(0, 1)
          BY <1>9, <3>2 DEF BpGone
        <4>2. k = 0
          BY <1>9, <3>2 DEF BpGone
        <4> QED BY <4>1, <4>2
      <3> QED BY <3>1, <3>2
    <2>7. (k = Reached(b, 2) \/ k = 0) /\ Undisturbed
      <3>1. Reached(b, 2) \in Nat
        BY DEF Reached
      <3> QED BY <1>f, <1>g, <1>u, <2>6, <3>1 DEF Undisturbed
    <2>8. k = 2 \/ k = 0
      BY <2>5, <2>7 DEF MapsWritten, Reached
    <2>9. CASE k = 2
      <3>1. db'[b].oper = "Absent"
        BY <2>4, <2>9 DEF Absent
      <3> QED BY <1>c, <2>3, <2>5, <2>7, <2>9, <3>1
    <2>10. CASE k = 0
      BY <1>a, <2>3, <2>4, <2>5, <2>7, <2>10
    <2> QED BY <2>8, <2>9, <2>10
  <1> QED BY <1>1, <1>2, <1>3, <1>4, <1>5, <1>6, <1>7, <1>8, <1>9
          DEF StoreStep, CreateVpnStep, CreateSviStep, CreateBPStep, DeleteStep,
              SetUpStep, VpnGoneStep, SviGoneStep, BpGoneStep

-----------------------------------------------------------------------------
(* The inductive invariant                                                   *)

(* Steps that leave the store alone leave what is said about it true.        *)
LEMMA QuietStep ==
    ASSUME TypeOK, IInv, Quiet, TypeOK', UpdatesCounted'
    PROVE  IInv'
  <1>1. Undisturbed' => Undisturbed
    BY DEF Quiet, Undisturbed
  <1>2. /\ db' = db /\ vpns' = vpns /\ index' = index /\ found' = found
        /\ spoilt' = spoilt /\ tasks' \subseteq tasks
    BY DEF Quiet
  <1>3. VniExclusive' /\ VniReserved'
    BY <1>1, <1>2 DEF IInv, VniExclusive, VniReserved, Stored
  <1>4. ListedIsStored' /\ MapsWritten'
    BY <1>1, <1>2 DEF IInv, ListedIsStored, MapsWritten, Stored
  <1>5. AnnouncedIsListed'
    BY <1>2 DEF IInv, AnnouncedIsListed, Stored, Leaving, Quiet
  <1>6. RefersToStored' /\ LeavingUnused'
    BY <1>2 DEF IInv, RefersToStored, LeavingUnused, Stored, Leaving
  <1>7. MacTableAgrees' /\ AddressKept'
    BY <1>2 DEF IInv, MacTableAgrees, AddressKept, Stored
  <1> QED BY <1>3, <1>4, <1>5, <1>6, <1>7 DEF IInv

(* At the start nothing is stored, listed or in flight.                      *)
LEMMA InvInit == Init => IInv
  <1> SUFFICES ASSUME Init PROVE IInv
    OBVIOUS
  <1>1. \A o \in Obj : ~Stored(o) /\ ~Leaving(o) /\ db[o].users = {} /\ db[o].macs = {}
    BY DEF Init, Stored, Leaving, Absent
  <1>2. TypeOK
    BY TypeInit
  <1>3. \A o \in Vpn \cup Svi \cup Bp : o \in Obj
    BY DEF Obj
  <1>4. UpdatesCounted /\ VniExclusive /\ VniReserved
    BY <1>1, <1>3 DEF Init, UpdatesCounted, VniExclusive, VniReserved
  <1>5. ListedIsStored /\ MapsWritten /\ AnnouncedIsListed
    BY <1>1 DEF Init, ListedIsStored, MapsWritten, AnnouncedIsListed
  <1>6. RefersToStored /\ LeavingUnused /\ AddressKept
    BY <1>1, <1>3 DEF RefersToStored, LeavingUnused, AddressKept
  <1>7. MacTableAgrees
    BY <1>1, <1>3 DEF MacTableAgrees, Vpn
  <1> QED BY <1>2, <1>4, <1>5, <1>6, <1>7 DEF IInv

(* Every step of InfraDB preserves the inductive invariant.                  *)
LEMMA InvStep ==
    ASSUME IInv, [Next]_vars
    PROVE  IInv'
  <1>0. TypeOK /\ UpdatesCounted
    BY DEF IInv
  <1>1. TypeOK' /\ UpdatesCounted'
    BY <1>0, TypeStep, UpdatesCountedStep
  <1>2. CASE Quiet
    BY <1>0, <1>1, <1>2, QuietStep
  <1>3. CASE StoreStep
    <2>1. VniExclusive' /\ VniReserved'
      BY <1>3, VniStep DEF IInv
    <2>2. ListedIsStored' /\ MapsWritten'
      BY <1>3, ListedStep DEF IInv
    <2>3. AnnouncedIsListed'
      BY <1>3, AnnouncedStep DEF IInv
    <2>4. RefersToStored' /\ LeavingUnused'
      BY <1>3, ReferencesStep DEF IInv
    <2>5. MacTableAgrees' /\ AddressKept'
      BY <1>3, AddressesStep DEF IInv
    <2> QED BY <1>1, <2>1, <2>2, <2>3, <2>4, <2>5 DEF IInv
  <1> QED BY <1>0, <1>2, <1>3, NextSteps

(* The contents of the store, the calls in flight and the counters keep      *)
(* their types, whatever the gRPC servers and the modules do.                *)
THEOREM StoreIsTyped == Spec => []TypeOK
  <1>1. TypeOK /\ [Next]_vars => TypeOK'
    BY TypeStep
  <1> QED BY <1>1, TypeInit, PTL DEF Spec

(* The inductive invariant holds in every reachable state: what CreateX      *)
(* checks under the lock is what UpdateXStatus and the other calls leave.    *)
THEOREM StoreInvariant == Spec => []IInv
  <1>1. IInv /\ [Next]_vars => IInv'
    BY InvStep
  <1> QED BY <1>1, InvInit, PTL DEF Spec

(* No two VRFs or logical bridges have the same VNI (CreateVrf, CreateLB,    *)
(* removeVniFromVpns), as long as no store error and no update comes in.     *)
THEOREM VniIsExclusive == Spec => []VniExclusive
  <1>1. IInv => VniExclusive
    BY DEF IInv
  <1> QED BY <1>1, StoreInvariant, PTL

(* The maps of names list exactly what is stored (CreateX, UpdateXStatus).   *)
THEOREM StoreIsListed == Spec => []ListedIsStored
  <1>1. IInv => ListedIsStored
    BY DEF IInv
  <1> QED BY <1>1, StoreInvariant, PTL

(* What has a task is in the maps of names, in spite of store errors         *)
(* (CreateTask at the end of CreateX).                                       *)
THEOREM AnnouncedStaysListed == Spec => []AnnouncedIsListed
  <1>1. IInv => AnnouncedIsListed
    BY DEF IInv
  <1> QED BY <1>1, StoreInvariant, PTL

(* SVIs and bridge ports refer to VRFs and bridges that are stored and know  *)
(* of them (CreateSvi, CreateBP, DeleteX, UpdateXStatus).                    *)
THEOREM ReferencesHold == Spec => []RefersToStored
  <1>1. IInv => RefersToStored
    BY DEF IInv
  <1> QED BY <1>1, StoreInvariant, PTL

(* The two tables of a bridge say the same (AddBridgePort, DeleteBridgePort). *)
THEOREM TablesAgree == Spec => []MacTableAgrees
  <1>1. IInv => MacTableAgrees
    BY DEF IInv
  <1> QED BY <1>1, StoreInvariant, PTL

=============================================================================
