------------------------------- MODULE Intent -------------------------------
(***************************************************************************)
(* What InfraDB promises of its objects, without tasks, notifications and    *)
(* versions: an object is asked for or asked to go, its modules acknowledge  *)
(* it one after the other in the order of their priority, and with the last  *)
(* acknowledgement it is up or gone.  A module may take its acknowledgement  *)
(* back, and a replay takes back what it has to do again.                   *)
(***************************************************************************)
EXTENDS Naturals, Functions

CONSTANTS
    Obj,       \* object names
    Modules,   \* names of the modules
    Order      \* per object the sequence of its modules, by priority

VARIABLES
    oper,      \* the operational status of the objects
    acks       \* the modules that have acknowledged an object

vars == <<oper, acks>>

-----------------------------------------------------------------------------

\* The modules that come before m.
Before(o, m) == {Order[o][i] : i \in {i \in DOMAIN Order[o] :
                                         \E j \in DOMAIN Order[o] : i < j /\ Order[o][j] = m}}

AskFor(o) ==
    /\ oper' = [oper EXCEPT ![o] = "Down"]
    /\ acks' = [acks EXCEPT ![o] = {}]

AskToGo(o) ==
    /\ oper[o] # "Absent"
    /\ oper' = [oper EXCEPT ![o] = "ToBeDeleted"]
    /\ acks' = [acks EXCEPT ![o] = {}]

\* It is m's turn, whether for the first time or again.
Turn(o, m) ==
    /\ oper[o] # "Absent"
    /\ m \in Range(Order[o])
    /\ Before(o, m) \subseteq acks[o]

Acknowledge(o, m) ==
    /\ Turn(o, m)
    /\ IF acks[o] \cup {m} # Range(Order[o])
       THEN acks' = [acks EXCEPT ![o] = @ \cup {m}] /\ UNCHANGED oper
       ELSE IF oper[o] = "ToBeDeleted"
       THEN acks' = [acks EXCEPT ![o] = {}] /\ oper' = [oper EXCEPT ![o] = "Absent"]
       ELSE acks' = [acks EXCEPT ![o] = @ \cup {m}] /\ oper' = [oper EXCEPT ![o] = "Up"]

\* An object that is up stays so: the module will try again.
TakeBack(o, m) ==
    /\ Turn(o, m)
    /\ acks' = [acks EXCEPT ![o] = @ \ {m}]
    /\ UNCHANGED oper

\* A replay for module m: of the objects R what m has acknowledged is open again.
Renew(m, R) ==
    /\ \A o \in R : oper[o] # "Absent" /\ m \in Range(Order[o])
    /\ acks' = [o \in Obj |-> IF o \in R THEN acks[o] \ {m} ELSE acks[o]]
    /\ oper' = [o \in Obj |-> IF o \in R /\ oper[o] = "Up" THEN "Down" ELSE oper[o]]

Init ==
    /\ oper = [o \in Obj |-> "Absent"]
    /\ acks = [o \in Obj |-> {}]

Next ==
    \/ \E o \in Obj : AskFor(o) \/ AskToGo(o)
    \/ \E o \in Obj, m \in Modules : Acknowledge(o, m) \/ TakeBack(o, m)
    \/ \E m \in Modules, R \in SUBSET Obj : Renew(m, R)

Spec == Init /\ [][Next]_vars
=============================================================================
