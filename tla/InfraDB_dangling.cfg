\* A reference to what is being deleted.
CONSTANTS
    Vrf = {v1}
    Lb = {l1}
    Svi = {s1}
    Bp = {}
    Vni = {}
    NoVni = NoVni
    Mac = {}
    NoMac = NoMac
    MaxCalls = 1
    MaxOps = 4
    MaxFaults = 0
    MaxUpdates = 0
SPECIFICATION Spec
SYMMETRY Symmetric
INVARIANTS
    NoDanglingReference
\* With the calls used up the system comes to rest.
CHECK_DEADLOCK FALSE
