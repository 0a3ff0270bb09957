\* Two SVIs and two bridge ports refer to a VRF and a logical bridge, which compete
\* for a VNI.
CONSTANTS
    Vrf = {v1}
    Lb = {l1}
    Svi = {s1, s2}
    Bp = {b1, b2}
    Vni = {n1}
    NoVni = NoVni
    Mac = {m1, m2}
    NoMac = NoMac
    MaxCalls = 2
    MaxOps = 5
    MaxFaults = 1
    MaxUpdates = 1
SPECIFICATION Spec
SYMMETRY Symmetric
INVARIANTS
    TypeOK
    RefersToStored
    MacTableAgrees
    VniExclusive
    ListedIsStored
    AnnouncedIsListed
    IInv
\* With the calls used up the system comes to rest.
CHECK_DEADLOCK FALSE
