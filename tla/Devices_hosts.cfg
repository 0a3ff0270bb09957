SPECIFICATION Spec
CONSTANTS
    v1 = v1  v2 = v2  l1 = l1  l2 = l2  s1 = s1  b1 = b1  grd = grd
    Vrf = {v1, v2}
    Lb = {l1}
    Svi = {s1}
    Bp = {b1}
    Grd = grd
    WithVni = {v1, l1}
    VlanOf <- OneVlanEach
    VrfOf <- SviOnV1
    LbOf <- SviOnL1
    LbsOf <- PortOnAll
    EnableBgp = {s1}
    Plugged = {b1}
    MaxTable = 2
    MaxOps = 4
    MaxFaults = 1
    MaxReplays = 1
INVARIANTS TypeOK SuccessIsInPlace GoneWithoutTrace TearDownCanBeRepeated TablesAreExclusive
CHECK_DEADLOCK FALSE
