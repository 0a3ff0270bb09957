CONSTANTS
    Modules = {"lgm", "frr"}
    Types = {"vrf"}
    Obj = {"vrf1"}
    TypeOf <- OneVrf_TypeOf
    SubsOf <- Vrf_SubsOf
    NotReplayed = {}
    QueueCap = 2
    Sticky = {}
    Replayers = {"frr"}
    ReplayErrs = 2
    MaxOps = 2
    MaxFaults = 2
SPECIFICATION Spec
INVARIANT WaitsForARealReplay
CHECK_DEADLOCK FALSE
