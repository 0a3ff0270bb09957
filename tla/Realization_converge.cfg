CONSTANTS
    Modules = {"lgm", "frr"}
    Types = {"vrf"}
    Obj = {"vrf1"}
    TypeOf <- OneVrf_TypeOf
    SubsOf <- Vrf_SubsOf
    NotReplayed = {}
    QueueCap = 2
    Sticky = {"lgm"}
    Replayers = {}
    ReplayErrs = 7
    MaxOps = 2
    MaxFaults = 2
SPECIFICATION FairSpec
PROPERTY Converges
CHECK_DEADLOCK FALSE
