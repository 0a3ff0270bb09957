\* Two VRFs share the subscribers and a task channel with a single place.
CONSTANTS
    Modules = {"lgm", "frr"}
    Types = {"vrf"}
    Obj = {"vrf1", "vrf2"}
    TypeOf <- OneVrf_TypeOf
    SubsOf <- Vrf_SubsOf
    Sticky = {}
    Replayers = {"frr"}
    NotReplayed = {}
    ReplayErrs = 2
    QueueCap = 1
    MaxOps = 2
    MaxFaults = 3
SPECIFICATION Spec
INVARIANTS
    IInv
    NoLostIntent
    OneTaskPerVersion
PROPERTIES DeletedOnlyWhenTornDown KeepsPromise
\* With the operations used up the system comes to rest.
CHECK_DEADLOCK FALSE
