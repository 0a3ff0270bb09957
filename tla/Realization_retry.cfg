\* One VRF, three API operations, two faults, no module that asks for replays.
CONSTANTS
    Modules = {"lgm", "frr"}
    Types = {"vrf"}
    Obj = {"vrf1"}
    TypeOf <- OneVrf_TypeOf
    SubsOf <- Vrf_SubsOf
    Sticky = {}
    Replayers = {}
    NotReplayed = {}
    ReplayErrs = 7
    QueueCap = 2
    MaxOps = 3
    MaxFaults = 2
SPECIFICATION Spec
INVARIANTS
    TypeOK
    SuccessMeansRealised
    NoLostIntent
    PriorityOrder
    NoResurrection
PROPERTIES DeletedOnlyWhenTornDown KeepsPromise
\* With the operations used up the system comes to rest.
CHECK_DEADLOCK FALSE
