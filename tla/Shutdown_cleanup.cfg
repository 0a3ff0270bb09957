\* An SVI on a VRF and a bridge, one call of a client, two failures.
SPECIFICATION FairSpec
CONSTANTS
    Obj = {"svi1", "vrf1", "lb1"}
    KindOf <- KindOfAll
    Uses <- UsesOfAll
    Phases <- InOrder
    Subscribers <- Config
    Stops <- StopOrder
    MaxCalls = 1
    MaxFaults = 2
INVARIANTS TypeOK NothingRemains RefusedOnlyByOthers
PROPERTIES GoneIsTornDown Exits
\* The process ends.
CHECK_DEADLOCK FALSE
