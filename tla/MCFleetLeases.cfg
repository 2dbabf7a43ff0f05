SPECIFICATION Spec
CONSTANTS
    Owners = {o1, o2}
    Durations = {1}
    Lag = 1
    MaxTime = 2
    NoOwner = NoOwner
    Nodes = {n1}
    Leases = {l1, l2}
    Processes = {p1}
    NoProcess = NoProcess
    NoNode = NoNode
    StaleAfter = 1
    MaxFleetNodes = 2
    MaxFleetLeases = 2
    MaxGeneration = 2
    Keys = {}
    FenceOwners = {}
    NoFenceOwner = NoFenceOwner
    Operations = {}
    NoKey = NoKey
    MaxFleetFences = 2
    MaxFenceOperationRows = 2
    RecoveryLimits = {1}
    MaxFenceGeneration = 0
SYMMETRY Symmetry
INVARIANTS TypeOK NoLeaseOnStoppedNode ActiveLeaseOfGeneration QuiescenceExcludesLeases
PROPERTIES LeaseForward
CHECK_DEADLOCK FALSE
