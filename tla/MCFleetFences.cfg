SPECIFICATION Spec
CONSTANTS
    Owners = {}
    Durations = {1, 2}
    Lag = 1
    MaxTime = 1
    NoOwner = NoOwner
    Nodes = {}
    Leases = {}
    Processes = {}
    NoProcess = NoProcess
    NoNode = NoNode
    StaleAfter = 1
    MaxFleetNodes = 2
    MaxFleetLeases = 0
    MaxGeneration = 2
    Keys = {k1, k2}
    FenceOwners = {w1, w2}
    NoFenceOwner = NoFenceOwner
    Operations = {x1, x2}
    NoKey = NoKey
    MaxFleetFences = 2
    MaxFenceOperationRows = 2
    RecoveryLimits = {1}
    MaxFenceGeneration = 2
SYMMETRY Symmetry
INVARIANTS OneOperationPerFence OperationPinsFence ReleasedByItsHolder
PROPERTIES FencingMonotone
CHECK_DEADLOCK FALSE
