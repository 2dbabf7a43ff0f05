SPECIFICATION ServiceSpec
CONSTANTS
    Owners = {m1}
    Durations = {1}
    Lag = 0
    MaxTime = 1
    NoOwner = NoOwner
    Nodes = {service}
    Leases = {c1, c2}
    Processes = {}
    NoProcess = NoProcess
    NoNode = NoNode
    StaleAfter = 1
    MaxFleetNodes = 1
    MaxFleetLeases = 3
    MaxGeneration = 0
    s1 = s1
    s2 = s2
    Keys = {s1, s2}
    FenceOwners = {service}
    NoFenceOwner = NoFenceOwner
    Operations = {}
    NoKey = NoKey
    MaxFleetFences = 3
    MaxFenceOperationRows = 1
    RecoveryLimits = {1}
    MaxFenceGeneration = 3
    Requests <- MCRequests
    IdempotencyKeys = {"k1", "k2"}
    NoRequest = NoRequest
    Responses <- MCResponses
    NoResponse = NoResponse
    MaxLedgerRows = 2
    Calls = {c1, c2}
    Existing = {s1}
    NoSession = NoSession
    ServiceNode = service
    ServiceLease = 1
    Mutations = {m1}
    MaxStarts = 2
SYMMETRY Symmetry
INVARIANTS ExecutedOnce AnswersAreRecorded OverlappingRunsRecordOne MutationsRunAlone AnsweredCallsHoldNothing
CHECK_DEADLOCK FALSE
