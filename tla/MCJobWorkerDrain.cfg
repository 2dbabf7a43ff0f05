SPECIFICATION FairWorkerSpec
CONSTANTS
    Owners = {}
    Durations = {1}
    Lag = 0
    MaxTime = 1
    NoOwner = NoOwner
    Nodes = {jobWorker}
    Leases = {w1}
    Processes = {w1}
    NoProcess = NoProcess
    NoNode = NoNode
    StaleAfter = 1
    MaxFleetNodes = 2
    MaxFleetLeases = 4
    MaxGeneration = 2
    Keys = {key}
    FenceOwners = {jobWorker}
    NoFenceOwner = NoFenceOwner
    Operations = {}
    NoKey = NoKey
    MaxFleetFences = 2
    MaxFenceOperationRows = 2
    RecoveryLimits = {1}
    MaxFenceGeneration = 2
    JobIds = {j1}
    Workers = {w1}
    NoWorker = NoWorker
    JobNode = jobWorker
    JobKey = key
    NoJob = NoJob
    LeaseSeconds = 1
    Modes = {"daemon", "watch", "batch"}
    Commands = {"start", "restart", "heartbeat", "drain", "reconcile",
                "reap", "recover", "stop"}
    OperatorTimes = {2}
    MaxCrashes = 0
PROPERTIES DrainEndsInStop
CHECK_DEADLOCK FALSE
