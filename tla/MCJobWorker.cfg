SPECIFICATION WorkerSpec
CONSTANTS
    Owners = {}
    Durations = {1}
    Lag = 0
    MaxTime = 2
    NoOwner = NoOwner
    Nodes = {jobWorker}
    Leases = {w1, w2}
    Processes = {w1, w2}
    NoProcess = NoProcess
    NoNode = NoNode
    StaleAfter = 1
    MaxFleetNodes = 2
    MaxFleetLeases = 4
    MaxGeneration = 4
    Keys = {key}
    FenceOwners = {jobWorker}
    NoFenceOwner = NoFenceOwner
    Operations = {}
    NoKey = NoKey
    MaxFleetFences = 2
    MaxFenceOperationRows = 2
    RecoveryLimits = {1}
    MaxFenceGeneration = 4
    JobIds = {j1}
    Workers = {w1, w2}
    NoWorker = NoWorker
    JobNode = jobWorker
    JobKey = key
    NoJob = NoJob
    LeaseSeconds = 2
    Modes = {"daemon"}
    Commands = {"drain"}
    OperatorTimes = {}
    MaxCrashes = 1
SYMMETRY Symmetry
INVARIANTS OneExecution OneWorkerPasses
PROPERTIES JobForward
CHECK_DEADLOCK FALSE
