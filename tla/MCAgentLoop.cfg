SPECIFICATION Spec
CONSTANTS
    Edits = {"patch"}
    Checks = {"verify"}
    AutoVerify = "verify"
    NoAction = NoAction
    MaxTurns = 3
    MaxToolCalls = 4
    MaxDuplicates = 2
    Window = 1
    MaxHistory = 4
    MaxStored = 6
    MaxBatch = 2
    MaxRuns = 2
INVARIANTS RequestsPairCalls PausesKeepTheirCall
PROPERTIES  RunsEnd
CHECK_DEADLOCK FALSE
