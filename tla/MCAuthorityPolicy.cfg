SPECIFICATION FairSpec
CONSTANTS
    Sessions = {s1}
    Genes = {"patch", "compare", "vetoed"}
    Capabilities <- MCCapabilities
    Operations <- MCOperations
    GeneEffect <- MCThreeGenes
    Policies <- MCMixed
    Controllers = {c1}
    Runs = {r1, r2}
    Nonces = {n1}
    HookDenied = {"vetoed"}
    PermitTtl = 1
    ApprovalTtl = 1
    MaxTime = 1
    MaxExecutions = 2
    MaxCrashes = 0
    NoApproval = NoApproval
    ServiceNonce = ServiceNonce
INVARIANTS EffectsAuthorized
PROPERTIES RunsFinish
CHECK_DEADLOCK FALSE
