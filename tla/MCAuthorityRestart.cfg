SPECIFICATION Spec
CONSTANTS
    Sessions = {s1}
    Genes = {"patch"}
    Capabilities <- MCCapabilities
    Operations <- MCOperations
    GeneEffect <- MCPatchOnly
    Policies <- MCSupervised
    Controllers = {c1}
    Runs = {r1}
    Nonces = {}
    HookDenied = {}
    PermitTtl = 1
    ApprovalTtl = 1
    MaxTime = 1
    MaxExecutions = 2
    MaxCrashes = 1
    NoApproval = NoApproval
    ServiceNonce = ServiceNonce
INVARIANT PauseGetsApproval
CHECK_DEADLOCK FALSE
