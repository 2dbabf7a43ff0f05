SPECIFICATION Spec
CONSTANTS
    Sessions = {s1}
    Genes = {"patch"}
    Capabilities <- MCCapabilities
    Operations <- MCOperations
    GeneEffect <- MCPatchOnly
    Policies <- MCSupervised
    Controllers = {c1, c2}
    Runs = {r1, r2}
    Nonces = {}
    HookDenied = {}
    PermitTtl = 1
    ApprovalTtl = 1
    MaxTime = 1
    MaxExecutions = 2
    MaxCrashes = 1
    NoApproval = NoApproval
    ServiceNonce = ServiceNonce
SYMMETRY Symmetry
INVARIANTS TypeOK OneEffectPerApproval
PROPERTIES ApprovalForward
CHECK_DEADLOCK FALSE
