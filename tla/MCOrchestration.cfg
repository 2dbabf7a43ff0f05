SPECIFICATION Spec
CONSTANTS
    Runs = {x1}
    Workers = {w1, w2}
    Receipts = {c1, c2, c3, c4}
    Digests = {d1, d2}
    NoWorker = NoWorker
    NoReceipt = NoReceipt
    Resources <- MCResources
    RoleOrder <- MCRoleOrder
    DependsOn <- MCDependsOn
    MaxParallelism = 2
    Reserve <- MCReserve
    Ceiling <- MCCeiling
    MaxAmount = 10
    Usages <- MCUsages
SYMMETRY Symmetry
INVARIANTS ReservationsMatchRoles AccountsKept RolesKept
PROPERTIES ImplementsBudget
CHECK_DEADLOCK FALSE
