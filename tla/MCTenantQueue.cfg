SPECIFICATION Spec
CONSTANTS
    a = a
    b = b
    a1 = a1
    a2 = a2
    a3 = a3
    b1 = b1
    w1 = w1
    w2 = w2
    Tenants = {a, b}
    Workers = {w1, w2}
    TenantOf <- MCTenantOf
    MaxRetries = 2
    None = None
    Requests = {a1, a2, a3, b1}
    Impatient = {a1}
    MaxSize = 2
INVARIANTS TypeOK ActiveTenantsAgree FairTurns ItemInOnePlace LostItemIsExplained
PROPERTIES ImplementsTenantFifo
SYMMETRY Symmetry
CHECK_DEADLOCK FALSE
