SPECIFICATION FairSpec
CONSTANTS
    a = a
    b = b
    a1 = a1
    a2 = a2
    a3 = a3
    b1 = b1
    w1 = w1
    w2 = w2
    Tenants = {a, b}
    Workers = {w1, w2}
    TenantOf <- MCTenantOf
    MaxRetries = 2
    None = None
    Requests = {a1, a2, b1}
    Impatient = {a1}
    MaxSize = 1
PROPERTIES CallReturns SchedulerStops
CHECK_DEADLOCK FALSE
