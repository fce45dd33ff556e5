SPECIFICATION Spec
CONSTANTS
    t1 = t1
    t2 = t2
    Tenants = {t1, t2}
    TenantKey <- MCTenantKey2
    NKeys = 6
    BillingKey = 1
    SelfKey = 4
    InviteKey = 5
    PlanKey = 6
    PageSize = 3
    NSteps = 2
    NPos = 3
    Foreign <- MCForeign
    ScanLimit = 2
    MaxJobs = 1
    MaxRetries = 1
    MaxCalls = 2
INVARIANT PendingHasSend
CHECK_DEADLOCK FALSE
