SPECIFICATION LiveSpec
CONSTANTS
    t1 = t1
    t2 = t2
    Tenants = {t1, t2}
    TenantKey <- MCTenantKey2
    NKeys = 6
    BillingKey = 1
    SelfKey = 4
    InviteKey = 5
    PlanKey = 6
    PageSize = 3
    NSteps = 2
    NPos = 3
    Foreign <- MCForeign
    ScanLimit = 2
    MaxJobs = 1
    MaxRetries = 1
    MaxCalls = 1
    Sends = {s1}
    Timers = {w1}
    Refused = {}
    Builds = {1, 2}
    Watchdog = 3
    AttemptTimeout = 1
    BackoffCap = 2
    BackoffUnit = 1
    MaxAttempts = 2
    MaxFires = 2
    MaxOutstanding = 2
    Delays = {0, 1}
    MaxSends = 2
    MaxCrashes = 1
    Requests = {r1, r2}
    Deployments = {d1, d2, d3}
    Unfit = {d3}
    Long = {d2}
    Nothing = Nothing
    MaxRuns = 2
    MaxLosses = 1
INVARIANTS
    OwedIsWatched
    WatermarkCovers
PROPERTIES
    CallsSpec
    JobRests
    SendsSettle
    ParkedIsAnswered
CHECK_DEADLOCK FALSE
