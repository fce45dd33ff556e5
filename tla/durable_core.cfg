SPECIFICATION DurableSpec
CONSTANTS
    Chains = {c1, c2}
    Bytes = {x}
    MaxRows = 1
    MaxRecords = 3
    MaxSealing = 2
    MaxTroubles = 1
    Exports = {e1, e2}
    Pages = 2
    MaxPartAttempts = 2
    MaxUploads = 1
    ExportBuilds = {1}
    MaxOutages = 3
    MonthDays <- ThreeMonths
    Hours = 2
    WeekDays = 2
    StartDays = {1, 2}
    Years = 1
    Tiers = {pro, enterprise}
    Tenants = {t1}
    Slots = {s1, s2}
    Lanes = {1, 2}
    MaxSubs = 2
    MaxEvents = 4
    MaxChanges = 1
    Faults = {"reorder", "same_second", "unpaid", "paused", "lost_answer", "give_up"}
SYMMETRY Symmetry
INVARIANTS
    SealIsKept
    RecordsSurvive
    ExportIsComplete
    RunningIsWatched
    NextIsNext
    RowsFollowStripe
    NoStalePush
CHECK_DEADLOCK FALSE
