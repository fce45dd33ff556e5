SPECIFICATION AccountSpec
CONSTANTS
    Tiers = {pro}
    Tenants = {}
    Slots = {c1, c2}
    Lanes = {1}
    MaxSubs = 2
    MaxEvents = 4
    MaxChanges = 0
    Faults = {"reorder", "same_second", "unpaid", "paused", "lost_answer"}
    AttemptWindow = 2
    AttemptsPerWindow = 2
    DeclineWindow = 3
    DeclinesPerWindow = 3
    CardsPerWindow = 2
    HoldTime = 3
    Cards = {k1, k2}
    NoCard = NoCard
    Corruptions = 1
    MaxNow = 6
    MaxDeclines = 3
SYMMETRY Symmetry
INVARIANTS
    NoPlanUnpaid
    PlanNotStale
    RefusalIsEarned
CHECK_DEADLOCK FALSE
