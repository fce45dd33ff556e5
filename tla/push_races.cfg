SPECIFICATION Spec
CONSTANTS
    Tiers = {pro, enterprise}
    Tenants = {t1}
    Slots = {c1}
    Lanes = {1, 2}
    MaxSubs = 1
    MaxEvents = 3
    MaxChanges = 1
    Faults = {}
INVARIANTS
    PushConverges
CHECK_DEADLOCK FALSE
