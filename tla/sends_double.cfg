SPECIFICATION PunctualSpec
CONSTANTS
    Sends = {s1}
    Timers = {}
    Refused = {}
    Builds = {1}
    Watchdog = 20
    AttemptTimeout = 15
    BackoffCap = 30
    BackoffUnit = 2
    MaxAttempts = 5
    MaxFires = 256
    MaxOutstanding = 10000
    Delays = {0}
    MaxSends = 1
    MaxCrashes = 0
INVARIANT
    NoDoubleSend
