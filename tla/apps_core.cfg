SPECIFICATION AppsSpec
CONSTANTS
    Users = {u1, u2, u3}
    TeamIds = {a1}
    Tokens = {k1, k2}
    None = None
    TeamLimit = 1
    OperatorActs = TRUE
    Devices = {s1, s2}
    Addresses = {m1, m2}
    Origins = {o1}
    NoOne = NoOne
    Ttl = 2
    Cooldown = 2
    MaxLinks = 2
    MaxTime = 3
    Specs = {"a", "b"}
    Versions <- PlainVersions
    Files = {"plain", "store", "sys"}
    FileCaps <- Caps
    Privileged = {"sys"}
    Ranges <- SomeRanges
    MaxPublished = 3
    Elements = {"pay"}
    Danger = {"pay"}
    Options <- SomeChoices
    MaxTranscript = 24
    MaxTurns = 3
    Types = {"paid"}
    MaxSources = 2
    MaxTimers = 2
    MaxFailures = 1
INVARIANTS
    RowsAgree
    SomeoneOwns
    LoginIsSound
    LocksAreRight
    ConfirmedFirst
    HandlersHear
PROPERTIES
    PublishedIsFrozen
CHECK_DEADLOCK FALSE
