SPECIFICATION TenantsSpec
CONSTANTS
    Accounts = {a, b}
    Names = {n1}
    None = None
    Slots = {c1, c2, c3}
    MaxInc = 3
    MaxInstances = 1
    CpNamesIncarnation = TRUE
    Jobs = TRUE
    Clients = {d1}
    Handlers = {h1}
    Statics = {f1, f2}
    Contents = {x, y}
    p1 = p1
    p2 = p2
    Packages = {p1, p2}
    Graphs <- SomeGraphs
    NeedSiblings = {p1}
    PageLimit = 2
    NoFile = NoFile
    k1 = k1
    k2 = k2
    k3 = k3
    Readers = {r1, r2}
    Manifests <- SomeManifests
    NoManifest = NoManifest
    Fillers = {"t1", "a1", "export"}
    Modules = {"m1"}
    TextFiles = {"s1"}
    Binaries = {"b1"}
    PackageSet = "packages"
    AtFirst = {"m1", "s1", "b1", "packages"}
    Texts = {"v0", "v1"}
    Original = "v0"
    Absent = Absent
    Troubles = {}
    MaxDeploys = 2
    Headers = {"h"}
    Keys = {"k"}
    Kinds = {"inbound", "inbound_chunk", "timer", "send_callback", "fetch_chunk"}
    Features = {}
    Cap = 2
    MaxReads = 2
    RowKeys = {"a", "b"}
    RowValues = {"x", "y"}
    Nil = Nil
    Unseen = Unseen
    Rereads = TRUE
    MaxLog = 3
    SagaHops = 3
    Busy = {3}
    SagaPage = 2
    ScanCap = 1
    MaxAsked = 2
    LineCount = 1
    SnapshotStep = 1
    MaxEvents = 6
SYMMETRY Symmetry
INVARIANTS
    NoForeignAccess
    BindingIsOwners
    CutIsTheBundle
    ImportsAreReady
    SourcesAreWhole
    EveryRouteIsGated
    FaithfulOrPoisoned
    CutCoversTheRun
    GapsAreTrue
    SourceIsLive
PROPERTIES
    ShipsTheWanted
    VerbsKeepFrames
CHECK_DEADLOCK FALSE
