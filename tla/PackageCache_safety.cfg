SPECIFICATION PackagesSpec
CONSTANTS
    Name = {a}
    Bundled = {}
    Dir = {d1, d2}
    NoDir = NoDir
    Req = {r1, r2}
    MaxOutside = 1
    MaxBundles = 2
    MaxInstalls = 3
    Links <- Anchors
    Backgrounds <- Grounds
    EditorTypes = {"dtg"}
    h1 = h1
    h2 = h2
    Hosts = {h1, h2}
    Requests <- LinkRequests
    Answers <- LinkAnswers
    LINK_CACHE_LIMIT = 1
    LINK_CACHE_TTL = 1
    MaxCalls = 2
    MaxTime = 1
    FEATURES_TTL = 2
    PACKAGES_TTL = 1
    SEAM_ZOOM = 9
    DATA_MAX_ZOOM = 9
    Names = {"a", "b"}
    Misnamed = {"b"}
    Shipped = {}
    Headers <- FileHeaders
    MaxClock = 3
    MaxChanges = 1
SYMMETRY Symmetry
CHECK_DEADLOCK FALSE
INVARIANTS DiskStaysClean MemoSeesAnsweredWrites ClicksReachTheSidebar LinksTellTheTruth FailuresAreNotAnswers
