SPECIFICATION Spec
CONSTANTS
    show1 = show1  show2 = show2  user1 = user1  user2 = user2
    Users = {user1, user2}
    NoUser = nobody
    Shows = {show1, show2}
    Starting <- MCStarting
    Wanted = {"completed"}
    MaxEdits = 3
    Services <- MCServices
    AskedUnset = {"anilist"}
    Faults = {"down", "gone"}
    FaultLevel <- MCLevel
    Failures = {"FAILED"}
    MaxNotes = 2
    MaxChanges = 2
    Versions = {1, 2, 3}
    Keep = 1
    MaxFiles = 2
    MaxStops = 3
    Kinds = {"series", "extras", "anime", "response", "image", "asset"}
    Readers = {r1, r2}
    Life = 1
    MaxFetch = 1
    MaxNew = 1
    MaxTime = 4
    MonthStart <- MCMonthStart
    Unit = 2
    Releases = {1, 2, 3}
    Name <- MCName
    MaxAsked = 1
    MaxFailures = 1
    MaxHalts = 1
    Codes = {"token", "name", "language"}
    Forms <- MCForms
    Offered = {"x", "none"}
    Validated <- MCValidated
    Refused = "invalid"
    Editors = {e1, e2}
    MaxSubmits = 3
INVARIANTS TypeOK ServesWhole FreshAnswers RangeIsCovered NewVideoStays MemoryFollowsRows
PROPERTIES ListCatchesUp OutdatedIsRetracted
CHECK_DEADLOCK FALSE
