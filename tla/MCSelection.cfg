SPECIFICATION Spec
CONSTANTS
    Hashes = {1, 2, 3}
    Spaces = {"e1", "e2"}
    NoSpace = "untracked"
    Release <- MCRelease
    Match <- MCMatch
    Profiles <- MCProfiles
    MaxRequests = 1
    MaxPasses = 2
INVARIANTS TypeOK ImprovesAlone
PROPERTIES NeverDowngrades KeepsWhatItHas AutoDiscardStops
CHECK_DEADLOCK FALSE
