SPECIFICATION Spec
CONSTANTS
    Releases = {1, 2, 3}
    Name <- MCLibraryName
    MaxAsked = 0
    MaxFailures = 0
    MaxHalts = 0
INVARIANT NewVideoStays
CHECK_DEADLOCK FALSE
