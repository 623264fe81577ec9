SPECIFICATION Spec
CONSTANTS
    Open = Open
    Animes = {1, 2}
    Keys = {10, 11, 20, 21}
    Series <- MCSeries
    Season <- MCSeason
    RuleFiles <- MCRuleFiles
    CountFiles <- MCCountFiles
    Same = Same
    Unknown = Unknown
    Ids = {i1, i2}
    Numbers = {1, 2, 3, 4}
    Ceilings = {2, 4}
    Bodies <- MCBodies
    MaxEdits = 1
    MappingFiles <- MCMappingFiles
    HotFiles <- MCHotFiles
    Shows = {1, 2}
    Groups = {"G"}
    Titles = {"S2", "Season 2"}
    NoTitle = "none"
    Normal <- MCNormal
    FromEpisodes = {1, 2}
    GroupBodies <- MCGroupBodies
    Settings = {s1, s2}
    MaxProfiles = 3
    MaxUpdates = 2
    Offsets = {1}
    Searched = {1, 2}
    TitleRules <- MCTitleRules
SYMMETRY Alike
INVARIANTS TypeOK RowsRoundTrip NumbersSettle NamesTellApart
PROPERTIES AnswersStand MatchedIsTracked ClaimDecides ProfilesAreOwned
CHECK_DEADLOCK FALSE
