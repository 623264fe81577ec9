SPECIFICATION FairSpec
CONSTANTS
    t1 = t1
    t2 = t2
    c1 = c1
    c2 = c2
    NoTorrent = NoTorrent
    Torrents <- TwoReleases
    Episode <- OneEpisode
    Part <- WholeEpisode
    Ceiling <- WholeEpisode
    Clients = {c1}
    RetryLimit = 1
    MaxId = 2
    CreatedAt <- SameSecond
    Kinds = {"select"}
    MaxRequests = 1
    MaxRestarts = 0
PROPERTY FailedImportsAreGivenUp
