SPECIFICATION Spec
CONSTANTS
    t1 = t1
    t2 = t2
    c1 = c1
    c2 = c2
    NoTorrent = NoTorrent
    Torrents <- TwoReleases
    Episode <- OneEpisode
    Part <- WholeEpisode
    Ceiling <- WholeEpisode
    Clients = {c1, c2}
    RetryLimit = 2
    MaxId = 2
    CreatedAt <- SameSecond
    Kinds <- AllKinds
    MaxRequests = 2
    MaxRestarts = 1
PROPERTY FinalForWorkers
