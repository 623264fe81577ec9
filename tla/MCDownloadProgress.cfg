SPECIFICATION FairSpec
CONSTANTS
    t1 = t1
    t2 = t2
    c1 = c1
    c2 = c2
    NoTorrent = NoTorrent
    Torrents <- OneRelease
    Episode <- OneEpisode
    Part <- WholeEpisode
    Ceiling <- WholeEpisode
    Clients = {c1}
    RetryLimit = 1
    MaxId = 1
    CreatedAt <- SameSecond
    Kinds = {"select", "discard", "delete", "override"}
    MaxRequests = 3
    MaxRestarts = 1
PROPERTIES ImportsEnd PendingIsSent
