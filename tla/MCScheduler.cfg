\* Two workers, two triggers at a time, any number over time. A stopped manager
\* comes to rest.
SPECIFICATION AllSpec
CONSTANTS
    Workers  = {feed, stuck}
    Items    = {i1, i2, i3, i4}
    NoWorker = NoWorker
    Pages = {p1, p2}
    Writers = {w1, w2}
    Watched = {d1, d2}
    MaxWrites = 2
    MaxMoves = 3
INVARIANTS
    TypeOK
    OneSchedule
PROPERTIES
    RunsAgain
    TriggersRun
    PagesCatchUp
CHECK_DEADLOCK FALSE
