\* Two requests at a time over every path, room for one answer in every cache,
\* three hops of a grid.
CONSTANTS
    None = None
    Path = {"http", "get", "ws", "binary"}
    Query <- Rows
    Task = {t1, t2}
    Failure = Failure
    MaxCache = 1
    MaxVersion = 2
    MaxDecodeDepth = 4
    MaxTrioDepth = 1
    Instants = {"t1", "local"}
    Zones = {"UTC", "New_York"}
    MaxHops = 3
SPECIFICATION AnswersSpec
CONSTRAINT Bounded
SYMMETRY Symmetry
INVARIANTS FreshUnlessRaced AnswersAreOwn
PROPERTY KeepsWhatItCan
PROPERTY LossIsAtOnce
CHECK_DEADLOCK FALSE
