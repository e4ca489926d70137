\* One watch, two entities that change, two requests or transactions at a time;
\* two usernames, two requests, two servers that start; two calls that write and
\* read two points, and one sample of a history that is kept; two reads by filter
\* of a store that is loaded again once, room for one answer, two
\* entities in a scan or a search; three libs.  A behaviour has entities, servers
\* or points: they share their names, so that one symmetry does.
CONSTANTS
    Entity = {e1, e2}
    WatchId = {w1}
    Task = {t1, t2}
    Server = {e1, e2}
    None = None
    Name = {su, ann}
    Superuser = su
    MaxRequests = 2
    MaxChanges = 2
    Point = {e1, e2}
    Text = Text
    Absent = Absent
    MaxHistory = 1
    MaxCalls = 2
    EntityId = {"s", "t", "e"}
    NoLimit = NoLimit
    Failure = Failure
    MaxCache = 1
    MaxScan = 2
    MaxFt = 2
    MaxReloads = 1
    Dialect = 2
    MaxLibs = 3
SPECIFICATION StoresSpec
CONSTRAINT Bounded
SYMMETRY Symmetry
INVARIANTS LostOnlyBetween
INVARIANTS NoSilentEffect LastSampleIsRead AnswersAsEvaluated
INVARIANTS FitsIsSubtype CompiledIsSound
PROPERTY LastAdminGoes
PROPERTY DeletedStaysDeleted
PROPERTY StartsWithAdmin
CHECK_DEADLOCK FALSE
