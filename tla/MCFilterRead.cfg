\* Two reads of a store that is loaded again once; room for one
\* answer; a scan sends two entities, a search gives two.
CONSTANTS
    Entity = {"s", "t", "e"}
    Reader = {r1, r2}
    NoLimit = NoLimit
    Failure = Failure
    MaxCache = 1
    MaxScan = 2
    MaxFt = 2
    MaxLoads = 1
    Dialect = 2
SPECIFICATION Spec
INVARIANT FindsOwnText
CHECK_DEADLOCK FALSE
