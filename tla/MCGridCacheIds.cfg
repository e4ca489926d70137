\* Two reads by id, one after the other, over HTTP.
CONSTANTS
  Path = {"http"}
  Query <- IdRows
  Task = {t1}
  None = None
  Failure = Failure
  MaxCache = 2
  MaxVersion = 1
SPECIFICATION Spec
CONSTRAINT Bounded
INVARIANT IdReadsAreOwn
