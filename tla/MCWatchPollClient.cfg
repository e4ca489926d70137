\* One watch, two entities, one tag (a dict either has it or not); no symmetry,
\* since liveness is checked.
SPECIFICATION PFairSpec
CONSTANTS
  Entity = {e1, e2}
  Tag = {t1}
  WatchId = {w1}
  None = None
INVARIANTS NoChangeMissed IndexMissesNothing NoTagMissing
PROPERTIES ContractSpec ChangeReachesHolder
