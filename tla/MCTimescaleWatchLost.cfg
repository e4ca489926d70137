CONSTANTS
  Entity = {e1}
  WatchId = {w1}
  Session = {s1}
  None = None
  MaxVersion = 2
SPECIFICATION Spec
CONSTRAINT Bounded
INVARIANT NoNotificationLost
