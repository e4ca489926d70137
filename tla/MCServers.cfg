\* Two HELLO calls that wait for the user store at the same time, a table of two
\* handshakes, and three handshakes that can come to a token with room for two.
\* One watch, two entities, two requests at a time; two changes, or one change
\* and one command that goes unanswered.
CONSTANTS
  User = {alice}
  Password = {pw1}
  None = None
  Call = {c1, c2}
  HandshakeTimeout = 1
  TokenLifetime = 1
  MaxHandshakes = 2
  MaxTokens = 2
  MaxTime = 2
  MaxFresh = 9
  Entity = {e1, e2}
  WatchId = {w1}
  Task = {t1, t2}
  MaxChanges = 2
  MaxLate = 1
SPECIFICATION ServersSpec
CONSTRAINT Bounded
SYMMETRY Symmetry
INVARIANTS TablesBounded OneTokenPerHandshake TokenInTime LostToNewerTokens
INVARIANTS NoChangeMissed LeftoverOnlyByRace
PROPERTY HelloSparesOthers
