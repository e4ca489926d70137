\* Two tasks, clients or requests at a time, three ids of which two fit on the wire;
\* two pushes and one answer at a time, of two or three chunks, on two keys, with a
\* wire that takes one frame.
CONSTANTS
    Task = {t1, t2}
    MaxIds = 3
    MaxSize = 2
    ServerMax = 1
    WireIds = 2
    Conn = {c1, c2}
    MaxConnections = 1
    MaxPushes = 1
    Pusher = {p1, p2}
    Key = {k0, k1}
    PushKey = k0
    Total = {2, 3}
    None = None
    Ttl = 1
    Period = 0
    MaxWire = 1
    MaxTransfers = 3
    MaxTokens = 3
    MaxCalls = 2
SPECIFICATION ConnectionsSpec
SYMMETRY Symmetry
INVARIANTS RightAnswer EntryHasOwner PlacesAreCounted LoginMeetsPush
INVARIANTS PayloadIsOneTransfer
INVARIANTS RunOnce AuthErrorHasCause
PROPERTY SettledOnce
CHECK_DEADLOCK FALSE
