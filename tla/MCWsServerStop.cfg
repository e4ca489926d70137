\* One client, which logs in and stays.
CONSTANTS
    Conn = {c1}
    MaxConnections = 1
    MaxPushes = 1
SPECIFICATION FairSpec
PROPERTY StopCloses
CHECK_DEADLOCK FALSE
