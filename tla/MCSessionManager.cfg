SPECIFICATION FairSpec
CONSTANTS
    Threads = {t0, t1}
    AcceptThread = t0
    Connections = {c1, c2, c3}
INVARIANTS TypeOK OneTimer SessionsAgree
PROPERTIES StubOutlivesTasks IdleIsClosed StubIsReleased
CHECK_DEADLOCK FALSE
