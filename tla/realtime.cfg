SPECIFICATION FairSpec
CONSTANTS
    s1 = s1
    s2 = s2
    Followed = {"CUSTOMER", "VENDOR", "DELIVERER"}
    Sockets = {s1, s2}
    SocketsOf <- MCSocketsOf
    MaxRounds = 1
    MaxWork <- MCMaxWork
    MaxFaults <- MCMaxFaults
INVARIANTS
    RealtimeTypeOK
    NothingIsMissed
    DelivererReplayIsComplete
    LogTellsTheState
PROPERTIES
    EventuallyTold
