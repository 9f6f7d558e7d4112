SPECIFICATION Spec
CONSTANTS
    s1 = s1
    s2 = s2
    Followed = {"CUSTOMER"}
    Sockets = {s1, s2}
    SocketsOf <- MCSocketsOf
    MaxRounds = 0
    MaxWork <- MCMaxWork
    MaxFaults <- NoFaults
INVARIANT
    ProgressIsNotMissed
