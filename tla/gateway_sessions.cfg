SPECIFICATION Spec
CONSTANTS
    Nil = Nil
    g1 = g1
    g2 = g2
    r1 = r1
    r2 = r2
    j1 = j1
    j2 = j2
    j3 = j3
    Gateways = {g1, g2}
    Requests = {r1, r2}
    Users = {"u1"}
    Tokens = {j1, j2}
    TTL = 2
    MaxTime = 2
    MaxEntered = 3
    MaxFaults = 1
SYMMETRY MCSymmetry
INVARIANTS
    SessionsTypeOK
    LoggedOutIsRefused
    PasswordChangeEndsSessions
    LiveSessionsAreListed
\* Every token drawn and time at its bound.
CHECK_DEADLOCK FALSE
