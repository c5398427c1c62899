CONSTANTS
    o1 = o1  o2 = o2  q1 = q1  q2 = q2  v1 = v1  a1 = a1  a2 = a2  h1 = h1
    Nothing = Nothing
    Reqs = {o1, q1, q2, v1}
    KindOf <- Kinds
    HarnessTokens = {}
    MaxSessions = 1
    Second = 2
    LIVENESS_TTL_MS = 2
    ReadTimeout = 1
    MaxTime = 4
    Expiries = {3, 4, 6}
    ClockSkew = 1
    MaxAhead = 9
    HarnessTTL = 3
    MaxRestarts = 1
    Faults = {"db", "chain", "read"}
SPECIFICATION Spec
SYMMETRY ReqSymmetry
INVARIANTS GoneIsGone
PROPERTIES BurnEndsNamedSession RevocationEndsSession ExpiryEndsSession
\* Clients send finitely many requests and the clock stops, so the system stops.
CHECK_DEADLOCK FALSE
