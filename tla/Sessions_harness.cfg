CONSTANTS
    o1 = o1  o2 = o2  q1 = q1  q2 = q2  v1 = v1  a1 = a1  a2 = a2  h1 = h1
    Nothing = Nothing
    Reqs = {o1, q1, q2, a1, a2}
    KindOf <- Kinds
    HarnessTokens = {h1}
    MaxSessions = 3
    Second = 2
    LIVENESS_TTL_MS = 1
    ReadTimeout = 1
    MaxTime = 2
    Expiries = {2}
    ClockSkew = 1
    MaxAhead = 9
    HarnessTTL = 2
    MaxRestarts = 1
    Faults = {"db"}
SPECIFICATION Spec
SYMMETRY ReqSymmetry
PROPERTIES RevokedHarnessWindsDown
\* Clients send finitely many requests and the clock stops, so the system stops.
CHECK_DEADLOCK FALSE
