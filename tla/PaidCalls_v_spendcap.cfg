CONSTANTS
    c1 = c1  c2 = c2  c3 = c3  g1 = g1  g2 = g2  s1 = s1  s2 = s2  b1 = b1  b2 = b2
    Nothing = Nothing
    NoCode = NoCode
    UpstreamCodes = {200, 400, 402, 403, 429, 500}
    Calls = {c1, c2, c3}
    Gets = {}
    Sessions = {s1}
    Bodies = {b1}
    SessionOf <- OneSession
    KindOf <- AllCompletions
    BodyOf <- OneBody
    SpendCap <- CapOf1
    PerRequestCap <- CapOf1
    MaxPrice = 1
    CACHE_MAX_ENTRIES = 1
    MaxInFlight = 2
    MaxRestarts = 0
    Repricing = FALSE
    Faults = {}
SPECIFICATION Spec
SYMMETRY CallSymmetry
INVARIANTS SpentWithinCap
\* Clients send finitely many requests, so the system stops.
CHECK_DEADLOCK FALSE
