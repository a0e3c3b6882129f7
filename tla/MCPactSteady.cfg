SPECIFICATION Spec
CONSTANTS
    p1 = p1
    p2 = p2
    c1 = c1
    c2 = c2
    k1 = k1
    None = None
    Authority = "owner"
    PactIds = {p1, p2}
    Paycards = {c1, c2}
    Cases = {k1}
    Proposals <- MCBoth
    Paths <- MCWide
    Commands <- MCOneRemedy
    Hazards = {}
    Period = 1
    MaxClock = 0
    MaxInFlight = 1
    MaxCheckpoints = 1
INVARIANTS ExposureRespected SettledIsPaid
CHECK_DEADLOCK FALSE
SYMMETRY Alike
