SPECIFICATION Spec
CONSTANTS
    p1 = p1
    p2 = p2
    c1 = c1
    c2 = c2
    k1 = k1
    None = None
    Authority = "owner"
    PactIds = {p1}
    Paycards = {c1}
    Cases = {}
    Proposals <- MCBoth
    Paths <- MCRevised
    Commands <- MCRule
    Hazards = {"hasty", "afterlife", "rerecord"}
    Period = 1
    MaxClock = 1
    MaxInFlight = 1
    MaxCheckpoints = 1
INVARIANTS FormedUnderItsPath CommandsOnce
PROPERTIES OpeningAuthorized
CHECK_DEADLOCK FALSE
