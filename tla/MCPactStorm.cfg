SPECIFICATION Spec
CONSTANTS
    p1 = p1
    p2 = p2
    c1 = c1
    c2 = c2
    k1 = k1
    None = None
    Authority = "owner"
    PactIds = {p1}
    Paycards = {c1, c2}
    Cases = {k1}
    Proposals <- MCSupply
    Paths <- MCWide
    Commands <- MCDispute
    Hazards = {"hasty", "afterlife", "rerecord"}
    Period = 1
    MaxClock = 0
    MaxInFlight = 2
    MaxCheckpoints = 1
INVARIANTS FundedOnChain FundedWasSigned
PROPERTIES OpeningIsLasting
CHECK_DEADLOCK FALSE
SYMMETRY Alike
