SPECIFICATION Spec
CONSTANTS
    stream = stream
    gift = gift
    Ids = {stream}
    Pool <- MCPool
    Expiry <- MCExpiry
    Hazards = {"overlap", "gap", "overtake", "kill", "torn", "reorg"}
    MaxKey = 4
    MaxClock = 1
    MaxCrashes = 2
INVARIANTS ActiveIsScheduled NeverUnderstated
PROPERTIES SnapshotMovesForward
