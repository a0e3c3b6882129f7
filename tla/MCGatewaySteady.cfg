SPECIFICATION FairSpec
CONSTANTS
    stream = stream
    gift = gift
    Ids = {stream, gift}
    Pool <- MCPool
    Expiry <- MCExpiry
    Hazards = {}
    MaxKey = 4
    MaxClock = 1
    MaxCrashes = 2
INVARIANTS ConvergesToChain
PROPERTIES EventuallyInStep ExpiryNoticed
