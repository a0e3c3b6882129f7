SPECIFICATION FairSpec
CONSTANTS
    none = none
    p1 = p1
    p2 = p2
    song = song
    album = album
    cron = cron
    admin = admin
    Plays = {p1, p2}
    Paycards = {song, album}
    Runs = {cron, admin}
    Cron = cron
    None = none
    MaxAttempts = 2
    BatchLimit = 1
    MaxByHand = 1
    MaxCrashes = 1
INVARIANT ResolvedForCause
PROPERTY EventuallyResolved
CHECK_DEADLOCK FALSE
