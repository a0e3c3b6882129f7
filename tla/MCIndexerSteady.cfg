SPECIFICATION FairSpec
CONSTANTS
    hub = hub
    clone = clone
    factory = factory
    cron = cron
    admin = admin
    Canonical = hub
    Clones = {clone}
    Factory = factory
    Ticks = {cron}
    Cron = cron
    Pool = 2
    Window = 2
    MaxChunks = 3
    Backfill = 2
    MaxHead = 4
    MaxByHand = 0
    MaxFailures = 1
INVARIANT NothingSkipped
PROPERTY EventuallyIndexed
