SPECIFICATION Spec
CONSTANTS
    hub = hub
    clone = clone
    factory = factory
    cron = cron
    admin = admin
    Canonical = hub
    Clones = {}
    Factory = factory
    Ticks = {cron, admin}
    Cron = cron
    Pool = 2
    Window = 2
    MaxChunks = 2
    Backfill = 1
    MaxHead = 3
    MaxByHand = 1
    MaxFailures = 1
INVARIANTS RowMatchesRegistry NeverUnderstated
