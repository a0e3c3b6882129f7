SPECIFICATION FairSpec
CONSTANTS
    none = none
    tab = tab
    phone = phone
    Pages = {tab, phone}
    None = none
    Lead = 0
    Life = 2
    MaxTime = 4
    MaxPending = 2
    MaxCloses = 1
    MaxFailures = 1
    MaxOthers = 1
INVARIANTS   PaidReadsSettled SettledInFull
PROPERTY EventuallySettled
CHECK_DEADLOCK FALSE
CONSTRAINT Bounded
