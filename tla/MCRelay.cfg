SPECIFICATION FairSpec
CONSTANTS
    none = none
    rent = rent
    card = card
    shop = shop
    ann = ann
    bob = bob
    r1 = r1
    r2 = r2
    Flows = {rent}
    Links = {card}
    Payee = shop
    Claimers = {ann}
    Wallets = {bob}
    Requests = {r1, r2}
    None = none
    Amount <- Amounts
    MaxTries = 2
    MaxFaults = 1
INVARIANTS  PaidOnce
PROPERTIES GasLostInRacesOnly EventuallyClaimed
CHECK_DEADLOCK FALSE
