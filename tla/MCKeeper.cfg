SPECIFICATION FairKeeperSpec
CONSTANTS
    payer = payer
    payee = payee
    treasury = treasury
    idA = idA
    idB = idB
    track = track
    cron = cron
    operator = operator
    Zero = Zero
    Accounts = {payer, payee}
    PaycardIds = {idA, idB}
    Channels = {track}
    Submitted <- MCEnvelopes
    Signed <- MCEnvelopes
    StartWallet <- MCPurse
    Deployer = payer
    MaxTime = 3
    MaxWord = 1000
    Runs = {cron, operator}
    Cron = cron
    Window = 4
    Dust = 3
    BatchLimit = 2
    MaxFailures = 1
INVARIANTS SweepLeavesDust
PROPERTY EveryStreamPaysOut
