SPECIFICATION Spec
CONSTANTS
    payer = payer
    payee = payee
    treasury = treasury
    idA = idA
    idB = idB
    track = track
    Zero = Zero
    Accounts = {payer, payee, treasury}
    PaycardIds = {idA, idB}
    Channels = {track}
    Submitted <- MCSubmitted
    Signed <- MCSigned
    StartWallet <- MCStartWallet
    Deployer = treasury
    MaxTime = 5
    MaxWord = 8
INVARIANTS Solvent PoolAccounted PaidPerSchedule NonceTrackLinear CardsAsSigned ClosableWithinWord
PROPERTIES NoClawback TermsFrozen ImplementsEscrow
