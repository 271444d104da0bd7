SPECIFICATION Spec
CONSTANTS
    NoEntry = NoEntry
    NoSponsor = NoSponsor
    NoCount = NoCount
    Native = Native
    alice = alice
    bob = bob
    carol = carol
    pool = pool
    newContract = newContract
    otherContract = otherContract
    MaxTxs = 3
    Accounts <- MCAccounts
    SignerOrder <- MCSigners
    Operations <- MCOperations
    Ledgers <- MCLedgers
INVARIANTS
    TypeOK
    TransactionsAllOrNothing
    OperationsHaveParents
    OperationIDsJoin
    TradesMatchEffects
    TradeIndexNamesClaim
    TransferIndexDense
    CreationsAgree
    LedgerCountsAgree
