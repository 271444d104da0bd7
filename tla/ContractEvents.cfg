SPECIFICATION Spec
CONSTANTS
    MaxTxs = 3
    Ledgers <- MCLedgers
INVARIANTS
    TypeOK
    EventKeysIncrease
    EventIndexDense
    TransactionIDNamesItsTransaction
    ViewParity
