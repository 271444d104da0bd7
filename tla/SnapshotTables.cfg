SPECIFICATION Spec
CONSTANTS
    Keys <- MCKeys
    Scope <- MCScope
    Values = {1, 2}
    Signers = {1, 2}
INVARIANTS
    TypeOK
    LatestStateReported
    EveryChangeReported
    DeletedIffGone
    SignersReported
    RestoredExactly
    OutputSorted
