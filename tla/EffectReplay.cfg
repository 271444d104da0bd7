SPECIFICATION Spec
CONSTANTS
    NoEntry = NoEntry
    NoSponsor = NoSponsor
    Native = Native
    root = root
    backer = backer
    ann = ann
    bob = bob
    extra = extra
    Accounts <- MCAccounts
    SignerOrder <- MCSigners
    Credit <- MCCredit
    PoolShare <- MCPoolShare
    Root = root
    Backer = backer
    Extra = extra
    Contract = Contract
    Name = Name
    Claimable = {c1}
    Pool = Pool
    Supply = 2
    Starts <- MCStarts
    MaxWeight = 2
    MaxOps = 3
    MaxUnread = 1
INVARIANTS
    TypeOK
    ReplayAccounts
    ReplayEntries
    ReplayBalances
    ReplaySigners
    ReplaySponsors
