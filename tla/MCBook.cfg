\* Four sequence numbers over a ring of two, two currencies, and balance slots
\* for three of four accounts.  One block of text, shared with the store.  Once the
\* sequence numbers are used up every transaction is refused (ErrSequenceFull) and
\* the book really stops.
CONSTANTS
    NoName = NoName
    Account = {alice, issuance, bobUsd, usdIssuance}
    Issuance = {issuance, usdIssuance}
    UsdAccount = {bobUsd, usdIssuance}
    OtherName = {nickname}
    Capacity = 2
    MaxSeq = 4
    MaxAmount = 1
    MaxInterned = 6
    AccountCapacity = 3
    Blocks = 1
    MaxText = 2
SPECIFICATION Spec
INVARIANTS
    TypeOK
    WindowIntact
    LinksTrue
    BalanceSlotThere
    Accounted
PROPERTY
    ImplementsLedger
CHECK_DEADLOCK FALSE
