\* Listings of both sides.
CONSTANTS
    None = None
    User = {alice, bob}
    Nana = {bob}
    Bank = bank
    Account = {alice, bob, bank}
    Issuance = {bank}
    MaxSeq = 4
    Grant = 1
    MaxListings = 1
    MaxOffers = 1
    Window = 2
    SettleAfter = 1
    Blocks = 6
    OfferText = 1
    MaxText = 1
    MaxAmount = 1
    MaxTime = 1
    MaxIds = 4
SPECIFICATION Spec
INVARIANTS
    PosterPays
CHECK_DEADLOCK FALSE
