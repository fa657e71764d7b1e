\* Once the sequence numbers and identifiers are used up a market stops.
CONSTANTS
    NoValue = NoValue
    NoBytes = NoBytes
    TornBytes = TornBytes
SPECIFICATION TradeSpec
INVARIANTS
    TradesAgree
PROPERTIES
    NothingAwaitedIsLost
CHECK_DEADLOCK FALSE
