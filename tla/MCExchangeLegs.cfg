\* The exchange alone, as in MCTrade.cfg.
CONSTANTS
    NoValue = NoValue
    NoBytes = NoBytes
    TornBytes = TornBytes
SPECIFICATION LegsSpec
INVARIANTS
    CashLegStaysValid
CHECK_DEADLOCK FALSE
