\* The applications party and gamematcher.  Counters that stand for time, ids and
\* restarts are bounded, so each component stops when they are used up.
CONSTANTS
    NoValue = NoValue
    NoBytes = NoBytes
    TornBytes = TornBytes
SPECIFICATION AppsSpec
INVARIANTS
    AppsTypeOK
    SavedIsMeant
    HouseRules
    EachOnce
PROPERTIES
    AtomicSpec
    NothingIsTakenBack
CHECK_DEADLOCK FALSE
