\* The framework and the services built on it.  Counters that stand for time, ids and
\* restarts are bounded, so each component stops when they are used up.
CONSTANTS
    NoValue = NoValue
    NoBytes = NoBytes
    TornBytes = TornBytes
SPECIFICATION ServicesSpec
INVARIANTS
    ServicesTypeOK
    PromisesHold
    PeersUnderstand
    RecordsStand
PROPERTIES
    StepsAreFair
CHECK_DEADLOCK FALSE
