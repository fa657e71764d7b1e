\* What must happen in the end, under the fairness of each component.  A component
\* that has used up its bounded counters stops.
CONSTANTS
    NoValue = NoValue
    NoBytes = NoBytes
    TornBytes = TornBytes
SPECIFICATION LiveSpec
PROPERTIES
    DeviceSettles
    BoardSettles
CHECK_DEADLOCK FALSE
