\* Two payloads of one length and a longer one, so that a marker a failed append left
\* behind can lie where a later record ends.  Cap: three short records, or one of each,
\* fill the journal.
CONSTANTS
    Junk = Junk
    Payload = {{short}, {other}, {long, longer}}
    Cap = 6
SPECIFICATION Spec
INVARIANTS
    TypeOK
    AckedDurable
    BootsWithAllAcked
PROPERTY
    ContractSpec
