\* Three members, all of whom can be Nana, and two requests at a time.  As many
\* usernames as rows: what a member too many does is MCHouseholdFull.cfg.
CONSTANTS
    None = None
    Name = {ann, ben, cara}
    Request = {r1, r2}
    MaxUsers = 3
    MaxGrant = 1
    MaxIssued = 2
SPECIFICATION Spec
INVARIANTS
    TypeOK
    AlwaysGoverned
    NamesUnique
    RebootKeepsHousehold
