\* Three usernames for two rows.
CONSTANTS
    None = None
    Name = {ann, ben, cara}
    Request = {r1, r2}
    MaxUsers = 2
    MaxGrant = 1
    MaxIssued = 2
SPECIFICATION Spec
INVARIANTS
    Bootable
CHECK_DEADLOCK FALSE
