\* Three keys, two of which share a lock stripe.  Two receipts, or one large one, fit;
\* four transactions.  A transaction that fails can be tried for ever, so nothing stops.
CONSTANTS
    Call = {c1, c2}
    Key = {rent, chore, swap}
    Stripe = {{rent, chore}, {swap}}
    Large = {swap}
    MaxEntries = 2
    MaxBytes = 2
    MaxTx = 4
SPECIFICATION Spec
INVARIANTS
    TypeOK
    NoRunWhileRemembered
    AnswersAreTrue
    AtMostOnce
PROPERTY
    EveryCallReturns
