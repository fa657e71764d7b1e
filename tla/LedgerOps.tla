------------------------------ MODULE LedgerOps ------------------------------
(***************************************************************************)
(* What a ledger is to the rest of NanaCoin: balances over the whole       *)
(* lifetime, the recent transactions that can still be read or reversed,   *)
(* and for each of them the reversal that undid it, if any.                *)
(*                                                                         *)
(* Every transaction the service builds has two postings of opposite sign, *)
(* so a transaction is an amount moved from one account to another.  A     *)
(* reversal is a transaction with reverses # 0.  Dollars live in accounts  *)
(* of their own (USDAccount), so one balance function covers both          *)
(* currencies.                                                             *)
(***************************************************************************)
EXTENDS Integers

CONSTANTS
    Account,    \* every account name, the issuance accounts included
    Issuance,   \* SystemIssuance and USDIssuance: unbounded below
    MaxSeq      \* the last sequence number (2^32 - 1)

LedgerOpsAssumption ==
    /\ Issuance \subseteq Account
    /\ MaxSeq \in Nat \ {0}

Move(from, to, amount) ==
    [from |-> from, to |-> to, amount |-> amount, reverses |-> 0]

EmptyLedger ==
    [bal |-> [a \in Account |-> 0], first |-> 1, total |-> 0,
     txns |-> [s \in {} |-> Move(0, 0, 0)], revBy |-> [s \in {} |-> 0]]

Kept(l) == l.first..l.total

\* The transaction t applied to balances bal.
Moved(bal, t) ==
    [a \in DOMAIN bal |->
        bal[a] - (IF a = t.from THEN t.amount ELSE 0)
               + (IF a = t.to THEN t.amount ELSE 0)]

\* Book.Validate without the overdraft permission: judged on the net effect.
Affordable(bal, t) ==
    \A a \in {t.from, t.to} \ Issuance : Moved(bal, t)[a] >= 0

\* The sequence number is retained, is not a reversal and was not reversed.
CanReverse(l, s) ==
    /\ s \in Kept(l)
    /\ l.txns[s].reverses = 0
    /\ l.revBy[s] = 0

Mirror(l, s) ==
    [from |-> l.txns[s].to, to |-> l.txns[s].from,
     amount |-> l.txns[s].amount, reverses |-> s]

\* Ledger l after transaction t.
Posted(l, t) ==
    LET n == l.total + 1
    IN  [bal |-> Moved(l.bal, t), first |-> l.first, total |-> n,
         txns |-> [s \in l.first..n |-> IF s = n THEN t ELSE l.txns[s]],
         revBy |-> [s \in l.first..n |-> IF s = n THEN 0
                                         ELSE IF s = t.reverses THEN n ELSE l.revBy[s]]]

\* Ledger l without the history before f.
Forgotten(l, f) ==
    [l EXCEPT !.first = f,
              !.txns = [s \in f..l.total |-> l.txns[s]],
              !.revBy = [s \in f..l.total |-> l.revBy[s]]]

=============================================================================
