------------------------------- MODULE Ledger -------------------------------
(***************************************************************************)
(* The abstract ledger: what core.Service is promised by ledger.Book,      *)
(* whatever the ring, the intern table and the arena do underneath.        *)
(***************************************************************************)
EXTENDS LedgerOps

CONSTANT MaxAmount   \* bound on one amount

VARIABLE book

Init == book = EmptyLedger

\* A transfer, issue, retirement or purchase: it must be affordable.
Post ==
    \E from, to \in Account, amount \in 1..MaxAmount :
        /\ book.total < MaxSeq
        /\ Affordable(book.bal, Move(from, to, amount))
        /\ book' = Posted(book, Move(from, to, amount))

\* A reversal: at most one of each transaction, never of a reversal, and free
\* to overdraw.
Reverse ==
    \E s \in Kept(book) :
        /\ book.total < MaxSeq
        /\ CanReverse(book, s)
        /\ book' = Posted(book, Mirror(book, s))

\* Old history may be dropped; balances and sequence numbers stay.
Forget ==
    \E f \in book.first..(book.total + 1) : book' = Forgotten(book, f)

Next == Post \/ Reverse \/ Forget

Spec == Init /\ [][Next]_book

=============================================================================
