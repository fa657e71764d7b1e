-------------------------------- MODULE Book --------------------------------
(***************************************************************************)
(* internal/ledger: the packed ledger in RAM.  A fixed ring of records     *)
(* addressed by sequence number modulo Capacity, balances per interned     *)
(* account reference with opening balances that summarise what the ring    *)
(* dropped, and a text arena shared with the rest of the store.            *)
(*                                                                         *)
(* Book is not safe for concurrent use: its owner holds the service lock.  *)
(* The turns of apply's eviction loop are actions of their own so that     *)
(* what holds between two evictions can be stated; nothing else runs       *)
(* there.                                                                  *)
(***************************************************************************)
EXTENDS Integers, Sequences, FiniteSets, FiniteSetTheorems, SequenceTheorems, TLAPS

CONSTANTS
    Account, Issuance, Capacity, MaxSeq, MaxAmount,
    UsdAccount,      \* the accounts whose postings are dollars
    NoName,          \* the empty string, reference 0
    OtherName,       \* what else is interned: user IDs, display names, currency codes
    MaxInterned,     \* slots of the intern table, the empty string's included
    AccountCapacity, \* slots for balances (len(b.balances))
    Blocks,          \* text blocks in the arena
    MaxText          \* bound on the blocks of one transaction's text

ASSUME BookAssumption ==
    /\ Issuance \subseteq Account
    /\ UsdAccount \subseteq Account
    /\ NoName \notin Account \cup OtherName
    /\ Capacity \in Nat \ {0}
    /\ MaxSeq \in Nat \ {0}
    /\ MaxAmount \in Nat
    /\ MaxInterned \in Nat \ {0}
    /\ AccountCapacity \in Nat
    /\ Blocks \in Nat
    /\ MaxText \in Nat

VARIABLES
    strs,     \* Strings.byID without the empty string at index 0
    txns,     \* the ring
    revBy,    \* per ring slot: the sequence number of the reversal, or 0
    count, total,
    balance, opening, \* balanceRecord by reference; zero when there is no slot
    slots,    \* the references that have a balance slot
    free,     \* free blocks of the arena
    held,     \* blocks held by listings, offers and users
    cur       \* {} or the transaction that passed its checks and is being applied

vars == <<strs, txns, revBy, count, total, balance, opening, slots, free, held, cur>>

Name == Account \cup OtherName
Ref == 0..(MaxInterned - 1)
Slot == 0..(Capacity - 1)
NoRecord == [seq |-> 0, from |-> 0, to |-> 0, amount |-> 0, usd |-> FALSE, text |-> 0, reverses |-> 0]
Packed == [seq : 0..MaxSeq, from : Ref, to : Ref, amount : 0..MaxAmount, usd : BOOLEAN,
           text : 0..Blocks, reverses : 0..MaxSeq]
Transaction == [from : Account \cup {NoName}, to : Account \cup {NoName}, amount : 1..MaxAmount, usd : BOOLEAN,
                text : 0..MaxText, reverses : 0..MaxSeq]

TypeOK ==
    /\ strs \in Seq(Name)
    /\ Len(strs) < MaxInterned
    /\ txns \in [Slot -> Packed]
    /\ revBy \in [Slot -> 0..MaxSeq]
    /\ count \in 0..Capacity
    /\ total \in 0..MaxSeq
    /\ balance \in [Ref -> Int]
    /\ opening \in [Ref -> Int]
    /\ slots \subseteq Ref
    /\ free \in 0..Blocks
    /\ held \in 0..Blocks
    /\ cur \subseteq Transaction

Init ==
    /\ strs = <<>>
    /\ txns = [i \in Slot |-> NoRecord]
    /\ revBy = [i \in Slot |-> 0]
    /\ count = 0
    /\ total = 0
    /\ balance = [r \in Ref |-> 0]
    /\ opening = [r \in Ref |-> 0]
    /\ slots = {}
    /\ free = Blocks
    /\ held = 0
    /\ cur = {}

-----------------------------------------------------------------------------
(* The intern table. *)

Interned(s, n) == \E i \in 1..Len(s) : s[i] = n

\* Strings.Find: 0 for a name that is not there.
Find(s, n) == IF Interned(s, n) THEN CHOOSE i \in 1..Len(s) : s[i] = n ELSE 0

Lookup(s, r) == IF r \in 1..Len(s) THEN s[r] ELSE NoName

\* Strings.Intern: nothing is added once the table is full, and the name then
\* stands for reference 0 like the empty string.
Intern(s, n) ==
    IF n = NoName \/ Interned(s, n) \/ Len(s) + 1 >= MaxInterned THEN s ELSE Append(s, n)

InternBoth(s, t) == Intern(Intern(s, t.from), t.to)

Refs(s, t) == {Find(s, t.from), Find(s, t.to)}

-----------------------------------------------------------------------------
(* The window of the ring. *)

Oldest == total - count + 1

SlotOf(seq) == (seq - 1) % Capacity

\* indexOf: the ID is inside the window and the slot still holds it.
Retained(seq) ==
    /\ seq \in Oldest..total
    /\ txns[SlotOf(seq)].seq = seq

-----------------------------------------------------------------------------
(* Validate, and the callers that build a transaction and validate it. *)

\* What a packed record does to the account behind reference r.
Net(p, r) == (IF r = p.to THEN p.amount ELSE 0) - (IF r = p.from THEN p.amount ELSE 0)

\* Mutant of AccountRoom: two new accounts are taken for one.
AccountRoomOnce(s, t) ==
    Cardinality(slots) + (IF Refs(s, t) \subseteq slots THEN 0 ELSE 1) <= AccountCapacity

\* checkAccountCapacity: a slot for each account that has none, an account named
\* twice counted once.
AccountRoom(s, t) == Cardinality(slots \cup Refs(s, t)) <= AccountCapacity

\* What apply asks again before it evicts anything, of a transaction that is by now
\* in the journal.  Nothing else runs since Validate, so both are asked in one step.
Rechecked(s, t) == total < MaxSeq /\ AccountRoom(s, t)

\* No account but the issuance accounts may end below zero.
Affordable(s, t) ==
    LET p == [from |-> Find(s, t.from), to |-> Find(s, t.to), amount |-> t.amount]
    IN  \A r \in {p.from, p.to} \ {Find(s, a) : a \in Issuance} :
            balance[r] + Net(p, r) >= 0

\* A transaction of the service: two different accounts of one currency.
New(from, to, amount, text) ==
    [from |-> from, to |-> to, amount |-> amount, usd |-> from \in UsdAccount,
     text |-> text, reverses |-> 0]

OneCurrency(from, to) == from # to /\ (from \in UsdAccount <=> to \in UsdAccount)

\* Mutant of Submit: the sequence is not checked for exhaustion.
SubmitPastEnd(from, to, amount, text) ==
    LET t == New(from, to, amount, text)
    IN  /\ cur = {}
        /\ OneCurrency(from, to)
        /\ strs' = InternBoth(strs, t)
        /\ AccountRoom(strs', t)
        /\ Affordable(strs', t)
        /\ cur' = {t}
        /\ UNCHANGED <<txns, revBy, count, total, balance, opening, slots, free, held>>

\* An issue, retirement, transfer or purchase that Validate lets through, the journal
\* takes and apply begins.
Submit(from, to, amount, text) ==
    LET t == New(from, to, amount, text)
    IN  /\ cur = {}
        /\ total < MaxSeq
        /\ OneCurrency(from, to)
        /\ strs' = InternBoth(strs, t)
        /\ AccountRoom(strs', t)
        /\ Affordable(strs', t)
        /\ Rechecked(strs', t)
        /\ cur' = {t}
        /\ UNCHANGED <<txns, revBy, count, total, balance, opening, slots, free, held>>

\* A transaction that Validate refuses, or that it lets through and the journal
\* then refuses: the names it mentioned stay interned.
Refuse(from, to) ==
    /\ cur = {}
    /\ total < MaxSeq
    /\ OneCurrency(from, to)
    /\ strs' = InternBoth(strs, New(from, to, 1, 0))
    /\ UNCHANGED <<txns, revBy, count, total, balance, opening, slots, free, held, cur>>

\* BuildReversalInto: the same accounts with opposite signs, as NanaCoin.
ReversalOf(seq, text) ==
    LET p == txns[SlotOf(seq)]
    IN  [from |-> Lookup(strs, p.to), to |-> Lookup(strs, p.from), amount |-> p.amount,
         usd |-> FALSE, text |-> text, reverses |-> seq]

\* Mutant of SubmitReversal: the reversal link is not consulted.
SubmitReversalTwice(seq, text) ==
    /\ cur = {}
    /\ total < MaxSeq
    /\ Retained(seq)
    /\ txns[SlotOf(seq)].reverses = 0
    /\ AccountRoom(strs, ReversalOf(seq, text))
    /\ cur' = {ReversalOf(seq, text)}
    /\ UNCHANGED <<strs, txns, revBy, count, total, balance, opening, slots, free, held>>

\* Nana reverses a retained transaction.  Overdraft is allowed.
SubmitReversal(seq, text) ==
    /\ cur = {}
    /\ total < MaxSeq
    /\ Retained(seq)
    /\ txns[SlotOf(seq)].reverses = 0
    /\ revBy[SlotOf(seq)] = 0
    /\ AccountRoom(strs, ReversalOf(seq, text))
    /\ Rechecked(strs, ReversalOf(seq, text))
    /\ cur' = {ReversalOf(seq, text)}
    /\ UNCHANGED <<strs, txns, revBy, count, total, balance, opening, slots, free, held>>

-----------------------------------------------------------------------------
(* apply. *)

\* Mutant of NeedsRoom: the ring is allowed one record more than it has slots.
NeedsRoomLate(t) == count = Capacity + 1 \/ (count > 0 /\ t.text > free)

NeedsRoom(t) == count = Capacity \/ (count > 0 /\ t.text > free)

\* The accounts a record posts to.
Touched(p) == {p.from, p.to}

\* Mutant of Evict: only the debit reaches the opening balances.
EvictHalf(t) ==
    /\ cur = {t}
    /\ NeedsRoom(t)
    /\ LET i == SlotOf(Oldest)
       IN  /\ opening' = [r \in Ref |-> opening[r] - IF r = txns[i].from THEN txns[i].amount ELSE 0]
           /\ free' = free + txns[i].text
           /\ txns' = [txns EXCEPT ![i] = NoRecord]
           /\ revBy' = [revBy EXCEPT ![i] = 0]
    /\ count' = count - 1
    /\ UNCHANGED <<strs, total, balance, slots, held, cur>>

\* evictOldest: the record's postings move into the opening balances, whose slots
\* balanceSlot finds, or opens without another check.
Evict(t) ==
    /\ cur = {t}
    /\ NeedsRoom(t)
    /\ LET i == SlotOf(Oldest)
       IN  /\ opening' = [r \in Ref |-> opening[r] + Net(txns[i], r)]
           /\ free' = free + txns[i].text
           /\ txns' = [txns EXCEPT ![i] = NoRecord]
           /\ revBy' = [revBy EXCEPT ![i] = 0]
           /\ slots' = slots \cup Touched(txns[i])
    /\ count' = count - 1
    /\ UNCHANGED <<strs, total, balance, held, cur>>

\* The packed record of t.  An arena with no room keeps what fits of the text.
Pack(t) ==
    [seq |-> total + 1, from |-> Find(strs, t.from), to |-> Find(strs, t.to),
     amount |-> t.amount, usd |-> t.usd,
     text |-> IF t.text <= free THEN t.text ELSE free, reverses |-> t.reverses]

\* Mutant of Linked: the link is looked up before the window has moved, and lost.
LinkedNever(t, n) == [i \in Slot |-> IF i = SlotOf(n) THEN 0 ELSE revBy[i]]

\* The reversal link goes to the original if the ring still holds it.
Linked(t, n) ==
    [i \in Slot |->
        IF i = SlotOf(n) THEN 0
        ELSE IF t.reverses \in Oldest..total /\ i = SlotOf(t.reverses)
                /\ txns[i].seq = t.reverses
             THEN n ELSE revBy[i]]

Store(t) ==
    /\ cur = {t}
    /\ ~NeedsRoom(t)
    /\ txns' = [txns EXCEPT ![SlotOf(total + 1)] = Pack(t)]
    /\ revBy' = Linked(t, total + 1)
    /\ total' = total + 1
    /\ count' = count + 1
    /\ balance' = [r \in Ref |-> balance[r] + Net(Pack(t), r)]
    /\ slots' = slots \cup Touched(Pack(t))
    /\ free' = free - Pack(t).text
    /\ cur' = {}
    /\ UNCHANGED <<strs, opening, held>>

-----------------------------------------------------------------------------
(* The rest of the service, which shares the intern table and the arena. *)

InternOther(n) ==
    /\ cur = {}
    /\ strs' = Intern(strs, n)
    /\ UNCHANGED <<txns, revBy, count, total, balance, opening, slots, free, held, cur>>

TakeText(n) ==
    /\ cur = {}
    /\ n <= free
    /\ free' = free - n
    /\ held' = held + n
    /\ UNCHANGED <<strs, txns, revBy, count, total, balance, opening, slots, cur>>

ReleaseText(n) ==
    /\ cur = {}
    /\ n <= held
    /\ free' = free + n
    /\ held' = held - n
    /\ UNCHANGED <<strs, txns, revBy, count, total, balance, opening, slots, cur>>

Next ==
    \/ \E from, to \in Account, amount \in 1..MaxAmount, text \in 0..MaxText :
          Submit(from, to, amount, text)
    \/ \E from, to \in Account : Refuse(from, to)
    \/ \E seq \in 1..MaxSeq, text \in 0..MaxText : SubmitReversal(seq, text)
    \/ \E t \in cur : Evict(t)
    \/ \E t \in cur : Store(t)
    \/ \E n \in OtherName : InternOther(n)
    \/ \E n \in 1..Blocks : TakeText(n)
    \/ \E n \in 1..Blocks : ReleaseText(n)

Spec == Init /\ [][Next]_vars

-----------------------------------------------------------------------------
(* Properties. *)

Ops == INSTANCE LedgerOps

\* Each retained sequence number is in its own slot and every other slot is
\* empty: an ID never resolves to another transaction's record.
WindowIntact ==
    \A i \in Slot :
        txns[i].seq = IF \E s \in Oldest..total : SlotOf(s) = i
                      THEN CHOOSE s \in Oldest..total : SlotOf(s) = i ELSE 0

\* A reversal link on a retained record always names the record that reversed
\* it: a link never survives the reuse of its slot, at either end.
LinksTrue ==
    \A s \in Oldest..total :
        LET r == revBy[SlotOf(s)]
        IN  /\ r # 0 => r \in (s + 1)..total /\ txns[SlotOf(r)].reverses = s
            /\ txns[SlotOf(s)].reverses \in Oldest..total =>
                   revBy[SlotOf(txns[SlotOf(s)].reverses)] = s

\* balanceSlot never meets a full table, where it would panic: not when apply posts a
\* transaction, and not when evictOldest posts a record that was checked long before.
\* For that the accounts of every retained record keep their slots, so that the
\* evictions between apply's check and its postings take none of those it counted on;
\* and an account without a slot, which reads as zero, has nothing.
BalanceSlotThere ==
    /\ Cardinality(slots) <= AccountCapacity
    /\ \A s \in Oldest..total : Touched(txns[SlotOf(s)]) \subseteq slots
    /\ \A r \in Ref \ slots : balance[r] = 0 /\ opening[r] = 0

Kept == Oldest..total

\* The sum of f over a finite set: what is above zero less what is below it.  (As
\* a count of units it can be reasoned about without induction.)
Units(f, S) == UNION {{x} \X (1..f[x]) : x \in S}
SumOf(f, S) == Cardinality(Units(f, S)) - Cardinality(Units([x \in S |-> 0 - f[x]], S))

\* The postings of the retained records to reference r.
RetainedNet(r) == SumOf([s \in Kept |-> Net(txns[SlotOf(s)], r)], Kept)

\* The cached balance of every account is its opening balance plus the retained
\* postings (CheckInvariants), also between two evictions of one apply.
Reconciled == \A r \in Ref : balance[r] = opening[r] + RetainedNet(r)

\* The references of the names in A.
RefsOf(A) == {Find(strs, a) : a \in A} \ {0}

\* Every coin and every dollar is accounted for: the opening balances, and with
\* them the balances, of each currency's accounts sum to zero.
GrandTotalZero ==
    \A A \in {UsdAccount, Account \ UsdAccount} :
        SumOf(opening, RefsOf(A)) = 0

\* The arena neither leaks nor double-frees a block: what the records and the
\* rest of the store hold and what is free are all of it.
NoBlockLost ==
    free + held + SumOf([s \in Kept |-> txns[SlotOf(s)].text], Kept) = Blocks

\* No money and no memory is lost or made: balances are what the retained postings
\* and the opening balances say, the currencies each sum to zero, and every block
\* of text is free or held (Book.CheckInvariants).
Accounted == Reconciled /\ GrandTotalZero /\ NoBlockLost

\* The abstract ledger this book stands for.  A transaction counts from the
\* moment Validate accepted it; the evictions it causes come after it.
Contents ==
    [bal |-> [a \in Account |-> balance[Find(strs, a)]],
     first |-> Oldest, total |-> total,
     txns |-> [s \in Oldest..total |->
                  LET p == txns[SlotOf(s)]
                  IN  [from |-> Lookup(strs, p.from), to |-> Lookup(strs, p.to),
                       amount |-> p.amount, reverses |-> p.reverses]],
     revBy |-> [s \in Oldest..total |-> revBy[SlotOf(s)]]]

\* The postings of a transaction, as the abstract ledger sees them.
Essence(t) == [from |-> t.from, to |-> t.to, amount |-> t.amount, reverses |-> t.reverses]

Promised ==
    IF cur = {} THEN Contents ELSE Ops!Posted(Contents, Essence(CHOOSE t \in cur : TRUE))

Abstract == INSTANCE Ledger WITH book <- Promised

\* Through the ring, the lazily opened balance slots and the evictions, the book
\* is the plain ledger: balances cover the whole lifetime, a transaction is
\* reversed at most once and by its exact mirror, and only a reversal overdraws.
ImplementsLedger == Abstract!Spec

\* intern.go:78-81: a full table costs a description, never more.  No stored
\* posting has lost its account.
PostingsKeepTheirAccount ==
    \A s \in Oldest..total : txns[SlotOf(s)].from # 0 /\ txns[SlotOf(s)].to # 0

\* book.go:482-483: a reversal is the same postings with opposite signs, in the
\* same currency.
ReversalsKeepCurrency ==
    \A s \in Oldest..total :
        LET p == txns[SlotOf(s)]
        IN  p.reverses \in Oldest..total => p.usd = txns[SlotOf(p.reverses)].usd

-----------------------------------------------------------------------------
(* Proofs.  The invariant adds to the properties that no name is interned twice,  *)
(* so that a reference keeps standing for its name; that the slots outside the    *)
(* window are empty; and what the transaction being applied may rely on while the *)
(* evictions before it move the window.                                           *)

Names(s) ==
    /\ s \in Seq(Name) /\ Len(s) < MaxInterned
    /\ \A i, j \in 1..Len(s) : s[i] = s[j] => i = j

\* The table t is s with perhaps more names.
Grown(s, t) ==
    /\ Names(t) /\ Len(s) <= Len(t)
    /\ \A i \in 1..Len(s) : t[i] = s[i]

NamesInv == Names(strs)

WindowInv ==
    /\ count \in 0..Capacity /\ total \in 0..MaxSeq /\ count <= total
    /\ txns \in [Slot -> Packed]
    /\ \A s \in Kept : txns[SlotOf(s)].seq = s
    /\ \A i \in Slot : (\A s \in Kept : SlotOf(s) # i) => txns[i] = NoRecord

RecordsInv ==
    \A s \in Kept :
        LET p == txns[SlotOf(s)]
        IN  /\ p.amount > 0 /\ p.reverses < s
            /\ p.from \in 0..Len(strs) /\ p.to \in 0..Len(strs)
            /\ {Lookup(strs, p.from), Lookup(strs, p.to)} \subseteq Account \cup {NoName}

LinksInv == revBy \in [Slot -> 0..MaxSeq] /\ LinksTrue

MoneyInv ==
    /\ balance \in [Ref -> Int] /\ opening \in [Ref -> Int]
    /\ slots \subseteq Ref
    /\ Reconciled

ArenaInv == free \in 0..Blocks /\ held \in 0..Blocks /\ NoBlockLost

CurInv ==
    /\ cur = {} \/ \E t \in Transaction : cur = {t}
    /\ \A t \in cur :
          /\ AccountRoom(strs, t)
          /\ total < MaxSeq /\ t.reverses <= total
          /\ t.reverses \in Kept => /\ revBy[SlotOf(t.reverses)] = 0
                                    /\ txns[SlotOf(t.reverses)].reverses = 0

IInv == /\ NamesInv /\ WindowInv /\ RecordsInv /\ LinksInv /\ MoneyInv /\ ArenaInv
        /\ BalanceSlotThere /\ CurInv

\* The intern table has room for every name there is.
RoomForNames == IsFiniteSet(Name) /\ Cardinality(Name) < MaxInterned

SameCurrency(n, m) == n \in UsdAccount <=> m \in UsdAccount

\* With room for the names every posting has its account, and the two of a
\* transaction are of one currency.
Balanced(s, from, to) ==
    /\ Interned(s, from) /\ Interned(s, to)
    /\ {from, to} \subseteq Account /\ SameCurrency(from, to)

RoomInv ==
    /\ \A s \in Kept : LET p == txns[SlotOf(s)]
                       IN  p.from # 0 /\ p.to # 0 /\ Balanced(strs, Lookup(strs, p.from), Lookup(strs, p.to))
    /\ \A t \in cur : Balanced(strs, t.from, t.to)
    /\ \A r \in Ref \ 1..Len(strs) : balance[r] = 0 /\ opening[r] = 0
    /\ GrandTotalZero

\* The units of a function over a finite set are finitely many, and depend on its
\* values there alone.
LEMMA UnitsFinite ==
    ASSUME NEW S, IsFiniteSet(S), NEW f, \A x \in S : f[x] \in Int
    PROVE  IsFiniteSet(Units(f, S)) /\ Cardinality(Units(f, S)) \in Nat
<1> DEFINE g == [x \in S |-> {x} \X (1..f[x])]
           F == {{x} \X (1..f[x]) : x \in S}
<1>1. g \in Surjection(S, F)
  <2>1. g \in [S -> F]
    OBVIOUS
  <2>2. \A B \in F : \E x \in S : g[x] = B
    OBVIOUS
  <2> QED BY <2>1, <2>2 DEF Surjection
<1>2. IsFiniteSet(F)
  <2> HIDE DEF g, F
  <2> QED BY <1>1, FS_Surjection
<1>3. ASSUME NEW x \in S PROVE IsFiniteSet({x} \X (1..f[x]))
  <2>1. IsFiniteSet({x})
    BY FS_Singleton
  <2>2. IsFiniteSet(1..f[x])
    <3>1. f[x] \in Int /\ 1 \in Int
      OBVIOUS
    <3> QED BY <3>1, FS_Interval
  <2> QED BY <2>1, <2>2, FS_Product
<1>4. IsFiniteSet(UNION F)
  <2>1. \A B \in F : IsFiniteSet(B)
    BY <1>3
  <2> HIDE DEF F
  <2> QED BY <1>2, <2>1, FS_UNION
<1> QED BY <1>4, FS_CardinalityType DEF Units

\* Units depends on the values of the function over the set alone.
LEMMA UnitsSame ==
    ASSUME NEW S, NEW f, NEW g, \A x \in S : f[x] = g[x]
    PROVE  Units(f, S) = Units(g, S)
<1>1. {{x} \X (1..f[x]) : x \in S} = {{x} \X (1..g[x]) : x \in S}
  OBVIOUS
<1> QED BY <1>1 DEF Units

\* One element less is its units less.
LEMMA UnitsSplit ==
    ASSUME NEW S, IsFiniteSet(S), NEW f, \A y \in S : f[y] \in Int, NEW x \in S
    PROVE  Cardinality(Units(f, S)) =
               Cardinality(Units(f, S \ {x})) + (IF f[x] > 0 THEN f[x] ELSE 0)
<1> DEFINE A == Units(f, S \ {x})
           B == {x} \X (1..f[x])
<1>1. Units(f, S) = A \cup B
  BY DEF Units
<1>2. A \cap B = {}
  BY DEF Units
<1>3. IsFiniteSet(A) /\ Cardinality(A) \in Nat
  <2>1. IsFiniteSet(S \ {x})
    BY FS_Difference
  <2> QED BY <2>1, UnitsFinite
<1>4. IsFiniteSet(B) /\ Cardinality(B) = IF f[x] > 0 THEN f[x] ELSE 0
  <2>1. IsFiniteSet({x}) /\ Cardinality({x}) = 1
    BY FS_Singleton
  <2>2. IsFiniteSet(1..f[x]) /\ Cardinality(1..f[x]) = IF f[x] > 0 THEN f[x] ELSE 0
    BY FS_Interval
  <2>3. IsFiniteSet(B) /\ Cardinality(B) = Cardinality({x}) * Cardinality(1..f[x])
    BY <2>1, <2>2, FS_Product
  <2> QED BY <2>1, <2>2, <2>3
<1>5. Cardinality(A \cup B) = Cardinality(A) + Cardinality(B) - Cardinality(A \cap B)
  <2> HIDE DEF A, B
  <2> QED BY <1>3, <1>4, FS_Union
<1>6. Cardinality(A \cap B) = 0
  BY <1>2, FS_EmptySet
<1> HIDE DEF A, B
<1> QED BY <1>1, <1>3, <1>4, <1>5, <1>6 DEF A

\* A sum is an integer and loses an element's value with the element.
LEMMA SumSplit ==
    ASSUME NEW S, IsFiniteSet(S), NEW f, \A y \in S : f[y] \in Int
    PROVE  /\ SumOf(f, S) \in Int
           /\ \A x \in S : SumOf(f, S) = SumOf(f, S \ {x}) + f[x]
<1> DEFINE g == [y \in S |-> 0 - f[y]]
<1>1. \A y \in S : g[y] \in Int /\ g[y] = 0 - f[y]
  OBVIOUS
<1>2. SumOf(f, S) \in Int
  <2> HIDE DEF g
  <2>1. Cardinality(Units(f, S)) \in Nat /\ Cardinality(Units(g, S)) \in Nat
    BY <1>1, UnitsFinite
  <2> QED BY <2>1 DEF SumOf, g
<1>3. ASSUME NEW x \in S PROVE SumOf(f, S) = SumOf(f, S \ {x}) + f[x]
  <2> DEFINE T == S \ {x}
             h == [y \in T |-> 0 - f[y]]
  <2>1. Units(g, T) = Units(h, T)
    BY UnitsSame
  <2>2. IsFiniteSet(T)
    BY FS_Difference
  <2> SUFFICES Cardinality(Units(f, S)) - Cardinality(Units(g, S))
               = Cardinality(Units(f, T)) - Cardinality(Units(h, T)) + f[x]
    BY DEF SumOf
  <2> HIDE DEF g, h
  <2>3. Cardinality(Units(f, S)) = Cardinality(Units(f, T)) + (IF f[x] > 0 THEN f[x] ELSE 0)
    BY UnitsSplit
  <2>4. Cardinality(Units(g, S)) = Cardinality(Units(g, T)) + (IF g[x] > 0 THEN g[x] ELSE 0)
    BY <1>1, UnitsSplit
  <2>5. Cardinality(Units(f, T)) \in Nat /\ Cardinality(Units(g, T)) \in Nat
    BY <1>1, <2>2, UnitsFinite
  <2> HIDE DEF T
  <2> QED BY <1>1, <2>1, <2>3, <2>4, <2>5
<1> QED BY <1>2, <1>3

\* So does the sum.
LEMMA SumSame ==
    ASSUME NEW S, NEW f, NEW g, \A x \in S : f[x] = g[x]
    PROVE  SumOf(f, S) = SumOf(g, S)
<1>1. Units([x \in S |-> 0 - f[x]], S) = Units([x \in S |-> 0 - g[x]], S)
  BY UnitsSame
<1> QED BY <1>1, UnitsSame DEF SumOf

\* The sum over no elements is zero.
LEMMA SumOfNone == \A f : SumOf(f, {}) = 0
BY FS_EmptySet DEF SumOf, Units

\* What is nowhere below zero sums to no less than any of its values.
LEMMA SumOfNaturals ==
    ASSUME NEW S, IsFiniteSet(S), NEW f, \A y \in S : f[y] \in Nat
    PROVE  SumOf(f, S) \in Nat /\ \A x \in S : f[x] <= SumOf(f, S)
<1>1. ASSUME NEW T, IsFiniteSet(T), \A y \in T : f[y] \in Nat
      PROVE  SumOf(f, T) \in Nat
  <2> DEFINE g == [y \in T |-> 0 - f[y]]
  <2>1. Units(g, T) = {}
    BY <1>1 DEF Units
  <2>2. Cardinality(Units(f, T)) \in Nat
    BY <1>1, UnitsFinite
  <2>3. Cardinality(Units(g, T)) = 0
    BY <2>1, FS_EmptySet
  <2>4. SumOf(f, T) = Cardinality(Units(f, T)) - Cardinality(Units(g, T))
    BY DEF SumOf
  <2> HIDE DEF g
  <2> QED BY <2>2, <2>3, <2>4
<1>2. ASSUME NEW x \in S PROVE f[x] <= SumOf(f, S)
  <2>1. IsFiniteSet(S \ {x})
    BY FS_Difference
  <2>2. SumOf(f, S \ {x}) \in Nat
    BY <1>1, <2>1
  <2>3. SumOf(f, S) = SumOf(f, S \ {x}) + f[x]
    BY SumSplit
  <2> QED BY <2>2, <2>3
<1> QED BY <1>1, <1>2

\* A function changed at one element sums to as much more.
LEMMA SumChange ==
    ASSUME NEW S, IsFiniteSet(S), NEW f, NEW g,
           \A y \in S : f[y] \in Int /\ g[y] \in Int,
           NEW x \in S, \A y \in S \ {x} : g[y] = f[y]
    PROVE  SumOf(g, S) = SumOf(f, S) + g[x] - f[x]
<1>1. SumOf(g, S) = SumOf(g, S \ {x}) + g[x] /\ SumOf(f, S) = SumOf(f, S \ {x}) + f[x]
  BY SumSplit
<1>2. SumOf(g, S \ {x}) = SumOf(f, S \ {x})
  BY SumSame
<1>3. SumOf(f, S \ {x}) \in Int
  <2>1. IsFiniteSet(S \ {x})
    BY FS_Difference
  <2> QED BY <2>1, SumSplit
<1> QED BY <1>1, <1>2, <1>3

\* The slots of the ring are reused after Capacity records, and not before.
LEMMA SlotsApart ==
    /\ \A s \in Int : SlotOf(s) \in Slot
    /\ \A s, u \in Int : s - u < Capacity /\ u - s < Capacity /\ SlotOf(s) = SlotOf(u) => s = u
<1>1. Capacity \in Nat /\ Capacity > 0
  BY BookAssumption
<1>2. \A a \in Int : a % Capacity = a - Capacity * (a \div Capacity)
  BY <1>1, Z3
<1>3. \A a \in Int : a \div Capacity \in Int /\ a % Capacity \in 0..(Capacity - 1)
  BY <1>1
<1>4. ASSUME NEW a \in Int, NEW b \in Int, a - b < Capacity, b - a < Capacity,
             a % Capacity = b % Capacity
      PROVE  a = b
  <2> DEFINE p == a \div Capacity
             q == b \div Capacity
  <2>1. p \in Int /\ q \in Int /\ a - Capacity * p = b - Capacity * q
    BY <1>2, <1>3, <1>4
  <2> HIDE DEF p, q
  <2>2. \A k \in Int : k >= 1 => Capacity * k >= Capacity
    BY <1>1
  <2>3. a - b = Capacity * p - Capacity * q /\ b - a = Capacity * q - Capacity * p
    <3>1. Capacity * p \in Int /\ Capacity * q \in Int
      BY <1>1, <2>1
    <3>2. \A x, y \in Int : a - x = b - y => a - b = x - y /\ b - a = y - x
      OBVIOUS
    <3> QED BY <2>1, <3>1, <3>2, Z3
  <2>4. Capacity * p - Capacity * q = Capacity * (p - q) /\ Capacity * q - Capacity * p = Capacity * (q - p)
    BY <1>1, <2>1, Z3
  <2>5. ~(p - q >= 1) /\ ~(q - p >= 1)
    BY <1>1, <1>4, <2>1, <2>2, <2>3, <2>4
  <2>6. p = q
    BY <2>1, <2>5
  <2>7. Capacity * p \in Int /\ Capacity * p = Capacity * q
    BY <1>1, <2>1, <2>6
  <2> QED BY <2>1, <2>7
<1> QED BY <1>3, <1>4 DEF SlotOf, Slot

\* A reference stands for one name, and a name for one reference or none.
LEMMA FindWorks ==
    ASSUME NEW s, Names(s)
    PROVE  /\ Len(s) \in Nat /\ 0..Len(s) \subseteq Ref
           /\ \A n : /\ Find(s, n) \in 0..Len(s)
                     /\ Find(s, n) # 0 <=> Interned(s, n)
                     /\ Interned(s, n) => s[Find(s, n)] = n
           /\ \A i \in 1..Len(s) : s[i] \in Name /\ Find(s, s[i]) = i
<1>1. Len(s) \in Nat /\ Len(s) < MaxInterned /\ MaxInterned \in Nat
      /\ \A i \in 1..Len(s) : s[i] \in Name
  BY BookAssumption DEF Names
<1>2. ASSUME NEW n, Interned(s, n) PROVE Find(s, n) \in 1..Len(s) /\ s[Find(s, n)] = n
  BY <1>2 DEF Interned, Find
<1>3. ASSUME NEW n, ~Interned(s, n) PROVE Find(s, n) = 0
  BY <1>3 DEF Find
<1>4. ASSUME NEW i \in 1..Len(s) PROVE Find(s, s[i]) = i
  <2>1. Interned(s, s[i])
    BY DEF Interned
  <2>2. Find(s, s[i]) \in 1..Len(s) /\ s[Find(s, s[i])] = s[i]
    BY <1>2, <2>1
  <2> QED BY <2>2 DEF Names
<1>5. 0..Len(s) \subseteq Ref
  BY <1>1 DEF Ref
<1>6. ASSUME NEW n
      PROVE  /\ Find(s, n) \in 0..Len(s)
             /\ Find(s, n) # 0 <=> Interned(s, n)
             /\ Interned(s, n) => s[Find(s, n)] = n
  <2>1. CASE Interned(s, n)
    BY <1>1, <1>2, <2>1
  <2>2. CASE ~Interned(s, n)
    BY <1>1, <1>3, <2>2
  <2> QED BY <2>1, <2>2
<1> QED BY <1>1, <1>4, <1>5, <1>6

\* Names that are interned later change nothing of those that were.
LEMMA GrownKeeps ==
    ASSUME NEW s, NEW t, Names(s), Grown(s, t)
    PROVE  /\ \A n : Interned(s, n) => Interned(t, n) /\ Find(t, n) = Find(s, n)
           /\ \A n : Interned(t, n) /\ ~Interned(s, n) => Find(t, n) \in (Len(s) + 1)..Len(t)
           /\ \A r \in 0..Len(s) : r \in 0..Len(t) /\ Lookup(t, r) = Lookup(s, r)
<1>1. Names(t) /\ Len(s) \in Nat /\ Len(t) \in Nat /\ Len(s) <= Len(t)
  BY FindWorks DEF Grown
<1>2. ASSUME NEW n, Interned(s, n) PROVE Interned(t, n) /\ Find(t, n) = Find(s, n)
  <2> DEFINE i == Find(s, n)
  <2>1. i \in 1..Len(s) /\ s[i] = n
    BY <1>2, FindWorks
  <2> HIDE DEF i
  <2>2. i \in 1..Len(t) /\ t[i] = n
    BY <1>1, <2>1 DEF Grown
  <2>3. Find(t, t[i]) = i
    BY <1>1, <2>2, FindWorks
  <2> QED BY <2>2, <2>3 DEF Interned, i
<1>3. ASSUME NEW n, Interned(t, n), ~Interned(s, n) PROVE Find(t, n) \in (Len(s) + 1)..Len(t)
  <2> DEFINE i == Find(t, n)
  <2>1. i \in 1..Len(t) /\ t[i] = n
    BY <1>1, <1>3, FindWorks
  <2> HIDE DEF i
  <2>2. i \notin 1..Len(s)
    BY <1>3, <2>1 DEF Grown, Interned
  <2> QED BY <1>1, <2>1, <2>2 DEF i
<1>4. ASSUME NEW r \in 0..Len(s) PROVE r \in 0..Len(t) /\ Lookup(t, r) = Lookup(s, r)
  BY <1>1 DEF Lookup, Grown
<1> QED BY <1>2, <1>3, <1>4

\* Strings.Intern only ever adds the name it was given.
LEMMA InternGrows ==
    ASSUME NEW s, Names(s), NEW n \in Name \cup {NoName}
    PROVE  /\ Grown(s, Intern(s, n))
           /\ \A m : Interned(Intern(s, n), m) => Interned(s, m) \/ m = n
<1>1. Len(s) \in Nat /\ MaxInterned \in Nat
  BY FindWorks, BookAssumption
<1>2. CASE n = NoName \/ Interned(s, n) \/ Len(s) + 1 >= MaxInterned
  BY <1>1, <1>2 DEF Intern, Grown
<1>3. CASE ~(n = NoName \/ Interned(s, n) \/ Len(s) + 1 >= MaxInterned)
  <2> DEFINE t == Append(s, n)
  <2>1. Intern(s, n) = t /\ n \in Name /\ s \in Seq(Name)
    BY <1>3 DEF Intern, Names
  <2>2. t \in Seq(Name) /\ Len(t) = Len(s) + 1 /\ t[Len(s) + 1] = n
        /\ \A i \in 1..Len(s) : t[i] = s[i]
    BY <2>1
  <2> HIDE DEF t
  <2>3. ASSUME NEW i \in 1..Len(t), NEW j \in 1..Len(t), t[i] = t[j] PROVE i = j
    <3>1. i \in 1..Len(s) \/ i = Len(s) + 1
      BY <1>1, <2>2
    <3>2. j \in 1..Len(s) \/ j = Len(s) + 1
      BY <1>1, <2>2
    <3> QED BY <1>3, <2>2, <2>3, <3>1, <3>2 DEF Interned, Names
  <2>4. Names(t)
    BY <1>1, <1>3, <2>2, <2>3 DEF Names
  <2>5. ASSUME NEW m, Interned(t, m) PROVE Interned(s, m) \/ m = n
    <3>1. PICK i \in 1..Len(t) : t[i] = m
      BY <2>5 DEF Interned
    <3>2. i \in 1..Len(s) \/ i = Len(s) + 1
      BY <1>1, <2>2
    <3> QED BY <2>2, <3>1, <3>2 DEF Interned
  <2> QED BY <1>1, <2>1, <2>2, <2>4, <2>5 DEF Grown
<1> QED BY <1>2, <1>3

\* A table that has grown twice has grown.
LEMMA GrownTwice ==
    ASSUME NEW s, NEW t, NEW u, Names(s), Grown(s, t), Grown(t, u)
    PROVE  Grown(s, u)
<1>1. Len(s) \in Nat /\ Len(t) \in Nat /\ Len(u) \in Nat
  BY FindWorks DEF Grown
<1> QED BY <1>1 DEF Grown

\* Storing a transaction adds the names of its accounts at most.
LEMMA InternBothGrows ==
    ASSUME NEW s, Names(s), NEW t, t.from \in Account, t.to \in Account
    PROVE  /\ Grown(s, InternBoth(s, t))
           /\ \A m : Interned(InternBoth(s, t), m) => Interned(s, m) \/ m \in {t.from, t.to}
<1> DEFINE u == Intern(s, t.from)
<1>1. t.from \in Name \cup {NoName} /\ t.to \in Name \cup {NoName}
  BY DEF Name
<1>2. Grown(s, u) /\ \A m : Interned(u, m) => Interned(s, m) \/ m = t.from
  BY <1>1, InternGrows
<1>3. Names(u) /\ InternBoth(s, t) = Intern(u, t.to)
  BY <1>2 DEF Grown, InternBoth
<1> HIDE DEF u
<1>4. Grown(u, Intern(u, t.to)) /\ \A m : Interned(Intern(u, t.to), m) => Interned(u, m) \/ m = t.to
  BY <1>1, <1>3, InternGrows
<1> QED BY <1>2, <1>3, <1>4, GrownTwice

\* The window has as many records as it counts, each in a slot of its own.
LEMMA Window ==
    ASSUME WindowInv
    PROVE  /\ Oldest \in Nat /\ Oldest > 0 /\ total \in Nat /\ count = total - Oldest + 1
           /\ Kept \subseteq Nat /\ IsFiniteSet(Kept)
           /\ \A s \in Kept : SlotOf(s) \in Slot /\ txns[SlotOf(s)] \in Packed
           /\ \A s, u \in Kept : SlotOf(s) = SlotOf(u) => s = u
           /\ SlotOf(total + 1) \in Slot
           /\ count < Capacity => \A s \in Kept : SlotOf(s) # SlotOf(total + 1)
<1>1. /\ Oldest \in Nat /\ Oldest > 0 /\ total \in Nat /\ count \in Nat /\ count = total - Oldest + 1
      /\ Capacity \in Nat /\ count <= Capacity
  BY BookAssumption DEF WindowInv, Oldest
<1>2. Kept \subseteq Nat /\ IsFiniteSet(Kept)
  BY <1>1, FS_Interval DEF Kept
<1>3. \A s \in Kept : SlotOf(s) \in Slot /\ txns[SlotOf(s)] \in Packed
  BY <1>2, SlotsApart DEF WindowInv
<1>4. ASSUME NEW s \in Kept, NEW u \in Kept, SlotOf(s) = SlotOf(u) PROVE s = u
  <2>1. s \in Int /\ u \in Int /\ s - u < Capacity /\ u - s < Capacity
    BY <1>1 DEF Kept
  <2> QED BY <1>4, <2>1, SlotsApart
<1>5. SlotOf(total + 1) \in Slot
  BY <1>1, SlotsApart
<1>6. ASSUME count < Capacity, NEW s \in Kept, SlotOf(s) = SlotOf(total + 1) PROVE FALSE
  <2>1. s \in Int /\ total + 1 \in Int /\ s - (total + 1) < Capacity /\ (total + 1) - s < Capacity
        /\ s # total + 1
    BY <1>1, <1>6 DEF Kept
  <2> QED BY <1>6, <2>1, SlotsApart
<1> QED BY <1>1, <1>2, <1>3, <1>4, <1>5, <1>6

\* A packed posting moves an integer amount.
LEMMA NetIsInt == \A p \in Packed : \A r : Net(p, r) \in Int
BY BookAssumption DEF Packed, Net

\* A step that only interns names, and may accept a transaction.
LEMMA NamesGrow ==
    ASSUME IInv, Grown(strs, strs'),
           UNCHANGED <<txns, revBy, count, total, balance, opening, slots, free, held>>
    PROVE  /\ NamesInv' /\ WindowInv' /\ RecordsInv' /\ LinksInv' /\ MoneyInv' /\ ArenaInv'
           /\ BalanceSlotThere'
<1> USE DEF IInv
<1>1. NamesInv'
  BY DEF NamesInv, Grown
<1>2. WindowInv'
  BY DEF WindowInv, Kept, Oldest, SlotOf
<1>3. RecordsInv'
  BY GrownKeeps DEF RecordsInv, NamesInv, Kept, Oldest, SlotOf
<1>4. LinksInv'
  BY DEF LinksInv, LinksTrue, Oldest, SlotOf
<1>5. MoneyInv'
  BY DEF MoneyInv, Reconciled, RetainedNet, Kept, Oldest, SlotOf
<1>6. ArenaInv'
  BY DEF ArenaInv, NoBlockLost, Kept, Oldest, SlotOf
<1>7. BalanceSlotThere'
  BY DEF BalanceSlotThere, Oldest, SlotOf
<1> QED BY <1>1, <1>2, <1>3, <1>4, <1>5, <1>6, <1>7

\* What a transaction that passed Validate may be.
LEMMA Accepted ==
    ASSUME NamesInv, WindowInv, LinksInv, NEW t \in Transaction, cur' = {t},
           AccountRoom(strs', t), total < MaxSeq, t.reverses <= total,
           t.reverses \in Kept => revBy[SlotOf(t.reverses)] = 0
                                  /\ txns[SlotOf(t.reverses)].reverses = 0,
           UNCHANGED <<txns, revBy, count, total, slots>>
    PROVE  CurInv'
BY DEF CurInv, AccountRoom, Kept, Oldest, SlotOf

\* Validate accepts a transfer only if every account has or gets a balance slot.
LEMMA SubmitStep ==
    ASSUME IInv, NEW from \in Account, NEW to \in Account,
           NEW amount \in 1..MaxAmount, NEW text \in 0..MaxText, Submit(from, to, amount, text)
    PROVE  IInv'
<1> DEFINE t == New(from, to, amount, text)
<1> USE DEF IInv
<1>1. t \in Transaction /\ t.from = from /\ t.to = to /\ t.reverses = 0
  BY BookAssumption DEF New, Transaction
<1>2. Grown(strs, strs')
  BY <1>1, InternBothGrows DEF Submit, NamesInv
<1>3. 0 \notin Kept /\ 0 <= total
  BY Window DEF Kept
<1> HIDE DEF t
<1>4. CurInv'
  BY <1>1, <1>3, Accepted DEF Submit, t
<1> QED BY <1>2, <1>4, NamesGrow DEF Submit

\* A reversal is begun only of a retained record that has no link yet.
LEMMA SubmitReversalStep ==
    ASSUME IInv, NEW seq \in 1..MaxSeq, NEW text \in 0..MaxText, SubmitReversal(seq, text)
    PROVE  IInv'
<1> DEFINE t == ReversalOf(seq, text)
           p == txns[SlotOf(seq)]
<1> USE DEF IInv
<1>1. seq \in Kept /\ p \in Packed /\ seq <= total /\ p.amount \in 1..MaxAmount
  <2>1. seq \in Kept
    BY DEF SubmitReversal, Retained, Kept
  <2>2. p \in Packed /\ p.amount > 0
    BY <2>1, Window DEF RecordsInv
  <2> QED BY <2>1, <2>2, Window, BookAssumption DEF Packed, Kept
<1>2. t \in Transaction /\ t.reverses = seq
  <2>1. {Lookup(strs, p.from), Lookup(strs, p.to)} \subseteq Account \cup {NoName}
    BY <1>1 DEF RecordsInv
  <2> QED BY <1>1, <2>1, BookAssumption DEF ReversalOf, Transaction
<1> HIDE DEF t
<1>3. CurInv'
  BY <1>1, <1>2, Accepted DEF SubmitReversal, t
<1>4. Grown(strs, strs')
  BY FindWorks DEF SubmitReversal, Grown, NamesInv
<1> QED BY <1>3, <1>4, NamesGrow DEF SubmitReversal

\* Steps that accept nothing.
LEMMA InternStep ==
    ASSUME IInv, \/ \E from, to \in Account : Refuse(from, to)
                 \/ \E n \in OtherName : InternOther(n)
    PROVE  IInv'
<1> USE DEF IInv
<1>1. Grown(strs, strs')
  <2>1. CASE \E from, to \in Account : Refuse(from, to)
    <3>1. PICK from \in Account, to \in Account : Refuse(from, to)
      BY <2>1
    <3>2. New(from, to, 1, 0).from = from /\ New(from, to, 1, 0).to = to
      BY DEF New
    <3> QED BY <3>1, <3>2, InternBothGrows DEF Refuse, NamesInv
  <2>2. CASE \E n \in OtherName : InternOther(n)
    BY <2>2, InternGrows DEF InternOther, NamesInv, Name
  <2> QED BY <2>1, <2>2
<1>2. cur = {} /\ UNCHANGED <<txns, revBy, count, total, balance, opening, slots, free, held, cur>>
  BY DEF Refuse, InternOther
<1>3. CurInv'
  BY <1>2 DEF CurInv
<1> QED BY <1>1, <1>2, <1>3, NamesGrow

\* The rest of the service takes blocks of the arena and gives them back.
LEMMA TextStep ==
    ASSUME IInv, \E n \in 1..Blocks : TakeText(n) \/ ReleaseText(n)
    PROVE  IInv'
<1> USE DEF IInv
<1>1. PICK n \in 1..Blocks : TakeText(n) \/ ReleaseText(n)
  OBVIOUS
<1>2. /\ UNCHANGED <<strs, txns, revBy, count, total, balance, opening, slots, cur>>
      /\ cur = {} /\ free' + held' = free + held /\ free' \in Nat /\ held' \in Nat
  BY <1>1 DEF TakeText, ReleaseText, ArenaInv
<1>3. NamesInv' /\ WindowInv' /\ RecordsInv' /\ LinksInv' /\ MoneyInv'
  BY <1>2 DEF NamesInv, WindowInv, RecordsInv, LinksInv, LinksTrue, MoneyInv, Reconciled, RetainedNet,
              Kept, Oldest, SlotOf
<1>4. ArenaInv'
  <2> DEFINE text == [s \in Kept |-> txns[SlotOf(s)].text]
  <2>1. text' = text /\ Kept' = Kept
    BY <1>2 DEF Kept, Oldest, SlotOf
  <2>2. SumOf(text, Kept) \in Nat
    <3>1. \A s \in Kept : text[s] \in Nat
      BY Window, BookAssumption DEF Packed
    <3> HIDE DEF text
    <3> QED BY <3>1, Window, SumOfNaturals
  <2>3. free + held + SumOf(text, Kept) = Blocks
    BY DEF ArenaInv, NoBlockLost
  <2>4. NoBlockLost'
    BY <1>2, <2>1, <2>3 DEF NoBlockLost, ArenaInv
  <2> HIDE DEF text
  <2>5. free \in 0..Blocks /\ held \in 0..Blocks /\ Blocks \in Nat
    BY BookAssumption DEF ArenaInv
  <2>6. ASSUME NEW a \in Nat, NEW b \in Nat, NEW c \in Nat, NEW d \in Nat, NEW x \in Nat,
               a + b + x = Blocks, c + d = a + b
        PROVE  c \in 0..Blocks /\ d \in 0..Blocks
    BY <2>5, <2>6
  <2>7. free \in Nat /\ held \in Nat
    BY <2>5
  <2>8. free' \in 0..Blocks /\ held' \in 0..Blocks
    BY <1>2, <2>2, <2>3, <2>6, <2>7
  <2> QED BY <2>4, <2>8 DEF ArenaInv
<1>5. CurInv'
  BY <1>2 DEF CurInv
<1>6. BalanceSlotThere'
  BY <1>2 DEF BalanceSlotThere, Oldest, SlotOf
<1> QED BY <1>3, <1>4, <1>5, <1>6

\* The oldest record leaves: its postings go to the opening balances, its text to
\* the arena, and the slot is empty.
LEMMA EvictStep ==
    ASSUME IInv, NEW t \in cur, Evict(t)
    PROVE  IInv'
<1> DEFINE o == Oldest
           i == SlotOf(Oldest)
           p == txns[SlotOf(Oldest)]
<1> USE DEF IInv
<1>1. o \in Kept /\ o' = o + 1 /\ total' = total /\ count' = count - 1 /\ Kept' = Kept \ {o}
  <2>1. count > 0 /\ count' = count - 1 /\ total' = total
    BY BookAssumption DEF Evict, NeedsRoom, WindowInv
  <2> QED BY <2>1, Window DEF Oldest, Kept
<1>2. i \in Slot /\ p \in Packed /\ \A s \in Kept' : SlotOf(s) # i /\ SlotOf(s) \in Slot
  BY <1>1, Window
<1>3. /\ txns' = [txns EXCEPT ![i] = NoRecord] /\ revBy' = [revBy EXCEPT ![i] = 0]
      /\ opening' = [r \in Ref |-> opening[r] + Net(p, r)] /\ free' = free + p.text
      /\ slots' = slots \cup Touched(p)
      /\ UNCHANGED <<strs, balance, held, cur>>
  BY DEF Evict
<1>0. UNCHANGED slots
  <2>1. Touched(p) \subseteq slots
    BY <1>1 DEF BalanceSlotThere, Kept, p, o
  <2> QED BY <1>3, <2>1
<1> HIDE DEF o, i, p
<1>4. \A s \in Kept' : s \in Kept /\ txns'[SlotOf(s)] = txns[SlotOf(s)] /\ revBy'[SlotOf(s)] = revBy[SlotOf(s)]
  BY <1>1, <1>2, <1>3 DEF WindowInv, LinksInv
<1>5. NamesInv'
  BY <1>3 DEF NamesInv
<1>6. WindowInv'
  <2>1. txns' \in [Slot -> Packed]
    BY <1>2, <1>3, BookAssumption DEF WindowInv, NoRecord, Packed, Ref
  <2>2. \A s \in Kept' : txns'[SlotOf(s)].seq = s
    BY <1>4 DEF WindowInv
  <2>3. ASSUME NEW j \in Slot, \A s \in Kept' : SlotOf(s) # j PROVE txns'[j] = NoRecord
    <3>1. CASE j = i
      BY <1>2, <1>3, <3>1 DEF WindowInv
    <3>2. CASE j # i
      <4>1. \A s \in Kept : SlotOf(s) # j
        BY <1>1, <2>3, <3>2 DEF i, o
      <4> QED BY <1>2, <1>3, <3>2, <4>1 DEF WindowInv
    <3> QED BY <3>1, <3>2
  <2>4. count' \in 0..Capacity /\ total' \in 0..MaxSeq /\ count' <= total'
    BY <1>1, Window, BookAssumption DEF WindowInv, Kept
  <2> QED BY <2>1, <2>2, <2>3, <2>4 DEF WindowInv, SlotOf
<1>7. RecordsInv'
  BY <1>3, <1>4 DEF RecordsInv, SlotOf
<1>8. LinksInv'
  <2>1. revBy' \in [Slot -> 0..MaxSeq]
    BY <1>2, <1>3, BookAssumption DEF LinksInv
  <2>2. ASSUME NEW s \in Kept'
        PROVE  LET r == revBy'[SlotOf(s)]
               IN  /\ r # 0 => r \in (s + 1)..total' /\ txns'[SlotOf(r)].reverses = s
                   /\ txns'[SlotOf(s)].reverses \in Kept' =>
                          revBy'[SlotOf(txns'[SlotOf(s)].reverses)] = s
    <3>1. s \in Kept /\ s \in Nat /\ s >= Oldest /\ Oldest \in Nat
      BY <1>4, Window DEF Kept
    <3>2. ASSUME revBy[SlotOf(s)] # 0
          PROVE  revBy[SlotOf(s)] \in (s + 1)..total /\ revBy[SlotOf(s)] \in Kept'
                 /\ txns[SlotOf(revBy[SlotOf(s)])].reverses = s
      <4> DEFINE r == revBy[SlotOf(s)]
      <4>1. r \in (s + 1)..total /\ txns[SlotOf(r)].reverses = s
        BY <3>1, <3>2 DEF LinksInv, LinksTrue, Kept
      <4> HIDE DEF r
      <4>2. r \in Kept /\ r # o
        BY <3>1, <4>1, Window DEF Kept, o
      <4> QED BY <1>1, <4>1, <4>2 DEF r
    <3>3. txns[SlotOf(s)].reverses \in Kept =>
              revBy[SlotOf(txns[SlotOf(s)].reverses)] = s
      BY <3>1 DEF LinksInv, LinksTrue, Kept
    <3> QED BY <1>1, <1>4, <3>2, <3>3
  <2> QED BY <2>1, <2>2 DEF LinksInv, LinksTrue, Kept, SlotOf
<1>9. MoneyInv'
  <2>1. opening' \in [Ref -> Int]
    BY <1>2, <1>3, NetIsInt DEF MoneyInv
  <2>2. ASSUME NEW r \in Ref PROVE balance'[r] = opening'[r] + RetainedNet(r)'
    <3> DEFINE f == [s \in Kept |-> Net(txns[SlotOf(s)], r)]
               g == [s \in Kept' |-> Net(txns'[SlotOf(s)], r)]
    <3>1. \A s \in Kept : f[s] \in Int
      BY Window, NetIsInt
    <3>2. \A s \in Kept' : g[s] = f[s]
      BY <1>1, <1>4
    <3>3. f[o] = Net(p, r)
      BY <1>1 DEF o, p
    <3>4. RetainedNet(r) = SumOf(f, Kept) /\ RetainedNet(r)' = SumOf(g, Kept')
      BY DEF RetainedNet, SlotOf, Net
    <3> HIDE DEF f, g
    <3>5. SumOf(f, Kept) = SumOf(f, Kept') + f[o] /\ SumOf(f, Kept) \in Int
      BY <1>1, <3>1, Window, SumSplit
    <3>6. SumOf(g, Kept') = SumOf(f, Kept') /\ SumOf(f, Kept') \in Int
      <4>1. IsFiniteSet(Kept')
        BY <1>1, Window, FS_Difference
      <4>2. \A s \in Kept' : f[s] \in Int
        BY <1>1, <3>1
      <4> QED BY <3>2, <4>1, <4>2, SumSame, SumSplit
    <3>7. balance[r] = opening[r] + SumOf(f, Kept) /\ opening[r] \in Int
      BY <3>4 DEF MoneyInv, Reconciled
    <3>8. Net(p, r) \in Int
      BY <1>2, NetIsInt
    <3>9. \A a, b, c, d, e \in Int : a = b + c /\ c = d + e => a = b + e + d
      OBVIOUS
    <3> QED BY <1>3, <3>3, <3>4, <3>5, <3>6, <3>7, <3>8, <3>9 DEF MoneyInv
  <2> QED BY <1>0, <2>1, <2>2, <1>3 DEF MoneyInv, Reconciled
<1>10. ArenaInv'
  <2> DEFINE f == [s \in Kept |-> txns[SlotOf(s)].text]
             g == [s \in Kept' |-> txns'[SlotOf(s)].text]
  <2>1. \A s \in Kept : f[s] \in Nat
    BY Window, BookAssumption DEF Packed
  <2>2. \A s \in Kept' : g[s] = f[s]
    BY <1>1, <1>4
  <2>3. f[o] = p.text
    BY <1>1 DEF o, p
  <2>4. free + held + SumOf(f, Kept) = Blocks
    BY DEF ArenaInv, NoBlockLost
  <2>5. NoBlockLost' <=> free' + held' + SumOf(g, Kept') = Blocks
    BY DEF NoBlockLost, SlotOf
  <2> HIDE DEF f, g
  <2>6. SumOf(f, Kept) = SumOf(f, Kept') + f[o]
    BY <1>1, <2>1, Window, SumSplit
  <2>7. SumOf(g, Kept') = SumOf(f, Kept') /\ SumOf(f, Kept') \in Nat
    <3>1. IsFiniteSet(Kept')
      BY <1>1, Window, FS_Difference
    <3>2. \A s \in Kept' : f[s] \in Nat
      BY <1>1, <2>1
    <3> QED BY <2>2, <3>1, <3>2, SumSame, SumOfNaturals
  <2>8. ASSUME NEW a \in Nat, NEW b \in Nat, NEW c \in Nat, NEW d \in Nat,
               a + b + (c + d) = Blocks
        PROVE  a + d + b + c = Blocks /\ a + d \in 0..Blocks
    BY <2>8, BookAssumption
  <2>9. free \in Nat /\ held \in 0..Blocks /\ held \in Nat /\ f[o] \in Nat
    BY <1>1, <2>1, BookAssumption DEF ArenaInv
  <2>10. free + held + (SumOf(f, Kept') + f[o]) = Blocks
    BY <2>4, <2>6
  <2>11. free + f[o] + held + SumOf(f, Kept') = Blocks /\ free + f[o] \in 0..Blocks
    BY <2>7, <2>8, <2>9, <2>10
  <2> QED BY <1>3, <2>3, <2>5, <2>7, <2>9, <2>11 DEF ArenaInv
<1>11. CurInv'
  <2>1. \A u \in cur' : AccountRoom(strs, u)'
    BY <1>0, <1>3 DEF CurInv, AccountRoom
  <2> QED BY <1>1, <1>3, <1>4, <2>1 DEF CurInv, SlotOf
<1>12. BalanceSlotThere'
  <2>1. Cardinality(slots') <= AccountCapacity
    BY <1>0 DEF BalanceSlotThere
  <2>2. \A s \in Kept' : Touched(txns'[SlotOf(s)]) \subseteq slots'
    BY <1>0, <1>4 DEF BalanceSlotThere, Kept
  <2>3. ASSUME NEW r \in Ref, r \notin slots' PROVE balance'[r] = 0 /\ opening'[r] = 0
    <3>1. balance[r] = 0 /\ opening[r] = 0
      BY <1>0, <2>3 DEF BalanceSlotThere
    <3>2. r # p.from /\ r # p.to
      BY <1>3, <2>3 DEF Touched
    <3>3. Net(p, r) = 0
      BY <3>2 DEF Net
    <3> QED BY <1>3, <3>1, <3>3
  <2> QED BY <2>1, <2>2, <2>3 DEF BalanceSlotThere, Kept, SlotOf, Oldest
<1> QED BY <1>5, <1>6, <1>7, <1>8, <1>9, <1>10, <1>11, <1>12

\* The record of a transaction, as Store packs it.
LEMMA Packing ==
    ASSUME NamesInv, WindowInv, ArenaInv, NEW t \in Transaction, total < MaxSeq
    PROVE  /\ Pack(t) \in Packed /\ Pack(t).seq = total + 1 /\ Pack(t).amount > 0
           /\ Pack(t).reverses = t.reverses
           /\ Pack(t).text \in 0..free
           /\ Pack(t).from \in 0..Len(strs) /\ Lookup(strs, Pack(t).from) \in {t.from, NoName}
           /\ Pack(t).to \in 0..Len(strs) /\ Lookup(strs, Pack(t).to) \in {t.to, NoName}
<1>1. \A n : /\ Find(strs, n) \in Ref /\ Find(strs, n) \in 0..Len(strs)
             /\ Lookup(strs, Find(strs, n)) \in {n, NoName}
  BY FindWorks DEF NamesInv, Lookup
<1>2. total + 1 \in 0..MaxSeq
  BY BookAssumption DEF WindowInv
<1>3. t.amount \in 0..MaxAmount /\ t.amount > 0 /\ t.usd \in BOOLEAN /\ t.text \in Nat
      /\ t.reverses \in 0..MaxSeq
  BY BookAssumption DEF Transaction
<1>4. free \in 0..Blocks /\ Blocks \in Nat
  BY BookAssumption DEF ArenaInv
<1>5. Pack(t).text \in 0..free /\ Pack(t).text \in 0..Blocks
  BY <1>3, <1>4 DEF Pack
<1>6. Pack(t) \in Packed
  BY <1>1, <1>2, <1>3, <1>5 DEF Pack, Packed
<1> QED BY <1>1, <1>3, <1>5, <1>6 DEF Pack

\* The record of the next sequence number takes the slot the window has left.
LEMMA StoreStep ==
    ASSUME IInv, NEW t \in cur, Store(t)
    PROVE  IInv'
<1> DEFINE n == total + 1
           i == SlotOf(total + 1)
           p == Pack(t)
<1> USE DEF IInv
<1>1. t \in Transaction /\ total < MaxSeq /\ n \in 1..MaxSeq /\ t.reverses <= total /\ cur = {t}
  BY BookAssumption DEF CurInv, WindowInv
<1>2. count < Capacity
  BY BookAssumption DEF Store, NeedsRoom, WindowInv
<1>3. /\ Oldest' = Oldest /\ total' = n /\ count' = count + 1 /\ Kept' = Kept \cup {n}
      /\ n \notin Kept /\ \A s \in Kept : s < n /\ s >= 1
  <2>1. total' = total + 1 /\ count' = count + 1
    BY DEF Store
  <2>2. /\ total \in Nat /\ count \in Nat /\ Oldest \in Nat /\ Oldest > 0 /\ Oldest = total - count + 1
        /\ Kept = Oldest..total
    BY Window DEF Oldest, Kept, WindowInv
  <2>3. Oldest' = Oldest /\ Kept' = Oldest..(total + 1)
    BY <2>1, <2>2 DEF Oldest, Kept
  <2>4. n \notin Kept /\ \A s \in Kept : s < n /\ s >= 1
    BY <2>2
  <2>5. Oldest..(total + 1) = (Oldest..total) \cup {total + 1}
    <3>1. Oldest <= total + 1
      BY <2>2, BookAssumption DEF WindowInv
    <3> QED BY <2>2, <3>1
  <2> QED BY <2>1, <2>2, <2>3, <2>4, <2>5
<1>4. i \in Slot /\ \A s \in Kept : SlotOf(s) # i /\ SlotOf(s) \in Slot
  BY <1>2, Window
<1>5. /\ p \in Packed /\ p.seq = n /\ p.amount > 0 /\ p.reverses = t.reverses /\ p.text \in 0..free
      /\ p.from \in 0..Len(strs) /\ Lookup(strs, p.from) \in {t.from, NoName}
      /\ p.to \in 0..Len(strs) /\ Lookup(strs, p.to) \in {t.to, NoName}
  BY <1>1, Packing
<1>6. /\ txns' = [txns EXCEPT ![i] = p] /\ revBy' = Linked(t, n)
      /\ balance' = [r \in Ref |-> balance[r] + Net(p, r)] /\ free' = free - p.text
      /\ slots' = slots \cup Touched(p) /\ cur' = {}
      /\ UNCHANGED <<strs, opening, held>>
  BY DEF Store
<1> HIDE DEF p
<1>7. /\ txns'[SlotOf(n)] = p
      /\ \A s \in Kept : s \in Kept' /\ txns'[SlotOf(s)] = txns[SlotOf(s)]
  BY <1>3, <1>4, <1>6 DEF WindowInv
<1>8. NamesInv'
  BY <1>6 DEF NamesInv
<1>9. WindowInv'
  <2>1. txns' \in [Slot -> Packed]
    BY <1>4, <1>5, <1>6 DEF WindowInv
  <2>2. \A s \in Kept' : txns'[SlotOf(s)].seq = s
    BY <1>3, <1>5, <1>7 DEF WindowInv
  <2>3. ASSUME NEW j \in Slot, \A s \in Kept' : SlotOf(s) # j PROVE txns'[j] = NoRecord
    <3>1. j # i /\ \A s \in Kept : SlotOf(s) # j
      BY <1>3, <2>3
    <3> QED BY <1>4, <1>6, <3>1 DEF WindowInv
  <2>4. count' \in 0..Capacity /\ total' \in 0..MaxSeq /\ count' <= total'
    BY <1>1, <1>2, <1>3, BookAssumption DEF WindowInv
  <2> QED BY <2>1, <2>2, <2>3, <2>4 DEF WindowInv, SlotOf
<1>10. RecordsInv'
  <2>1. {t.from, t.to} \subseteq Account \cup {NoName}
    BY <1>1 DEF Transaction
  <2>2. ASSUME NEW s \in Kept'
        PROVE LET q == txns'[SlotOf(s)]
              IN  /\ q.amount > 0 /\ q.reverses < s
                  /\ q.from \in 0..Len(strs) /\ q.to \in 0..Len(strs)
                  /\ {Lookup(strs, q.from), Lookup(strs, q.to)} \subseteq Account \cup {NoName}
    <3>1. CASE s = n
      <4>1. t.reverses < n
        BY <1>1, Window DEF Transaction
      <4> QED BY <1>5, <1>7, <2>1, <3>1, <4>1
    <3>2. CASE s \in Kept
      BY <1>7, <3>2 DEF RecordsInv
    <3> QED BY <1>3, <3>1, <3>2
  <2> QED BY <1>6, <2>2 DEF RecordsInv, SlotOf
<1>11. LinksInv'
  <2> DEFINE o == t.reverses
  <2>1. \A s \in Kept : txns[SlotOf(s)].seq = s
    BY DEF WindowInv
  <2>2. revBy' = [j \in Slot |-> IF j = i THEN 0
                                 ELSE IF o \in Kept /\ j = SlotOf(o) THEN n ELSE revBy[j]]
    BY <1>6, <2>1 DEF Linked, Kept
  <2>3. revBy' \in [Slot -> 0..MaxSeq]
    BY <1>1, <2>2, BookAssumption DEF LinksInv
  <2>4. revBy'[SlotOf(n)] = 0 /\ \A s \in Kept : revBy'[SlotOf(s)] = IF s = o THEN n ELSE revBy[SlotOf(s)]
    BY <1>4, <2>2, Window
  <2>5. ASSUME NEW s \in Kept'
        PROVE  LET r == revBy'[SlotOf(s)]
               IN  /\ r # 0 => r \in (s + 1)..total' /\ txns'[SlotOf(r)].reverses = s
                   /\ txns'[SlotOf(s)].reverses \in Kept' =>
                          revBy'[SlotOf(txns'[SlotOf(s)].reverses)] = s
    <3>1. CASE s = n
      <4>1. txns'[SlotOf(s)].reverses = o /\ o <= total /\ o \in Nat
        BY <1>1, <1>5, <1>7, <3>1, BookAssumption DEF Transaction
      <4>2. o \in Kept' => o \in Kept
        BY <1>3, <4>1, Window
      <4> QED BY <2>4, <3>1, <4>1, <4>2
    <3>2. CASE s \in Kept
      <4>1. txns'[SlotOf(s)] = txns[SlotOf(s)] /\ txns[SlotOf(s)].reverses < s
        BY <1>7, <3>2 DEF RecordsInv
      <4>2. ASSUME s # o, revBy[SlotOf(s)] # 0
            PROVE  revBy[SlotOf(s)] \in (s + 1)..total' /\ txns'[SlotOf(revBy[SlotOf(s)])].reverses = s
        <5> DEFINE r == revBy[SlotOf(s)]
        <5>1. r \in (s + 1)..total /\ txns[SlotOf(r)].reverses = s
          BY <3>2, <4>2 DEF LinksInv, LinksTrue, Kept
        <5> HIDE DEF r
        <5>2. r \in Kept
          BY <3>2, <5>1, Window DEF Kept
        <5> QED BY <1>3, <1>7, <3>2, <5>1, <5>2, Window DEF r
      <4>3. ASSUME s = o
            PROVE  n \in (s + 1)..total' /\ txns'[SlotOf(n)].reverses = s
        BY <1>3, <1>5, <1>7, <3>2, <4>3, Window
      <4>4. ASSUME txns[SlotOf(s)].reverses \in Kept'
            PROVE  revBy'[SlotOf(txns[SlotOf(s)].reverses)] = s
        <5> DEFINE u == txns[SlotOf(s)].reverses
        <5>1. u \in Kept
          BY <1>3, <3>2, <4>1, <4>4, Window
        <5>2. revBy[SlotOf(u)] = s
          BY <3>2, <5>1 DEF LinksInv, LinksTrue, Kept
        <5>3. u # o
          BY <1>1, <1>3, <3>2, <5>1, <5>2 DEF CurInv
        <5> QED BY <2>4, <5>1, <5>2, <5>3
      <4> QED BY <2>4, <3>2, <4>1, <4>2, <4>3, <4>4
    <3> QED BY <1>3, <3>1, <3>2
  <2> QED BY <2>3, <2>5 DEF LinksInv, LinksTrue, Kept, SlotOf
<1>12. MoneyInv'
  <2>1. balance' \in [Ref -> Int]
    BY <1>5, <1>6, NetIsInt DEF MoneyInv
  <2>2. ASSUME NEW r \in Ref PROVE balance'[r] = opening'[r] + RetainedNet(r)'
    <3> DEFINE f == [s \in Kept |-> Net(txns[SlotOf(s)], r)]
               g == [s \in Kept' |-> Net(txns'[SlotOf(s)], r)]
    <3>1. \A s \in Kept : f[s] \in Int /\ g[s] = f[s]
      BY <1>3, <1>7, Window, NetIsInt
    <3>2. g[n] = Net(p, r) /\ Net(p, r) \in Int
      BY <1>3, <1>5, <1>7, NetIsInt
    <3>3. RetainedNet(r) = SumOf(f, Kept) /\ RetainedNet(r)' = SumOf(g, Kept')
      BY DEF RetainedNet, SlotOf, Net
    <3> HIDE DEF f, g
    <3>4. SumOf(g, Kept') = SumOf(g, Kept) + g[n]
      <4>1. IsFiniteSet(Kept') /\ Kept' \ {n} = Kept
        BY <1>3, Window, FS_AddElement
      <4>2. \A s \in Kept' : g[s] \in Int
        BY <1>3, <3>1, <3>2
      <4> QED BY <1>3, <4>1, <4>2, SumSplit
    <3>5. SumOf(g, Kept) = SumOf(f, Kept) /\ SumOf(f, Kept) \in Int
      BY <3>1, Window, SumSame, SumSplit
    <3>6. balance[r] = opening[r] + SumOf(f, Kept) /\ opening[r] \in Int
      BY <3>3 DEF MoneyInv, Reconciled
    <3>7. \A a, b, c, d \in Int : a = b + c => a + d = b + (c + d)
      OBVIOUS
    <3>8. balance[r] \in Int
      BY DEF MoneyInv
    <3> QED BY <1>6, <3>2, <3>3, <3>4, <3>5, <3>6, <3>7, <3>8
  <2>3. slots' \subseteq Ref
    BY <1>5, <1>6 DEF MoneyInv, Touched, Packed
  <2> QED BY <1>6, <2>1, <2>2, <2>3 DEF MoneyInv, Reconciled
<1>13. ArenaInv'
  <2> DEFINE f == [s \in Kept |-> txns[SlotOf(s)].text]
             g == [s \in Kept' |-> txns'[SlotOf(s)].text]
  <2>1. \A s \in Kept : f[s] \in Nat /\ g[s] = f[s]
    BY <1>3, <1>7, Window, BookAssumption DEF Packed
  <2>2. g[n] = p.text
    BY <1>3, <1>7
  <2>3. free + held + SumOf(f, Kept) = Blocks
    BY DEF ArenaInv, NoBlockLost
  <2>4. NoBlockLost' <=> free' + held' + SumOf(g, Kept') = Blocks
    BY DEF NoBlockLost, SlotOf
  <2>5. free \in Nat /\ held \in 0..Blocks /\ held \in Nat /\ p.text \in Nat /\ free \in 0..Blocks
        /\ free - p.text \in 0..Blocks
    BY <1>5, BookAssumption DEF ArenaInv
  <2> HIDE DEF f, g
  <2>6. SumOf(g, Kept') = SumOf(g, Kept) + g[n]
    <3>1. IsFiniteSet(Kept') /\ Kept' \ {n} = Kept
      BY <1>3, Window, FS_AddElement
    <3>2. \A s \in Kept' : g[s] \in Int
      BY <1>3, <2>1, <2>2, <2>5
    <3> QED BY <1>3, <3>1, <3>2, SumSplit
  <2>7. SumOf(g, Kept) = SumOf(f, Kept) /\ SumOf(f, Kept) \in Nat
    BY <2>1, Window, SumSame, SumOfNaturals
  <2>8. ASSUME NEW a \in Nat, NEW b \in Nat, NEW c \in Nat, NEW d \in Nat, a + b + c = Blocks
        PROVE  (a - d) + b + (c + d) = Blocks
    BY <2>8, BookAssumption
  <2>9. (free - p.text) + held + (SumOf(f, Kept) + p.text) = Blocks
    BY <2>3, <2>5, <2>7, <2>8
  <2> QED BY <1>6, <2>2, <2>4, <2>5, <2>6, <2>7, <2>9 DEF ArenaInv
<1>14. CurInv'
  BY <1>6 DEF CurInv
<1>15. BalanceSlotThere'
  <2>1. Cardinality(slots') <= AccountCapacity
    <3>1. Touched(p) = Refs(strs, t)
      BY DEF Touched, Refs, Pack, p
    <3> QED BY <1>6, <3>1 DEF CurInv, AccountRoom
  <2>2. \A s \in Kept' : Touched(txns'[SlotOf(s)]) \subseteq slots'
    BY <1>3, <1>6, <1>7 DEF BalanceSlotThere, Kept
  <2>3. ASSUME NEW r \in Ref, r \notin slots' PROVE balance'[r] = 0 /\ opening'[r] = 0
    <3>1. balance[r] = 0 /\ opening[r] = 0 /\ r # p.from /\ r # p.to
      BY <1>6, <2>3 DEF BalanceSlotThere, Touched
    <3>2. Net(p, r) = 0
      BY <3>1 DEF Net
    <3> QED BY <1>6, <3>1, <3>2
  <2> QED BY <2>1, <2>2, <2>3 DEF BalanceSlotThere, Kept, SlotOf, Oldest
<1> QED BY <1>8, <1>9, <1>10, <1>11, <1>12, <1>13, <1>14, <1>15

\* An empty book satisfies the invariant.
LEMMA Begins == Init => IInv
<1> SUFFICES ASSUME Init PROVE IInv
  OBVIOUS
<1>1. Kept = {} /\ Oldest = 1 /\ total = 0
  BY DEF Init, Kept, Oldest
<1>2. NoRecord \in Packed
  BY BookAssumption DEF NoRecord, Packed, Ref
<1>3. NamesInv
  BY BookAssumption DEF Init, NamesInv, Names
<1>4. WindowInv
  BY <1>1, <1>2, BookAssumption DEF Init, WindowInv
<1>5. LinksInv
  BY <1>1, BookAssumption DEF Init, LinksInv, LinksTrue
<1>6. MoneyInv
  <2>1. \A r \in Ref : RetainedNet(r) = 0
    BY <1>1, SumOfNone DEF RetainedNet
  <2> QED BY <2>1 DEF Init, MoneyInv, Reconciled
<1>7. ArenaInv
  <2>1. SumOf([s \in Kept |-> txns[SlotOf(s)].text], Kept) = 0
    BY <1>1, SumOfNone
  <2> QED BY <2>1, BookAssumption DEF Init, ArenaInv, NoBlockLost
<1>8. RecordsInv /\ CurInv
  BY <1>1 DEF Init, RecordsInv, CurInv
<1>9. BalanceSlotThere
  BY <1>1, FS_EmptySet, BookAssumption DEF Init, BalanceSlotThere, Kept
<1> QED BY <1>3, <1>4, <1>5, <1>6, <1>7, <1>8, <1>9 DEF IInv

\* Every step keeps the invariant.
LEMMA Invariance == IInv /\ [Next]_vars => IInv'
<1> SUFFICES ASSUME IInv, [Next]_vars PROVE IInv'
  OBVIOUS
<1>1. ASSUME UNCHANGED vars PROVE IInv'
  <2>1. NamesInv' /\ WindowInv' /\ RecordsInv' /\ LinksInv'
    BY <1>1 DEF vars, IInv, NamesInv, WindowInv, RecordsInv, LinksInv, LinksTrue, Kept, Oldest, SlotOf
  <2>2. MoneyInv' /\ ArenaInv'
    BY <1>1 DEF vars, IInv, MoneyInv, Reconciled, RetainedNet, ArenaInv, NoBlockLost, Kept, Oldest, SlotOf
  <2>3. CurInv'
    BY <1>1 DEF vars, IInv, CurInv, AccountRoom, Refs, Kept, Oldest, SlotOf
  <2>4. BalanceSlotThere'
    BY <1>1 DEF vars, IInv, BalanceSlotThere, Oldest, SlotOf
  <2> QED BY <2>1, <2>2, <2>3, <2>4 DEF IInv
<1> QED BY <1>1, SubmitStep, SubmitReversalStep, InternStep, TextStep, EvictStep, StoreStep DEF Next

\* Every state of the book is within the bounds of the code: sequence numbers,
\* references, and blocks of text never leave their ranges.
THEOREM TypeCorrect == Spec => []TypeOK
<1>1. IInv => TypeOK
  BY DEF IInv, NamesInv, Names, WindowInv, LinksInv, MoneyInv, ArenaInv, CurInv, TypeOK
<1> QED BY <1>1, Begins, Invariance, PTL DEF Spec

\* For a ring of any size: an ID resolves to its own record, and to nothing once
\* the ring has dropped it.
THEOREM WindowHolds == Spec => []WindowIntact
<1>1. IInv => WindowIntact
  <2> SUFFICES ASSUME IInv, NEW i \in Slot
               PROVE  txns[i].seq = IF \E s \in Kept : SlotOf(s) = i
                                    THEN CHOOSE s \in Kept : SlotOf(s) = i ELSE 0
    BY DEF WindowIntact, Kept
  <2> QED BY DEF IInv, WindowInv, NoRecord
<1> QED BY <1>1, Begins, Invariance, PTL DEF Spec

\* For a ring of any size: the links between a transaction and its reversal agree
\* at both ends, whatever the window has dropped in between.
THEOREM LinksHold == Spec => []LinksTrue
<1>1. IInv => LinksTrue
  BY DEF IInv, LinksInv
<1> QED BY <1>1, Begins, Invariance, PTL DEF Spec

\* For any number of balance slots and a ring of any size: the table of balances is
\* never asked for a slot it has not got, neither by a transaction nor by the eviction
\* of a record, because whatever a retained record posts to has its slot.
THEOREM SlotsThere == Spec => []BalanceSlotThere
<1>1. IInv => BalanceSlotThere
  BY DEF IInv
<1> QED BY <1>1, Begins, Invariance, PTL DEF Spec

\* For any ring, arena and intern table, a full one too: balances are the opening
\* balances and the retained postings, and every block of text is free or held.
THEOREM NothingLost == Spec => [](Reconciled /\ NoBlockLost)
<1>1. IInv => Reconciled /\ NoBlockLost
  BY DEF IInv, MoneyInv, ArenaInv
<1> QED BY <1>1, Begins, Invariance, PTL DEF Spec

-----------------------------------------------------------------------------
(* With room for every name. *)

\* A name that is not in the table finds room in it.
LEMMA RoomLeft ==
    ASSUME RoomForNames, NEW s, Names(s), NEW n \in Name, ~Interned(s, n)
    PROVE  Len(s) + 1 < MaxInterned
<1>1. s \in Injection(1..Len(s), Name \ {n})
  BY FindWorks DEF Names, Injection, IsInjective, Interned
<1>2. IsFiniteSet(Name \ {n}) /\ Cardinality(Name \ {n}) = Cardinality(Name) - 1
      /\ Cardinality(Name) \in Nat
  BY FS_RemoveElement, FS_CardinalityType DEF RoomForNames
<1>3. Cardinality(1..Len(s)) <= Cardinality(Name \ {n})
  BY <1>1, <1>2, FS_Injection
<1>4. Len(s) \in Nat /\ Cardinality(1..Len(s)) = Len(s)
  <2>1. Len(s) \in Nat
    BY FindWorks
  <2>2. Cardinality(1..Len(s)) = IF 1 > Len(s) THEN 0 ELSE Len(s) - 1 + 1
    BY <2>1, FS_Interval
  <2> QED BY <2>1, <2>2
<1> QED BY <1>2, <1>3, <1>4, BookAssumption DEF RoomForNames

\* With that room, a name that was interned has a reference of its own.
LEMMA InternKnows ==
    ASSUME RoomForNames, NEW s, Names(s), NEW n \in Name
    PROVE  Interned(Intern(s, n), n)
<1>1. CASE Interned(s, n)
  BY <1>1 DEF Intern
<1>2. CASE ~Interned(s, n)
  <2>1. n # NoName /\ Len(s) + 1 < MaxInterned /\ Len(s) \in Nat /\ s \in Seq(Name)
    BY <1>2, RoomLeft, FindWorks, BookAssumption DEF Name, Names
  <2>2. Intern(s, n) = Append(s, n)
    BY <1>2, <2>1, BookAssumption DEF Intern
  <2>3. Len(Append(s, n)) = Len(s) + 1 /\ Append(s, n)[Len(s) + 1] = n
    BY <2>1
  <2> QED BY <2>1, <2>2, <2>3 DEF Interned
<1> QED BY <1>1, <1>2

\* Elements that count nothing may be left out of a sum.
LEMMA SumOfRest ==
    ASSUME NEW T, NEW S \in SUBSET T, NEW f, \A x \in T \ S : f[x] = 0
    PROVE  SumOf(f, T) = SumOf(f, S)
<1>1. ASSUME NEW g, \A x \in T \ S : g[x] = 0
      PROVE  Units(g, T) = Units(g, S)
  <2>1. \A x \in T \ S : {x} \X (1..g[x]) = {}
    BY <1>1
  <2> QED BY <2>1 DEF Units
<1>2. Units([x \in T |-> 0 - f[x]], T) = Units([x \in T |-> 0 - f[x]], S)
  BY <1>1
<1>3. Units([x \in T |-> 0 - f[x]], S) = Units([x \in S |-> 0 - f[x]], S)
  BY UnitsSame
<1> QED BY <1>1, <1>2, <1>3 DEF SumOf

\* New names have nothing yet.
LEMMA TotalsGrow ==
    ASSUME IInv, RoomInv, Grown(strs, strs'), opening' = opening
    PROVE  GrandTotalZero'
<1> SUFFICES ASSUME NEW A \in SUBSET Account, SumOf(opening, RefsOf(A)) = 0
             PROVE  SumOf(opening, RefsOf(A)') = 0
  BY BookAssumption DEF RoomInv, GrandTotalZero
<1>1. RefsOf(A) \subseteq RefsOf(A)'
  <2>1. ASSUME NEW a \in A, Find(strs, a) # 0 PROVE Find(strs', a) = Find(strs, a)
    BY <2>1, FindWorks, GrownKeeps DEF IInv, NamesInv
  <2> QED BY <2>1 DEF RefsOf
<1>2. ASSUME NEW r \in RefsOf(A)' \ RefsOf(A) PROVE opening[r] = 0
  <2>1. PICK a \in A : r = Find(strs', a)
    BY <1>2 DEF RefsOf
  <2>2. r # 0 /\ Names(strs')
    BY <1>2 DEF RefsOf, Grown
  <2>3. Interned(strs', a) /\ ~Interned(strs, a)
    <3>1. Interned(strs', a)
      BY <2>1, <2>2, FindWorks
    <3>2. ASSUME Interned(strs, a) PROVE FALSE
      <4>1. Find(strs, a) = r
        BY <2>1, <3>2, GrownKeeps DEF IInv, NamesInv
      <4> QED BY <1>2, <2>2, <4>1 DEF RefsOf
    <3> QED BY <3>1, <3>2
  <2>4. r \in (Len(strs) + 1)..Len(strs')
    BY <2>1, <2>3, GrownKeeps DEF IInv, NamesInv
  <2>5. r \in Ref \ 1..Len(strs)
    <3>1. Len(strs) \in Nat /\ Len(strs') \in Nat /\ 0..Len(strs') \subseteq Ref
      BY <2>2, FindWorks DEF IInv, NamesInv
    <3> QED BY <2>4, <3>1
  <2> QED BY <2>5 DEF RoomInv
<1> QED BY <1>1, <1>2, SumOfRest

\* Some names, and perhaps a transaction under them.
LEMMA RoomGrows ==
    ASSUME IInv, RoomInv, Grown(strs, strs'),
           UNCHANGED <<txns, count, total, balance, opening>>,
           \A t \in cur' : Balanced(strs', t.from, t.to)
    PROVE  RoomInv'
<1>1. ASSUME NEW s \in Kept
      PROVE  LET p == txns[SlotOf(s)]
             IN  p.from # 0 /\ p.to # 0 /\ Balanced(strs', Lookup(strs', p.from), Lookup(strs', p.to))
  BY GrownKeeps DEF RoomInv, IInv, RecordsInv, NamesInv, Balanced
<1>2. Kept' = Kept /\ \A s \in Kept : txns'[SlotOf(s)] = txns[SlotOf(s)]
  BY DEF Kept, Oldest
<1>3. Ref \ 1..Len(strs') \subseteq Ref \ 1..Len(strs)
  BY FindWorks DEF IInv, NamesInv, Grown
<1> QED BY <1>1, <1>2, <1>3, TotalsGrow DEF RoomInv, SlotOf

\* Two accounts of one currency are in the same total, or in neither.
LEMMA InTotal ==
    ASSUME Names(strs), NEW A, A = UsdAccount \/ A = Account \ UsdAccount,
           NEW r, NEW q, r \in 1..Len(strs), q \in 1..Len(strs), Balanced(strs, strs[r], strs[q])
    PROVE  r \in RefsOf(A) <=> q \in RefsOf(A)
<1>1. \A x \in 1..Len(strs) : x \in RefsOf(A) <=> strs[x] \in A
  <2> SUFFICES ASSUME NEW x \in 1..Len(strs) PROVE x \in RefsOf(A) <=> strs[x] \in A
    OBVIOUS
  <2>1. Find(strs, strs[x]) = x /\ x # 0
    BY FindWorks
  <2>2. ASSUME NEW a \in A, x = Find(strs, a) PROVE strs[x] = a
    BY <2>1, <2>2, FindWorks
  <2> QED BY <2>1, <2>2 DEF RefsOf
<1>2. strs[r] \in A <=> strs[q] \in A
  BY DEF Balanced, SameCurrency
<1> QED BY <1>1, <1>2

\* The postings of the record that leaves cancel out in the total of their currency.
LEMMA RoomEvict ==
    ASSUME IInv, RoomInv, IInv', NEW t \in cur, Evict(t)
    PROVE  RoomInv'
<1> DEFINE o == Oldest
           i == SlotOf(Oldest)
           p == txns[SlotOf(Oldest)]
<1>1. o \in Kept /\ o' = o + 1 /\ total' = total /\ Kept' = Kept \ {o}
  <2>1. WindowInv /\ count > 0 /\ count' = count - 1 /\ total' = total
    BY BookAssumption DEF Evict, NeedsRoom, IInv, WindowInv
  <2> QED BY <2>1, Window DEF Oldest, Kept
<1>2. i \in Slot /\ p \in Packed /\ \A s \in Kept' : SlotOf(s) # i /\ SlotOf(s) \in Slot
  BY <1>1, Window DEF IInv
<1>3. /\ txns' = [txns EXCEPT ![i] = NoRecord]
      /\ opening' = [r \in Ref |-> opening[r] + Net(p, r)]
      /\ UNCHANGED <<strs, balance, cur>>
  BY DEF Evict
<1>4. /\ p.from \in 1..Len(strs) /\ p.to \in 1..Len(strs) /\ 1..Len(strs) \subseteq Ref
      /\ Balanced(strs, strs[p.from], strs[p.to])
  <2>1. /\ p.from \in 0..Len(strs) /\ p.from # 0 /\ p.to \in 0..Len(strs) /\ p.to # 0
        /\ Balanced(strs, Lookup(strs, p.from), Lookup(strs, p.to))
    BY <1>1 DEF IInv, RecordsInv, RoomInv
  <2>2. Len(strs) \in Nat /\ 0..Len(strs) \subseteq Ref
    BY FindWorks DEF IInv, NamesInv
  <2>3. p.from \in 1..Len(strs) /\ p.to \in 1..Len(strs)
    BY <2>1, <2>2
  <2> QED BY <2>1, <2>2, <2>3 DEF Lookup
<1> HIDE DEF o, i, p
<1>5. \A s \in Kept' : s \in Kept /\ txns'[SlotOf(s)] = txns[SlotOf(s)]
  BY <1>1, <1>2, <1>3 DEF IInv, WindowInv
<1>6. \A r \in Ref \ 1..Len(strs) : opening'[r] = 0
  <2>1. \A r \in Ref \ 1..Len(strs) : Net(p, r) = 0 /\ opening[r] = 0
    BY <1>4 DEF Net, RoomInv
  <2> QED BY <1>3, <2>1
<1>7. ASSUME NEW A, A = UsdAccount \/ A = Account \ UsdAccount, SumOf(opening, RefsOf(A)) = 0
      PROVE  SumOf(opening', RefsOf(A)) = 0
  <2> DEFINE R == RefsOf(A)
             f == [opening EXCEPT ![p.from] = @ - p.amount]
             g == [f EXCEPT ![p.to] = @ + p.amount]
  <2>1. p.from \in R <=> p.to \in R
    BY <1>4, <1>7, InTotal DEF IInv, NamesInv
  <2>2. R \subseteq Ref /\ IsFiniteSet(R)
    <3>1. R \subseteq 1..Len(strs)
      BY FindWorks DEF RefsOf, IInv, NamesInv
    <3>2. IsFiniteSet(1..Len(strs))
      <4>1. Len(strs) \in Nat
        BY FindWorks DEF IInv, NamesInv
      <4> QED BY <4>1, FS_Interval
    <3> QED BY <1>4, <3>1, <3>2, FS_Subset
  <2>3. p.amount \in Int /\ opening \in [Ref -> Int] /\ p.from \in Ref /\ p.to \in Ref
    BY <1>2, BookAssumption DEF IInv, MoneyInv, Packed
  <2>4. f \in [Ref -> Int] /\ g \in [Ref -> Int]
    BY <2>3
  <2>5. \A r \in Ref : opening'[r] = g[r]
    BY <1>3, <2>3 DEF Net
  <2> HIDE DEF R
  <2>6. CASE p.from \in R
    <3>1. f[p.from] = opening[p.from] - p.amount /\ g[p.to] = f[p.to] + p.amount
          /\ (\A r \in R \ {p.from} : f[r] = opening[r]) /\ (\A r \in R \ {p.to} : g[r] = f[r])
      BY <2>2, <2>3
    <3>2. \A r \in R : opening[r] \in Int /\ f[r] \in Int /\ g[r] \in Int
      BY <2>2, <2>3, <2>4
    <3> HIDE DEF f, g
    <3>3. SumOf(f, R) = SumOf(opening, R) + f[p.from] - opening[p.from]
      BY <2>2, <2>6, <3>1, <3>2, SumChange
    <3>4. SumOf(g, R) = SumOf(f, R) + g[p.to] - f[p.to]
      BY <2>1, <2>2, <2>6, <3>1, <3>2, SumChange
    <3>5. SumOf(opening', R) = SumOf(g, R)
      BY <2>2, <2>5, SumSame
    <3>6. SumOf(f, R) = 0 - p.amount
      BY <1>7, <2>1, <2>3, <2>6, <3>1, <3>2, <3>3 DEF R
    <3> QED BY <2>1, <2>3, <2>6, <3>1, <3>2, <3>4, <3>5, <3>6 DEF R
  <2>7. CASE p.from \notin R
    <3>1. \A r \in R : opening'[r] = opening[r]
      BY <1>3, <2>1, <2>2, <2>3, <2>7 DEF Net
    <3> QED BY <1>7, <3>1, SumSame DEF R
  <2> QED BY <2>6, <2>7
<1>8. GrandTotalZero'
  BY <1>3, <1>7 DEF RoomInv, GrandTotalZero, RefsOf
<1> QED BY <1>3, <1>5, <1>6, <1>8 DEF RoomInv, Balanced, SlotOf

\* Storing a transaction moves money between two accounts of one currency.
LEMMA RoomStore ==
    ASSUME IInv, RoomInv, IInv', NEW t \in cur, Store(t)
    PROVE  RoomInv'
<1> DEFINE n == total + 1
           i == SlotOf(total + 1)
           p == Pack(t)
<1>1. Kept' = Kept \cup {n}
  <2>1. total' = total + 1 /\ count' = count + 1
    BY DEF Store
  <2>2. /\ total \in Nat /\ count \in Nat /\ Oldest \in Nat /\ Oldest = total - count + 1
        /\ Kept = Oldest..total /\ Oldest <= total + 1
    BY Window DEF Oldest, Kept, IInv, WindowInv
  <2>3. Kept' = Oldest..(total + 1)
    BY <2>1, <2>2 DEF Oldest, Kept
  <2> QED BY <2>2, <2>3
<1>2. count < Capacity
  BY BookAssumption DEF Store, NeedsRoom, IInv, WindowInv
<1>3. i \in Slot /\ \A s \in Kept : SlotOf(s) # i /\ SlotOf(s) \in Slot
  BY <1>2, Window DEF IInv
<1>4. /\ txns' = [txns EXCEPT ![i] = p]
      /\ balance' = [r \in Ref |-> balance[r] + Net(p, r)] /\ cur' = {}
      /\ UNCHANGED <<strs, opening>>
  BY DEF Store
<1>5. /\ p.from \in 1..Len(strs) /\ Lookup(strs, p.from) = t.from
      /\ p.to \in 1..Len(strs) /\ Lookup(strs, p.to) = t.to
      /\ Balanced(strs, t.from, t.to) /\ Len(strs) \in Nat
  <2>1. Interned(strs, t.from) /\ Interned(strs, t.to) /\ Balanced(strs, t.from, t.to)
    BY DEF RoomInv, Balanced
  <2>2. Names(strs) /\ p.from = Find(strs, t.from) /\ p.to = Find(strs, t.to)
    BY DEF Pack, IInv, NamesInv
  <2> HIDE DEF p
  <2>3. /\ p.from \in 1..Len(strs) /\ strs[p.from] = t.from
        /\ p.to \in 1..Len(strs) /\ strs[p.to] = t.to /\ Len(strs) \in Nat
    BY <2>1, <2>2, FindWorks
  <2> QED BY <2>1, <2>3 DEF Lookup
<1> HIDE DEF i, p
<1>6. /\ txns'[SlotOf(n)] = p
      /\ \A s \in Kept : txns'[SlotOf(s)] = txns[SlotOf(s)]
  BY <1>3, <1>4 DEF IInv, WindowInv, i
<1>7. \A r \in Ref \ 1..Len(strs) : balance'[r] = 0 /\ opening'[r] = 0
  <2>1. \A r \in Ref \ 1..Len(strs) : Net(p, r) = 0
    BY <1>5 DEF Net
  <2> QED BY <1>4, <2>1 DEF RoomInv
<1>8. GrandTotalZero'
  BY <1>4 DEF RoomInv, GrandTotalZero, RefsOf
<1>9. ASSUME NEW s \in Kept'
      PROVE  LET q == txns'[SlotOf(s)]
             IN  q.from # 0 /\ q.to # 0 /\ Balanced(strs, Lookup(strs, q.from), Lookup(strs, q.to))
  <2>1. CASE s = n
    BY <1>5, <1>6, <2>1
  <2>2. CASE s \in Kept
    BY <1>6, <2>2 DEF RoomInv
  <2> QED BY <1>1, <2>1, <2>2
<1> QED BY <1>4, <1>7, <1>8, <1>9 DEF RoomInv, Balanced, SlotOf

\* In an empty book every balance is zero.
LEMMA RoomBegins == Init => RoomInv
<1> SUFFICES ASSUME Init PROVE RoomInv
  OBVIOUS
<1>1. Kept = {}
  BY DEF Init, Kept, Oldest
<1>2. GrandTotalZero
  <2>1. \A A : RefsOf(A) = {}
    BY DEF Init, RefsOf, Find, Interned
  <2> QED BY <2>1, SumOfNone DEF GrandTotalZero
<1> QED BY <1>1, <1>2 DEF Init, RoomInv

\* With room for the names, every step keeps the totals of both currencies at zero.
LEMMA RoomInvariance ==
    ASSUME RoomForNames
    PROVE  IInv /\ RoomInv /\ [Next]_vars => RoomInv'
<1> SUFFICES ASSUME IInv, RoomInv, [Next]_vars PROVE RoomInv'
  OBVIOUS
<1>1. ASSUME NEW from \in Account, NEW to \in Account, NEW amount \in 1..MaxAmount,
             NEW text \in 0..MaxText, Submit(from, to, amount, text)
      PROVE  RoomInv'
  <2> DEFINE t == New(from, to, amount, text)
             s == Intern(strs, from)
  <2>1. t.from = from /\ t.to = to
    BY DEF New
  <2>2. /\ strs' = Intern(s, to) /\ cur' = {t} /\ OneCurrency(from, to)
        /\ UNCHANGED <<txns, count, total, balance, opening>>
    BY <1>1, <2>1 DEF Submit, InternBoth
  <2> HIDE DEF t, s
  <2>3. from \in Name /\ to \in Name /\ Names(strs)
    BY DEF Name, IInv, NamesInv
  <2>4. Grown(strs, s) /\ Names(s) /\ Interned(s, from)
    BY <2>3, InternGrows, InternKnows DEF s, Grown
  <2>5. Grown(s, strs') /\ Interned(strs', to) /\ Interned(strs', from)
    BY <2>2, <2>3, <2>4, InternGrows, InternKnows, GrownKeeps
  <2>6. Grown(strs, strs')
    BY <2>3, <2>4, <2>5, GrownTwice
  <2>7. Balanced(strs', t.from, t.to)
    BY <2>1, <2>2, <2>5 DEF Balanced, OneCurrency, SameCurrency
  <2> QED BY <2>2, <2>6, <2>7, RoomGrows
<1>2. ASSUME NEW seq \in 1..MaxSeq, NEW text \in 0..MaxText, SubmitReversal(seq, text)
      PROVE  RoomInv'
  <2> DEFINE t == ReversalOf(seq, text)
             p == txns[SlotOf(seq)]
  <2>1. seq \in Kept
    BY <1>2 DEF SubmitReversal, Retained, Kept
  <2>2. Balanced(strs, Lookup(strs, p.from), Lookup(strs, p.to))
    BY <2>1 DEF RoomInv
  <2>3. t.from = Lookup(strs, p.to) /\ t.to = Lookup(strs, p.from)
    BY DEF ReversalOf
  <2>4. Balanced(strs, t.from, t.to)
    BY <2>2, <2>3 DEF Balanced, SameCurrency
  <2>5. Grown(strs, strs)
    BY FindWorks DEF Grown, IInv, NamesInv
  <2>6. cur' = {t} /\ UNCHANGED <<strs, txns, count, total, balance, opening>>
    BY <1>2 DEF SubmitReversal
  <2> HIDE DEF t
  <2> QED BY <2>4, <2>5, <2>6, RoomGrows
<1>3. ASSUME NEW from \in Account, NEW to \in Account, Refuse(from, to) PROVE RoomInv'
  <2>1. New(from, to, 1, 0).from = from /\ New(from, to, 1, 0).to = to
    BY DEF New
  <2>2. Grown(strs, strs')
    BY <1>3, <2>1, InternBothGrows DEF Refuse, IInv, NamesInv
  <2> QED BY <1>3, <2>2, RoomGrows DEF Refuse
<1>4. ASSUME NEW n \in OtherName, InternOther(n) PROVE RoomInv'
  <2>1. Grown(strs, strs')
    BY <1>4, InternGrows DEF InternOther, IInv, NamesInv, Name
  <2> QED BY <1>4, <2>1, RoomGrows DEF InternOther
<1>5. ASSUME NEW n \in 1..Blocks, TakeText(n) \/ ReleaseText(n) PROVE RoomInv'
  BY <1>5 DEF TakeText, ReleaseText, RoomInv, Kept, Oldest, SlotOf, Balanced, GrandTotalZero, RefsOf
<1>6. ASSUME UNCHANGED vars PROVE RoomInv'
  BY <1>6 DEF vars, RoomInv, Kept, Oldest, SlotOf, Balanced, GrandTotalZero, RefsOf
<1>7. IInv'
  BY Invariance
<1> QED BY <1>1, <1>2, <1>3, <1>4, <1>5, <1>6, <1>7, RoomEvict, RoomStore DEF Next

\* With room in the intern table for every name: besides, the opening balances of
\* each currency sum to zero, whatever records the ring has dropped.
THEOREM AllAccounted ==
    ASSUME RoomForNames
    PROVE  Spec => []Accounted
<1>1. IInv /\ RoomInv => Accounted
  BY DEF IInv, MoneyInv, ArenaInv, RoomInv, Accounted
<1>2. IInv /\ RoomInv /\ [Next]_vars => (IInv /\ RoomInv)'
  BY Invariance, RoomInvariance
<1> QED BY <1>1, <1>2, Begins, RoomBegins, PTL DEF Spec

-----------------------------------------------------------------------------
(* The refinement of Ledger. *)

\* What an account has does not depend on whether its name is interned yet.
LEMMA ContentsStay ==
    ASSUME IInv, RoomInv, Grown(strs, strs'), UNCHANGED <<txns, revBy, count, total, balance>>
    PROVE  Contents' = Contents
<1>1. ASSUME NEW a \in Account PROVE balance[Find(strs', a)] = balance[Find(strs, a)]
  <2>1. CASE Interned(strs, a)
    BY <2>1, GrownKeeps DEF IInv, NamesInv
  <2>2. CASE ~Interned(strs, a)
    <3>1. Find(strs, a) = 0 /\ Names(strs) /\ Names(strs')
      BY <2>2, FindWorks DEF IInv, NamesInv, Grown
    <3>2. Find(strs', a) = 0 \/ Find(strs', a) \in (Len(strs) + 1)..Len(strs')
      BY <2>2, <3>1, FindWorks, GrownKeeps
    <3>3. 0 \in Ref \ 1..Len(strs) /\ Find(strs', a) \in Ref \ 1..Len(strs)
      <4>1. Len(strs) \in Nat /\ Len(strs') \in Nat /\ 0..Len(strs) \subseteq Ref /\ 0..Len(strs') \subseteq Ref
        BY <3>1, FindWorks
      <4> QED BY <3>2, <4>1
    <3> QED BY <3>1, <3>3 DEF RoomInv
  <2> QED BY <2>1, <2>2
<1>2. ASSUME NEW s \in Kept
      PROVE  /\ Lookup(strs', txns[SlotOf(s)].from) = Lookup(strs, txns[SlotOf(s)].from)
             /\ Lookup(strs', txns[SlotOf(s)].to) = Lookup(strs, txns[SlotOf(s)].to)
  BY GrownKeeps DEF IInv, NamesInv, RecordsInv
<1>3. Oldest' = Oldest /\ total' = total
  BY DEF Oldest
<1> QED BY <1>1, <1>2, <1>3 DEF Contents, Kept, SlotOf

\* An empty book is an empty ledger.
LEMMA RefinesInit == Init => Abstract!Init
<1> SUFFICES ASSUME Init PROVE Abstract!Init
  OBVIOUS
<1>1. Oldest = 1 /\ total = 0 /\ Oldest..total = {} /\ cur = {}
  BY DEF Init, Oldest
<1>2. \A a \in Account : balance[Find(strs, a)] = 0
  BY BookAssumption DEF Init, Find, Interned, Ref
<1> QED BY <1>1, <1>2 DEF Abstract!Init, Abstract!EmptyLedger, Promised, Contents

\* Accepting a transaction is the step of the abstract ledger.
LEMMA RefinesSubmit ==
    ASSUME RoomForNames, IInv, RoomInv, IInv', RoomInv',
           NEW from \in Account, NEW to \in Account, NEW amount \in 1..MaxAmount,
           NEW text \in 0..MaxText, Submit(from, to, amount, text)
    PROVE  Abstract!Post
<1> DEFINE t == New(from, to, amount, text)
           e == [from |-> from, to |-> to, amount |-> amount, reverses |-> 0]
<1>1. t.from = from /\ t.to = to /\ t.amount = amount /\ Essence(t) = e
  BY DEF New, Essence
<1>2. cur = {} /\ cur' = {t} /\ total < MaxSeq /\ Affordable(strs', t) /\ Grown(strs, strs')
      /\ UNCHANGED <<txns, revBy, count, total, balance>>
  BY <1>1, InternBothGrows DEF Submit, IInv, NamesInv
<1> HIDE DEF t
<1>3. Contents' = Contents
  BY <1>2, ContentsStay
<1>4. Promised = Contents /\ Promised' = Ops!Posted(Contents, e)
  BY <1>1, <1>2, <1>3 DEF Promised
<1>5. Interned(strs', from) /\ Interned(strs', to) /\ Names(strs')
  BY <1>1, <1>2 DEF RoomInv, Balanced, Grown
<1>6. ASSUME NEW a \in {from, to} \ Issuance
      PROVE  Abstract!Moved(Contents.bal, e)[a] >= 0
  <2> DEFINE r == Find(strs', a)
             p == [from |-> Find(strs', from), to |-> Find(strs', to), amount |-> amount]
  <2>1. Interned(strs', a) /\ r # 0 /\ strs'[r] = a /\ a \in Account /\ r \in Ref
    BY <1>5, FindWorks
  <2>2. r \notin {Find(strs', b) : b \in Issuance}
    <3>1. ASSUME NEW b \in Issuance, r = Find(strs', b) PROVE strs'[r] = b
      BY <1>5, <2>1, <3>1, FindWorks
    <3> QED BY <2>1, <3>1
  <2>3. balance[r] + Net(p, r) >= 0
    BY <1>1, <1>2, <2>2 DEF Affordable
  <2>4. (r = p.from <=> a = from) /\ (r = p.to <=> a = to)
    BY <1>5, FindWorks
  <2>5. Contents.bal = [b \in Account |-> balance'[Find(strs', b)]]
    BY <1>3 DEF Contents
  <2>6. Abstract!Moved(Contents.bal, e)[a] =
            balance[r] - (IF a = from THEN amount ELSE 0) + (IF a = to THEN amount ELSE 0)
    BY <1>2, <2>1, <2>5 DEF Abstract!Moved
  <2>7. balance[r] \in Int /\ amount \in Int
    BY <2>1, BookAssumption DEF IInv, MoneyInv
  <2> HIDE DEF r
  <2> QED BY <2>3, <2>4, <2>6, <2>7 DEF Net
<1>7. Contents.total = total
  BY DEF Contents
<1>8. e = Abstract!Move(from, to, amount) /\ e.from = from /\ e.to = to
  BY DEF Abstract!Move
<1>9. Ops!Posted(Contents, e) = Abstract!Posted(Contents, e)
  BY DEF Abstract!Posted, Ops!Posted, Abstract!Moved, Ops!Moved
<1> HIDE DEF e
<1>10. Abstract!Affordable(Contents.bal, e)
  BY <1>6, <1>8 DEF Abstract!Affordable
<1> QED BY <1>2, <1>4, <1>7, <1>8, <1>9, <1>10 DEF Abstract!Post

\* Accepting a reversal is the abstract reversal of the same transaction.
LEMMA RefinesReversal ==
    ASSUME IInv, RoomInv, NEW seq \in 1..MaxSeq, NEW text \in 0..MaxText, SubmitReversal(seq, text)
    PROVE  Abstract!Reverse
<1> DEFINE t == ReversalOf(seq, text)
           p == txns[SlotOf(seq)]
           e == [from |-> Lookup(strs, p.to), to |-> Lookup(strs, p.from), amount |-> p.amount,
                 reverses |-> seq]
<1>1. Essence(t) = e
  BY DEF ReversalOf, Essence
<1>2. /\ cur = {} /\ cur' = {t} /\ total < MaxSeq /\ seq \in Oldest..total
      /\ p.reverses = 0 /\ revBy[SlotOf(seq)] = 0
      /\ UNCHANGED <<strs, txns, revBy, count, total, balance>>
  BY DEF SubmitReversal, Retained
<1> HIDE DEF t
<1>3. Contents' = Contents
  BY <1>2 DEF Contents, Oldest, SlotOf
<1>4. Promised = Contents /\ Promised' = Ops!Posted(Contents, e)
  BY <1>1, <1>2, <1>3 DEF Promised
<1>5. /\ Contents.total = total /\ Contents.first = Oldest
      /\ Contents.txns[seq] = [from |-> Lookup(strs, p.from), to |-> Lookup(strs, p.to),
                               amount |-> p.amount, reverses |-> p.reverses]
      /\ Contents.revBy[seq] = revBy[SlotOf(seq)]
  BY <1>2 DEF Contents
<1>6. Abstract!CanReverse(Contents, seq) /\ Abstract!Mirror(Contents, seq) = e
      /\ seq \in Abstract!Kept(Contents)
  BY <1>2, <1>5 DEF Abstract!CanReverse, Abstract!Mirror, Abstract!Kept
<1>7. Ops!Posted(Contents, e) = Abstract!Posted(Contents, e)
  BY DEF Abstract!Posted, Ops!Posted, Abstract!Moved, Ops!Moved
<1> HIDE DEF e
<1> QED BY <1>2, <1>4, <1>5, <1>6, <1>7 DEF Abstract!Reverse

\* An eviction forgets the oldest transaction, before or after the one that
\* causes it is posted.
LEMMA RefinesEvict ==
    ASSUME IInv, IInv', NEW t \in cur, Evict(t)
    PROVE  Abstract!Forget
<1> DEFINE o == Oldest
           i == SlotOf(Oldest)
           e == Essence(t)
           c == Contents
<1>1. cur = {t} /\ cur' = {t} /\ Promised = Ops!Posted(c, e) /\ Promised' = Ops!Posted(c', e)
  <2>1. cur = {t} /\ cur' = {t}
    BY DEF Evict
  <2>2. (CHOOSE u \in cur : TRUE) = t /\ (CHOOSE u \in cur' : TRUE) = t
    BY <2>1
  <2> QED BY <2>1, <2>2 DEF Promised, Essence
<1>2. o \in Kept /\ o \in Nat /\ total \in Nat /\ Oldest' = o + 1 /\ total' = total /\ Kept' = Kept \ {o}
  <2>1. WindowInv /\ count > 0 /\ count' = count - 1 /\ total' = total
    BY BookAssumption DEF Evict, NeedsRoom, IInv, WindowInv
  <2> QED BY <2>1, Window DEF Oldest, Kept
<1>3. i \in Slot /\ \A s \in Kept' : SlotOf(s) # i /\ SlotOf(s) \in Slot
  BY <1>2, Window DEF IInv
<1>4. /\ txns' = [txns EXCEPT ![i] = NoRecord] /\ revBy' = [revBy EXCEPT ![i] = 0]
      /\ UNCHANGED <<strs, balance>>
  BY DEF Evict
<1> HIDE DEF i
<1>5. \A s \in Kept' : s \in Kept /\ txns'[SlotOf(s)] = txns[SlotOf(s)] /\ revBy'[SlotOf(s)] = revBy[SlotOf(s)]
  BY <1>2, <1>3, <1>4 DEF IInv, WindowInv, LinksInv
<1>6. /\ c.first = o /\ c.total = total /\ c'.first = o + 1 /\ c'.total = total /\ c'.bal = c.bal
      /\ \A s \in (o + 1)..total : c'.txns[s] = c.txns[s] /\ c'.revBy[s] = c.revBy[s]
  <2>1. \A s \in (o + 1)..total : s \in Kept' /\ s \in o..total
    BY <1>2 DEF Kept
  <2> QED BY <1>2, <1>4, <1>5, <2>1 DEF Contents, SlotOf
<1> HIDE DEF c, e, o
<1>7. Ops!Posted(c', e) = Abstract!Forgotten(Ops!Posted(c, e), o + 1)
  <2>1. \A s \in (o + 1)..(total + 1) : s \in o..(total + 1) /\ (s # total + 1 => s \in (o + 1)..total)
    BY <1>2
  <2> DEFINE n == total + 1
             q == Ops!Posted(c, e)
             u == Ops!Posted(c', e)
  <2>2. /\ q = [bal |-> Ops!Moved(c.bal, e), first |-> o, total |-> n,
                txns |-> [s \in o..n |-> IF s = n THEN e ELSE c.txns[s]],
                revBy |-> [s \in o..n |-> IF s = n THEN 0 ELSE IF s = e.reverses THEN n ELSE c.revBy[s]]]
        /\ u = [bal |-> Ops!Moved(c.bal, e), first |-> o + 1, total |-> n,
                txns |-> [s \in (o + 1)..n |-> IF s = n THEN e ELSE c'.txns[s]],
                revBy |-> [s \in (o + 1)..n |-> IF s = n THEN 0 ELSE IF s = e.reverses THEN n ELSE c'.revBy[s]]]
    BY <1>6 DEF Ops!Posted
  <2> HIDE DEF n
  <2>3. /\ [s \in (o + 1)..n |-> IF s = n THEN e ELSE c'.txns[s]] = [s \in (o + 1)..n |-> q.txns[s]]
        /\ [s \in (o + 1)..n |-> IF s = n THEN 0 ELSE IF s = e.reverses THEN n ELSE c'.revBy[s]]
           = [s \in (o + 1)..n |-> q.revBy[s]]
    BY <1>6, <2>1, <2>2 DEF n
  <2> HIDE DEF q, u
  <2>4. Abstract!Forgotten(q, o + 1) = [bal |-> q.bal, first |-> o + 1, total |-> q.total,
                                        txns |-> [s \in (o + 1)..q.total |-> q.txns[s]],
                                        revBy |-> [s \in (o + 1)..q.total |-> q.revBy[s]]]
    <3>1. q = [bal |-> q.bal, first |-> q.first, total |-> q.total, txns |-> q.txns, revBy |-> q.revBy]
      BY <2>2
    <3> DEFINE g == [s \in (o + 1)..q.total |-> q.txns[s]]
               h == [s \in (o + 1)..q.total |-> q.revBy[s]]
    <3>2. Abstract!Forgotten(q, o + 1) = [q EXCEPT !.first = o + 1, !.txns = g, !.revBy = h]
      BY DEF Abstract!Forgotten
    <3> HIDE DEF g, h
    <3> DEFINE v == [q EXCEPT !.first = o + 1, !.txns = g, !.revBy = h]
    <3>3. v \in [bal : {q.bal}, first : {o + 1}, total : {q.total}, txns : {g}, revBy : {h}]
      BY <3>1
    <3> HIDE DEF v
    <3>4. v = [bal |-> q.bal, first |-> o + 1, total |-> q.total, txns |-> g, revBy |-> h]
      BY <3>3
    <3> QED BY <3>2, <3>4 DEF g, h, v
  <2>5. q.bal = Ops!Moved(c.bal, e) /\ q.total = n
    BY <2>2
  <2> QED BY <2>2, <2>3, <2>4, <2>5 DEF q, u
<1>8. /\ Ops!Posted(c, e).first = o /\ Ops!Posted(c, e).total = total + 1
      /\ o + 1 \in o..(total + 1 + 1)
  BY <1>2, <1>6 DEF Ops!Posted, Kept, o
<1> QED BY <1>1, <1>7, <1>8 DEF Abstract!Forget

\* What Store writes is what the abstract ledger had already posted.
LEMMA RefinesStore ==
    ASSUME IInv, RoomInv, IInv', NEW t \in cur, Store(t)
    PROVE  Promised' = Promised
<1> DEFINE n == total + 1
           i == SlotOf(total + 1)
           p == Pack(t)
           e == Essence(t)
<1>1. cur = {t} /\ cur' = {} /\ Promised = Ops!Posted(Contents, e) /\ Promised' = Contents'
  <2>1. cur = {t} /\ cur' = {}
    BY DEF Store
  <2>2. (CHOOSE u \in cur : TRUE) = t
    BY <2>1
  <2> QED BY <2>1, <2>2 DEF Promised
<1>2. /\ total \in Nat /\ Oldest \in Nat /\ Oldest <= n /\ Kept = Oldest..total
      /\ total' = n /\ Oldest' = Oldest
  <2>1. total' = total + 1 /\ count' = count + 1
    BY DEF Store
  <2>2. /\ total \in Nat /\ count \in Nat /\ Oldest \in Nat /\ Oldest = total - count + 1
        /\ Kept = Oldest..total /\ Oldest <= total + 1
    BY Window DEF Oldest, Kept, IInv, WindowInv
  <2> QED BY <2>1, <2>2 DEF Oldest
<1>3. count < Capacity
  BY BookAssumption DEF Store, NeedsRoom, IInv, WindowInv
<1>4. i \in Slot /\ \A s \in Kept : SlotOf(s) # i /\ SlotOf(s) \in Slot
  BY <1>3, Window DEF IInv
<1>5. /\ txns' = [txns EXCEPT ![i] = p] /\ revBy' = Linked(t, n)
      /\ balance' = [r \in Ref |-> balance[r] + Net(p, r)] /\ strs' = strs
  BY DEF Store
<1>6. /\ p.from = Find(strs, t.from) /\ p.to = Find(strs, t.to) /\ Interned(strs, t.from) /\ Interned(strs, t.to)
      /\ p.amount = t.amount /\ p.reverses = t.reverses /\ Names(strs) /\ t.amount \in Int
      /\ t.from \in Account /\ t.to \in Account
  BY BookAssumption DEF Pack, RoomInv, Balanced, IInv, NamesInv, CurInv, Transaction
<1> HIDE DEF p, i
<1>7. Lookup(strs, p.from) = t.from /\ Lookup(strs, p.to) = t.to
  <2>1. Find(strs, t.from) \in 1..Len(strs) /\ Find(strs, t.to) \in 1..Len(strs)
        /\ strs[Find(strs, t.from)] = t.from /\ strs[Find(strs, t.to)] = t.to
    BY <1>6, FindWorks
  <2> QED BY <1>6, <2>1 DEF Lookup
<1>8. txns'[SlotOf(n)] = p /\ \A s \in Kept : txns'[SlotOf(s)] = txns[SlotOf(s)]
  BY <1>4, <1>5 DEF IInv, WindowInv, i
<1>9. revBy'[SlotOf(n)] = 0 /\ \A s \in Kept : revBy'[SlotOf(s)] = IF s = t.reverses THEN n ELSE revBy[SlotOf(s)]
  <2>1. \A s \in Kept : txns[SlotOf(s)].seq = s
    BY DEF IInv, WindowInv
  <2>2. revBy' = [j \in Slot |-> IF j = i THEN 0
                                 ELSE IF t.reverses \in Kept /\ j = SlotOf(t.reverses) THEN n ELSE revBy[j]]
    BY <1>5, <2>1 DEF Linked, Kept, i
  <2> QED BY <1>4, <2>2, Window DEF i, IInv
<1>10. ASSUME NEW a \in Account
       PROVE  balance'[Find(strs, a)] = balance[Find(strs, a)] - (IF a = t.from THEN t.amount ELSE 0)
                                                               + (IF a = t.to THEN t.amount ELSE 0)
  <2> DEFINE r == Find(strs, a)
  <2>1. r \in Ref /\ (r = p.from <=> a = t.from) /\ (r = p.to <=> a = t.to)
    BY <1>6, FindWorks
  <2>2. balance[r] \in Int
    BY <2>1 DEF IInv, MoneyInv
  <2> HIDE DEF r
  <2>3. balance'[r] = balance[r] + Net(p, r)
    BY <1>5, <2>1
  <2> QED BY <1>6, <2>1, <2>2, <2>3 DEF Net, r
<1>11. Contents'.bal = Ops!Moved(Contents.bal, e)
  BY <1>5, <1>10 DEF Contents, Ops!Moved, Essence
<1>12. Contents'.txns = [s \in Oldest..n |-> IF s = n THEN e ELSE Contents.txns[s]]
  <2>1. ASSUME NEW s \in Oldest..n
        PROVE  [from |-> Lookup(strs, txns'[SlotOf(s)].from), to |-> Lookup(strs, txns'[SlotOf(s)].to),
                amount |-> txns'[SlotOf(s)].amount, reverses |-> txns'[SlotOf(s)].reverses]
               = IF s = n THEN e ELSE Contents.txns[s]
    <3>1. CASE s = n
      BY <1>6, <1>7, <1>8, <3>1 DEF Essence
    <3>2. CASE s # n
      <4>1. s \in Kept /\ s \in Oldest..total
        BY <1>2, <3>2
      <4> QED BY <1>8, <3>2, <4>1 DEF Contents
    <3> QED BY <3>1, <3>2
  <2>2. Contents'.txns
        = [s \in Oldest'..total' |->
              [from |-> Lookup(strs', txns'[SlotOf(s)].from), to |-> Lookup(strs', txns'[SlotOf(s)].to),
               amount |-> txns'[SlotOf(s)].amount, reverses |-> txns'[SlotOf(s)].reverses]]
    BY DEF Contents
  <2>3. Oldest'..total' = Oldest..n /\ strs' = strs
    BY <1>2, <1>5
  <2> HIDE DEF e, n
  <2> QED BY <2>1, <2>2, <2>3
<1>13. Contents'.revBy = [s \in Oldest..n |-> IF s = n THEN 0
                                              ELSE IF s = t.reverses THEN n ELSE Contents.revBy[s]]
  <2>1. ASSUME NEW s \in Oldest..n
        PROVE  revBy'[SlotOf(s)] = IF s = n THEN 0 ELSE IF s = t.reverses THEN n ELSE Contents.revBy[s]
    <3>1. CASE s = n
      BY <1>9, <3>1
    <3>2. CASE s # n
      <4>1. s \in Kept /\ s \in Oldest..total
        BY <1>2, <3>2
      <4> QED BY <1>9, <3>2, <4>1 DEF Contents
    <3> QED BY <3>1, <3>2
  <2> QED BY <1>2, <2>1 DEF Contents, SlotOf
<1>14. /\ Contents'.first = Oldest /\ Contents'.total = n /\ Contents.first = Oldest /\ Contents.total = total
       /\ e.reverses = t.reverses
  BY <1>2 DEF Contents, Essence
<1>15. Contents' = [bal |-> Contents'.bal, first |-> Contents'.first, total |-> Contents'.total,
                    txns |-> Contents'.txns, revBy |-> Contents'.revBy]
  BY DEF Contents
<1> HIDE DEF e
<1> QED BY <1>1, <1>11, <1>12, <1>13, <1>14, <1>15 DEF Ops!Posted

\* With room for every name, the ring with its evictions, its lazily opened balance
\* slots and its packed records is the plain ledger, which Market and Exchange build on.
THEOREM LedgerImplemented ==
    ASSUME RoomForNames
    PROVE  Spec => ImplementsLedger
<1>1. ASSUME IInv, RoomInv, IInv', RoomInv', [Next]_vars PROVE [Abstract!Next]_Promised
  <2>1. ASSUME NEW from \in Account, NEW to \in Account, Refuse(from, to) PROVE Promised' = Promised
    <3>1. New(from, to, 1, 0).from = from /\ New(from, to, 1, 0).to = to
      BY DEF New
    <3>2. Grown(strs, strs')
      BY <1>1, <2>1, <3>1, InternBothGrows DEF Refuse, IInv, NamesInv
    <3> QED BY <1>1, <2>1, <3>2, ContentsStay DEF Refuse, Promised
  <2>2. ASSUME NEW n \in OtherName, InternOther(n) PROVE Promised' = Promised
    <3>1. Grown(strs, strs')
      BY <1>1, <2>2, InternGrows DEF InternOther, IInv, NamesInv, Name
    <3> QED BY <1>1, <2>2, <3>1, ContentsStay DEF InternOther, Promised
  <2>3. ASSUME UNCHANGED <<strs, txns, revBy, count, total, balance, cur>> PROVE Promised' = Promised
    BY <2>3 DEF Promised, Contents, Oldest, SlotOf, Ops!Posted, Ops!Moved, Essence
  <2>4. ASSUME NEW t \in cur, Evict(t) PROVE Abstract!Next
    BY <1>1, <2>4, RefinesEvict DEF Abstract!Next
  <2>5. ASSUME NEW t \in cur, Store(t) PROVE Promised' = Promised
    BY <1>1, <2>5, RefinesStore
  <2>6. ASSUME NEW from \in Account, NEW to \in Account, NEW amount \in 1..MaxAmount,
               NEW text \in 0..MaxText, Submit(from, to, amount, text)
        PROVE  Abstract!Next
    BY <1>1, <2>6, RefinesSubmit DEF Abstract!Next
  <2>7. ASSUME NEW seq \in 1..MaxSeq, NEW text \in 0..MaxText, SubmitReversal(seq, text)
        PROVE  Abstract!Next
    BY <1>1, <2>7, RefinesReversal DEF Abstract!Next
  <2>8. ASSUME NEW n \in 1..Blocks, TakeText(n) \/ ReleaseText(n) PROVE Promised' = Promised
    BY <2>3, <2>8 DEF TakeText, ReleaseText
  <2>9. ASSUME UNCHANGED vars PROVE Promised' = Promised
    BY <2>3, <2>9 DEF vars
  <2> QED BY <1>1, <2>1, <2>2, <2>4, <2>5, <2>6, <2>7, <2>8, <2>9 DEF Next
<1>2. IInv /\ RoomInv /\ [Next]_vars => (IInv /\ RoomInv)'
  BY Invariance, RoomInvariance
<1> QED BY <1>1, <1>2, Begins, RoomBegins, RefinesInit, PTL DEF Spec, ImplementsLedger, Abstract!Spec

=============================================================================
