------------------------------ MODULE Exchange ------------------------------
(***************************************************************************)
(* internal/core: foreign exchange.  A quote is a standing offer to trade  *)
(* coins for dollars.  Taking one posts two ledger transactions with two   *)
(* appends, the coin leg and the cash leg, which the quote names           *)
(* afterwards.                                                             *)
(*                                                                         *)
(* Every account holds one currency: a member stands for their coin        *)
(* account and Wallet gives their dollar account.  The text of a quote is  *)
(* its identifier, one arena block.                                        *)
(***************************************************************************)
EXTENDS Integers, FiniteSets, LedgerOps, FiniteSetTheorems, WellFoundedInduction, TLAPS

CONSTANTS
    User, Nana,            \* the household, and its administrators
    Wallet,                \* ledger.USDAccount of each member
    Bank, UsdBank,         \* ledger.SystemIssuance, ledger.USDIssuance
    None,                  \* the empty string
    Grant,                 \* the initial grant of each member, 0 for none
    MaxQuotes,
    AccountCapacity,       \* balance slots of the book
    MaxOthers,             \* bound on the slots taken by the rest of the household
    Window,                \* ledger.Capacity: retained transactions
    Blocks,                \* arena blocks left for quotes
    Coins, Rates,          \* the sizes and rates that are quoted
    MaxIssue, MaxTime,     \* bounds on amounts moved and on the clock
    MaxIds                 \* bound on the quotes ever posted

Usd == {Wallet[u] : u \in User}

ExchangeAssumption ==
    /\ LedgerOpsAssumption
    /\ IsFiniteSet(User) /\ DOMAIN Wallet = User
    /\ \A u, v \in User : Wallet[u] = Wallet[v] => u = v
    /\ User \cap Usd = {} /\ Bank # UsdBank
    /\ {Bank, UsdBank} \cap (User \cup Usd) = {}
    /\ Account = User \cup Usd \cup {Bank, UsdBank}
    /\ Issuance = {Bank, UsdBank}
    /\ Nana \subseteq User
    /\ None \notin Account
    /\ Grant \in [User -> Nat]
    /\ {MaxQuotes, AccountCapacity, MaxOthers, Window, Blocks, MaxIssue, MaxTime, MaxIds} \subseteq Nat
    /\ Coins \subseteq Nat \ {0} /\ Rates \subseteq Nat \ {0}
    /\ Window > 0
    /\ MaxSeq > Cardinality(User)
    /\ AccountCapacity > Cardinality(User) + MaxOthers

VARIABLES
    live, disk, up,        \* EventSourced
    pending,               \* the cash leg TakeQuote has yet to append
    now, nextId

vars == <<live, disk, up, pending, now, nextId>>

Row(tab, id) == CHOOSE i \in DOMAIN tab : tab[i].id = id
Has(tab, id) == \E i \in DOMAIN tab : tab[i].id = id
FreeRows(tab) == {i \in DOMAIN tab : tab[i].id = 0}
FirstFree(tab) == CHOOSE i \in FreeRows(tab) : \A j \in FreeRows(tab) : i <= j
Rows(tab) == {tab[i] : i \in DOMAIN tab \ FreeRows(tab)}
Oldest(tab, S) ==
    CHOOSE i \in S : \A j \in S : tab[i].at < tab[j].at \/ (tab[i].at = tab[j].at /\ i <= j)

Quote == [id : 1..MaxIds, maker : User, side : {"BID", "ASK"}, rate : Rates, coins : Coins,
          status : {"OPEN", "FILLED", "CANCELLED", "EXPIRED"}, taker : User \cup {None},
          coinTx : 0..MaxSeq, cashTx : 0..MaxSeq, expires : 0..MaxTime, at : 0..MaxTime]
NoQuote == [id |-> 0]

Live(q) == q.status = "OPEN" /\ (q.expires = 0 \/ now < q.expires)
Closed(q) == q.status # "OPEN"

\* A transaction under a reference: the quote it belongs to, or 0.
Deal(from, to, amount, id) ==
    [from |-> from, to |-> to, amount |-> amount, reverses |-> 0, quote |-> id]

\* Quote.Pays and Quote.Cents: on an ask the maker sells coins, on a bid they buy.
CoinLeg(q, taker) ==
    IF q.side = "ASK" THEN Deal(q.maker, taker, q.coins, q.id) ELSE Deal(taker, q.maker, q.coins, q.id)
CashLeg(q, taker) ==
    LET cents == q.coins * q.rate
    IN  IF q.side = "ASK" THEN Deal(Wallet[taker], Wallet[q.maker], cents, q.id)
                          ELSE Deal(Wallet[q.maker], Wallet[taker], cents, q.id)

\* BuildReversalInto: the same money the other way, under the same reference.
Undo(l, seq) ==
    [Deal(l.txns[seq].to, l.txns[seq].from, l.txns[seq].amount, l.txns[seq].quote)
        EXCEPT !.reverses = seq]

Refused(s) == [ok |-> FALSE, state |-> s]
Done(s) == [ok |-> TRUE, state |-> s]

-----------------------------------------------------------------------------
(* The quote table and the book. *)

\* quoteSlot for a quote the table does not have: with every row taken the
\* oldest closed quote is freed, also when the caller only asks (canWriteQuote).
RecycleQuote(s) ==
    LET closed == {i \in DOMAIN s.quotes \ FreeRows(s.quotes) : Closed(s.quotes[i])}
    IN  IF FreeRows(s.quotes) # {} \/ closed = {} THEN s
        ELSE [s EXCEPT !.quotes[Oldest(s.quotes, closed)] = NoQuote]

\* writeQuote: the identifier of a new quote is stored whole or it is refused.
PutQuote(s, q) ==
    LET r == RecycleQuote(s)
    IN  IF FreeRows(r.quotes) = {} \/ Cardinality(Rows(r.quotes)) >= Blocks THEN Refused(r)
        ELSE Done([r EXCEPT !.quotes[FirstFree(r.quotes)] = q])

\* What Book.Validate and Book.Replay both refuse: an exhausted sequence, and
\* an account without a balance slot when none is left.
Room(s, t) ==
    /\ s.led.total < MaxSeq
    /\ Cardinality(s.slots \cup {t.from, t.to}) + s.others <= AccountCapacity

\* Book.Replay: the ring drops the oldest record when it is full.
Record(s, t) ==
    LET l == IF Cardinality(Kept(s.led)) = Window THEN Forgotten(s.led, s.led.first + 1) ELSE s.led
    IN  [s EXCEPT !.led = Posted(l, t), !.slots = @ \cup {t.from, t.to}]

-----------------------------------------------------------------------------
(* applyEvent. *)

ApplyTransaction(s, e) ==
    IF Room(s, e.txn) THEN Done(Record(s, e.txn)) ELSE Refused(s)

ApplyQuoteCreated(s, e) == PutQuote(s, e.quote)

ApplyQuoteTaken(s, e) ==
    IF ~Has(s.quotes, e.id) \/ ~Room(s, e.txn) THEN Refused(s)
    ELSE Done([Record(s, e.txn) EXCEPT
                 !.quotes[Row(s.quotes, e.id)] =
                     [@ EXCEPT !.status = "FILLED", !.taker = e.taker,
                               !.coinTx = s.led.total + 1, !.at = e.at]])

ApplyQuoteSettled(s, e) ==
    IF ~Has(s.quotes, e.id) \/ ~Room(s, e.txn) THEN Refused(s)
    ELSE Done([Record(s, e.txn) EXCEPT
                 !.quotes[Row(s.quotes, e.id)] =
                     [@ EXCEPT !.cashTx = s.led.total + 1, !.at = e.at]])

ApplyQuoteUpdated(s, e) ==
    IF ~Has(s.quotes, e.id) THEN Refused(s)
    ELSE Done([s EXCEPT !.quotes[Row(s.quotes, e.id)] = [@ EXCEPT !.status = e.status, !.at = e.at]])

\* userUpdatedEvent, of which the exchange sees the status.
ApplyUserUpdated(s, e) ==
    Done([s EXCEPT !.active = IF e.active THEN @ \cup {e.user} ELSE @ \ {e.user}])

ApplyEvent(s, e) ==
    CASE e.type = "Transaction"  -> ApplyTransaction(s, e)
      [] e.type = "QuoteCreated" -> ApplyQuoteCreated(s, e)
      [] e.type = "QuoteTaken"   -> ApplyQuoteTaken(s, e)
      [] e.type = "QuoteSettled" -> ApplyQuoteSettled(s, e)
      [] e.type = "QuoteUpdated" -> ApplyQuoteUpdated(s, e)
      [] e.type = "UserUpdated"  -> ApplyUserUpdated(s, e)

-----------------------------------------------------------------------------
(* The operations. *)

\* The household after provisioning and the initial grants, which have left the
\* ring, with some balance slots taken by accounts that do not trade here.
Provisioned(others) ==
    LET granted == {u \in User : Grant[u] > 0}
        coins == UNION {{u} \X (1..Grant[u]) : u \in User}
        n == Cardinality(granted)
    IN  [led |-> [EmptyLedger EXCEPT
                    !.bal = [a \in Account |-> IF a \in User THEN Grant[a]
                                               ELSE IF a = Bank THEN -Cardinality(coins) ELSE 0],
                    !.first = n + 1, !.total = n],
         slots |-> granted \cup (IF granted = {} THEN {} ELSE {Bank}),
         others |-> others,
         quotes |-> [i \in 1..MaxQuotes |-> NoQuote],
         active |-> User]

Log == INSTANCE EventSourced WITH Apply <- ApplyEvent

Init ==
    /\ \E others \in 0..MaxOthers : live = Provisioned(others)
    /\ disk = Done(live)
    /\ up = TRUE
    /\ pending = {}
    /\ now = 0
    /\ nextId = 1

\* The service mutex is free.
Idle == up /\ pending = {}

\* One append, with its outcomes.
AppendEvent(s, e) == Log!Commit(s, e) \/ Log!CommitFails(s) \/ Log!FoundAtBoot(e)

\* Book.Validate
Valid(t, overdraft) == Room(live, t) /\ (overdraft \/ Affordable(live.led.bal, t))

\* checkUserAccountLocked
AccountUsable(u) == u \in live.active

Transfer(u, to, amount) ==
    /\ Idle
    /\ u \in live.active
    /\ u # to
    /\ AccountUsable(to)
    /\ Valid(Deal(u, to, amount, 0), FALSE)
    /\ AppendEvent(live, [type |-> "Transaction", txn |-> Deal(u, to, amount, 0)])
    /\ UNCHANGED <<pending, now, nextId>>

\* IssueUSD: only Nana, whose own status is not looked at.
IssueUSD(u, to, cents) ==
    /\ Idle
    /\ u \in Nana
    /\ AccountUsable(to)
    /\ Valid(Deal(UsdBank, Wallet[to], cents, 0), FALSE)
    /\ AppendEvent(live, [type |-> "Transaction", txn |-> Deal(UsdBank, Wallet[to], cents, 0)])
    /\ UNCHANGED <<pending, now, nextId>>

Reverse(u, seq) ==
    /\ Idle
    /\ u \in Nana
    /\ CanReverse(live.led, seq)
    /\ Valid(Undo(live.led, seq), TRUE)
    /\ AppendEvent(live, [type |-> "Transaction", txn |-> Undo(live.led, seq)])
    /\ UNCHANGED <<pending, now, nextId>>

\* PostQuote: funds are not looked at.
PostQuote(u, side, rate, coins, expires) ==
    LET q == [id |-> nextId, maker |-> u, side |-> side, rate |-> rate, coins |-> coins,
              status |-> "OPEN", taker |-> None, coinTx |-> 0, cashTx |-> 0,
              expires |-> expires, at |-> now]
    IN  /\ Idle
        /\ u \in live.active
        /\ expires = 0 \/ expires > now
        /\ nextId <= MaxIds
        /\ nextId' = nextId + 1
        /\ FreeRows(RecycleQuote(live).quotes) # {}
        /\ AppendEvent(RecycleQuote(live), [type |-> "QuoteCreated", quote |-> q])
        /\ UNCHANGED <<pending, now>>

\* The first append of a trade.  The cash leg becomes pending if it succeeds.
BeginTrade(u, q) ==
    LET e == [type |-> "QuoteTaken", id |-> q.id, taker |-> u, txn |-> CoinLeg(q, u), at |-> now]
    IN  \/ /\ Log!Commit(live, e)
           /\ pending' = {[type |-> "QuoteSettled", id |-> q.id, txn |-> CashLeg(q, u), at |-> now]}
        \/ (Log!CommitFails(live) \/ Log!FoundAtBoot(e)) /\ UNCHANGED pending

\* TakeQuote up to its first append: both legs are validated before either is
\* committed.
TakeQuote(u, id) ==
    /\ Idle
    /\ u \in live.active
    /\ Has(live.quotes, id)
    /\ LET q == live.quotes[Row(live.quotes, id)]
       IN  /\ q.maker # u
           /\ Live(q)
           /\ AccountUsable(q.maker)
           /\ Valid(CoinLeg(q, u), FALSE)
           /\ Valid(CashLeg(q, u), FALSE)
           /\ BeginTrade(u, q)
    /\ UNCHANGED <<now, nextId>>

\* TakeQuote after the coin leg: the cash leg is validated again and appended.
SettleTrade ==
    /\ up
    /\ \E e \in pending : Valid(e.txn, FALSE) /\ AppendEvent(live, e)
    /\ pending' = {}
    /\ UNCHANGED <<now, nextId>>

\* The second validation refuses the cash leg after the coins have moved.
SettleRefused ==
    /\ up
    /\ \E e \in pending : ~Valid(e.txn, FALSE)
    /\ pending' = {}
    /\ UNCHANGED <<live, disk, up, now, nextId>>

\* CancelQuote: the actor's own copy of their role and no look at their status.
CancelQuote(u, id) ==
    /\ Idle
    /\ Has(live.quotes, id)
    /\ LET q == live.quotes[Row(live.quotes, id)]
       IN  /\ u = q.maker \/ u \in Nana
           /\ q.status = "OPEN"
    /\ AppendEvent(live, [type |-> "QuoteUpdated", id |-> id, status |-> "CANCELLED", at |-> now])
    /\ UNCHANGED <<pending, now, nextId>>

\* UpdateUser: Nana disables or enables another member.
SetStatus(u, active) ==
    /\ Idle
    /\ u \notin Nana
    /\ Nana # {}
    /\ AppendEvent(live, [type |-> "UserUpdated", user |-> u, active |-> active])
    /\ UNCHANGED <<pending, now, nextId>>

Tick ==
    /\ now < MaxTime
    /\ now' = now + 1
    /\ UNCHANGED <<live, disk, up, pending, nextId>>

Restart ==
    /\ up
    /\ Log!Reboot
    /\ pending' = {}
    /\ UNCHANGED <<now, nextId>>

Next ==
    \/ \E u, to \in User, amount \in 1..MaxIssue : Transfer(u, to, amount)
    \/ \E u \in Nana, to \in User, cents \in 1..MaxIssue : IssueUSD(u, to, cents)
    \/ \E u \in Nana, seq \in 1..MaxSeq : Reverse(u, seq)
    \/ \E u \in User, side \in {"BID", "ASK"}, rate \in Rates, coins \in Coins, expires \in 0..MaxTime :
          PostQuote(u, side, rate, coins, expires)
    \/ \E u \in User, id \in 1..MaxIds : TakeQuote(u, id)
    \/ SettleTrade
    \/ SettleRefused
    \/ \E u \in User, id \in 1..MaxIds : CancelQuote(u, id)
    \/ \E u \in User, active \in BOOLEAN : SetStatus(u, active)
    \/ Tick
    \/ Restart

Spec == Init /\ [][Next]_vars

-----------------------------------------------------------------------------
(* Properties. *)

\* No book has more accounts with a balance than slots (balanceSlot would panic).
StateOK(s) ==
    /\ s.led.bal \in [Account -> Int]
    /\ s.led.first \in 1..(MaxSeq + 1) /\ s.led.total \in 0..MaxSeq
    /\ Cardinality(Kept(s.led)) <= Window
    /\ s.slots \subseteq Account
    /\ Cardinality(s.slots) + s.others <= AccountCapacity
    /\ s.quotes \in [1..MaxQuotes -> Quote \cup {NoQuote}]
    /\ s.active \subseteq User

TypeOK ==
    /\ StateOK(live)
    /\ disk.ok \in BOOLEAN /\ StateOK(disk.state)
    /\ Cardinality(pending) <= 1
    /\ up \in BOOLEAN
    /\ now \in 0..MaxTime
    /\ nextId \in 1..(MaxIds + 1)

\* A quote is traded at most once and at its own terms: the coin leg it names,
\* right after it the cash leg it names, both between maker and taker for the
\* quoted amounts, and no other payment under its reference.
LegsAgree ==
    \A q \in Rows(live.quotes) :
        /\ q.status = "FILLED" <=> q.coinTx # 0
        /\ q.cashTx \in {0, q.coinTx + 1}
        /\ q.cashTx # 0 => q.coinTx # 0
        /\ \A s \in Kept(live.led) :
              LET t == live.led.txns[s]
              IN  t.quote = q.id /\ t.reverses = 0 =>
                     \/ s = q.coinTx /\ t = CoinLeg(q, q.taker)
                     \/ s = q.cashTx /\ t = CashLeg(q, q.taker)

\* A reboot, also one between the legs of a trade, gives back the money, the
\* members, every open quote, and the legs of every trade both tables still hold.
RebootKeepsTrades ==
    up => /\ disk.ok
          /\ disk.state.led = live.led
          /\ disk.state.slots = live.slots
          /\ disk.state.active = live.active
          /\ {q \in Rows(disk.state.quotes) : ~Closed(q)} = {q \in Rows(live.quotes) : ~Closed(q)}
          /\ \A p \in Rows(disk.state.quotes), q \in Rows(live.quotes) : p.id = q.id => p = q

\* quotes_store.go:115: an open quote is never recycled, somebody relies on it;
\* and neither is the quote of a trade between its two legs.
NoOpenQuoteIsLost ==
    up' => /\ \A q \in Rows(live.quotes) : ~Closed(q) => Has(live'.quotes, q.id)
           /\ \A e \in pending : Has(live'.quotes, e.id)

-----------------------------------------------------------------------------
(* What the comments of the code claim and its steps do not keep. *)

\* quotes.go:221-224: "the coin leg cannot change what the cash leg can afford",
\* so the cash leg that was valid before the coin leg is valid after it.
CashLegStaysValid == \A e \in pending : Valid(e.txn, FALSE)

\* quotes.go:153-155: a half-landed trade is a quote with a CoinTx and no CashTx,
\* findable, and reversible by hand.
HalfTradesFindable ==
    \A s \in Kept(live.led) :
        LET t == live.led.txns[s]
        IN  t.quote # 0 => Has(live.quotes, t.quote)

-----------------------------------------------------------------------------
(* Proofs. *)

\* There is text for every quote of a full table.
RoomForQuotes == Blocks >= MaxQuotes

Txn == [from : Account, to : Account, amount : Int, reverses : Nat, quote : Nat]

\* The ring holds a window of transactions.
LedOK(l) ==
    /\ l = [bal |-> l.bal, first |-> l.first, total |-> l.total, txns |-> l.txns, revBy |-> l.revBy]
    /\ l.bal \in [Account -> Int]
    /\ l.total \in 0..MaxSeq /\ l.first \in 1..(l.total + 1)
    /\ l.total - l.first + 1 <= Window
    /\ l.txns \in [Kept(l) -> Txn]

\* A quote and the payments under its reference tell one story.
Legs(q, l) ==
    /\ q.status = "FILLED" <=> q.coinTx # 0
    /\ q.cashTx \in {0, q.coinTx + 1}
    /\ q.cashTx # 0 => q.coinTx # 0
    /\ \A s \in Kept(l) :
          l.txns[s].quote = q.id /\ l.txns[s].reverses = 0 =>
             \/ s = q.coinTx /\ l.txns[s] = CoinLeg(q, q.taker)
             \/ s = q.cashTx /\ l.txns[s] = CashLeg(q, q.taker)

\* The table has each quote once.
TabOK(tab) ==
    /\ tab \in [1..MaxQuotes -> Quote \cup {NoQuote}]
    /\ \A i, j \in 1..MaxQuotes : tab[i].id = tab[j].id /\ tab[i].id # 0 => i = j

\* Identifiers from n on belong to nothing yet.
Sound(s, n) ==
    /\ s = [led |-> s.led, slots |-> s.slots, others |-> s.others, quotes |-> s.quotes, active |-> s.active]
    /\ LedOK(s.led) /\ TabOK(s.quotes)
    /\ s.slots \subseteq Account /\ Cardinality(s.slots) + s.others <= AccountCapacity
    /\ s.active \subseteq User
    /\ \A i \in 1..MaxQuotes : s.quotes[i].id < n
    /\ \A i \in 1..MaxQuotes : s.quotes[i].id # 0 => Legs(s.quotes[i], s.led)
    /\ \A k \in Kept(s.led) : s.led.txns[k].quote < n

\* What may be appended to a journal that yields s.
Fits(e, s, n) ==
    \/ /\ e.type = "Transaction"
       /\ e.txn \in Txn /\ e.txn.quote < n
       /\ e.txn.quote = 0 \/ e.txn.reverses # 0
    \/ /\ e.type = "QuoteCreated"
       /\ e.quote \in Quote /\ e.quote.id < n /\ ~Has(s.quotes, e.quote.id)
       /\ e.quote.status = "OPEN" /\ e.quote.coinTx = 0 /\ e.quote.cashTx = 0
       /\ \A k \in Kept(s.led) : s.led.txns[k].quote # e.quote.id
    \/ /\ e.type = "QuoteTaken"
       /\ e.taker \in User /\ e.at \in 0..MaxTime /\ e.id \in 1..MaxIds
       /\ \A i \in 1..MaxQuotes : s.quotes[i].id = e.id =>
             s.quotes[i].status = "OPEN" /\ e.txn = CoinLeg(s.quotes[i], e.taker)
    \/ /\ e.type = "QuoteSettled"
       /\ e.at \in 0..MaxTime /\ e.id \in 1..MaxIds
       /\ \A i \in 1..MaxQuotes : s.quotes[i].id = e.id =>
             /\ s.quotes[i].status = "FILLED" /\ s.quotes[i].taker \in User
             /\ s.quotes[i].coinTx = s.led.total /\ s.quotes[i].cashTx = 0
             /\ e.txn = CashLeg(s.quotes[i], s.quotes[i].taker)
    \/ /\ e.type = "QuoteUpdated"
       /\ e.at \in 0..MaxTime /\ e.id \in 1..MaxIds /\ e.status = "CANCELLED"
       /\ \A i \in 1..MaxQuotes : s.quotes[i].id = e.id => s.quotes[i].status = "OPEN"
    \/ e.type = "UserUpdated" /\ e.user \in User

\* RAM and the journal are of one household, and what is in both tables is the same.
Agree(s, d) ==
    /\ s.led = d.led /\ s.slots = d.slots /\ s.others = d.others /\ s.active = d.active
    /\ \A i, j \in 1..MaxQuotes :
          s.quotes[i].id = d.quotes[j].id /\ s.quotes[i].id # 0 => s.quotes[i] = d.quotes[j]

\* Open quotes are in both tables; rows are given up by the first only in a full one.
Match(s, d) ==
    /\ \A i \in 1..MaxQuotes : s.quotes[i].id # 0 /\ ~Closed(s.quotes[i]) => Has(d.quotes, s.quotes[i].id)
    /\ \A i \in 1..MaxQuotes : d.quotes[i].id # 0 /\ ~Closed(d.quotes[i]) => Has(s.quotes, d.quotes[i].id)
    /\ FreeRows(d.quotes) # {} => s.quotes = d.quotes

\* The cash leg on its way fits the quote that was taken.
PendingInv ==
    \/ pending = {}
    \/ /\ up
       /\ \E e \in pending :
             /\ pending = {e} /\ e.type = "QuoteSettled" /\ Fits(e, live, nextId)
             /\ Has(live.quotes, e.id)
             /\ RoomForQuotes => Has(disk.state.quotes, e.id)

\* RAM at s, a journal that replays to d, and whether the service is up.
Mirrored(s, d, u, n) ==
    /\ d = [ok |-> d.ok, state |-> d.state] /\ d.ok \in BOOLEAN /\ u \in BOOLEAN
    /\ Sound(s, n) /\ Sound(d.state, n)
    /\ u /\ d.ok => Agree(s, d.state)
    /\ RoomForQuotes => u /\ d.ok /\ Match(s, d.state)

IInv ==
    /\ now \in 0..MaxTime /\ nextId \in 1..(MaxIds + 1)
    /\ Mirrored(live, disk, up, nextId)
    /\ PendingInv

\* A set of numbers has a least one.
LEMMA LeastNumber ==
    ASSUME NEW S \in SUBSET Nat, S # {}
    PROVE  \E x \in S : \A y \in S : x <= y
<1> DEFINE Below == {0..(n - 1) : n \in S}
<1>1. Below \subseteq FiniteSubsetsOf(Nat) /\ Below # {}
  <2>1. \A n \in S : 0..(n - 1) \subseteq Nat /\ IsFiniteSet(0..(n - 1))
    BY FS_Interval
  <2> QED BY <2>1 DEF FiniteSubsetsOf
<1>2. PICK B \in Below : \A C \in Below : ~(<<C, B>> \in StrictSubsetOrdering(Nat))
  BY <1>1, FS_StrictSubsetOrderingWellFounded, WFMin, Zenon
<1>3. PICK x \in S : B = 0..(x - 1)
  OBVIOUS
<1>4. ASSUME NEW y \in S, y < x PROVE FALSE
  <2>1. 0..(y - 1) \subseteq B /\ 0..(y - 1) # B
    BY <1>3, <1>4
  <2>2. <<0..(y - 1), B>> \in StrictSubsetOrdering(Nat)
    BY <2>1, <1>1, <1>3 DEF StrictSubsetOrdering, FiniteSubsetsOf
  <2> QED BY <1>2, <2>2
<1> QED BY <1>4

-----------------------------------------------------------------------------
(* Tables. *)

\* The oldest of some quotes is one of them.
LEMMA OldestIn ==
    ASSUME ExchangeAssumption, NEW tab \in [1..MaxQuotes -> Quote \cup {NoQuote}],
           NEW S \in SUBSET (1..MaxQuotes), S # {}, \A i \in S : tab[i].id # 0
    PROVE  Oldest(tab, S) \in S
<1>1. \A i \in S : tab[i] \in Quote /\ tab[i].at \in Nat /\ i \in Nat
  BY DEF NoQuote, Quote
<1> DEFINE Times == {tab[i].at : i \in S}
<1>2. PICK m \in Times : \A y \in Times : m <= y
  <2>1. Times \in SUBSET Nat /\ Times # {}
    BY <1>1
  <2> HIDE DEF Times
  <2> QED BY <2>1, LeastNumber
<1> DEFINE First == {i \in S : tab[i].at = m}
<1>3. PICK x \in First : \A y \in First : x <= y
  <2>1. First \in SUBSET Nat /\ First # {}
    BY <1>1, <1>2
  <2> HIDE DEF First
  <2> QED BY <2>1, LeastNumber
<1>4. ASSUME NEW j \in S PROVE tab[x].at < tab[j].at \/ (tab[x].at = tab[j].at /\ x <= j)
  <2>1. tab[x].at = m /\ tab[j].at \in Nat /\ m \in Nat /\ m <= tab[j].at
    BY <1>1, <1>2, <1>3
  <2>2. tab[j].at = m => x <= j
    BY <1>3
  <2> QED BY <2>1, <2>2
<1> QED BY <1>3, <1>4 DEF Oldest

\* The first free row is free.
LEMMA FirstFreeIn ==
    ASSUME NEW tab \in [1..MaxQuotes -> Quote \cup {NoQuote}], FreeRows(tab) # {}, MaxQuotes \in Nat
    PROVE  FirstFree(tab) \in FreeRows(tab)
<1>1. FreeRows(tab) \in SUBSET Nat
  BY DEF FreeRows
<1>2. \E x \in FreeRows(tab) : \A y \in FreeRows(tab) : x <= y
  BY <1>1, LeastNumber
<1> QED BY <1>2 DEF FirstFree

\* A quote the table has is in the row that is found for it.
LEMMA RowIs ==
    ASSUME NEW tab, TabOK(tab), NEW id, id # 0, Has(tab, id)
    PROVE  Row(tab, id) \in 1..MaxQuotes /\ tab[Row(tab, id)].id = id /\ tab[Row(tab, id)] \in Quote
<1>1. \E i \in DOMAIN tab : tab[i].id = id
  BY DEF Has
<1>2. Row(tab, id) \in DOMAIN tab /\ tab[Row(tab, id)].id = id
  BY <1>1 DEF Row
<1> QED BY <1>2 DEF TabOK, NoQuote

\* A state with another ledger and another table.
With(s, l, slots, tab) ==
    [led |-> l, slots |-> slots, others |-> s.others, quotes |-> tab, active |-> s.active]

\* A row is given up only in a full table, and only if its quote is closed.
LEMMA RecycleIs ==
    ASSUME ExchangeAssumption, NEW s, NEW n, Sound(s, n)
    PROVE  \/ /\ RecycleQuote(s) = s
              /\ FreeRows(s.quotes) # {} \/ \A i \in 1..MaxQuotes : ~Closed(s.quotes[i])
           \/ /\ FreeRows(s.quotes) = {}
              /\ \E c \in 1..MaxQuotes :
                    /\ Closed(s.quotes[c])
                    /\ RecycleQuote(s) = With(s, s.led, s.slots, [s.quotes EXCEPT ![c] = NoQuote])
<1> DEFINE closed == {i \in DOMAIN s.quotes \ FreeRows(s.quotes) : Closed(s.quotes[i])}
<1>1. s.quotes \in [1..MaxQuotes -> Quote \cup {NoQuote}]
  BY DEF Sound, TabOK
<1>2. CASE FreeRows(s.quotes) # {} \/ closed = {}
  BY <1>1, <1>2 DEF RecycleQuote
<1>3. CASE FreeRows(s.quotes) = {} /\ closed # {}
  <2> DEFINE c == Oldest(s.quotes, closed)
  <2>1. closed \in SUBSET (1..MaxQuotes) /\ \A i \in closed : s.quotes[i].id # 0
    BY <1>1 DEF FreeRows
  <2>2. c \in closed
    BY <1>1, <1>3, <2>1, OldestIn
  <2>3. RecycleQuote(s) = [s EXCEPT !.quotes[c] = NoQuote]
    BY <1>3 DEF RecycleQuote
  <2> HIDE DEF c
  <2>4. RecycleQuote(s) = With(s, s.led, s.slots, [s.quotes EXCEPT ![c] = NoQuote])
    BY <2>3 DEF Sound, With
  <2> QED BY <1>1, <1>3, <2>2, <2>4
<1> QED BY <1>2, <1>3

-----------------------------------------------------------------------------
(* The ledger. *)

NextLed(l, t) ==
    Posted(IF Cardinality(Kept(l)) = Window THEN Forgotten(l, l.first + 1) ELSE l, t)

\* A record is the last of the ring, which drops the oldest when it is full.
LEMMA NextLedIs ==
    ASSUME ExchangeAssumption, NEW l, LedOK(l), NEW t \in Txn, l.total < MaxSeq, MaxSeq \in Nat
    PROVE  /\ LedOK(NextLed(l, t)) /\ NextLed(l, t).total = l.total + 1
           /\ \A k \in Kept(NextLed(l, t)) : k = l.total + 1 \/ k \in Kept(l)
           /\ \A k \in Kept(NextLed(l, t)) :
                 NextLed(l, t).txns[k] = IF k = l.total + 1 THEN t ELSE l.txns[k]
<1> DEFINE m == IF Cardinality(Kept(l)) = Window THEN Forgotten(l, l.first + 1) ELSE l
<1>1. /\ l.total \in Nat /\ l.first \in Nat /\ l.first >= 1 /\ l.first <= l.total + 1
      /\ l.total - l.first + 1 <= Window /\ Window \in Nat /\ Window > 0
      /\ l.bal \in [Account -> Int] /\ l.txns \in [l.first..l.total -> Txn]
      /\ l = [bal |-> l.bal, first |-> l.first, total |-> l.total, txns |-> l.txns, revBy |-> l.revBy]
  BY DEF LedOK, Kept, ExchangeAssumption
<1>2. Cardinality(Kept(l)) = l.total - l.first + 1
  BY <1>1, FS_Interval DEF Kept
<1>3. /\ m.total = l.total /\ m.bal = l.bal
      /\ m.first \in Nat /\ m.first >= l.first /\ m.first <= l.total + 1
      /\ l.total - m.first + 1 < Window
      /\ \A k \in m.first..l.total : m.txns[k] = l.txns[k]
  <2>1. CASE Cardinality(Kept(l)) = Window
    <3>1. m = [bal |-> l.bal, first |-> l.first + 1, total |-> l.total,
               txns |-> [k \in (l.first + 1)..l.total |-> l.txns[k]],
               revBy |-> [k \in (l.first + 1)..l.total |-> l.revBy[k]]]
      BY <1>1, <2>1 DEF Forgotten
    <3> QED BY <1>1, <1>2, <2>1, <3>1
  <2>2. CASE Cardinality(Kept(l)) # Window
    <3>1. m = l
      BY <2>2
    <3> QED BY <1>1, <1>2, <2>2, <3>1
  <2> QED BY <2>1, <2>2
<1>4. NextLed(l, t) = Posted(m, t)
  BY DEF NextLed
<1> HIDE DEF m
<1> DEFINE p == Posted(m, t)
<1>5. /\ p = [bal |-> p.bal, first |-> p.first, total |-> p.total, txns |-> p.txns, revBy |-> p.revBy]
      /\ p.bal = Moved(m.bal, t) /\ p.first = m.first /\ p.total = m.total + 1
      /\ p.txns = [k \in m.first..(m.total + 1) |-> IF k = m.total + 1 THEN t ELSE m.txns[k]]
  BY DEF Posted
<1> HIDE DEF p
<1>6. Kept(p) = m.first..(l.total + 1)
  BY <1>3, <1>5 DEF Kept
<1>7. \A k \in m.first..(l.total + 1) : k = l.total + 1 \/ (k \in m.first..l.total /\ k \in l.first..l.total)
  BY <1>1, <1>3
<1>8. \A k \in Kept(p) : p.txns[k] = IF k = l.total + 1 THEN t ELSE l.txns[k]
  BY <1>3, <1>5, <1>6, <1>7
<1>9. p.bal \in [Account -> Int]
  BY <1>1, <1>3, <1>5 DEF Moved, Txn
<1>10. p.txns \in [Kept(p) -> Txn]
  <2>1. \A k \in Kept(p) : p.txns[k] \in Txn
    BY <1>1, <1>6, <1>7, <1>8
  <2>2. p.txns = [k \in Kept(p) |-> p.txns[k]]
    BY <1>3, <1>5, <1>6
  <2> QED BY <2>1, <2>2
<1>11. LedOK(p)
  BY <1>1, <1>3, <1>5, <1>9, <1>10 DEF LedOK
<1> QED BY <1>1, <1>3, <1>4, <1>5, <1>6, <1>7, <1>8, <1>11 DEF p, Kept

\* A transaction that is no payment of the quote leaves its story alone.
LEMMA LegsStay ==
    ASSUME ExchangeAssumption, NEW l, LedOK(l), NEW t \in Txn, l.total < MaxSeq, MaxSeq \in Nat,
           NEW q, Legs(q, l), t.quote # q.id \/ t.reverses # 0
    PROVE  Legs(q, NextLed(l, t))
<1>1. \A k \in Kept(NextLed(l, t)) :
         /\ k = l.total + 1 \/ k \in Kept(l)
         /\ NextLed(l, t).txns[k] = IF k = l.total + 1 THEN t ELSE l.txns[k]
  BY NextLedIs
<1> QED BY <1>1 DEF Legs

\* The state after a record, whatever becomes of the table.
LEMMA RecordIs ==
    ASSUME NEW s, NEW n, Sound(s, n), NEW t
    PROVE  Record(s, t) = With(s, NextLed(s.led, t), s.slots \cup {t.from, t.to}, s.quotes)
<1>1. Record(s, t) = [s EXCEPT !.led = NextLed(s.led, t), !.slots = @ \cup {t.from, t.to}]
  BY DEF Record, NextLed
<1>2. s = [led |-> s.led, slots |-> s.slots, others |-> s.others, quotes |-> s.quotes, active |-> s.active]
  BY DEF Sound
<1> QED BY <1>1, <1>2 DEF With

\* A state is sound if its table is and its ledger has room for the record.
LEMMA RecordSound ==
    ASSUME ExchangeAssumption, NEW s, NEW n, Sound(s, n), NEW t \in Txn, t.quote < n, Room(s, t),
           NEW tab, TabOK(tab), \A i \in 1..MaxQuotes : tab[i].id < n,
           \A i \in 1..MaxQuotes : tab[i].id # 0 => Legs(tab[i], NextLed(s.led, t))
    PROVE  Sound(With(s, NextLed(s.led, t), s.slots \cup {t.from, t.to}, tab), n)
<1> DEFINE l == NextLed(s.led, t)
           r == With(s, l, s.slots \cup {t.from, t.to}, tab)
<1>1. /\ LedOK(l) /\ \A k \in Kept(l) : k = s.led.total + 1 \/ k \in Kept(s.led)
      /\ \A k \in Kept(l) : l.txns[k] = IF k = s.led.total + 1 THEN t ELSE s.led.txns[k]
  BY NextLedIs DEF Room, Sound, ExchangeAssumption, LedgerOpsAssumption
<1> HIDE DEF l
<1>2. \A k \in Kept(l) : l.txns[k].quote < n
  BY <1>1 DEF Sound
<1>3. s.slots \cup {t.from, t.to} \subseteq Account
      /\ Cardinality(s.slots \cup {t.from, t.to}) + s.others <= AccountCapacity
  BY DEF Room, Sound, Txn
<1>4. /\ r.led = l /\ r.slots = s.slots \cup {t.from, t.to} /\ r.others = s.others
      /\ r.quotes = tab /\ r.active = s.active
  BY DEF With
<1>5. r = [led |-> r.led, slots |-> r.slots, others |-> r.others, quotes |-> r.quotes, active |-> r.active]
  BY DEF With
<1>6. s.active \subseteq User
  BY DEF Sound
<1>7. \A i \in 1..MaxQuotes : tab[i].id # 0 => Legs(tab[i], l)
  BY DEF l
<1> HIDE DEF r
<1>8. Sound(r, n)
  BY <1>1, <1>2, <1>3, <1>4, <1>5, <1>6, <1>7 DEF Sound
<1> QED BY <1>8 DEF r, l

\* A state with another table.
LEMMA TabSound ==
    ASSUME NEW s, NEW n, Sound(s, n),
           NEW tab, TabOK(tab), \A i \in 1..MaxQuotes : tab[i].id < n,
           \A i \in 1..MaxQuotes : tab[i].id # 0 => Legs(tab[i], s.led)
    PROVE  Sound(With(s, s.led, s.slots, tab), n)
BY DEF Sound, With

\* One row of a table changes.
LEMMA RowChange ==
    ASSUME NEW tab, TabOK(tab), NEW i \in 1..MaxQuotes, NEW q \in Quote \cup {NoQuote},
           \/ q.id = 0 \/ q.id = tab[i].id
           \/ \A j \in 1..MaxQuotes : tab[j].id # q.id
    PROVE  /\ TabOK([tab EXCEPT ![i] = q])
           /\ \A j \in 1..MaxQuotes : [tab EXCEPT ![i] = q][j] = IF j = i THEN q ELSE tab[j]
BY DEF TabOK

\* Giving up a row keeps a state sound.
LEMMA RecycleSound ==
    ASSUME ExchangeAssumption, NEW s, NEW n, n > 0, n \in Nat, Sound(s, n)
    PROVE  Sound(RecycleQuote(s), n)
<1>1. CASE RecycleQuote(s) = s
  BY <1>1
<1>2. ASSUME NEW c \in 1..MaxQuotes,
             RecycleQuote(s) = With(s, s.led, s.slots, [s.quotes EXCEPT ![c] = NoQuote])
      PROVE  Sound(RecycleQuote(s), n)
  <2> DEFINE tab == [s.quotes EXCEPT ![c] = NoQuote]
  <2>1. TabOK(s.quotes) /\ NoQuote.id = 0
    BY DEF Sound, NoQuote
  <2>2. TabOK(tab) /\ \A j \in 1..MaxQuotes : tab[j] = IF j = c THEN NoQuote ELSE s.quotes[j]
    BY <2>1, RowChange
  <2> HIDE DEF tab
  <2>3. \A i \in 1..MaxQuotes : tab[i].id < n
    BY <2>1, <2>2 DEF Sound
  <2>4. \A i \in 1..MaxQuotes : tab[i].id # 0 => Legs(tab[i], s.led)
    BY <2>1, <2>2 DEF Sound
  <2>5. Sound(With(s, s.led, s.slots, tab), n)
    BY <2>2, <2>3, <2>4, TabSound
  <2> QED BY <1>2, <2>5 DEF tab
<1> QED BY <1>1, <1>2, RecycleIs

-----------------------------------------------------------------------------
(* Events that change a quote: what they make of a state. *)

RowEvent(e) == e.type \in {"QuoteTaken", "QuoteSettled", "QuoteUpdated"}

Pays(e) == e.type # "QuoteUpdated"

NewLed(s, e) == IF Pays(e) THEN NextLed(s.led, e.txn) ELSE s.led
NewSlots(s, e) == IF Pays(e) THEN s.slots \cup {e.txn.from, e.txn.to} ELSE s.slots

NewQuote(s, e, q) ==
    CASE e.type = "QuoteTaken"   -> [q EXCEPT !.status = "FILLED", !.taker = e.taker,
                                              !.coinTx = s.led.total + 1, !.at = e.at]
      [] e.type = "QuoteSettled" -> [q EXCEPT !.cashTx = s.led.total + 1, !.at = e.at]
      [] e.type = "QuoteUpdated" -> [q EXCEPT !.status = e.status, !.at = e.at]

\* The row of a state that changes is the row of its table.
LEMMA WithRow ==
    ASSUME NEW s, NEW l, NEW slots, NEW tab, NEW i, NEW q
    PROVE  [With(s, l, slots, tab) EXCEPT !.quotes[i] = q] = With(s, l, slots, [tab EXCEPT ![i] = q])
BY DEF With

\* Such an event is refused, or changes the row of its quote and nothing else.
LEMMA RowEventIs ==
    ASSUME NEW s, NEW n, Sound(s, n), NEW e, RowEvent(e), Fits(e, s, n)
    PROVE  /\ ApplyEvent(s, e).ok <=> Has(s.quotes, e.id) /\ (Pays(e) => Room(s, e.txn))
           /\ ~ApplyEvent(s, e).ok => ApplyEvent(s, e).state = s
           /\ ApplyEvent(s, e).ok =>
                 \E i \in 1..MaxQuotes :
                    /\ s.quotes[i].id = e.id /\ s.quotes[i] \in Quote
                    /\ ApplyEvent(s, e).state =
                          With(s, NewLed(s, e), NewSlots(s, e),
                               [s.quotes EXCEPT ![i] = NewQuote(s, e, s.quotes[i])])
<1> DEFINE i == Row(s.quotes, e.id)
<1>1. e.id # 0 /\ TabOK(s.quotes)
  BY DEF Fits, RowEvent, Sound
<1>2. Has(s.quotes, e.id) => i \in 1..MaxQuotes /\ s.quotes[i].id = e.id /\ s.quotes[i] \in Quote
  BY <1>1, RowIs
<1>3. s = [led |-> s.led, slots |-> s.slots, others |-> s.others, quotes |-> s.quotes, active |-> s.active]
  BY DEF Sound
<1>4. CASE e.type = "QuoteTaken"
  <2>1. ApplyEvent(s, e) = ApplyQuoteTaken(s, e)
    BY <1>4 DEF ApplyEvent
  <2>2. Record(s, e.txn) = With(s, NewLed(s, e), NewSlots(s, e), s.quotes)
    BY <1>4, RecordIs DEF NewLed, NewSlots, Pays
  <2>3. NewQuote(s, e, s.quotes[i]) = [s.quotes[i] EXCEPT !.status = "FILLED", !.taker = e.taker,
                                          !.coinTx = s.led.total + 1, !.at = e.at]
    BY <1>4 DEF NewQuote
  <2>4. Has(s.quotes, e.id) /\ Room(s, e.txn) =>
           ApplyEvent(s, e) = Done([With(s, NewLed(s, e), NewSlots(s, e), s.quotes) EXCEPT
                                      !.quotes[i] = NewQuote(s, e, s.quotes[i])])
    BY <2>1, <2>2, <2>3 DEF ApplyQuoteTaken, With
  <2>5. ~(Has(s.quotes, e.id) /\ Room(s, e.txn)) => ApplyEvent(s, e) = Refused(s)
    BY <2>1 DEF ApplyQuoteTaken
  <2> HIDE DEF i
  <2>6. CASE Has(s.quotes, e.id) /\ Room(s, e.txn)
    <3>1. /\ ApplyEvent(s, e).ok
          /\ ApplyEvent(s, e).state =
                With(s, NewLed(s, e), NewSlots(s, e), [s.quotes EXCEPT ![i] = NewQuote(s, e, s.quotes[i])])
      BY <2>4, <2>6, WithRow DEF Done
    <3> QED BY <1>2, <2>6, <3>1
  <2>7. CASE ~(Has(s.quotes, e.id) /\ Room(s, e.txn))
    BY <1>4, <2>5, <2>7 DEF Refused, Pays
  <2> QED BY <2>6, <2>7
<1>5. CASE e.type = "QuoteSettled"
  <2>1. ApplyEvent(s, e) = ApplyQuoteSettled(s, e)
    BY <1>5 DEF ApplyEvent
  <2>2. Record(s, e.txn) = With(s, NewLed(s, e), NewSlots(s, e), s.quotes)
    BY <1>5, RecordIs DEF NewLed, NewSlots, Pays
  <2>3. NewQuote(s, e, s.quotes[i]) = [s.quotes[i] EXCEPT !.cashTx = s.led.total + 1, !.at = e.at]
    BY <1>5 DEF NewQuote
  <2>4. Has(s.quotes, e.id) /\ Room(s, e.txn) =>
           ApplyEvent(s, e) = Done([With(s, NewLed(s, e), NewSlots(s, e), s.quotes) EXCEPT
                                      !.quotes[i] = NewQuote(s, e, s.quotes[i])])
    BY <2>1, <2>2, <2>3 DEF ApplyQuoteSettled, With
  <2>5. ~(Has(s.quotes, e.id) /\ Room(s, e.txn)) => ApplyEvent(s, e) = Refused(s)
    BY <2>1 DEF ApplyQuoteSettled
  <2> HIDE DEF i
  <2>6. CASE Has(s.quotes, e.id) /\ Room(s, e.txn)
    <3>1. /\ ApplyEvent(s, e).ok
          /\ ApplyEvent(s, e).state =
                With(s, NewLed(s, e), NewSlots(s, e), [s.quotes EXCEPT ![i] = NewQuote(s, e, s.quotes[i])])
      BY <2>4, <2>6, WithRow DEF Done
    <3> QED BY <1>2, <2>6, <3>1
  <2>7. CASE ~(Has(s.quotes, e.id) /\ Room(s, e.txn))
    BY <1>5, <2>5, <2>7 DEF Refused, Pays
  <2> QED BY <2>6, <2>7
<1>6. CASE e.type = "QuoteUpdated"
  <2>1. ApplyEvent(s, e) = ApplyQuoteUpdated(s, e)
    BY <1>6 DEF ApplyEvent
  <2>2. NewLed(s, e) = s.led /\ NewSlots(s, e) = s.slots
    BY <1>6 DEF NewLed, NewSlots, Pays
  <2>3. NewQuote(s, e, s.quotes[i]) = [s.quotes[i] EXCEPT !.status = e.status, !.at = e.at]
    BY <1>6 DEF NewQuote
  <2>4. Has(s.quotes, e.id) =>
           ApplyEvent(s, e) = Done([s EXCEPT !.quotes[i] = NewQuote(s, e, s.quotes[i])])
    BY <2>1, <2>3 DEF ApplyQuoteUpdated
  <2>5. ~Has(s.quotes, e.id) => ApplyEvent(s, e) = Refused(s)
    BY <2>1 DEF ApplyQuoteUpdated
  <2> HIDE DEF i
  <2>6. Has(s.quotes, e.id) =>
           [s EXCEPT !.quotes[i] = NewQuote(s, e, s.quotes[i])] =
           With(s, s.led, s.slots, [s.quotes EXCEPT ![i] = NewQuote(s, e, s.quotes[i])])
    BY <1>3 DEF With
  <2>7. CASE Has(s.quotes, e.id)
    <3>1. /\ ApplyEvent(s, e).ok
          /\ ApplyEvent(s, e).state =
                With(s, NewLed(s, e), NewSlots(s, e), [s.quotes EXCEPT ![i] = NewQuote(s, e, s.quotes[i])])
      BY <2>2, <2>4, <2>6, <2>7 DEF Done
    <3> QED BY <1>2, <1>6, <2>7, <3>1 DEF Pays
  <2>8. CASE ~Has(s.quotes, e.id)
    BY <1>6, <2>5, <2>8 DEF Refused, Pays
  <2> QED BY <2>7, <2>8
<1> QED BY <1>4, <1>5, <1>6 DEF RowEvent

\* The new row is of the same quote, closed, and its story is the ledger's.
LEMMA NewQuoteIs ==
    ASSUME ExchangeAssumption, NEW s, NEW n, Sound(s, n), NEW e, RowEvent(e), Fits(e, s, n),
           NEW i \in 1..MaxQuotes, s.quotes[i].id = e.id, s.quotes[i] \in Quote,
           Pays(e) => Room(s, e.txn)
    PROVE  /\ NewQuote(s, e, s.quotes[i]) \in Quote /\ NewQuote(s, e, s.quotes[i]).id = e.id
           /\ Closed(NewQuote(s, e, s.quotes[i]))
           /\ Legs(NewQuote(s, e, s.quotes[i]), NewLed(s, e))
           /\ Pays(e) => e.txn \in Txn /\ e.txn.quote = e.id
<1> DEFINE q == s.quotes[i]
           r == NewQuote(s, e, q)
<1>1. /\ q \in Quote /\ q.id = e.id /\ e.id \in 1..MaxIds /\ Legs(q, s.led) /\ LedOK(s.led)
      /\ s.led.total \in 0..MaxSeq /\ MaxSeq \in Nat /\ MaxIds \in Nat /\ e.at \in 0..MaxTime
  BY DEF Fits, RowEvent, Sound, LedOK, ExchangeAssumption, LedgerOpsAssumption
<1>2. \A u, v \in User : CoinLeg(q, u) \in Txn /\ CashLeg(q, u) \in Txn
                        /\ CoinLeg(q, u).quote = q.id /\ CashLeg(q, u).quote = q.id
                        /\ CoinLeg(q, u).reverses = 0 /\ CashLeg(q, u).reverses = 0
  <2>1. ASSUME NEW u \in User
        PROVE  CoinLeg(q, u) \in Txn /\ CashLeg(q, u) \in Txn
               /\ CoinLeg(q, u).quote = q.id /\ CashLeg(q, u).quote = q.id
               /\ CoinLeg(q, u).reverses = 0 /\ CashLeg(q, u).reverses = 0
    <3>1. q.maker \in User /\ q.coins \in Int /\ q.rate \in Int /\ q.id \in Nat
      <4>1. Coins \subseteq Nat /\ Rates \subseteq Nat
        BY DEF ExchangeAssumption
      <4>2. q.maker \in User /\ q.coins \in Coins /\ q.rate \in Rates /\ q.id \in 1..MaxIds
        BY <1>1 DEF Quote
      <4>3. q.coins \in Nat /\ q.rate \in Nat
        BY <4>1, <4>2
      <4> QED BY <4>2, <4>3
    <3>2. User \subseteq Account /\ \A v \in User : Wallet[v] \in Account
      BY DEF ExchangeAssumption, Usd
    <3>3. q.coins * q.rate \in Int
      BY <3>1
    <3> QED BY <3>1, <3>2, <3>3 DEF CoinLeg, CashLeg, Deal, Txn
  <2> QED BY <2>1
<1> HIDE DEF q
<1>3. CASE e.type = "QuoteTaken"
  <2>1. e.taker \in User /\ q.status = "OPEN" /\ e.txn = CoinLeg(q, e.taker) /\ s.led.total < MaxSeq
    BY <1>1, <1>3 DEF Fits, Pays, Room, q
  <2>2. r = [q EXCEPT !.status = "FILLED", !.taker = e.taker, !.coinTx = s.led.total + 1, !.at = e.at]
    BY <1>3 DEF NewQuote
  <2>3. r \in Quote
    <3>1. r = [id |-> q.id, maker |-> q.maker, side |-> q.side, rate |-> q.rate, coins |-> q.coins,
               status |-> "FILLED", taker |-> e.taker, coinTx |-> s.led.total + 1,
               cashTx |-> q.cashTx, expires |-> q.expires, at |-> e.at]
      BY <1>1, <2>2 DEF Quote
    <3>2. s.led.total + 1 \in 0..MaxSeq
      BY <1>1, <2>1
    <3> HIDE DEF r
    <3> QED BY <1>1, <2>1, <3>1, <3>2 DEF Quote
  <2>4. /\ r.id = q.id /\ r.maker = q.maker /\ r.side = q.side /\ r.rate = q.rate /\ r.coins = q.coins
        /\ r.status = "FILLED" /\ r.taker = e.taker /\ r.coinTx = s.led.total + 1 /\ r.cashTx = q.cashTx
    BY <1>1, <2>2 DEF Quote
  <2> HIDE DEF r
  <2>5. e.txn \in Txn /\ e.txn.quote = q.id /\ e.txn.reverses = 0 /\ e.txn = CoinLeg(r, r.taker)
    BY <1>2, <2>1, <2>4 DEF CoinLeg
  <2>6. q.coinTx = 0 /\ q.cashTx = 0
    BY <1>1, <2>1 DEF Legs, Quote
  <2>7. \A k \in Kept(s.led) : ~(s.led.txns[k].quote = q.id /\ s.led.txns[k].reverses = 0)
    <3>1. \A k \in Kept(s.led) : k # 0
      BY <1>1 DEF LedOK, Kept
    <3> QED BY <1>1, <2>6, <3>1 DEF Legs
  <2>8. \A k \in Kept(NewLed(s, e)) :
           /\ k = s.led.total + 1 \/ k \in Kept(s.led)
           /\ NewLed(s, e).txns[k] = IF k = s.led.total + 1 THEN e.txn ELSE s.led.txns[k]
    BY <1>1, <1>3, <2>1, <2>5, NextLedIs DEF NewLed, Pays
  <2>9. Legs(r, NewLed(s, e))
    BY <1>1, <2>4, <2>5, <2>6, <2>7, <2>8 DEF Legs
  <2> QED BY <1>1, <2>3, <2>4, <2>5, <2>9 DEF Closed, r, q
<1>4. CASE e.type = "QuoteSettled"
  <2>1. /\ q.status = "FILLED" /\ q.taker \in User /\ q.coinTx = s.led.total /\ q.cashTx = 0
        /\ e.txn = CashLeg(q, q.taker) /\ s.led.total < MaxSeq
    BY <1>1, <1>4 DEF Fits, Pays, Room, q
  <2>2. r = [q EXCEPT !.cashTx = s.led.total + 1, !.at = e.at]
    BY <1>4 DEF NewQuote
  <2>3. r \in Quote
    <3>1. r = [id |-> q.id, maker |-> q.maker, side |-> q.side, rate |-> q.rate, coins |-> q.coins,
               status |-> q.status, taker |-> q.taker, coinTx |-> q.coinTx,
               cashTx |-> s.led.total + 1, expires |-> q.expires, at |-> e.at]
      BY <1>1, <2>2 DEF Quote
    <3>2. s.led.total + 1 \in 0..MaxSeq
      BY <1>1, <2>1
    <3> HIDE DEF r
    <3> QED BY <1>1, <2>1, <3>1, <3>2 DEF Quote
  <2>4. /\ r.id = q.id /\ r.maker = q.maker /\ r.side = q.side /\ r.rate = q.rate /\ r.coins = q.coins
        /\ r.status = "FILLED" /\ r.taker = q.taker /\ r.coinTx = q.coinTx /\ r.cashTx = s.led.total + 1
    BY <1>1, <2>1, <2>2 DEF Quote
  <2> HIDE DEF r
  <2>5. e.txn \in Txn /\ e.txn.quote = q.id /\ e.txn = CashLeg(r, r.taker)
        /\ CoinLeg(r, r.taker) = CoinLeg(q, q.taker)
    BY <1>2, <2>1, <2>4 DEF CoinLeg, CashLeg
  <2>6. \A k \in Kept(s.led) : s.led.txns[k].quote = q.id /\ s.led.txns[k].reverses = 0 =>
           k = q.coinTx /\ s.led.txns[k] = CoinLeg(q, q.taker)
    <3>1. \A k \in Kept(s.led) : k # 0
      BY <1>1 DEF LedOK, Kept
    <3> QED BY <1>1, <2>1, <3>1 DEF Legs
  <2>7. \A k \in Kept(NewLed(s, e)) :
           /\ k = s.led.total + 1 \/ k \in Kept(s.led)
           /\ NewLed(s, e).txns[k] = IF k = s.led.total + 1 THEN e.txn ELSE s.led.txns[k]
    BY <1>1, <1>4, <2>1, <2>5, NextLedIs DEF NewLed, Pays
  <2>8. q.coinTx # 0
    BY <1>1, <2>1 DEF Legs
  <2>9. Legs(r, NewLed(s, e))
    BY <1>1, <2>1, <2>4, <2>5, <2>6, <2>7, <2>8 DEF Legs
  <2> QED BY <1>1, <2>3, <2>4, <2>5, <2>9 DEF Closed, r, q
<1>5. CASE e.type = "QuoteUpdated"
  <2>1. q.status = "OPEN" /\ e.status = "CANCELLED"
    BY <1>1, <1>5 DEF Fits, q
  <2>2. r = [q EXCEPT !.status = "CANCELLED", !.at = e.at]
    BY <1>5, <2>1 DEF NewQuote
  <2>3. r \in Quote /\ r.id = q.id /\ r.status = "CANCELLED" /\ r.coinTx = q.coinTx /\ r.cashTx = q.cashTx
        /\ r.maker = q.maker /\ r.side = q.side /\ r.rate = q.rate /\ r.coins = q.coins /\ r.taker = q.taker
    BY <1>1, <2>2 DEF Quote
  <2> HIDE DEF r
  <2>4. NewLed(s, e) = s.led
    BY <1>5 DEF NewLed, Pays
  <2>5. CoinLeg(r, r.taker) = CoinLeg(q, q.taker) /\ CashLeg(r, r.taker) = CashLeg(q, q.taker)
    BY <2>3 DEF CoinLeg, CashLeg
  <2>6. Legs(r, s.led)
    BY <1>1, <2>1, <2>3, <2>5 DEF Legs
  <2> QED BY <1>1, <1>5, <2>3, <2>4, <2>6 DEF Closed, Pays, r, q
<1> QED BY <1>3, <1>4, <1>5 DEF RowEvent

\* The state after such an event is sound.
LEMMA RowEventSound ==
    ASSUME ExchangeAssumption, NEW s, NEW n \in Nat, Sound(s, n), NEW e, RowEvent(e), Fits(e, s, n)
    PROVE  Sound(ApplyEvent(s, e).state, n)
<1>1. CASE ~ApplyEvent(s, e).ok
  BY <1>1, RowEventIs
<1>2. CASE ApplyEvent(s, e).ok
  <2>1. PICK i \in 1..MaxQuotes :
           /\ s.quotes[i].id = e.id /\ s.quotes[i] \in Quote
           /\ ApplyEvent(s, e).state =
                 With(s, NewLed(s, e), NewSlots(s, e), [s.quotes EXCEPT ![i] = NewQuote(s, e, s.quotes[i])])
    BY <1>2, RowEventIs
  <2> DEFINE q == NewQuote(s, e, s.quotes[i])
             tab == [s.quotes EXCEPT ![i] = q]
  <2>2. Pays(e) => Room(s, e.txn)
    BY <1>2, RowEventIs
  <2>3. /\ q \in Quote /\ q.id = e.id /\ Legs(q, NewLed(s, e))
        /\ Pays(e) => e.txn \in Txn /\ e.txn.quote = e.id
    BY <2>1, <2>2, NewQuoteIs
  <2>4. TabOK(s.quotes) /\ e.id < n /\ e.id # 0
    BY <2>1 DEF Sound, Quote
  <2> HIDE DEF q
  <2>5. TabOK(tab) /\ \A j \in 1..MaxQuotes : tab[j] = IF j = i THEN q ELSE s.quotes[j]
    BY <2>1, <2>3, <2>4, RowChange
  <2> HIDE DEF tab
  <2>6. \A j \in 1..MaxQuotes : tab[j].id < n
    BY <2>3, <2>4, <2>5 DEF Sound
  <2>7. ASSUME NEW j \in 1..MaxQuotes, tab[j].id # 0 PROVE Legs(tab[j], NewLed(s, e))
    <3>1. CASE j = i
      BY <2>3, <2>5, <3>1
    <3>2. CASE j # i
      <4>1. tab[j] = s.quotes[j] /\ Legs(s.quotes[j], s.led) /\ s.quotes[j].id # e.id /\ LedOK(s.led)
        BY <2>1, <2>4, <2>5, <2>7, <3>2 DEF Sound, TabOK
      <4>2. CASE Pays(e)
        <5>1. s.led.total < MaxSeq /\ MaxSeq \in Nat
          BY <2>2, <4>2 DEF Room, ExchangeAssumption, LedgerOpsAssumption
        <5> QED BY <2>3, <4>1, <4>2, <5>1, LegsStay DEF NewLed
      <4>3. CASE ~Pays(e)
        BY <4>1, <4>3 DEF NewLed
      <4> QED BY <4>2, <4>3
    <3> QED BY <3>1, <3>2
  <2>8. ApplyEvent(s, e).state = With(s, NewLed(s, e), NewSlots(s, e), tab)
    BY <2>1 DEF tab, q
  <2>9. CASE Pays(e)
    <3>1. Sound(With(s, NextLed(s.led, e.txn), s.slots \cup {e.txn.from, e.txn.to}, tab), n)
      BY <2>2, <2>3, <2>4, <2>5, <2>6, <2>7, <2>9, RecordSound DEF NewLed
    <3> QED BY <2>8, <2>9, <3>1 DEF NewLed, NewSlots
  <2>10. CASE ~Pays(e)
    <3>1. Sound(With(s, s.led, s.slots, tab), n)
      BY <2>5, <2>6, <2>7, <2>10, TabSound DEF NewLed
    <3> QED BY <2>8, <2>10, <3>1 DEF NewLed, NewSlots
  <2> QED BY <2>9, <2>10
<1> QED BY <1>1, <1>2

\* RAM and the journal make the same of it.
LEMMA RowEventAgree ==
    ASSUME ExchangeAssumption, NEW s, NEW d, NEW n \in Nat, Sound(s, n), Sound(d, n), Agree(s, d),
           NEW e, RowEvent(e), Fits(e, s, n), Has(s.quotes, e.id)
    PROVE  /\ Fits(e, d, n)
           /\ ApplyEvent(s, e).ok /\ Has(d.quotes, e.id) => ApplyEvent(d, e).ok
           /\ ApplyEvent(d, e).ok =>
                 /\ Agree(ApplyEvent(s, e).state, ApplyEvent(d, e).state)
                 /\ Match(s, d) => Match(ApplyEvent(s, e).state, ApplyEvent(d, e).state)
<1>1. /\ s.led = d.led /\ s.slots = d.slots /\ s.others = d.others /\ s.active = d.active
      /\ TabOK(s.quotes) /\ TabOK(d.quotes) /\ e.id # 0
      /\ DOMAIN s.quotes = 1..MaxQuotes /\ DOMAIN d.quotes = 1..MaxQuotes
  BY DEF Agree, Sound, TabOK, Fits, RowEvent
<1>2. PICK k \in 1..MaxQuotes : s.quotes[k].id = e.id
  BY <1>1 DEF Has
<1>3. \A j \in 1..MaxQuotes : d.quotes[j].id = e.id => d.quotes[j] = s.quotes[k]
  BY <1>1, <1>2 DEF Agree
<1>4. Fits(e, d, n)
  BY <1>1, <1>2, <1>3 DEF Fits, RowEvent
<1>5. Room(s, e.txn) <=> Room(d, e.txn)
  BY <1>1 DEF Room
<1>6. ApplyEvent(s, e).ok /\ Has(d.quotes, e.id) => ApplyEvent(d, e).ok
  BY <1>4, <1>5, RowEventIs
<1>7. ASSUME ApplyEvent(d, e).ok
      PROVE  /\ Agree(ApplyEvent(s, e).state, ApplyEvent(d, e).state)
             /\ Match(s, d) => Match(ApplyEvent(s, e).state, ApplyEvent(d, e).state)
  <2>1. ApplyEvent(s, e).ok /\ (Pays(e) => Room(s, e.txn))
    <3>1. Pays(e) => Room(d, e.txn)
      BY <1>4, <1>7, RowEventIs
    <3> QED BY <1>5, <3>1, RowEventIs
  <2>2. PICK i \in 1..MaxQuotes :
           /\ s.quotes[i].id = e.id /\ s.quotes[i] \in Quote
           /\ ApplyEvent(s, e).state =
                 With(s, NewLed(s, e), NewSlots(s, e), [s.quotes EXCEPT ![i] = NewQuote(s, e, s.quotes[i])])
    BY <2>1, RowEventIs
  <2>3. PICK j \in 1..MaxQuotes :
           /\ d.quotes[j].id = e.id /\ d.quotes[j] \in Quote
           /\ ApplyEvent(d, e).state =
                 With(d, NewLed(d, e), NewSlots(d, e), [d.quotes EXCEPT ![j] = NewQuote(d, e, d.quotes[j])])
    BY <1>4, <1>7, RowEventIs
  <2> DEFINE q == NewQuote(s, e, s.quotes[i])
             st == [s.quotes EXCEPT ![i] = q]
             dt == [d.quotes EXCEPT ![j] = q]
  <2>4. NewQuote(d, e, d.quotes[j]) = q /\ NewLed(d, e) = NewLed(s, e) /\ NewSlots(d, e) = NewSlots(s, e)
    <3>1. d.quotes[j] = s.quotes[i]
      BY <1>1, <2>2, <2>3 DEF Agree
    <3> QED BY <1>1, <3>1 DEF NewQuote, NewLed, NewSlots
  <2>5. q.id = e.id /\ Closed(q)
    BY <2>1, <2>2, NewQuoteIs
  <2> HIDE DEF q
  <2>6. \A x \in 1..MaxQuotes : /\ st[x] = IF x = i THEN q ELSE s.quotes[x]
                                /\ dt[x] = IF x = j THEN q ELSE d.quotes[x]
    BY <1>1
  <2>7. /\ \A x \in 1..MaxQuotes : s.quotes[x].id = e.id => x = i
        /\ \A x \in 1..MaxQuotes : d.quotes[x].id = e.id => x = j
    BY <1>1, <2>2, <2>3 DEF TabOK
  <2>8. DOMAIN st = 1..MaxQuotes /\ DOMAIN dt = 1..MaxQuotes
    BY <1>1
  <2>9. /\ ApplyEvent(s, e).state.quotes = st /\ ApplyEvent(d, e).state.quotes = dt
        /\ ApplyEvent(s, e).state = With(s, NewLed(s, e), NewSlots(s, e), st)
        /\ ApplyEvent(d, e).state = With(d, NewLed(s, e), NewSlots(s, e), dt)
    BY <2>2, <2>3, <2>4 DEF With, q
  <2>10. \A x \in 1..MaxQuotes : st[x].id = s.quotes[x].id /\ dt[x].id = d.quotes[x].id
    BY <2>2, <2>3, <2>5, <2>6
  <2>11. Match(s, d) /\ FreeRows(dt) # {} => st = dt
    <3>1. FreeRows(dt) = FreeRows(d.quotes)
      BY <1>1, <2>8, <2>10 DEF FreeRows
    <3>2. s.quotes = d.quotes => i = j
      BY <2>2, <2>7
    <3> QED BY <3>1, <3>2 DEF Match
  <2> HIDE DEF st, dt
  <2>12. \A x, y \in 1..MaxQuotes : st[x].id = dt[y].id /\ st[x].id # 0 => st[x] = dt[y]
    BY <2>2, <2>3, <2>5, <2>6, <2>7, <2>10 DEF Agree
  <2>13. Agree(ApplyEvent(s, e).state, ApplyEvent(d, e).state)
    BY <1>1, <2>9, <2>12 DEF Agree, With
  <2>14. ASSUME Match(s, d) PROVE Match(ApplyEvent(s, e).state, ApplyEvent(d, e).state)
    <3>1. /\ \A x \in 1..MaxQuotes : st[x].id # 0 /\ ~Closed(st[x]) => x # i /\ Has(d.quotes, st[x].id)
          /\ \A x \in 1..MaxQuotes : dt[x].id # 0 /\ ~Closed(dt[x]) => x # j /\ Has(s.quotes, dt[x].id)
      BY <2>5, <2>6, <2>14 DEF Match
    <3>2. /\ \A id : Has(d.quotes, id) => Has(dt, id)
          /\ \A id : Has(s.quotes, id) => Has(st, id)
      BY <1>1, <2>8, <2>10 DEF Has
    <3> QED BY <2>9, <2>11, <2>14, <3>1, <3>2 DEF Match
  <2> QED BY <2>13, <2>14
<1> QED BY <1>4, <1>6, <1>7

-----------------------------------------------------------------------------
(* Payments without a quote, and the status of a member. *)

\* Identifiers that belong to nothing yet still do when one more is given out.
LEMMA SoundLater ==
    ASSUME ExchangeAssumption, NEW s, NEW n \in Nat, Sound(s, n)
    PROVE  Sound(s, n + 1)
<1>1. \A i \in 1..MaxQuotes : s.quotes[i].id \in Nat
  <2>1. \A i \in 1..MaxQuotes : s.quotes[i] \in Quote \cup {NoQuote}
    BY DEF Sound, TabOK
  <2>2. \A q \in Quote \cup {NoQuote} : q.id \in Nat
    BY DEF Quote, NoQuote, ExchangeAssumption
  <2> QED BY <2>1, <2>2
<1>2. \A k \in Kept(s.led) : s.led.txns[k].quote \in Nat
  BY DEF Sound, LedOK, Txn
<1> QED BY <1>1, <1>2 DEF Sound

\* Two states that may differ in their tables only.
Alike(s, d) ==
    s.led = d.led /\ s.slots = d.slots /\ s.others = d.others /\ s.active = d.active

\* Such an event is refused, or leaves the table alone.
LEMMA PlainEventIs ==
    ASSUME ExchangeAssumption, NEW s, NEW n \in Nat, Sound(s, n),
           NEW e, e.type \in {"Transaction", "UserUpdated"}, Fits(e, s, n)
    PROVE  /\ ApplyEvent(s, e).ok <=> (e.type = "Transaction" => Room(s, e.txn))
           /\ ApplyEvent(s, e).state.quotes = s.quotes
           /\ Sound(ApplyEvent(s, e).state, n)
           /\ \A d : Sound(d, n) /\ Alike(s, d) =>
                  /\ ApplyEvent(d, e).ok = ApplyEvent(s, e).ok
                  /\ Alike(ApplyEvent(s, e).state, ApplyEvent(d, e).state)
<1>1. CASE e.type = "Transaction"
  <2> DEFINE t == e.txn
  <2>1. t \in Txn /\ t.quote < n /\ (t.quote = 0 \/ t.reverses # 0)
    BY <1>1 DEF Fits
  <2>2. \A d : Sound(d, n) =>
           ApplyEvent(d, e) = IF Room(d, t)
              THEN Done(With(d, NextLed(d.led, t), d.slots \cup {t.from, t.to}, d.quotes))
              ELSE Refused(d)
    <3>1. \A d : Sound(d, n) => Record(d, t) = With(d, NextLed(d.led, t), d.slots \cup {t.from, t.to}, d.quotes)
      BY RecordIs
    <3>2. \A d : ApplyEvent(d, e) = IF Room(d, t) THEN Done(Record(d, t)) ELSE Refused(d)
      BY <1>1 DEF ApplyEvent, ApplyTransaction
    <3> QED BY <3>1, <3>2
  <2> HIDE DEF t
  <2>3. CASE Room(s, t)
    <3>1. /\ TabOK(s.quotes) /\ LedOK(s.led) /\ s.led.total < MaxSeq /\ MaxSeq \in Nat
          /\ \A i \in 1..MaxQuotes : s.quotes[i].id < n
          /\ \A i \in 1..MaxQuotes : s.quotes[i].id # 0 => Legs(s.quotes[i], s.led)
      BY <2>3 DEF Sound, Room, ExchangeAssumption, LedgerOpsAssumption
    <3>2. \A i \in 1..MaxQuotes : s.quotes[i].id # 0 => Legs(s.quotes[i], NextLed(s.led, t))
      BY <2>1, <3>1, LegsStay
    <3>3. Sound(With(s, NextLed(s.led, t), s.slots \cup {t.from, t.to}, s.quotes), n)
      BY <2>1, <2>3, <3>1, <3>2, RecordSound
    <3>4. ApplyEvent(s, e) = Done(With(s, NextLed(s.led, t), s.slots \cup {t.from, t.to}, s.quotes))
      BY <2>2, <2>3
    <3>5. ASSUME NEW d, Alike(s, d), Sound(d, n)
          PROVE  ApplyEvent(d, e) = Done(With(d, NextLed(s.led, t), s.slots \cup {t.from, t.to}, d.quotes))
      <4>1. Room(d, t)
        BY <2>3, <3>5 DEF Room, Alike
      <4> QED BY <2>2, <3>5, <4>1 DEF Alike
    <3>6. \A d : Sound(d, n) /\ Alike(s, d) =>
             ApplyEvent(d, e).ok = TRUE /\ Alike(ApplyEvent(s, e).state, ApplyEvent(d, e).state)
      BY <3>4, <3>5 DEF Done, With, Alike
    <3>7. ApplyEvent(s, e).ok = TRUE /\ ApplyEvent(s, e).state.quotes = s.quotes
          /\ Sound(ApplyEvent(s, e).state, n)
      BY <3>3, <3>4 DEF Done, With
    <3> QED BY <1>1, <2>3, <3>6, <3>7 DEF t
  <2>4. CASE ~Room(s, t)
    <3>1. ApplyEvent(s, e) = Refused(s)
      BY <2>2, <2>4
    <3>2. ASSUME NEW d, Alike(s, d), Sound(d, n)
          PROVE  ApplyEvent(d, e) = Refused(d)
      <4>1. ~Room(d, t)
        BY <2>4, <3>2 DEF Room, Alike
      <4> QED BY <2>2, <3>2, <4>1
    <3>3. \A d : Sound(d, n) /\ Alike(s, d) =>
             ApplyEvent(d, e).ok = FALSE /\ Alike(ApplyEvent(s, e).state, ApplyEvent(d, e).state)
      BY <3>1, <3>2 DEF Refused, Alike
    <3>4. ApplyEvent(s, e).ok = FALSE /\ ApplyEvent(s, e).state = s
      BY <3>1 DEF Refused
    <3> QED BY <1>1, <2>4, <3>3, <3>4 DEF t
  <2> QED BY <2>3, <2>4
<1>2. CASE e.type = "UserUpdated"
  <2> DEFINE who(d) == IF e.active THEN d.active \cup {e.user} ELSE d.active \ {e.user}
  <2>1. e.user \in User
    BY <1>2 DEF Fits
  <2>2. \A d : ApplyEvent(d, e) = Done([d EXCEPT !.active = who(d)])
    BY <1>2 DEF ApplyEvent, ApplyUserUpdated
  <2>3. \A d : Alike(s, d) => who(d) = who(s)
    BY DEF Alike
  <2>4. who(s) \subseteq User
    BY <2>1 DEF Sound
  <2> HIDE DEF who
  <2>5. \A d : Sound(d, n) =>
           [d EXCEPT !.active = who(d)] =
           [led |-> d.led, slots |-> d.slots, others |-> d.others, quotes |-> d.quotes, active |-> who(d)]
    BY DEF Sound
  <2>6. \A d : Sound(d, n) => ApplyEvent(d, e) =
           Done([led |-> d.led, slots |-> d.slots, others |-> d.others, quotes |-> d.quotes, active |-> who(d)])
    BY <2>2, <2>5
  <2>7. Sound([led |-> s.led, slots |-> s.slots, others |-> s.others, quotes |-> s.quotes, active |-> who(s)], n)
    BY <2>4 DEF Sound
  <2>8. ApplyEvent(s, e).ok = TRUE /\ ApplyEvent(s, e).state.quotes = s.quotes
        /\ Sound(ApplyEvent(s, e).state, n)
    BY <2>6, <2>7 DEF Done
  <2>9. \A d : Sound(d, n) /\ Alike(s, d) =>
           ApplyEvent(d, e).ok = TRUE /\ Alike(ApplyEvent(s, e).state, ApplyEvent(d, e).state)
    BY <2>3, <2>6 DEF Done, Alike
  <2> QED BY <1>2, <2>8, <2>9
<1> QED BY <1>1, <1>2

-----------------------------------------------------------------------------
(* Appends of what is not a new quote. *)

\* RAM and the journal make the same of every such event.
LEMMA EventAgree ==
    ASSUME ExchangeAssumption, NEW s, NEW d, NEW n \in Nat, Sound(s, n), Sound(d, n), Agree(s, d),
           NEW e, e.type # "QuoteCreated", Fits(e, s, n), RowEvent(e) => Has(s.quotes, e.id)
    PROVE  /\ Sound(ApplyEvent(s, e).state, n) /\ Sound(ApplyEvent(d, e).state, n)
           /\ ApplyEvent(s, e).ok /\ (RowEvent(e) => Has(d.quotes, e.id)) => ApplyEvent(d, e).ok
           /\ ApplyEvent(d, e).ok =>
                 /\ Agree(ApplyEvent(s, e).state, ApplyEvent(d, e).state)
                 /\ Match(s, d) => Match(ApplyEvent(s, e).state, ApplyEvent(d, e).state)
<1>1. CASE RowEvent(e)
  <2>1. Has(s.quotes, e.id)
    BY <1>1
  <2>2. Fits(e, d, n)
    BY <1>1, <2>1, RowEventAgree
  <2>3. Sound(ApplyEvent(s, e).state, n) /\ Sound(ApplyEvent(d, e).state, n)
    BY <1>1, <2>2, RowEventSound
  <2> QED BY <1>1, <2>1, <2>3, RowEventAgree
<1>2. CASE ~RowEvent(e)
  <2>1. e.type \in {"Transaction", "UserUpdated"} /\ Fits(e, d, n)
    BY <1>2 DEF RowEvent, Fits
  <2>2. Alike(s, d)
    BY DEF Agree, Alike
  <2>3. /\ ApplyEvent(s, e).state.quotes = s.quotes /\ ApplyEvent(d, e).state.quotes = d.quotes
        /\ Sound(ApplyEvent(s, e).state, n) /\ Sound(ApplyEvent(d, e).state, n)
        /\ ApplyEvent(d, e).ok = ApplyEvent(s, e).ok
        /\ Alike(ApplyEvent(s, e).state, ApplyEvent(d, e).state)
    BY <2>1, <2>2, PlainEventIs
  <2> QED BY <1>2, <2>3 DEF Agree, Match, Alike
<1> QED BY <1>1, <1>2

\* An event is done or refused.
LEMMA OutcomeIs ==
    ASSUME NEW s, NEW n, NEW x, NEW e, Fits(e, x, n)
    PROVE  /\ ApplyEvent(s, e) = [ok |-> ApplyEvent(s, e).ok, state |-> ApplyEvent(s, e).state]
           /\ ApplyEvent(s, e).ok \in BOOLEAN
<1>1. e.type \in {"Transaction", "QuoteCreated", "QuoteTaken", "QuoteSettled", "QuoteUpdated", "UserUpdated"}
  BY DEF Fits
<1>2. \E r : ApplyEvent(s, e) = Done(r) \/ ApplyEvent(s, e) = Refused(r)
  BY <1>1 DEF ApplyEvent, ApplyTransaction, ApplyQuoteCreated, ApplyQuoteTaken, ApplyQuoteSettled,
              ApplyQuoteUpdated, ApplyUserUpdated, PutQuote
<1>3. PICK r : ApplyEvent(s, e) = Done(r) \/ ApplyEvent(s, e) = Refused(r)
  BY <1>2
<1>4. CASE ApplyEvent(s, e) = Done(r)
  BY <1>4 DEF Done
<1>5. CASE ApplyEvent(s, e) = Refused(r)
  BY <1>5 DEF Refused
<1> QED BY <1>3, <1>4, <1>5

\* A journal is what the RAM of the next boot is like.
LEMMA BootMirrored ==
    ASSUME NEW d, NEW n, d = [ok |-> d.ok, state |-> d.state], d.ok \in BOOLEAN, Sound(d.state, n),
           RoomForQuotes => d.ok
    PROVE  Mirrored(d.state, d, d.ok, n)
<1>1. DOMAIN d.state.quotes = 1..MaxQuotes
      /\ \A i, j \in 1..MaxQuotes : d.state.quotes[i].id = d.state.quotes[j].id /\ d.state.quotes[i].id # 0 => i = j
  BY DEF Sound, TabOK
<1>2. Agree(d.state, d.state)
  BY <1>1 DEF Agree
<1>3. Match(d.state, d.state)
  BY <1>1 DEF Match, Has
<1> QED BY <1>2, <1>3 DEF Mirrored

\* Whatever comes of an append, RAM and the journal are mirrored again.
LEMMA AppendMirrored ==
    ASSUME ExchangeAssumption, NEW n \in Nat, Mirrored(live, disk, up, n), up,
           NEW e, e.type # "QuoteCreated", Fits(e, live, n), RowEvent(e) => Has(live.quotes, e.id),
           RoomForQuotes => ApplyEvent(live, e).ok,
           RoomForQuotes /\ RowEvent(e) => Has(disk.state.quotes, e.id),
           AppendEvent(live, e)
    PROVE  Mirrored(live', disk', up', n)
<1> DEFINE r == ApplyEvent(live, e)
           d == Log!Replayed(disk, e)
<1>1. /\ Sound(live, n) /\ Sound(disk.state, n) /\ disk.ok \in BOOLEAN /\ up \in BOOLEAN
      /\ disk = [ok |-> disk.ok, state |-> disk.state]
      /\ disk.ok => Agree(live, disk.state)
      /\ RoomForQuotes => disk.ok /\ Match(live, disk.state)
  BY DEF Mirrored
<1>2. /\ d = [ok |-> d.ok, state |-> d.state] /\ d.ok \in BOOLEAN
      /\ Sound(d.state, n) /\ Sound(r.state, n)
      /\ d.ok => Agree(r.state, d.state)
      /\ RoomForQuotes => d.ok /\ Match(r.state, d.state)
  <2>1. CASE disk.ok
    <3>1. d = ApplyEvent(disk.state, e)
      BY <2>1 DEF Log!Replayed
    <3>2. d = [ok |-> d.ok, state |-> d.state] /\ d.ok \in BOOLEAN
      BY <3>1, OutcomeIs
    <3> QED BY <1>1, <2>1, <3>1, <3>2, EventAgree
  <2>2. CASE ~disk.ok
    <3>1. d = disk
      BY <2>2 DEF Log!Replayed
    <3>2. Sound(r.state, n)
      BY <1>1, RowEventSound, PlainEventIs DEF Fits, RowEvent
    <3> QED BY <1>1, <2>2, <3>1, <3>2
  <2> QED BY <1>1, <2>1, <2>2
<1> HIDE DEF d
<1>3. CASE Log!Commit(live, e)
  <2>1. live' = r.state /\ disk' = d /\ up' = up
    BY <1>3 DEF Log!Commit, d
  <2> HIDE DEF r
  <2>2. Mirrored(r.state, d, up, n)
    BY <1>2 DEF Mirrored
  <2> QED BY <2>1, <2>2
<1>4. CASE Log!CommitFails(live)
  BY <1>4 DEF Log!CommitFails
<1>5. CASE Log!FoundAtBoot(e)
  <2>1. live' = d.state /\ disk' = d /\ up' = d.ok
    BY <1>5 DEF Log!FoundAtBoot, Log!Boot, d
  <2>2. Mirrored(d.state, d, d.ok, n)
    BY <1>2, BootMirrored
  <2> QED BY <2>1, <2>2
<1> QED BY <1>3, <1>4, <1>5 DEF AppendEvent

-----------------------------------------------------------------------------
(* A new quote. *)

\* A table with a free row has less than its rows in text.
LEMMA RowsFew ==
    ASSUME ExchangeAssumption, NEW tab, TabOK(tab), FreeRows(tab) # {}
    PROVE  Cardinality(Rows(tab)) < MaxQuotes /\ Cardinality(Rows(tab)) \in Nat
<1> DEFINE S == 1..MaxQuotes
           T == S \ FreeRows(tab)
           f == [i \in T |-> tab[i]]
<1>1. MaxQuotes \in Nat /\ DOMAIN tab = S /\ FreeRows(tab) \subseteq S
  BY DEF ExchangeAssumption, TabOK, FreeRows
<1>2. PICK x \in S : x \in FreeRows(tab)
  BY <1>1
<1>3. IsFiniteSet(S) /\ Cardinality(S) = MaxQuotes
  BY <1>1, <1>2, FS_Interval
<1>4. IsFiniteSet(S \ {x}) /\ Cardinality(S \ {x}) = MaxQuotes - 1
  BY <1>3, FS_RemoveElement
<1>5. T \in SUBSET (S \ {x})
  BY <1>2
<1> HIDE DEF S
<1>6. IsFiniteSet(T) /\ Cardinality(T) <= Cardinality(S \ {x})
  BY <1>4, <1>5, FS_Subset
<1>7. f \in Surjection(T, Rows(tab))
  BY <1>1 DEF Rows, Surjection
<1> HIDE DEF f, T
<1>8. IsFiniteSet(Rows(tab)) /\ Cardinality(Rows(tab)) <= Cardinality(T)
  BY <1>6, <1>7, FS_Surjection
<1>9. Cardinality(Rows(tab)) \in Nat /\ Cardinality(T) \in Nat
  BY <1>6, <1>8, FS_CardinalityType
<1> QED BY <1>1, <1>4, <1>6, <1>8, <1>9

\* A full table whose open quotes are in a table with a free row has a closed one.
LEMMA SomeClosed ==
    ASSUME ExchangeAssumption, NEW s, NEW d, TabOK(s), TabOK(d), FreeRows(s) # {}, FreeRows(d) = {},
           \A i \in 1..MaxQuotes : d[i].id # 0 /\ ~Closed(d[i]) => Has(s, d[i].id)
    PROVE  \E i \in 1..MaxQuotes : Closed(d[i])
<1> SUFFICES ASSUME \A i \in 1..MaxQuotes : ~Closed(d[i]) PROVE FALSE
  OBVIOUS
<1> DEFINE S == 1..MaxQuotes
           f == [i \in S |-> Row(s, d[i].id)]
<1>1. MaxQuotes \in Nat /\ DOMAIN s = S /\ DOMAIN d = S
  BY DEF ExchangeAssumption, TabOK
<1>2. PICK x \in S : s[x].id = 0
  BY <1>1 DEF FreeRows
<1>3. \A i \in S : d[i].id # 0 /\ Has(s, d[i].id)
  BY <1>1 DEF FreeRows
<1>4. \A i \in S : f[i] \in S /\ s[f[i]].id = d[i].id
  BY <1>3, RowIs
<1>5. f \in [S -> S \ {x}]
  BY <1>2, <1>3, <1>4
<1>6. \A i, j \in S : f[i] = f[j] => i = j
  BY <1>3, <1>4 DEF TabOK
<1>7. IsFiniteSet(S) /\ Cardinality(S) = MaxQuotes
  BY <1>1, <1>2, FS_Interval
<1>8. IsFiniteSet(S \ {x}) /\ Cardinality(S \ {x}) < Cardinality(S)
  <2>1. IsFiniteSet(S \ {x}) /\ Cardinality(S \ {x}) = MaxQuotes - 1
    BY <1>2, <1>7, FS_RemoveElement
  <2> QED BY <1>1, <1>7, <2>1
<1> HIDE DEF f, S
<1>9. \E i, j \in S : i # j /\ f[i] = f[j]
  BY <1>5, <1>7, <1>8, FS_PigeonHole
<1> QED BY <1>6, <1>9

\* What becomes of a table: no open quote leaves it, and nothing else comes in.
LEMMA PutIs ==
    ASSUME ExchangeAssumption, NEW s, NEW n \in Nat, n > 0, Sound(s, n), NEW q \in Quote, q.id = n,
           q.status = "OPEN", q.coinTx = 0, q.cashTx = 0
    PROVE  LET p == PutQuote(s, q)
               r == RecycleQuote(s)
           IN  /\ p.ok <=> FreeRows(r.quotes) # {} /\ ~(Cardinality(Rows(r.quotes)) >= Blocks)
               /\ Alike(s, p.state) /\ Sound(p.state, n + 1)
               /\ \A i \in 1..MaxQuotes : p.state.quotes[i] \in {q, s.quotes[i], NoQuote}
               /\ \A i \in 1..MaxQuotes :
                     s.quotes[i].id # 0 /\ ~Closed(s.quotes[i]) => p.state.quotes[i] = s.quotes[i]
               /\ p.ok => Has(p.state.quotes, n)
               /\ p.ok /\ FreeRows(s.quotes) = {} => FreeRows(p.state.quotes) = {}
               /\ p.ok /\ FreeRows(s.quotes) # {} =>
                     p.state.quotes = [s.quotes EXCEPT ![FirstFree(s.quotes)] = q]
<1> DEFINE p == PutQuote(s, q)
           r == RecycleQuote(s)
           x == FirstFree(r.quotes)
<1>1. Sound(r, n)
  BY RecycleSound
<1>2. /\ TabOK(r.quotes) /\ TabOK(s.quotes) /\ MaxQuotes \in Nat /\ NoQuote.id = 0
      /\ DOMAIN s.quotes = 1..MaxQuotes /\ DOMAIN r.quotes = 1..MaxQuotes
      /\ r.quotes \in [1..MaxQuotes -> Quote \cup {NoQuote}]
      /\ \A i \in 1..MaxQuotes : r.quotes[i].id < n
  BY <1>1 DEF Sound, TabOK, NoQuote, ExchangeAssumption
<1>3. /\ Alike(s, r)
      /\ \A i \in 1..MaxQuotes : r.quotes[i] \in {s.quotes[i], NoQuote}
      /\ \A i \in 1..MaxQuotes : s.quotes[i].id # 0 /\ ~Closed(s.quotes[i]) => r.quotes[i] = s.quotes[i]
      /\ FreeRows(s.quotes) # {} => r = s
      /\ FreeRows(s.quotes) = {} => \A i, j \in FreeRows(r.quotes) : i = j
  <2>1. CASE r = s
    BY <2>1 DEF Alike
  <2>2. ASSUME FreeRows(s.quotes) = {},
               NEW c \in 1..MaxQuotes, Closed(s.quotes[c]),
               r = With(s, s.led, s.slots, [s.quotes EXCEPT ![c] = NoQuote])
        PROVE  /\ Alike(s, r)
               /\ \A i \in 1..MaxQuotes : r.quotes[i] \in {s.quotes[i], NoQuote}
               /\ \A i \in 1..MaxQuotes : s.quotes[i].id # 0 /\ ~Closed(s.quotes[i]) => r.quotes[i] = s.quotes[i]
               /\ \A i, j \in FreeRows(r.quotes) : i = j
    <3>1. /\ r.led = s.led /\ r.slots = s.slots /\ r.others = s.others /\ r.active = s.active
          /\ r.quotes = [s.quotes EXCEPT ![c] = NoQuote]
      BY <2>2 DEF With
    <3> HIDE DEF r
    <3>2. \A i \in 1..MaxQuotes : r.quotes[i] = IF i = c THEN NoQuote ELSE s.quotes[i]
      BY <1>2, <3>1
    <3>3. \A i \in FreeRows(r.quotes) : i = c
      BY <1>2, <2>2, <3>2 DEF FreeRows
    <3> QED BY <2>2, <3>1, <3>2, <3>3 DEF Alike
  <2> HIDE DEF r
  <2>3. \/ /\ r = s
           /\ FreeRows(s.quotes) # {} \/ \A i \in 1..MaxQuotes : ~Closed(s.quotes[i])
        \/ /\ FreeRows(s.quotes) = {}
           /\ \E c \in 1..MaxQuotes :
                 /\ Closed(s.quotes[c])
                 /\ r = With(s, s.led, s.slots, [s.quotes EXCEPT ![c] = NoQuote])
    BY RecycleIs DEF r
  <2> QED BY <2>1, <2>2, <2>3
<1>4. p = IF FreeRows(r.quotes) = {} \/ Cardinality(Rows(r.quotes)) >= Blocks THEN Refused(r)
          ELSE Done([r EXCEPT !.quotes[x] = q])
  BY DEF PutQuote
<1> HIDE DEF r, p
<1>5. CASE FreeRows(r.quotes) = {} \/ Cardinality(Rows(r.quotes)) >= Blocks
  <2>1. p.ok = FALSE /\ p.state = r
    BY <1>4, <1>5 DEF Refused
  <2>2. Sound(r, n + 1)
    BY <1>1, SoundLater
  <2> QED BY <1>3, <1>5, <2>1, <2>2 DEF p, r
<1>6. CASE ~(FreeRows(r.quotes) = {} \/ Cardinality(Rows(r.quotes)) >= Blocks)
  <2>1. p.ok = TRUE /\ p.state = [r EXCEPT !.quotes[x] = q]
    BY <1>4, <1>6 DEF Done
  <2>2. x \in FreeRows(r.quotes)
    BY <1>2, <1>6, FirstFreeIn
  <2>3. x \in 1..MaxQuotes /\ r.quotes[x].id = 0
    BY <1>2, <2>2 DEF FreeRows
  <2> DEFINE tab == [r.quotes EXCEPT ![x] = q]
  <2>4. p.state = With(r, r.led, r.slots, tab)
    BY <1>1, <2>1 DEF Sound, With
  <2>5. \A j \in 1..MaxQuotes : r.quotes[j].id # q.id
    BY <1>2
  <2>7. FreeRows(s.quotes) # {} => tab = [s.quotes EXCEPT ![FirstFree(s.quotes)] = q]
    BY <1>3
  <2> HIDE DEF x
  <2>8. TabOK(tab) /\ \A j \in 1..MaxQuotes : tab[j] = IF j = x THEN q ELSE r.quotes[j]
    BY <1>2, <2>3, <2>5, RowChange
  <2> HIDE DEF tab
  <2>9. Sound(With(r, r.led, r.slots, tab), n + 1)
    <3>1. Sound(r, n + 1)
      BY <1>1, SoundLater
    <3>2. \A i \in 1..MaxQuotes : tab[i].id < n + 1
      BY <2>8, <3>1 DEF Sound
    <3>3. \A k \in Kept(r.led) : r.led.txns[k].quote # q.id
      BY <1>1 DEF Sound
    <3>4. Legs(q, r.led)
      BY <3>3 DEF Legs
    <3>5. \A i \in 1..MaxQuotes : tab[i].id # 0 => Legs(tab[i], r.led)
      BY <1>1, <2>8, <3>4 DEF Sound
    <3> QED BY <2>8, <3>1, <3>2, <3>5, TabSound
  <2>10. p.state.quotes = tab /\ Alike(s, p.state)
    BY <1>3, <2>4 DEF With, Alike
  <2>11. DOMAIN tab = 1..MaxQuotes /\ Has(tab, n)
    BY <2>3, <2>8 DEF TabOK, Has
  <2>12. FreeRows(s.quotes) = {} => FreeRows(tab) = {}
    <3>1. \A j \in FreeRows(tab) : j \in FreeRows(r.quotes) /\ j # x
      BY <1>2, <2>8, <2>11 DEF FreeRows
    <3> QED BY <1>3, <2>2, <3>1
  <2>13. /\ \A i \in 1..MaxQuotes : tab[i] \in {q, s.quotes[i], NoQuote}
         /\ \A i \in 1..MaxQuotes : s.quotes[i].id # 0 /\ ~Closed(s.quotes[i]) => tab[i] = s.quotes[i]
    BY <1>3, <2>3, <2>8
  <2>14. Sound(p.state, n + 1)
    BY <2>4, <2>9
  <2> QED BY <1>6, <2>1, <2>7, <2>10, <2>11, <2>12, <2>13, <2>14 DEF p, r
<1> QED BY <1>5, <1>6

\* RAM and the journal, of which only RAM is known to have a free row.
LEMMA PutAgree ==
    ASSUME ExchangeAssumption, NEW s, NEW d, NEW n \in Nat, n > 0, Sound(s, n), Sound(d, n), Agree(s, d),
           NEW q \in Quote, q.id = n, q.status = "OPEN", q.coinTx = 0, q.cashTx = 0,
           FreeRows(s.quotes) # {}
    PROVE  /\ Agree(PutQuote(s, q).state, PutQuote(d, q).state)
           /\ RoomForQuotes /\ Match(s, d) =>
                 /\ PutQuote(s, q).ok /\ PutQuote(d, q).ok
                 /\ Match(PutQuote(s, q).state, PutQuote(d, q).state)
<1> DEFINE p == PutQuote(s, q)
           o == PutQuote(d, q)
           r == RecycleQuote(d)
<1>1. /\ p.ok <=> FreeRows(RecycleQuote(s).quotes) # {} /\ ~(Cardinality(Rows(RecycleQuote(s).quotes)) >= Blocks)
      /\ Alike(s, p.state) /\ Sound(p.state, n + 1)
      /\ \A i \in 1..MaxQuotes : p.state.quotes[i] \in {q, s.quotes[i], NoQuote}
      /\ \A i \in 1..MaxQuotes : s.quotes[i].id # 0 /\ ~Closed(s.quotes[i]) => p.state.quotes[i] = s.quotes[i]
      /\ p.ok => Has(p.state.quotes, n)
      /\ p.ok => p.state.quotes = [s.quotes EXCEPT ![FirstFree(s.quotes)] = q]
  BY PutIs
<1>2. /\ o.ok <=> FreeRows(r.quotes) # {} /\ ~(Cardinality(Rows(r.quotes)) >= Blocks)
      /\ Alike(d, o.state) /\ Sound(o.state, n + 1)
      /\ \A i \in 1..MaxQuotes : o.state.quotes[i] \in {q, d.quotes[i], NoQuote}
      /\ \A i \in 1..MaxQuotes : d.quotes[i].id # 0 /\ ~Closed(d.quotes[i]) => o.state.quotes[i] = d.quotes[i]
      /\ o.ok => Has(o.state.quotes, n)
      /\ o.ok /\ FreeRows(d.quotes) = {} => FreeRows(o.state.quotes) = {}
      /\ o.ok /\ FreeRows(d.quotes) # {} => o.state.quotes = [d.quotes EXCEPT ![FirstFree(d.quotes)] = q]
  BY PutIs
<1>3. RecycleQuote(s) = s
  BY DEF RecycleQuote
<1>4. /\ TabOK(s.quotes) /\ TabOK(d.quotes) /\ NoQuote.id = 0
      /\ \A i \in 1..MaxQuotes : s.quotes[i].id < n /\ d.quotes[i].id < n
      /\ DOMAIN s.quotes = 1..MaxQuotes /\ DOMAIN d.quotes = 1..MaxQuotes
      /\ DOMAIN p.state.quotes = 1..MaxQuotes /\ DOMAIN o.state.quotes = 1..MaxQuotes
  BY <1>1, <1>2 DEF Sound, TabOK, NoQuote
<1>5. Sound(r, n)
  BY RecycleSound
<1> HIDE DEF p, o, r
<1>6. Agree(p.state, o.state)
  <2>1. Alike(p.state, o.state)
    BY <1>1, <1>2 DEF Alike, Agree
  <2>2. ASSUME NEW i \in 1..MaxQuotes, NEW j \in 1..MaxQuotes,
               p.state.quotes[i].id = o.state.quotes[j].id, p.state.quotes[i].id # 0
        PROVE  p.state.quotes[i] = o.state.quotes[j]
    <3>1. p.state.quotes[i] \in {q, s.quotes[i]} /\ o.state.quotes[j] \in {q, d.quotes[j]}
      BY <1>1, <1>2, <1>4, <2>2
    <3>2. s.quotes[i].id # q.id /\ d.quotes[j].id # q.id
      BY <1>4
    <3> QED BY <2>2, <3>1, <3>2 DEF Agree
  <2> QED BY <2>1, <2>2 DEF Alike, Agree
<1>7. ASSUME RoomForQuotes, Match(s, d) PROVE p.ok /\ o.ok /\ Match(p.state, o.state)
  <2>1. p.ok
    <3>1. Cardinality(Rows(s.quotes)) < MaxQuotes /\ Cardinality(Rows(s.quotes)) \in Nat
      BY <1>4, RowsFew
    <3> QED BY <1>1, <1>3, <1>7, <3>1 DEF RoomForQuotes, ExchangeAssumption
  <2>2. FreeRows(r.quotes) # {}
    <3>1. CASE FreeRows(d.quotes) # {}
      BY <3>1 DEF RecycleQuote, r
    <3>2. CASE FreeRows(d.quotes) = {}
      <4>1. \A i \in 1..MaxQuotes : d.quotes[i].id # 0 /\ ~Closed(d.quotes[i]) => Has(s.quotes, d.quotes[i].id)
        BY <1>7 DEF Match
      <4>2. \E i \in 1..MaxQuotes : Closed(d.quotes[i])
        BY <1>4, <3>2, <4>1, SomeClosed
      <4>3. \/ /\ r = d
               /\ FreeRows(d.quotes) # {} \/ \A i \in 1..MaxQuotes : ~Closed(d.quotes[i])
            \/ /\ FreeRows(d.quotes) = {}
               /\ \E c \in 1..MaxQuotes :
                     /\ Closed(d.quotes[c])
                     /\ r = With(d, d.led, d.slots, [d.quotes EXCEPT ![c] = NoQuote])
        BY RecycleIs DEF r
      <4>4. PICK c \in 1..MaxQuotes : r = With(d, d.led, d.slots, [d.quotes EXCEPT ![c] = NoQuote])
        BY <3>2, <4>2, <4>3
      <4>5. r.quotes = [d.quotes EXCEPT ![c] = NoQuote]
        BY <4>4 DEF With
      <4> QED BY <1>4, <4>5 DEF FreeRows
    <3> QED BY <3>1, <3>2
  <2>3. o.ok
    <3>1. TabOK(r.quotes)
      BY <1>5 DEF Sound
    <3>2. Cardinality(Rows(r.quotes)) < MaxQuotes /\ Cardinality(Rows(r.quotes)) \in Nat
      BY <2>2, <3>1, RowsFew
    <3> QED BY <1>2, <1>7, <2>2, <3>2 DEF RoomForQuotes, ExchangeAssumption
  <2>4. /\ \A id : id # 0 /\ (\E i \in 1..MaxQuotes : d.quotes[i].id = id /\ ~Closed(d.quotes[i])) => Has(o.state.quotes, id)
        /\ \A id : id # 0 /\ (\E i \in 1..MaxQuotes : s.quotes[i].id = id /\ ~Closed(s.quotes[i])) => Has(p.state.quotes, id)
    BY <1>1, <1>2, <1>4 DEF Has
  <2>5. ASSUME NEW i \in 1..MaxQuotes, p.state.quotes[i].id # 0, ~Closed(p.state.quotes[i])
        PROVE  Has(o.state.quotes, p.state.quotes[i].id)
    <3>1. CASE p.state.quotes[i] = q
      BY <1>2, <2>3, <3>1
    <3>2. CASE p.state.quotes[i] = s.quotes[i]
      <4>1. Has(d.quotes, s.quotes[i].id)
        BY <1>7, <2>5, <3>2 DEF Match
      <4>2. PICK j \in 1..MaxQuotes : d.quotes[j].id = s.quotes[i].id
        BY <1>4, <4>1 DEF Has
      <4>3. d.quotes[j] = s.quotes[i]
        BY <2>5, <3>2, <4>2 DEF Agree
      <4> QED BY <2>4, <2>5, <3>2, <4>2, <4>3
    <3> QED BY <1>1, <1>4, <2>5, <3>1, <3>2
  <2>6. ASSUME NEW i \in 1..MaxQuotes, o.state.quotes[i].id # 0, ~Closed(o.state.quotes[i])
        PROVE  Has(p.state.quotes, o.state.quotes[i].id)
    <3>1. CASE o.state.quotes[i] = q
      BY <1>1, <2>1, <3>1
    <3>2. CASE o.state.quotes[i] = d.quotes[i]
      <4>1. Has(s.quotes, d.quotes[i].id)
        BY <1>7, <2>6, <3>2 DEF Match
      <4>2. PICK j \in 1..MaxQuotes : s.quotes[j].id = d.quotes[i].id
        BY <1>4, <4>1 DEF Has
      <4>3. s.quotes[j] = d.quotes[i]
        BY <2>6, <3>2, <4>2 DEF Agree
      <4> QED BY <2>4, <2>6, <3>2, <4>2, <4>3
    <3> QED BY <1>2, <1>4, <2>6, <3>1, <3>2
  <2>7. FreeRows(o.state.quotes) # {} => p.state.quotes = o.state.quotes
    BY <1>1, <1>2, <1>7, <2>1, <2>3 DEF Match
  <2> QED BY <2>1, <2>3, <2>5, <2>6, <2>7 DEF Match
<1> QED BY <1>6, <1>7 DEF p, o

\* The caller of PostQuote gives up the row before it appends.
LEMMA RecycleMirrored ==
    ASSUME ExchangeAssumption, NEW s, NEW d, NEW n \in Nat, n > 0, Sound(s, n), Sound(d, n), Agree(s, d)
    PROVE  /\ Agree(RecycleQuote(s), d)
           /\ Match(s, d) => Match(RecycleQuote(s), d)
<1> DEFINE r == RecycleQuote(s)
<1>1. CASE r = s
  BY <1>1
<1>2. ASSUME FreeRows(s.quotes) = {},
             NEW c \in 1..MaxQuotes, Closed(s.quotes[c]),
             r = With(s, s.led, s.slots, [s.quotes EXCEPT ![c] = NoQuote])
      PROVE  Agree(r, d) /\ (Match(s, d) => Match(r, d))
  <2>1. /\ Alike(r, s) /\ r.quotes = [s.quotes EXCEPT ![c] = NoQuote]
    BY <1>2 DEF With, Alike
  <2> HIDE DEF r
  <2>2. DOMAIN s.quotes = 1..MaxQuotes /\ DOMAIN r.quotes = 1..MaxQuotes /\ NoQuote.id = 0
        /\ DOMAIN d.quotes = 1..MaxQuotes
    BY <2>1 DEF Sound, TabOK, NoQuote
  <2>3. \A i \in 1..MaxQuotes : r.quotes[i] = IF i = c THEN NoQuote ELSE s.quotes[i]
    BY <2>1, <2>2
  <2>4. Agree(r, d)
    BY <2>1, <2>2, <2>3 DEF Agree, Alike
  <2>5. ASSUME Match(s, d) PROVE Match(r, d)
    <3>1. FreeRows(d.quotes) = {}
      BY <1>2, <2>5 DEF Match
    <3>2. ASSUME NEW i \in 1..MaxQuotes, d.quotes[i].id # 0, ~Closed(d.quotes[i])
          PROVE  Has(r.quotes, d.quotes[i].id)
      <4>1. Has(s.quotes, d.quotes[i].id)
        BY <2>5, <3>2 DEF Match
      <4>2. PICK j \in 1..MaxQuotes : s.quotes[j].id = d.quotes[i].id
        BY <2>2, <4>1 DEF Has
      <4>3. s.quotes[j] = d.quotes[i]
        BY <3>2, <4>2 DEF Agree
      <4>4. j # c
        BY <1>2, <3>2, <4>3
      <4> QED BY <2>2, <2>3, <4>2, <4>4 DEF Has
    <3>3. \A i \in 1..MaxQuotes : r.quotes[i].id # 0 /\ ~Closed(r.quotes[i]) => Has(d.quotes, r.quotes[i].id)
      BY <2>2, <2>3, <2>5 DEF Match
    <3> QED BY <3>1, <3>2, <3>3 DEF Match
  <2> QED BY <2>4, <2>5
<1> HIDE DEF r
<1>3. \/ r = s
      \/ /\ FreeRows(s.quotes) = {}
         /\ \E c \in 1..MaxQuotes :
               /\ Closed(s.quotes[c])
               /\ r = With(s, s.led, s.slots, [s.quotes EXCEPT ![c] = NoQuote])
  BY RecycleIs DEF r
<1> QED BY <1>1, <1>2, <1>3 DEF r

\* Quote id is in the table and open.
OpenIn(s, id) == id # 0 /\ \E i \in 1..MaxQuotes : s.quotes[i].id = id /\ ~Closed(s.quotes[i])

\* What is open is in the table, also after a row was given up or a quote was added.
LEMMA OpenStays ==
    ASSUME ExchangeAssumption, NEW s, NEW n \in Nat, n > 0, Sound(s, n), NEW id, OpenIn(s, id),
           NEW q \in Quote, q.id = n, q.status = "OPEN", q.coinTx = 0, q.cashTx = 0
    PROVE  OpenIn(RecycleQuote(s), id) /\ Has(s.quotes, id) /\ Has(PutQuote(s, q).state.quotes, id)
<1>1. PICK i \in 1..MaxQuotes : s.quotes[i].id = id /\ ~Closed(s.quotes[i]) /\ id # 0
  BY DEF OpenIn
<1>2. DOMAIN s.quotes = 1..MaxQuotes
  BY DEF Sound, TabOK
<1>3. OpenIn(RecycleQuote(s), id)
  <2> DEFINE r == RecycleQuote(s)
  <2>1. ASSUME NEW c \in 1..MaxQuotes, Closed(s.quotes[c]),
               r = With(s, s.led, s.slots, [s.quotes EXCEPT ![c] = NoQuote])
        PROVE  OpenIn(r, id)
    <3>1. r.quotes = [s.quotes EXCEPT ![c] = NoQuote]
      BY <2>1 DEF With
    <3> HIDE DEF r
    <3>2. r.quotes[i] = s.quotes[i]
      BY <1>1, <1>2, <2>1, <3>1
    <3> QED BY <1>1, <3>2 DEF OpenIn
  <2> HIDE DEF r
  <2>2. \/ r = s
        \/ \E c \in 1..MaxQuotes :
              /\ Closed(s.quotes[c])
              /\ r = With(s, s.led, s.slots, [s.quotes EXCEPT ![c] = NoQuote])
    BY RecycleIs DEF r
  <2> QED BY <2>1, <2>2 DEF r
<1>4. Has(PutQuote(s, q).state.quotes, id)
  <2> DEFINE y == PutQuote(s, q).state
  <2>1. /\ Sound(y, n + 1)
        /\ \A j \in 1..MaxQuotes : s.quotes[j].id # 0 /\ ~Closed(s.quotes[j]) => y.quotes[j] = s.quotes[j]
    BY PutIs
  <2> HIDE DEF y
  <2>2. DOMAIN y.quotes = 1..MaxQuotes
    BY <2>1 DEF Sound, TabOK
  <2>3. y.quotes[i].id = id
    BY <1>1, <2>1
  <2> QED BY <2>2, <2>3 DEF Has, y
<1> QED BY <1>1, <1>2, <1>3, <1>4 DEF Has

\* Whatever comes of the append of a new quote, RAM and the journal are mirrored again.
LEMMA PostMirrored ==
    ASSUME ExchangeAssumption, NEW n \in Nat, n > 0, Mirrored(live, disk, up, n), up,
           NEW q \in Quote, q.id = n, q.status = "OPEN", q.coinTx = 0, q.cashTx = 0,
           FreeRows(RecycleQuote(live).quotes) # {},
           AppendEvent(RecycleQuote(live), [type |-> "QuoteCreated", quote |-> q])
    PROVE  /\ Mirrored(live', disk', up', n + 1)
           /\ RoomForQuotes => \A id : OpenIn(live, id) => Has(live'.quotes, id)
<1> DEFINE e == [type |-> "QuoteCreated", quote |-> q]
           s == RecycleQuote(live)
           p == PutQuote(s, q)
           d == Log!Replayed(disk, e)
<1>1. /\ Sound(live, n) /\ Sound(disk.state, n) /\ disk.ok \in BOOLEAN /\ up \in BOOLEAN
      /\ disk = [ok |-> disk.ok, state |-> disk.state]
      /\ disk.ok => Agree(live, disk.state)
      /\ RoomForQuotes => disk.ok /\ Match(live, disk.state)
  BY DEF Mirrored
<1>2. /\ Sound(s, n) /\ Sound(s, n + 1)
      /\ disk.ok => Agree(s, disk.state)
      /\ RoomForQuotes => Match(s, disk.state)
  BY <1>1, RecycleSound, SoundLater, RecycleMirrored
<1>3. FreeRows(s.quotes) # {}
  OBVIOUS
<1> HIDE DEF s
<1>4. \A x : ApplyEvent(x, e) = PutQuote(x, q)
  BY DEF ApplyEvent, ApplyQuoteCreated
<1>5. Sound(p.state, n + 1)
  BY <1>2, PutIs
<1>6. /\ d = [ok |-> d.ok, state |-> d.state] /\ d.ok \in BOOLEAN
      /\ Sound(d.state, n + 1)
      /\ d.ok => Agree(p.state, d.state)
      /\ RoomForQuotes => d.ok /\ Match(p.state, d.state)
  <2>1. CASE disk.ok
    <3>1. d = PutQuote(disk.state, q)
      BY <1>4, <2>1 DEF Log!Replayed
    <3> HIDE DEF d
    <3>2. d = [ok |-> d.ok, state |-> d.state] /\ d.ok \in BOOLEAN
      <4>1. PICK x : PutQuote(disk.state, q) = Done(x) \/ PutQuote(disk.state, q) = Refused(x)
        BY DEF PutQuote
      <4>2. CASE PutQuote(disk.state, q) = Done(x)
        BY <3>1, <4>2 DEF Done
      <4>3. CASE PutQuote(disk.state, q) = Refused(x)
        BY <3>1, <4>3 DEF Refused
      <4> QED BY <4>1, <4>2, <4>3
    <3>3. Sound(d.state, n + 1)
      BY <1>1, <3>1, PutIs
    <3>4. Agree(p.state, d.state) /\ (RoomForQuotes => d.ok /\ Match(p.state, d.state))
      BY <1>1, <1>2, <1>3, <2>1, <3>1, PutAgree
    <3> QED BY <3>2, <3>3, <3>4
  <2>2. CASE ~disk.ok
    <3>1. d = disk
      BY <2>2 DEF Log!Replayed
    <3>2. Sound(disk.state, n + 1)
      BY <1>1, SoundLater
    <3> QED BY <1>1, <2>2, <3>1, <3>2
  <2> QED BY <1>1, <2>1, <2>2
<1>7. ASSUME NEW id, OpenIn(live, id)
      PROVE  OpenIn(s, id) /\ (RoomForQuotes => OpenIn(disk.state, id))
  <2>1. OpenIn(s, id)
    BY <1>1, <1>7, OpenStays DEF s
  <2>2. ASSUME RoomForQuotes PROVE OpenIn(disk.state, id)
    <3>1. PICK i \in 1..MaxQuotes : live.quotes[i].id = id /\ ~Closed(live.quotes[i]) /\ id # 0
      BY <1>7 DEF OpenIn
    <3>2. Has(disk.state.quotes, id) /\ DOMAIN disk.state.quotes = 1..MaxQuotes
      BY <1>1, <2>2, <3>1 DEF Match, Sound, TabOK
    <3>3. PICK j \in 1..MaxQuotes : disk.state.quotes[j].id = id
      BY <3>2 DEF Has
    <3>4. disk.state.quotes[j] = live.quotes[i]
      BY <1>1, <2>2, <3>1, <3>3 DEF Agree
    <3> QED BY <3>1, <3>3, <3>4 DEF OpenIn
  <2> QED BY <2>1, <2>2
<1>8. ASSUME NEW id, OpenIn(live, id)
      PROVE  /\ Has(s.quotes, id) /\ Has(p.state.quotes, id)
             /\ RoomForQuotes => Has(d.state.quotes, id)
  <2>1. Has(s.quotes, id) /\ Has(p.state.quotes, id)
    BY <1>2, <1>7, <1>8, OpenStays
  <2>2. ASSUME RoomForQuotes PROVE Has(d.state.quotes, id)
    <3>1. d = PutQuote(disk.state, q)
      BY <1>1, <1>4, <2>2 DEF Log!Replayed
    <3> HIDE DEF d
    <3>2. OpenIn(disk.state, id)
      BY <1>7, <1>8, <2>2
    <3> QED BY <1>1, <3>1, <3>2, OpenStays
  <2> QED BY <2>1, <2>2
<1>9. CASE Log!Commit(s, e)
  <2>1. live' = p.state /\ disk' = d /\ up' = up
    BY <1>4, <1>9 DEF Log!Commit
  <2> HIDE DEF p, d
  <2>2. Mirrored(p.state, d, up, n + 1)
    BY <1>1, <1>5, <1>6 DEF Mirrored
  <2> QED BY <1>8, <2>1, <2>2
<1>10. CASE Log!CommitFails(s)
  <2>1. live' = s /\ disk' = disk /\ up' = up
    BY <1>10 DEF Log!CommitFails
  <2>2. Sound(disk.state, n + 1)
    BY <1>1, SoundLater
  <2>3. Mirrored(s, disk, up, n + 1)
    BY <1>1, <1>2, <2>2 DEF Mirrored
  <2> QED BY <1>8, <2>1, <2>3
<1>11. CASE Log!FoundAtBoot(e)
  <2>1. live' = d.state /\ disk' = d /\ up' = d.ok
    BY <1>11 DEF Log!FoundAtBoot, Log!Boot
  <2> HIDE DEF d
  <2>2. Mirrored(d.state, d, d.ok, n + 1)
    BY <1>6, BootMirrored
  <2> QED BY <1>8, <2>1, <2>2
<1> QED BY <1>9, <1>10, <1>11 DEF AppendEvent, s

-----------------------------------------------------------------------------
(* Steps. *)

\* What every step keeps, and what it does not lose.
Preserved == IInv' /\ (RoomForQuotes => NoOpenQuoteIsLost)

\* An event that is no new quote takes no quote from a table.
LEMMA IdsStay ==
    ASSUME ExchangeAssumption, NEW s, NEW n \in Nat, Sound(s, n),
           NEW e, e.type # "QuoteCreated", Fits(e, s, n), NEW id, Has(s.quotes, id)
    PROVE  Has(ApplyEvent(s, e).state.quotes, id)
<1>1. DOMAIN s.quotes = 1..MaxQuotes
  BY DEF Sound, TabOK
<1>2. CASE RowEvent(e) /\ ApplyEvent(s, e).ok
  <2>1. PICK i \in 1..MaxQuotes :
           /\ s.quotes[i].id = e.id /\ s.quotes[i] \in Quote
           /\ ApplyEvent(s, e).state =
                 With(s, NewLed(s, e), NewSlots(s, e), [s.quotes EXCEPT ![i] = NewQuote(s, e, s.quotes[i])])
    BY <1>2, RowEventIs
  <2>2. Pays(e) => Room(s, e.txn)
    BY <1>2, RowEventIs
  <2> DEFINE q == NewQuote(s, e, s.quotes[i])
  <2>3. q.id = e.id
    BY <1>2, <2>1, <2>2, NewQuoteIs
  <2>4. ApplyEvent(s, e).state.quotes = [s.quotes EXCEPT ![i] = q]
    BY <2>1 DEF With
  <2> HIDE DEF q
  <2>5. \A j \in 1..MaxQuotes : [s.quotes EXCEPT ![i] = q][j].id = s.quotes[j].id
    BY <1>1, <2>1, <2>3
  <2> QED BY <1>1, <2>4, <2>5 DEF Has
<1>3. CASE RowEvent(e) /\ ~ApplyEvent(s, e).ok
  BY <1>3, RowEventIs
<1>4. CASE ~RowEvent(e)
  <2>1. e.type \in {"Transaction", "UserUpdated"}
    BY <1>4 DEF Fits, RowEvent
  <2>2. ApplyEvent(s, e).state.quotes = s.quotes
    BY <2>1, PlainEventIs
  <2> QED BY <2>2
<1> QED BY <1>2, <1>3, <1>4

\* What both tables have is in RAM after an append.
LEMMA AppendKeeps ==
    ASSUME ExchangeAssumption, NEW n \in Nat, Mirrored(live, disk, up, n), up, RoomForQuotes,
           NEW e, e.type # "QuoteCreated", Fits(e, live, n), RowEvent(e) => Has(live.quotes, e.id),
           AppendEvent(live, e), NEW id, Has(live.quotes, id), Has(disk.state.quotes, id)
    PROVE  Has(live'.quotes, id)
<1>1. disk.ok /\ Agree(live, disk.state) /\ Sound(live, n) /\ Sound(disk.state, n)
  BY DEF Mirrored
<1>2. Fits(e, disk.state, n)
  <2>1. CASE RowEvent(e)
    BY <1>1, <2>1, RowEventAgree
  <2>2. CASE ~RowEvent(e)
    BY <2>2 DEF Fits, RowEvent
  <2> QED BY <2>1, <2>2
<1>3. Has(ApplyEvent(live, e).state.quotes, id) /\ Has(ApplyEvent(disk.state, e).state.quotes, id)
  BY <1>1, <1>2, IdsStay
<1>4. live' \in {ApplyEvent(live, e).state, live, ApplyEvent(disk.state, e).state}
  BY <1>1 DEF AppendEvent, Log!Commit, Log!CommitFails, Log!FoundAtBoot, Log!Boot, Log!Replayed
<1> QED BY <1>3, <1>4

\* What is open, and the quote of a trade between its legs, are in both tables.
LEMMA NothingLost ==
    ASSUME ExchangeAssumption, IInv, RoomForQuotes,
           \A id : Has(live.quotes, id) /\ Has(disk.state.quotes, id) => Has(live'.quotes, id)
    PROVE  NoOpenQuoteIsLost
<1>1. Match(live, disk.state) /\ DOMAIN live.quotes = 1..MaxQuotes
  BY DEF IInv, Mirrored, Sound, TabOK
<1>2. ASSUME NEW q \in Rows(live.quotes), ~Closed(q) PROVE Has(live'.quotes, q.id)
  <2>1. PICK i \in 1..MaxQuotes : q = live.quotes[i] /\ live.quotes[i].id # 0
    BY <1>1 DEF Rows, FreeRows
  <2>2. Has(disk.state.quotes, q.id) /\ Has(live.quotes, q.id)
    BY <1>1, <1>2, <2>1 DEF Match, Has
  <2> QED BY <2>2
<1>3. ASSUME NEW e \in pending PROVE Has(live'.quotes, e.id)
  BY <1>3 DEF IInv, PendingInv
<1> QED BY <1>2, <1>3 DEF NoOpenQuoteIsLost

\* An append that leaves nothing pending.
LEMMA AppendStep ==
    ASSUME ExchangeAssumption, IInv, up,
           NEW e, e.type # "QuoteCreated", Fits(e, live, nextId), RowEvent(e) => Has(live.quotes, e.id),
           RoomForQuotes => ApplyEvent(live, e).ok,
           RoomForQuotes /\ RowEvent(e) => Has(disk.state.quotes, e.id),
           AppendEvent(live, e), pending' = {}, UNCHANGED <<now, nextId>>
    PROVE  Preserved
<1>1. Mirrored(live, disk, up, nextId) /\ nextId \in Nat
  BY DEF IInv, ExchangeAssumption
<1>2. Mirrored(live', disk', up', nextId)
  BY <1>1, AppendMirrored
<1>3. IInv'
  BY <1>2 DEF IInv, PendingInv
<1>4. ASSUME RoomForQuotes PROVE NoOpenQuoteIsLost
  <2>1. \A id : Has(live.quotes, id) /\ Has(disk.state.quotes, id) => Has(live'.quotes, id)
    BY <1>1, <1>4, AppendKeeps
  <2> QED BY <1>4, <2>1, NothingLost
<1> QED BY <1>3, <1>4 DEF Preserved

\* The quote under an identifier, and what is open is in the journal too.
LEMMA QuoteIs ==
    ASSUME ExchangeAssumption, IInv, NEW id \in 1..MaxIds, Has(live.quotes, id),
           NEW q, q = live.quotes[Row(live.quotes, id)]
    PROVE  /\ q \in Quote /\ q.id = id
           /\ \A i \in 1..MaxQuotes : live.quotes[i].id = id => live.quotes[i] = q
           /\ RoomForQuotes /\ q.status = "OPEN" => Has(disk.state.quotes, id)
<1>1. TabOK(live.quotes) /\ id # 0
  BY DEF IInv, Mirrored, Sound
<1>2. Row(live.quotes, id) \in 1..MaxQuotes /\ q \in Quote /\ q.id = id
  BY <1>1, RowIs
<1>3. RoomForQuotes => Match(live, disk.state)
  BY DEF IInv, Mirrored
<1> HIDE DEF Quote
<1> QED BY <1>1, <1>2, <1>3 DEF TabOK, Match, Closed

\* A payment without a quote.
LEMMA PaymentStep ==
    ASSUME ExchangeAssumption, IInv, Idle, NEW t \in Txn, t.quote < nextId, t.quote = 0 \/ t.reverses # 0,
           Room(live, t), AppendEvent(live, [type |-> "Transaction", txn |-> t]),
           UNCHANGED <<pending, now, nextId>>
    PROVE  Preserved
<1> DEFINE e == [type |-> "Transaction", txn |-> t]
<1>1. e.type = "Transaction" /\ e.txn = t /\ ~RowEvent(e) /\ up /\ pending' = {}
  BY DEF Idle, RowEvent
<1> HIDE DEF e
<1>2. Fits(e, live, nextId)
  BY <1>1 DEF Fits
<1>3. ApplyEvent(live, e).ok
  BY <1>1 DEF ApplyEvent, ApplyTransaction, Done
<1>4. AppendEvent(live, e)
  BY DEF e
<1> QED BY <1>1, <1>2, <1>3, <1>4, AppendStep

\* Members' payments.
LEMMA TransferStep ==
    ASSUME ExchangeAssumption, IInv, NEW u \in User, NEW to \in User, NEW amount \in 1..MaxIssue,
           Transfer(u, to, amount)
    PROVE  Preserved
<1>1. Deal(u, to, amount, 0) \in Txn /\ Deal(u, to, amount, 0).quote = 0 /\ 0 < nextId
  BY DEF Deal, Txn, ExchangeAssumption, IInv
<1>2. /\ Idle /\ Room(live, Deal(u, to, amount, 0)) /\ UNCHANGED <<pending, now, nextId>>
      /\ AppendEvent(live, [type |-> "Transaction", txn |-> Deal(u, to, amount, 0)])
  BY DEF Transfer, Valid
<1> QED BY <1>1, <1>2, PaymentStep

\* Dollars from the bank.
LEMMA IssueStep ==
    ASSUME ExchangeAssumption, IInv, NEW u \in Nana, NEW to \in User, NEW cents \in 1..MaxIssue,
           IssueUSD(u, to, cents)
    PROVE  Preserved
<1>1. /\ Deal(UsdBank, Wallet[to], cents, 0) \in Txn
      /\ Deal(UsdBank, Wallet[to], cents, 0).quote = 0 /\ 0 < nextId
  BY DEF Deal, Txn, ExchangeAssumption, IInv, Usd
<1>2. /\ Idle /\ Room(live, Deal(UsdBank, Wallet[to], cents, 0)) /\ UNCHANGED <<pending, now, nextId>>
      /\ AppendEvent(live, [type |-> "Transaction", txn |-> Deal(UsdBank, Wallet[to], cents, 0)])
  BY DEF IssueUSD, Valid
<1> QED BY <1>1, <1>2, PaymentStep

\* A reversal stays under the reference of what it undoes.
LEMMA ReverseStep ==
    ASSUME ExchangeAssumption, IInv, NEW u \in Nana, NEW seq \in 1..MaxSeq, Reverse(u, seq)
    PROVE  Preserved
<1> DEFINE t == Undo(live.led, seq)
           l == live.led
<1>1. /\ seq \in Kept(l) /\ Idle /\ Room(live, t) /\ UNCHANGED <<pending, now, nextId>>
      /\ AppendEvent(live, [type |-> "Transaction", txn |-> t])
  BY DEF Reverse, Valid, CanReverse
<1>2. l.txns[seq] \in Txn /\ l.txns[seq].quote < nextId
  BY <1>1 DEF IInv, Mirrored, Sound, LedOK
<1>3. t = [from |-> l.txns[seq].to, to |-> l.txns[seq].from, amount |-> l.txns[seq].amount,
           reverses |-> seq, quote |-> l.txns[seq].quote]
  BY DEF Undo, Deal
<1> HIDE DEF t, l
<1>4. seq \in Nat /\ seq # 0
  BY DEF ExchangeAssumption, LedgerOpsAssumption
<1>5. t \in Txn /\ t.quote < nextId /\ t.reverses # 0
  BY <1>2, <1>3, <1>4 DEF Txn
<1> QED BY <1>1, <1>5, PaymentStep

\* The cash leg.
LEMMA SettleStep ==
    ASSUME ExchangeAssumption, IInv, SettleTrade
    PROVE  Preserved
<1>1. PICK e \in pending : Valid(e.txn, FALSE) /\ AppendEvent(live, e)
  BY DEF SettleTrade
<1>2. /\ up /\ e.type = "QuoteSettled" /\ Fits(e, live, nextId) /\ Has(live.quotes, e.id)
      /\ RoomForQuotes => Has(disk.state.quotes, e.id)
  BY <1>1 DEF PendingInv, IInv
<1>3. Mirrored(live, disk, up, nextId) /\ Sound(live, nextId) /\ RowEvent(e)
  BY <1>2 DEF IInv, Mirrored, RowEvent
<1>4. ApplyEvent(live, e).ok
  BY <1>1, <1>2, <1>3, RowEventIs DEF Valid
<1>5. pending' = {} /\ UNCHANGED <<now, nextId>>
  BY DEF SettleTrade
<1> QED BY <1>1, <1>2, <1>3, <1>4, <1>5, AppendStep

\* Nothing but the pending event is lost.
LEMMA RefusedStep ==
    ASSUME ExchangeAssumption, IInv, SettleRefused
    PROVE  Preserved
<1>1. IInv'
  BY DEF SettleRefused, IInv, PendingInv
<1>2. live' = live
  BY DEF SettleRefused
<1> QED BY <1>1, <1>2, NothingLost DEF Preserved

\* A quote is closed by hand.
LEMMA CancelStep ==
    ASSUME ExchangeAssumption, IInv, NEW u \in User, NEW id \in 1..MaxIds, CancelQuote(u, id)
    PROVE  Preserved
<1> DEFINE e == [type |-> "QuoteUpdated", id |-> id, status |-> "CANCELLED", at |-> now]
           q == live.quotes[Row(live.quotes, id)]
<1>1. Idle /\ Has(live.quotes, id) /\ q.status = "OPEN" /\ AppendEvent(live, e)
      /\ pending' = {} /\ UNCHANGED <<now, nextId>>
  BY DEF CancelQuote, Idle
<1>2. e.type = "QuoteUpdated" /\ e.id = id /\ e.status = "CANCELLED" /\ e.at = now
  OBVIOUS
<1> HIDE DEF e, q
<1>3. /\ \A i \in 1..MaxQuotes : live.quotes[i].id = id => live.quotes[i] = q
      /\ RoomForQuotes => Has(disk.state.quotes, id)
  BY <1>1, QuoteIs DEF q
<1>4. now \in 0..MaxTime /\ Sound(live, nextId) /\ RowEvent(e) /\ ~Pays(e)
  BY <1>2 DEF IInv, Mirrored, RowEvent, Pays
<1>5. Fits(e, live, nextId)
  BY <1>1, <1>2, <1>3, <1>4 DEF Fits
<1>6. ApplyEvent(live, e).ok
  BY <1>1, <1>2, <1>4, <1>5, RowEventIs
<1>7. up
  BY <1>1 DEF Idle
<1> QED BY <1>1, <1>2, <1>3, <1>4, <1>5, <1>6, <1>7, AppendStep

\* A member's status.
LEMMA StatusStep ==
    ASSUME ExchangeAssumption, IInv, NEW u \in User, NEW active \in BOOLEAN, SetStatus(u, active)
    PROVE  Preserved
<1> DEFINE e == [type |-> "UserUpdated", user |-> u, active |-> active]
<1>1. Idle /\ AppendEvent(live, e) /\ pending' = {} /\ UNCHANGED <<now, nextId>>
  BY DEF SetStatus, Idle
<1>2. e.type = "UserUpdated" /\ e.user = u
  OBVIOUS
<1> HIDE DEF e
<1>3. Fits(e, live, nextId) /\ ~RowEvent(e) /\ Sound(live, nextId) /\ nextId \in Nat
  BY <1>2 DEF Fits, RowEvent, IInv, Mirrored, ExchangeAssumption
<1>4. ApplyEvent(live, e).ok
  BY <1>2, <1>3, PlainEventIs
<1>5. up
  BY <1>1 DEF Idle
<1> QED BY <1>1, <1>2, <1>3, <1>4, <1>5, AppendStep

\* Time passes.
LEMMA TickStep ==
    ASSUME ExchangeAssumption, IInv, Tick
    PROVE  Preserved
<1>1. now' \in 0..MaxTime
  BY DEF Tick, IInv, ExchangeAssumption
<1>2. UNCHANGED <<live, disk, up, pending, nextId>>
  BY DEF Tick
<1>3. IInv'
  BY <1>1, <1>2 DEF IInv, PendingInv
<1> QED BY <1>2, <1>3, NothingLost DEF Preserved

\* A boot, also one between the legs of a trade.
LEMMA RestartStep ==
    ASSUME ExchangeAssumption, IInv, Restart
    PROVE  Preserved
<1>1. /\ live' = disk.state /\ disk' = disk /\ up' = disk.ok /\ pending' = {}
      /\ now' = now /\ nextId' = nextId
  BY DEF Restart, Log!Reboot, Log!Boot
<1>2. Mirrored(disk.state, disk, disk.ok, nextId)
  BY BootMirrored DEF IInv, Mirrored
<1>3. IInv'
  BY <1>1, <1>2 DEF IInv, PendingInv
<1> QED BY <1>1, <1>3, NothingLost DEF Preserved

\* A quote under an identifier of its own.
LEMMA PostStep ==
    ASSUME ExchangeAssumption, IInv, NEW u \in User, NEW side \in {"BID", "ASK"}, NEW rate \in Rates,
           NEW coins \in Coins, NEW expires \in 0..MaxTime, PostQuote(u, side, rate, coins, expires)
    PROVE  Preserved
<1> DEFINE q == [id |-> nextId, maker |-> u, side |-> side, rate |-> rate, coins |-> coins,
                 status |-> "OPEN", taker |-> None, coinTx |-> 0, cashTx |-> 0,
                 expires |-> expires, at |-> now]
<1>1. /\ Idle /\ nextId <= MaxIds /\ nextId' = nextId + 1
      /\ FreeRows(RecycleQuote(live).quotes) # {}
      /\ AppendEvent(RecycleQuote(live), [type |-> "QuoteCreated", quote |-> q])
      /\ pending' = {} /\ now' = now
  BY DEF PostQuote, Idle
<1>2. /\ nextId \in Nat /\ nextId > 0 /\ nextId \in 1..MaxIds /\ now \in 0..MaxTime
      /\ nextId + 1 \in 1..(MaxIds + 1) /\ Mirrored(live, disk, up, nextId)
  BY <1>1 DEF IInv, ExchangeAssumption
<1>3. q \in Quote
  <2>1. 0 \in 0..MaxSeq
    BY DEF ExchangeAssumption, LedgerOpsAssumption
  <2> QED BY <1>2, <2>1 DEF Quote
<1>4. q.id = nextId /\ q.status = "OPEN" /\ q.coinTx = 0 /\ q.cashTx = 0
  OBVIOUS
<1> HIDE DEF q
<1>5. up
  BY <1>1 DEF Idle
<1>6. /\ Mirrored(live', disk', up', nextId + 1)
      /\ RoomForQuotes => \A id : OpenIn(live, id) => Has(live'.quotes, id)
  BY <1>1, <1>2, <1>3, <1>4, <1>5, PostMirrored
<1>7. IInv'
  BY <1>1, <1>2, <1>6 DEF IInv, PendingInv
<1>8. ASSUME RoomForQuotes PROVE NoOpenQuoteIsLost
  <2>1. DOMAIN live.quotes = 1..MaxQuotes
    BY <1>2 DEF Mirrored, Sound, TabOK
  <2>2. \A p \in Rows(live.quotes) : ~Closed(p) => OpenIn(live, p.id)
    BY <2>1 DEF Rows, FreeRows, OpenIn
  <2> QED BY <1>1, <1>6, <1>8, <2>2 DEF NoOpenQuoteIsLost, Idle
<1> QED BY <1>7, <1>8 DEF Preserved

\* After the coin leg the cash leg is the next payment of its quote.
LEMMA TakeStep ==
    ASSUME ExchangeAssumption, IInv, NEW u \in User, NEW id \in 1..MaxIds, TakeQuote(u, id)
    PROVE  Preserved
<1> DEFINE q == live.quotes[Row(live.quotes, id)]
           e == [type |-> "QuoteTaken", id |-> q.id, taker |-> u, txn |-> CoinLeg(q, u), at |-> now]
           c == [type |-> "QuoteSettled", id |-> q.id, txn |-> CashLeg(q, u), at |-> now]
<1>1. /\ Idle /\ Has(live.quotes, id) /\ Live(q) /\ Valid(CoinLeg(q, u), FALSE)
      /\ \/ Log!Commit(live, e) /\ pending' = {c}
         \/ (Log!CommitFails(live) \/ Log!FoundAtBoot(e)) /\ UNCHANGED pending
      /\ UNCHANGED <<now, nextId>>
  BY DEF TakeQuote, BeginTrade
<1>2. /\ e.type = "QuoteTaken" /\ e.id = q.id /\ e.taker = u /\ e.txn = CoinLeg(q, u) /\ e.at = now
      /\ c.type = "QuoteSettled" /\ c.id = q.id /\ c.txn = CashLeg(q, u) /\ c.at = now
  OBVIOUS
<1>3. /\ q \in Quote /\ q.id = id /\ q.status = "OPEN"
      /\ \A i \in 1..MaxQuotes : live.quotes[i].id = id => live.quotes[i] = q
      /\ RoomForQuotes => Has(disk.state.quotes, id)
  BY <1>1, QuoteIs DEF Live
<1> HIDE DEF q, e, c
<1>4. /\ now \in 0..MaxTime /\ nextId \in Nat /\ Mirrored(live, disk, up, nextId) /\ Sound(live, nextId)
      /\ up /\ pending = {} /\ RowEvent(e) /\ Pays(e) /\ Room(live, e.txn)
  BY <1>1, <1>2 DEF IInv, Mirrored, RowEvent, Pays, Valid, ExchangeAssumption, Idle
<1>5. Fits(e, live, nextId)
  BY <1>2, <1>3, <1>4 DEF Fits
<1>6. ApplyEvent(live, e).ok
  BY <1>1, <1>2, <1>3, <1>4, <1>5, RowEventIs
<1>7. CASE (Log!CommitFails(live) \/ Log!FoundAtBoot(e)) /\ UNCHANGED pending
  <2>1. pending' = {} /\ AppendEvent(live, e)
    BY <1>1, <1>4, <1>7 DEF AppendEvent
  <2> QED BY <1>1, <1>2, <1>3, <1>4, <1>5, <1>6, <2>1, AppendStep
<1>8. CASE Log!Commit(live, e) /\ pending' = {c}
  <2>1. AppendEvent(live, e) /\ live' = ApplyEvent(live, e).state /\ disk' = Log!Replayed(disk, e) /\ up'
    BY <1>4, <1>8 DEF AppendEvent, Log!Commit
  <2>2. Mirrored(live', disk', up', nextId)
    BY <1>1, <1>2, <1>3, <1>4, <1>5, <1>6, <2>1, AppendMirrored
  <2>3. ASSUME RoomForQuotes PROVE NoOpenQuoteIsLost
    <3>1. \A x : Has(live.quotes, x) /\ Has(disk.state.quotes, x) => Has(live'.quotes, x)
      BY <1>2, <1>3, <1>1, <1>4, <1>5, <2>1, <2>3, AppendKeeps
    <3> QED BY <2>3, <3>1, NothingLost
  <2>4. PICK i \in 1..MaxQuotes :
           /\ live.quotes[i].id = e.id /\ live.quotes[i] \in Quote
           /\ live' = With(live, NewLed(live, e), NewSlots(live, e),
                           [live.quotes EXCEPT ![i] = NewQuote(live, e, live.quotes[i])])
    BY <1>4, <1>5, <1>6, <2>1, RowEventIs
  <2> DEFINE r == NewQuote(live, e, q)
  <2>5. live.quotes[i] = q /\ DOMAIN live.quotes = 1..MaxQuotes
    BY <1>2, <1>3, <1>4, <2>4 DEF Sound, TabOK
  <2>6. live'.quotes = [live.quotes EXCEPT ![i] = r] /\ live'.led = NextLed(live.led, e.txn)
    BY <1>4, <2>4, <2>5 DEF With, NewLed
  <2>7. e.txn \in Txn
    BY <1>4, <1>5, <2>4, NewQuoteIs
  <2>8. live'.led.total = live.led.total + 1
    <3>1. LedOK(live.led) /\ live.led.total < MaxSeq /\ MaxSeq \in Nat
      BY <1>4 DEF Sound, Room, ExchangeAssumption, LedgerOpsAssumption
    <3> QED BY <2>6, <2>7, <3>1, NextLedIs
  <2>9. q.cashTx = 0
    <3>1. Legs(q, live.led)
      BY <1>2, <1>3, <1>4, <2>4, <2>5 DEF Sound
    <3> QED BY <1>3, <3>1 DEF Legs
  <2>10. r = [q EXCEPT !.status = "FILLED", !.taker = u, !.coinTx = live.led.total + 1, !.at = now]
    BY <1>2 DEF NewQuote
  <2>11. /\ r.id = id /\ r.status = "FILLED" /\ r.taker = u /\ r.coinTx = live.led.total + 1 /\ r.cashTx = 0
         /\ r.side = q.side /\ r.maker = q.maker /\ r.coins = q.coins /\ r.rate = q.rate
    BY <1>3, <2>9, <2>10 DEF Quote
  <2> HIDE DEF r
  <2>12. \A j \in 1..MaxQuotes : live'.quotes[j] = IF j = i THEN r ELSE live.quotes[j]
    BY <2>5, <2>6
  <2>13. DOMAIN live'.quotes = 1..MaxQuotes /\ TabOK(live.quotes)
    BY <1>4, <2>5, <2>6 DEF Sound
  <2>14. \A j \in 1..MaxQuotes : live'.quotes[j].id = id => j = i
    BY <1>2, <1>3, <2>4, <2>5, <2>12, <2>13 DEF TabOK
  <2>15. Has(live'.quotes, id)
    BY <2>11, <2>12, <2>13 DEF Has
  <2>16. CashLeg(r, r.taker) = c.txn
    BY <1>2, <2>11, <1>3 DEF CashLeg
  <2>17. Fits(c, live', nextId)
    <3>1. \A j \in 1..MaxQuotes : live'.quotes[j].id = c.id => live'.quotes[j] = r
      BY <1>2, <1>3, <2>12, <2>14
    <3> QED BY <1>2, <1>3, <1>4, <2>8, <2>11, <2>16, <3>1 DEF Fits
  <2>18. ASSUME RoomForQuotes PROVE Has(disk'.state.quotes, id)
    <3>1. disk.ok /\ Agree(live, disk.state) /\ Sound(disk.state, nextId)
      BY <1>4, <2>18 DEF Mirrored
    <3>2. Fits(e, disk.state, nextId)
      BY <1>1, <1>2, <1>3, <1>4, <1>5, <3>1, RowEventAgree
    <3>3. Has(ApplyEvent(disk.state, e).state.quotes, id)
      BY <1>2, <1>3, <1>4, <2>18, <3>1, <3>2, IdsStay
    <3> QED BY <2>1, <3>1, <3>3 DEF Log!Replayed
  <2>19. PendingInv'
    BY <1>1, <1>2, <1>3, <1>8, <2>1, <2>15, <2>17, <2>18 DEF PendingInv
  <2>20. IInv'
    BY <1>1, <2>2, <2>19 DEF IInv
  <2> QED BY <2>3, <2>20 DEF Preserved
<1> QED BY <1>1, <1>7, <1>8

-----------------------------------------------------------------------------
(* The theorems. *)

\* The household as provisioned: nobody has traded.
LEMMA InitHolds ==
    ASSUME ExchangeAssumption, Init
    PROVE  IInv
<1> DEFINE granted == {u \in User : Grant[u] > 0}
           slots == granted \cup (IF granted = {} THEN {} ELSE {Bank})
           coins == UNION {{u} \X (1..Grant[u]) : u \in User}
           n == Cardinality(granted)
           bal == [a \in Account |-> IF a \in User THEN Grant[a]
                                     ELSE IF a = Bank THEN -Cardinality(coins) ELSE 0]
<1>1. PICK others \in 0..MaxOthers : live = Provisioned(others)
  BY DEF Init
<1>2. IsFiniteSet(User) /\ granted \in SUBSET User /\ Cardinality(User) \in Nat
      /\ User \subseteq Account /\ Bank \in Account
  BY FS_CardinalityType DEF ExchangeAssumption
<1>3. IsFiniteSet(granted) /\ n \in Nat /\ n <= Cardinality(User)
  <2> HIDE DEF granted
  <2>1. IsFiniteSet(granted) /\ Cardinality(granted) <= Cardinality(User)
    BY <1>2, FS_Subset
  <2> QED BY <2>1, FS_CardinalityType
<1>4. slots \subseteq Account /\ Cardinality(slots) <= Cardinality(User) + 1 /\ Cardinality(slots) \in Nat
  <2>1. slots \subseteq Account
    BY <1>2
  <2> HIDE DEF granted
  <2>2. CASE granted = {}
    BY <1>2, <1>3, <2>2
  <2>3. CASE granted # {}
    <3>1. Cardinality(granted \cup {Bank}) = IF Bank \in granted THEN Cardinality(granted) ELSE Cardinality(granted) + 1
      BY <1>3, FS_AddElement
    <3>2. slots = granted \cup {Bank}
      BY <2>3
    <3> HIDE DEF slots
    <3> QED BY <1>2, <1>3, <2>1, <3>1, <3>2
  <2> QED BY <2>1, <2>2, <2>3
<1>5. IsFiniteSet(coins) /\ Cardinality(coins) \in Nat
  <2>1. \A u \in User : IsFiniteSet({u} \X (1..Grant[u]))
    <3>1. ASSUME NEW u \in User PROVE IsFiniteSet({u} \X (1..Grant[u]))
      <4>1. Grant[u] \in Int
        BY DEF ExchangeAssumption
      <4>2. IsFiniteSet({u})
        BY FS_Singleton
      <4>3. IsFiniteSet(1..Grant[u])
        BY <4>1, FS_Interval
      <4> QED BY <4>2, <4>3, FS_Product
    <3> QED BY <3>1
  <2> DEFINE piles == {{u} \X (1..Grant[u]) : u \in User}
             f == [u \in User |-> {u} \X (1..Grant[u])]
  <2>2. f \in Surjection(User, piles)
    BY DEF Surjection
  <2>3. \A p \in piles : IsFiniteSet(p)
    BY <2>1
  <2> HIDE DEF f, piles
  <2>4. IsFiniteSet(piles)
    BY <1>2, <2>2, FS_Surjection
  <2>5. IsFiniteSet(UNION piles)
    BY <2>3, <2>4, FS_UNION
  <2>6. IsFiniteSet(coins)
    BY <2>5 DEF piles
  <2> HIDE DEF coins
  <2> QED BY <2>6, FS_CardinalityType
<1>6. bal \in [Account -> Int]
  <2> HIDE DEF coins
  <2>1. \A a \in Account : bal[a] \in Int
    BY <1>5 DEF ExchangeAssumption
  <2> QED BY <2>1
<1>7. live = [led |-> [bal |-> bal, first |-> n + 1, total |-> n,
                       txns |-> EmptyLedger.txns, revBy |-> EmptyLedger.revBy],
              slots |-> slots, others |-> others, quotes |-> [i \in 1..MaxQuotes |-> NoQuote], active |-> User]
  BY <1>1 DEF Provisioned, EmptyLedger
<1> HIDE DEF bal, slots, n, coins, granted
<1> DEFINE l == live.led
<1>8. /\ l = [bal |-> bal, first |-> n + 1, total |-> n, txns |-> EmptyLedger.txns, revBy |-> EmptyLedger.revBy]
      /\ live.slots = slots /\ live.others = others /\ live.quotes = [i \in 1..MaxQuotes |-> NoQuote]
      /\ live.active = User
  BY <1>7
<1>9. live = [led |-> live.led, slots |-> live.slots, others |-> live.others, quotes |-> live.quotes, active |-> live.active]
  BY <1>7
<1> HIDE DEF l
<1>10. Kept(l) = {}
  BY <1>3, <1>8 DEF Kept
<1>11. LedOK(l)
  <2>1. EmptyLedger.txns \in [{} -> Txn]
    BY DEF EmptyLedger
  <2>2. n \in 0..MaxSeq /\ Window \in Nat
    BY <1>2, <1>3 DEF ExchangeAssumption, LedgerOpsAssumption
  <2>3. /\ l.bal = bal /\ l.total = n /\ l.first = n + 1 /\ l.txns = EmptyLedger.txns
        /\ l = [bal |-> l.bal, first |-> l.first, total |-> l.total, txns |-> l.txns, revBy |-> l.revBy]
    BY <1>8
  <2>4. l.first \in 1..(l.total + 1) /\ l.total - l.first + 1 <= Window
    BY <1>3, <2>2, <2>3 DEF ExchangeAssumption
  <2>5. l.txns \in [Kept(l) -> Txn]
    BY <1>10, <2>1, <2>3
  <2> QED BY <1>6, <2>2, <2>3, <2>4, <2>5 DEF LedOK
<1>12. TabOK(live.quotes) /\ \A i \in 1..MaxQuotes : live.quotes[i].id = 0
  BY <1>8 DEF TabOK, NoQuote
<1>13. Cardinality(live.slots) + live.others <= AccountCapacity
  BY <1>2, <1>4, <1>8 DEF ExchangeAssumption
<1>14. Sound(live, 1)
  BY <1>4, <1>8, <1>9, <1>10, <1>11, <1>12, <1>13 DEF Sound, l
<1>15. disk = [ok |-> TRUE, state |-> live] /\ up = TRUE /\ pending = {} /\ now = 0 /\ nextId = 1
  BY DEF Init, Done
<1>16. Mirrored(disk.state, disk, disk.ok, 1)
  BY <1>14, <1>15, BootMirrored
<1>17. Mirrored(live, disk, up, nextId)
  BY <1>15, <1>16
<1>18. now \in 0..MaxTime /\ nextId \in 1..(MaxIds + 1)
  BY <1>15 DEF ExchangeAssumption
<1> QED BY <1>15, <1>17, <1>18 DEF IInv, PendingInv

\* Every step keeps the invariant, and with text for every quote no open quote is lost.
LEMMA StepKeeps ==
    ASSUME ExchangeAssumption, IInv, Next
    PROVE  Preserved
BY TransferStep, IssueStep, ReverseStep, PostStep, TakeStep, SettleStep, RefusedStep, CancelStep,
   StatusStep, TickStep, RestartStep DEF Next

\* A step that changes nothing keeps the invariant.
LEMMA StutterKeeps ==
    ASSUME ExchangeAssumption, IInv, UNCHANGED vars
    PROVE  IInv'
BY DEF vars, IInv, PendingInv, Idle

\* What the invariant says of a state.
LEMMA SoundIs ==
    ASSUME ExchangeAssumption, NEW s, NEW n, Sound(s, n)
    PROVE  StateOK(s)
<1>1. LedOK(s.led) /\ TabOK(s.quotes) /\ MaxSeq \in Nat /\ Window \in Nat
  BY DEF Sound, ExchangeAssumption, LedgerOpsAssumption
<1>2. s.led.total \in 0..MaxSeq /\ s.led.first \in 1..(s.led.total + 1) /\ s.led.total - s.led.first + 1 <= Window
  BY <1>1 DEF LedOK
<1>3. Cardinality(Kept(s.led)) <= Window /\ s.led.first \in 1..(MaxSeq + 1)
  <2>1. Cardinality(Kept(s.led)) = IF s.led.first > s.led.total THEN 0 ELSE s.led.total - s.led.first + 1
    <3>1. s.led.first \in Int /\ s.led.total \in Int
      BY <1>2
    <3> QED BY <3>1, FS_Interval DEF Kept
  <2> QED BY <1>1, <1>2, <2>1
<1> QED BY <1>1, <1>2, <1>3 DEF Sound, StateOK, LedOK, TabOK

\* RAM and the journal always replay to a household whose books fit their slots
\* and their ring, and at most one cash leg is on its way.
THEOREM TypeCorrect == ASSUME ExchangeAssumption PROVE Spec => []TypeOK
<1>1. Init => IInv
  BY InitHolds
<1>2. IInv /\ [Next]_vars => IInv'
  BY StepKeeps, StutterKeeps DEF Preserved
<1>3. IInv => TypeOK
  <2> SUFFICES ASSUME IInv PROVE TypeOK
    OBVIOUS
  <2>1. StateOK(live) /\ StateOK(disk.state) /\ disk.ok \in BOOLEAN /\ up \in BOOLEAN
    BY SoundIs DEF IInv, Mirrored
  <2>2. Cardinality(pending) <= 1
    <3>1. CASE pending = {}
      BY <3>1, FS_EmptySet
    <3>2. CASE \E e : pending = {e}
      <4>1. PICK e : pending = {e}
        BY <3>2
      <4>2. Cardinality({e}) = 1
        BY FS_Singleton
      <4> QED BY <4>1, <4>2
    <3> QED BY <3>1, <3>2 DEF IInv, PendingInv
  <2> QED BY <2>1, <2>2 DEF TypeOK, IInv
<1> QED BY <1>1, <1>2, <1>3, PTL DEF Spec

\* A quote is traded at most once and at its own terms, however appends fail and
\* the service restarts between the two legs, and whether or not the quote's row
\* was given up meanwhile in RAM or in the journal.
THEOREM LegsAlwaysAgree == ASSUME ExchangeAssumption PROVE Spec => []LegsAgree
<1>1. Init => IInv
  BY InitHolds
<1>2. IInv /\ [Next]_vars => IInv'
  BY StepKeeps, StutterKeeps DEF Preserved
<1>3. IInv => LegsAgree
  <2>1. IInv => \A q \in Rows(live.quotes) : Legs(q, live.led)
    BY DEF IInv, Mirrored, Sound, TabOK, Rows, FreeRows
  <2> QED BY <2>1 DEF Legs, LegsAgree
<1> QED BY <1>1, <1>2, <1>3, PTL DEF Spec

\* With text for every quote of a full table, a reboot at any point, also between
\* the legs of a trade, succeeds and gives back the money, the members, every open
\* quote, and every quote RAM still had in the state RAM had it.
THEOREM RebootKeeps ==
    ASSUME ExchangeAssumption, RoomForQuotes
    PROVE  Spec => []RebootKeepsTrades
<1>1. Init => IInv
  BY InitHolds
<1>2. IInv /\ [Next]_vars => IInv'
  BY StepKeeps, StutterKeeps DEF Preserved
<1>3. IInv => RebootKeepsTrades
  <2> SUFFICES ASSUME IInv PROVE RebootKeepsTrades
    OBVIOUS
  <2> DEFINE s == live
             d == disk.state
  <2>1. /\ disk.ok /\ Agree(s, d) /\ Match(s, d)
        /\ DOMAIN s.quotes = 1..MaxQuotes /\ DOMAIN d.quotes = 1..MaxQuotes
    BY DEF IInv, Mirrored, Sound, TabOK
  <2>2. \A p \in Rows(d.quotes), q \in Rows(s.quotes) : p.id = q.id => p = q
    BY <2>1 DEF Agree, Rows, FreeRows
  <2>3. \A p \in Rows(d.quotes) : ~Closed(p) => p \in Rows(s.quotes)
    <3> SUFFICES ASSUME NEW i \in 1..MaxQuotes, d.quotes[i].id # 0, ~Closed(d.quotes[i])
                 PROVE  d.quotes[i] \in Rows(s.quotes)
      BY <2>1 DEF Rows, FreeRows
    <3>1. PICK j \in 1..MaxQuotes : s.quotes[j].id = d.quotes[i].id
      BY <2>1 DEF Match, Has
    <3>2. s.quotes[j] = d.quotes[i]
      BY <2>1, <3>1 DEF Agree
    <3> QED BY <2>1, <3>1, <3>2 DEF Rows, FreeRows
  <2>4. \A q \in Rows(s.quotes) : ~Closed(q) => q \in Rows(d.quotes)
    <3> SUFFICES ASSUME NEW i \in 1..MaxQuotes, s.quotes[i].id # 0, ~Closed(s.quotes[i])
                 PROVE  s.quotes[i] \in Rows(d.quotes)
      BY <2>1 DEF Rows, FreeRows
    <3>1. PICK j \in 1..MaxQuotes : d.quotes[j].id = s.quotes[i].id
      BY <2>1 DEF Match, Has
    <3>2. d.quotes[j] = s.quotes[i]
      BY <2>1, <3>1 DEF Agree
    <3> QED BY <2>1, <3>1, <3>2 DEF Rows, FreeRows
  <2>5. {q \in Rows(d.quotes) : ~Closed(q)} = {q \in Rows(s.quotes) : ~Closed(q)}
    BY <2>3, <2>4
  <2> QED BY <2>1, <2>2, <2>5 DEF RebootKeepsTrades, Agree
<1> QED BY <1>1, <1>2, <1>3, PTL DEF Spec

\* With text for every quote of a full table, no step of the running service and no
\* reboot loses an open quote, or the quote of a trade between its two legs.
THEOREM NoOpenQuoteLost ==
    ASSUME ExchangeAssumption, RoomForQuotes
    PROVE  Spec => [][NoOpenQuoteIsLost]_vars
<1>1. Init => IInv
  BY InitHolds
<1>2. IInv /\ [Next]_vars => IInv'
  BY StepKeeps, StutterKeeps DEF Preserved
<1>3. IInv /\ [Next]_vars => [NoOpenQuoteIsLost]_vars
  BY StepKeeps DEF Preserved
<1> QED BY <1>1, <1>2, <1>3, PTL DEF Spec
=============================================================================
