---------------------------- MODULE ArchiveLedger ----------------------------
(* The household of the earlier Rust NanaCoin (archive/nanacoin_rs: domain.rs,  *)
(* offers.rs, forex.rs): a State that a validated command turns into the next   *)
(* one, event by event.  Every event is journalled and replayed at the next     *)
(* start, validated again under its own timestamp.  Names, texts, passwords     *)
(* and retries are left out (the journal and the receipts are in                *)
(* ArchiveService); the clock is the board's, unset or set by SNTP.             *)
EXTENDS Integers, Sequences, FiniteSets, SequencesExt, FiniteSetsExt

CONSTANTS MEMBERS, LISTINGS, OFFERS, QUOTES, HISTORY,
          MAX_RECORDS,            \* block of sequence numbers left for cash legs
          MAX_AMOUNT, MAX_BALANCE, MAX_TIME,
          Amount, Grant, Settle,  \* values the commands carry
          Kind,                   \* bound: the commands considered
          MaxClock, MaxSequence   \* bounds
MIN_CLOCK == 1

VARIABLES members,                \* sequence of [nana, disabled]
          coin, usd,              \* balances; 0 is the issuance account
          listings, offers, quotes, history,
          sequence, last_timestamp, offer_settles_after, transactions,
          clock,
          past,                   \* every transaction: [id, reverses]
          replays                 \* every event so far is accepted again at its own time
state == <<members, coin, usd, listings, offers, quotes, history, offer_settles_after>>
vars == <<state, sequence, last_timestamp, transactions, clock, past, replays>>

None == 0
Id == 1..Len(members)
Init == /\ members = <<>> /\ coin = [m \in 0..MEMBERS |-> 0] /\ usd = [m \in 0..MEMBERS |-> 0]
        /\ listings = <<>> /\ offers = <<>> /\ quotes = <<>> /\ history = <<>>
        /\ sequence = 0 /\ last_timestamp = 0 /\ offer_settles_after = 1 /\ transactions = 0
        /\ clock = 0 /\ past = {} /\ replays = TRUE

\* Mutant of next_sequence
next_sequence_plain(s) == s + 1
next_sequence(s) == IF s % (2 * MAX_RECORDS) = MAX_RECORDS THEN s + MAX_RECORDS + 1 ELSE s + 1
now == IF clock < last_timestamp THEN 0 ELSE clock
timestamp == IF now > last_timestamp THEN now ELSE last_timestamp
Set(t) == t \in MIN_CLOCK..MAX_TIME
admin(actor) == members[actor].nana /\ ~members[actor].disabled
At(rows, id) == SelectInSeq(rows, LAMBDA r : r.id = id)
Has(rows, id) == At(rows, id) # 0

validate_posting(balance, from, to, amount, correction) ==
    /\ from # to /\ amount \in 1..MAX_AMOUNT
    /\ \A m \in {from, to} \ {0} : m \in Id /\ (correction \/ ~members[m].disabled)
    /\ balance[from] - amount >= -MAX_BALANCE /\ balance[to] + amount <= MAX_BALANCE
    /\ correction \/ from = 0 \/ balance[from] >= amount

T(id, from, to, amount) == [id |-> id, from |-> from, to |-> to, amount |-> amount, reverses |-> None,
                            reversed |-> FALSE, usd |-> FALSE]
Moved(balance, tx) == [balance EXCEPT ![tx.from] = @ - tx.amount, ![tx.to] = @ + tx.amount]
Kept(h) == IF Len(h) > HISTORY THEN SubSeq(h, Len(h) - HISTORY + 1, Len(h)) ELSE h
record_transaction(tx, h) ==
    /\ IF tx.usd THEN usd' = Moved(usd, tx) /\ UNCHANGED coin ELSE coin' = Moved(coin, tx) /\ UNCHANGED usd
    /\ history' = Kept(Append(h, tx))
    /\ transactions' = transactions + 1 /\ past' = past \cup {[id |-> tx.id, reverses |-> tx.reverses]}
NoTransaction == UNCHANGED <<coin, usd, history, transactions, past>>

\* Service::commit around a command: valid(n) is validate_at with the time n.
Event(kind, actor, valid(_)) ==
    /\ kind \in Kind /\ sequence < MaxSequence
    /\ kind # "provision" => (actor \in Id /\ ~members[actor].disabled)
    /\ valid(now)
    /\ replays' = (replays /\ timestamp >= last_timestamp /\ valid(timestamp))
    /\ sequence' = next_sequence(sequence) /\ last_timestamp' = timestamp
    /\ UNCHANGED clock

-----------------------------------------------------------------------------
(* Members and the household.                                                *)
NewMember(nana) == members' = Append(members, [nana |-> nana, disabled |-> FALSE])
Provision ==
    /\ Event("provision", 1, LAMBDA n : members = <<>>)
    /\ NewMember(TRUE) /\ NoTransaction
    /\ UNCHANGED <<listings, offers, quotes, offer_settles_after>>
may_create(actor, grant) == admin(actor) /\ Len(members) < MEMBERS /\ coin[0] - grant >= -MAX_BALANCE
CreateMember(actor) ==
    \E nana \in BOOLEAN, grant \in Grant :
        /\ Event("create", actor, LAMBDA n : may_create(actor, grant))
        /\ NewMember(nana)
        /\ IF grant > 0 THEN record_transaction(T(sequence', 0, Len(members) + 1, grant), history)
           ELSE NoTransaction
        /\ UNCHANGED <<listings, offers, quotes, offer_settles_after>>
LastNana(m, user, disable) ==
    /\ members[m].nana /\ ~members[m].disabled /\ (user \/ disable)
    /\ {x \in Id : members[x].nana /\ ~members[x].disabled} = {m}
may_update(actor, m, user, disable) == admin(actor) /\ ~LastNana(m, user, disable)
UpdateMember(actor) ==
    \E m \in Id, nana \in BOOLEAN, disabled \in BOOLEAN :
        /\ Event("update", actor, LAMBDA n : may_update(actor, m, ~nana, disabled))
        /\ members' = [members EXCEPT ![m] = [nana |-> nana, disabled |-> disabled]]
        /\ NoTransaction /\ UNCHANGED <<listings, offers, quotes, offer_settles_after>>
may_configure(actor, seconds, n) == admin(actor) /\ seconds <= MAX_TIME - n
Configure(actor) ==
    \E seconds \in Settle :
        /\ Event("configure", actor, LAMBDA n : may_configure(actor, seconds, n))
        /\ offer_settles_after' = seconds
        /\ NoTransaction /\ UNCHANGED <<members, listings, offers, quotes>>

-----------------------------------------------------------------------------
(* Money.                                                                    *)
Posting(kind, actor, from, to, amount, permitted) ==
    /\ Event(kind, actor, LAMBDA n : permitted /\ validate_posting(coin, from, to, amount, FALSE))
    /\ record_transaction(T(sequence', from, to, amount), history)
    /\ UNCHANGED <<members, listings, offers, quotes, offer_settles_after>>
Issue(actor) == \E to \in Id, a \in Amount : Posting("issue", actor, 0, to, a, admin(actor))
Retire(actor) == \E from \in Id, a \in Amount : Posting("retire", actor, from, 0, a, admin(actor))
Transfer(actor) == \E to \in Id, a \in Amount : Posting("transfer", actor, actor, to, a, TRUE)
IssueUsd(actor) ==
    \E to \in Id, a \in Amount :
        /\ Event("usd", actor, LAMBDA n : admin(actor) /\ validate_posting(usd, 0, to, a, FALSE))
        /\ record_transaction([T(sequence', 0, to, a) EXCEPT !.usd = TRUE], history)
        /\ UNCHANGED <<members, listings, offers, quotes, offer_settles_after>>
mark_offer_reversed(tx) ==
    [i \in DOMAIN offers |-> IF offers[i].phase = "accepted" /\ offers[i].transaction = tx
                             THEN [offers[i] EXCEPT !.phase = "reversed", !.updated_at = timestamp]
                             ELSE offers[i]]
Marked(h, tx) == [i \in DOMAIN h |-> IF h[i].id = tx THEN [h[i] EXCEPT !.reversed = TRUE] ELSE h[i]]
Back(tx) == [T(sequence', tx.to, tx.from, tx.amount) EXCEPT !.reverses = tx.id, !.usd = tx.usd]
may_reverse(actor, tx) ==
    /\ admin(actor) /\ ~tx.reversed /\ tx.reverses = None
    /\ validate_posting(IF tx.usd THEN usd ELSE coin, tx.to, tx.from, tx.amount, TRUE)
Reverse_(actor) ==
    \E tx \in ToSet(history) :
        /\ Event("reverse", actor, LAMBDA n : may_reverse(actor, tx))
        /\ record_transaction(Back(tx), Marked(history, tx.id))
        /\ offers' = mark_offer_reversed(tx.id)
        /\ UNCHANGED <<members, listings, quotes, offer_settles_after>>

-----------------------------------------------------------------------------
(* Listings.                                                                 *)
Unsettled(o, t) == o.phase = "accepted" /\ t < o.settles_at
listing_recyclable(l, t) ==
    l.status # "active" /\ ~\E o \in ToSet(offers) : o.listing = l.id /\ Unsettled(o, t)
may_list(n) == Len(listings) < LISTINGS \/ \E l \in ToSet(listings) : listing_recyclable(l, n)
List(actor) ==
    \E price \in Amount, sell \in BOOLEAN :
        /\ Event("list", actor, may_list)
        /\ LET gone == SelectInSeq(listings, LAMBDA l : listing_recyclable(l, timestamp))
               kept == IF Len(listings) < LISTINGS THEN listings ELSE RemoveAt(listings, gone)
           IN  listings' = Append(kept, [id |-> sequence', owner |-> actor, price |-> price, sell |-> sell,
                                         status |-> "active", buyer |-> None, sold_tx |-> None])
        /\ NoTransaction /\ UNCHANGED <<members, offers, quotes, offer_settles_after>>
Active(id) == Has(listings, id) /\ listings[At(listings, id)].status = "active"
may_edit(actor, l) == (actor = l.owner \/ admin(actor)) /\ l.status = "active"
Cancel(actor) ==
    \E l \in ToSet(listings) :
        /\ Event("list", actor, LAMBDA n : may_edit(actor, l))
        /\ listings' = [listings EXCEPT ![At(listings, l.id)].status = "cancelled"]
        /\ NoTransaction /\ UNCHANGED <<members, offers, quotes, offer_settles_after>>
UpdateListing(actor) ==
    \E l \in ToSet(listings), price \in Amount :
        /\ Event("list", actor, LAMBDA n : may_edit(actor, l))
        /\ listings' = [listings EXCEPT ![At(listings, l.id)].price = price]
        /\ NoTransaction /\ UNCHANGED <<members, offers, quotes, offer_settles_after>>
Sold(id, buyer, tx) == [listings EXCEPT ![At(listings, id)] =
                            [@ EXCEPT !.status = "sold", !.buyer = buyer, !.sold_tx = tx]]
Buy(actor) ==
    \E l \in ToSet(listings) :
        LET from == IF l.sell THEN actor ELSE l.owner
            to == IF l.sell THEN l.owner ELSE actor
        IN  /\ Event("buy", actor, LAMBDA n : l.status = "active" /\ validate_posting(coin, from, to, l.price, FALSE))
            /\ listings' = Sold(l.id, from, sequence')
            /\ record_transaction(T(sequence', from, to, l.price), history)
            /\ UNCHANGED <<members, offers, quotes, offer_settles_after>>

-----------------------------------------------------------------------------
(* Offers.                                                                   *)
recyclable(o, t) == IF o.phase = "accepted" THEN t >= o.settles_at ELSE o.phase # "open"
\* The row that goes: the one longest untouched of those that may.
Oldest(rows, may(_)) ==
    CHOOSE i \in DOMAIN rows : /\ may(rows[i])
        /\ \A j \in DOMAIN rows : may(rows[j]) => \/ rows[i].updated_at < rows[j].updated_at
                                                  \/ (rows[i].updated_at = rows[j].updated_at
                                                      /\ rows[i].id <= rows[j].id)
may_offer(actor, l, n) == /\ Set(n) /\ l.status = "active" /\ actor # l.owner
                          /\ Len(offers) < OFFERS \/ \E o \in ToSet(offers) : recyclable(o, n)
MakeOffer(actor) ==
    \E l \in ToSet(listings), amount \in Amount :
        /\ Event("offer", actor, LAMBDA n : may_offer(actor, l, n))
        /\ LET kept == IF Len(offers) < OFFERS THEN offers
                       ELSE RemoveAt(offers, Oldest(offers, LAMBDA o : recyclable(o, timestamp)))
           IN  offers' = Append(kept, [id |-> sequence', listing |-> l.id, owner |-> l.owner, offerer |-> actor,
                                       amount |-> amount, updated_at |-> timestamp, phase |-> "open",
                                       transaction |-> None, payer |-> None, payee |-> None, settles_at |-> 0])
        /\ NoTransaction /\ UNCHANGED <<members, listings, quotes, offer_settles_after>>
Sells(o) == listings[At(listings, o.listing)].sell
Payer(o) == IF Sells(o) THEN o.offerer ELSE o.owner
Payee(o) == IF Sells(o) THEN o.owner ELSE o.offerer
may_accept(actor, o, n) ==
    /\ Set(n) /\ actor = o.owner /\ o.phase = "open" /\ Active(o.listing)
    /\ validate_posting(coin, Payer(o), Payee(o), o.amount, FALSE)
    /\ n + offer_settles_after <= MAX_TIME
AcceptOffer(actor) ==
    \E i \in DOMAIN offers :
        LET o == offers[i]
            payer == Payer(o)
            payee == Payee(o)
        IN  /\ Event("offer", actor, LAMBDA n : may_accept(actor, o, n))
            /\ offers' = [offers EXCEPT ![i] =
                   [@ EXCEPT !.phase = "accepted", !.updated_at = timestamp, !.transaction = sequence',
                             !.payer = payer, !.payee = payee, !.settles_at = timestamp + offer_settles_after]]
            /\ listings' = Sold(o.listing, payer, sequence')
            /\ record_transaction(T(sequence', payer, payee, o.amount), history)
            /\ UNCHANGED <<members, quotes, offer_settles_after>>
may_unaccept(actor, o, n) ==
    /\ Set(n) /\ (actor \in {o.owner, o.offerer} \/ admin(actor)) /\ Unsettled(o, n)
    /\ Has(listings, o.listing) /\ listings[At(listings, o.listing)].status = "sold"
    /\ validate_posting(coin, o.payee, o.payer, o.amount, TRUE)
UnacceptOffer(actor) ==
    \E i \in DOMAIN offers :
        LET o == offers[i]
        IN  /\ Event("offer", actor, LAMBDA n : may_unaccept(actor, o, n))
            /\ offers' = mark_offer_reversed(o.transaction)
            /\ listings' = [listings EXCEPT ![At(listings, o.listing)] =
                   [@ EXCEPT !.status = "active", !.buyer = None, !.sold_tx = None]]
            /\ record_transaction([T(sequence', o.payee, o.payer, o.amount) EXCEPT !.reverses = o.transaction],
                                  Marked(history, o.transaction))
            /\ UNCHANGED <<members, quotes, offer_settles_after>>
may_close(actor, o, phase, n) ==
    /\ Set(n) /\ o.phase = "open"
    /\ actor = (IF phase = "declined" THEN o.owner ELSE o.offerer) \/ admin(actor)
CloseOffer(actor) ==
    \E i \in DOMAIN offers, phase \in {"declined", "withdrawn"} :
        /\ Event("offer", actor, LAMBDA n : may_close(actor, offers[i], phase, n))
        /\ offers' = [offers EXCEPT ![i] = [@ EXCEPT !.phase = phase, !.updated_at = timestamp]]
        /\ NoTransaction /\ UNCHANGED <<members, listings, quotes, offer_settles_after>>

-----------------------------------------------------------------------------
(* The quotes of the exchange.                                               *)
live(q, t) == q.status = "open" /\ Set(t) /\ (q.expires_at = 0 \/ t < q.expires_at)
may_quote(expires_at, n) == /\ Set(n) /\ (expires_at = 0 \/ expires_at > n)
                            /\ Len(quotes) < QUOTES \/ \E q \in ToSet(quotes) : ~live(q, n)
PostQuote(actor) ==
    \E ask \in BOOLEAN, cents \in Amount, coins \in Amount, expires_at \in 0..MaxClock :
        /\ Event("quote", actor, LAMBDA n : may_quote(expires_at, n))
        /\ LET kept == IF Len(quotes) < QUOTES THEN quotes
                       ELSE RemoveAt(quotes, Oldest(quotes, LAMBDA q : ~live(q, timestamp)))
           IN  quotes' = Append(kept, [id |-> sequence', maker |-> actor, ask |-> ask, cents |-> cents * coins,
                                       coins |-> coins, expires_at |-> expires_at, updated_at |-> timestamp,
                                       status |-> "open", taker |-> None, coin_tx |-> None, cash_tx |-> None])
        /\ NoTransaction /\ UNCHANGED <<members, listings, offers, offer_settles_after>>
may_cancel(actor, q) == (actor = q.maker \/ admin(actor)) /\ q.status = "open"
CancelQuote(actor) ==
    \E i \in DOMAIN quotes :
        /\ Event("quote", actor, LAMBDA n : may_cancel(actor, quotes[i]))
        /\ quotes' = [quotes EXCEPT ![i] = [@ EXCEPT !.status = "cancelled", !.updated_at = timestamp]]
        /\ NoTransaction /\ UNCHANGED <<members, listings, offers, offer_settles_after>>
\* A take is two transactions: the coins, and the cash under an identity of the skipped block.
Seller(q, taker) == IF q.ask THEN q.maker ELSE taker
Buyer(q, taker) == IF q.ask THEN taker ELSE q.maker
may_take(actor, q, n) == /\ Set(n) /\ q.maker # actor /\ live(q, n)
                         /\ validate_posting(coin, Seller(q, actor), Buyer(q, actor), q.coins, FALSE)
                         /\ validate_posting(usd, Buyer(q, actor), Seller(q, actor), q.cents, FALSE)
TakeQuote(actor) ==
    \E i \in DOMAIN quotes :
        LET q == quotes[i]
            seller == Seller(q, actor)
            buyer == Buyer(q, actor)
            coins == T(sequence', seller, buyer, q.coins)
            cash == [T(sequence' + MAX_RECORDS, buyer, seller, q.cents) EXCEPT !.usd = TRUE]
        IN  /\ Event("quote", actor, LAMBDA n : may_take(actor, q, n))
            /\ quotes' = [quotes EXCEPT ![i] = [@ EXCEPT !.status = "filled", !.taker = actor,
                                                         !.updated_at = timestamp,
                                                         !.coin_tx = coins.id, !.cash_tx = cash.id]]
            /\ coin' = Moved(coin, coins) /\ usd' = Moved(usd, cash)
            /\ history' = Kept(history \o <<coins, cash>>)
            /\ transactions' = transactions + 2
            /\ past' = past \cup {[id |-> t.id, reverses |-> None] : t \in {coins, cash}}
            /\ UNCHANGED <<members, listings, offers, offer_settles_after>>

\* The clock: unset at power on, set by SNTP, and not always forward.
SetClock == /\ clock' \in 0..MaxClock \ {clock}
            /\ UNCHANGED <<state, sequence, last_timestamp, transactions, past, replays>>
Next == \/ Provision \/ SetClock
        \/ \E actor \in Id :
              \/ CreateMember(actor) \/ UpdateMember(actor) \/ Configure(actor)
              \/ Issue(actor) \/ Retire(actor) \/ Transfer(actor) \/ IssueUsd(actor) \/ Reverse_(actor)
              \/ List(actor) \/ Cancel(actor) \/ UpdateListing(actor) \/ Buy(actor)
              \/ MakeOffer(actor) \/ AcceptOffer(actor) \/ UnacceptOffer(actor) \/ CloseOffer(actor)
              \/ PostQuote(actor) \/ CancelQuote(actor) \/ TakeQuote(actor)
Spec == Init /\ [][Next]_vars

-----------------------------------------------------------------------------
(* Type invariant; no balance leaves the range its integers are good for.    *)
TypeOK == /\ Len(members) <= MEMBERS /\ Len(listings) <= LISTINGS /\ Len(offers) <= OFFERS
          /\ Len(quotes) <= QUOTES /\ Len(history) <= HISTORY
          /\ \A m \in 0..MEMBERS : {coin[m], usd[m]} \subseteq -MAX_BALANCE..MAX_BALANCE

(* A deal that may still be undone stands: the listing is there, sold by this   *)
(* very transaction to the payer, and no other deal of it may be undone         *)
(* (listing_recyclable and validate_offer in offers.rs).                        *)
DealsStand == \A i \in DOMAIN offers : LET o == offers[i] IN
    Unsettled(o, last_timestamp) =>
        /\ Has(listings, o.listing)
        /\ LET l == listings[At(listings, o.listing)]
           IN  l.status = "sold" /\ l.sold_tx = o.transaction /\ l.buyer = o.payer
        /\ \A j \in DOMAIN offers \ {i} :
              offers[j].listing = o.listing => ~Unsettled(offers[j], last_timestamp)

(* No payment is given back twice, by Nana's reversal and by undoing the        *)
(* acceptance, even when the history has lost it (mark_offer_reversed).         *)
RefundedOnce == \A x, y \in past : x.reverses # None /\ x.reverses = y.reverses => x = y

(* No two transactions share an identity, the cash legs of trades included:     *)
(* next_sequence leaves blocks for them ("new events never collide with old or  *)
(* future cash legs", archive/nanacoin_rs/RETENTION.md:78).                     *)
IdentitiesDiffer == Cardinality({x.id : x \in past}) = transactions

(* The household keeps a Nana who is not disabled (UpdateMember in domain.rs).  *)
SomeoneInCharge == members # <<>> => \E m \in Id : members[m].nana /\ ~members[m].disabled

(* Every event that was accepted is accepted again when the journal is          *)
(* replayed, so that the board starts (State::replay).  README.md says that     *)
(* "the configuration survive[s] replay".                                       *)
EventsReplay == replays
=============================================================================
