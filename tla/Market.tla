------------------------------- MODULE Market -------------------------------
(***************************************************************************)
(* internal/core: the marketplace.  Listings, offers against them, the     *)
(* ledger transactions that pay for them, and the journal behind all       *)
(* three.                                                                  *)
(*                                                                         *)
(* The service mutex makes every operation atomic up to its appends: an    *)
(* append may fail, and UnacceptOffer, which appends twice, can be cut     *)
(* between the two.  A member of the household stands for the account they *)
(* own.  Text is counted in arena blocks; fragmentation and the text of    *)
(* ledger records are left to the modules of the ledger.                   *)
(***************************************************************************)
EXTENDS Integers, FiniteSets, LedgerOps, FiniteSetTheorems, WellFoundedInduction, TLAPS

CONSTANTS
    User, Nana,            \* the household, and its administrators
    Bank,                  \* ledger.SystemIssuance
    None,                  \* the empty string
    Grant,                 \* what each member was given at the start
    MaxListings, MaxOffers,
    Window,                \* ledger.Capacity: retained transactions
    SettleAfter,           \* Config.SettlementWindow
    Blocks, OfferText,     \* arena blocks, and what one offer takes
    MaxText,               \* bound on the blocks one listing takes
    MaxAmount, MaxTime,    \* bounds on prices and on the clock
    MaxIds                 \* bound on the listings and offers ever posted

MarketAssumption ==
    /\ LedgerOpsAssumption
    /\ IsFiniteSet(User)
    /\ Account = User \cup {Bank}
    /\ Bank \notin User
    /\ Issuance = {Bank}
    /\ Nana \subseteq User
    /\ None \notin Account
    /\ {Grant, Window, MaxListings, MaxOffers, SettleAfter} \subseteq Nat
    /\ {Blocks, OfferText, MaxText, MaxAmount, MaxTime, MaxIds} \subseteq Nat
    /\ Window > 0
    /\ MaxSeq > Cardinality(User)

VARIABLES
    live, disk, up,          \* EventSourced
    pending,                 \* the event UnacceptOffer has yet to append
    now, nextId              \* IDGen: identifiers are never used twice

vars == <<live, disk, up, pending, now, nextId>>

Amount == 1..MaxAmount
Row(tab, id) == CHOOSE i \in DOMAIN tab : tab[i].id = id
Has(tab, id) == \E i \in DOMAIN tab : tab[i].id = id
FreeRows(tab) == {i \in DOMAIN tab : tab[i].id = 0}
FirstFree(tab) == CHOOSE i \in FreeRows(tab) : \A j \in FreeRows(tab) : i <= j
Oldest(tab, S) ==
    CHOOSE i \in S : \A j \in S : tab[i].at < tab[j].at \/ (tab[i].at = tab[j].at /\ i <= j)

Listing == [id : 1..MaxIds, seller : User, side : {"SELL", "BUY"}, price : Amount,
            text : 1..MaxText, status : {"ACTIVE", "SOLD", "CANCELLED"},
            buyer : User \cup {None}, soldTx : 0..MaxSeq, at : 0..MaxTime]
Offer == [id : 1..MaxIds, listing : 1..MaxIds, offerer : User, amount : Amount,
          status : {"OPEN", "ACCEPTED", "SETTLED", "DECLINED", "WITHDRAWN", "REVERSED"},
          settledTx : 0..MaxSeq, settlesAt : 0..(MaxTime + SettleAfter), at : 0..MaxTime]
NoListing == [id |-> 0]
NoOffer == [id |-> 0]

\* closed(): nothing further happens to the offer, its row may be reused.
Closed(o) == o.id # 0 /\ o.status \in {"SETTLED", "DECLINED", "WITHDRAWN", "REVERSED"}

\* The arena blocks, and how many the listings and the offers leave free.
Text(tab, S) == UNION {{i} \X (1..tab[i].text) : i \in S \ FreeRows(tab)}
TextFree(s) ==
    Blocks - Cardinality(Text(s.listings, DOMAIN s.listings))
           - OfferText * Cardinality(DOMAIN s.offers \ FreeRows(s.offers))

Refused(s) == [ok |-> FALSE, state |-> s]
Done(s) == [ok |-> TRUE, state |-> s]

-----------------------------------------------------------------------------
(* The tables. *)

\* listingFits, for the row i or for a free one.
Fits(s, l, i) ==
    l.text <= TextFree(s) + IF s.listings[i].id = 0 THEN 0 ELSE s.listings[i].text

\* listingSlot: a free row if the text fits, else the oldest closed listing
\* whose text makes the room.
ListingRows(s, l) ==
    LET free   == FreeRows(s.listings)
        closed == {i \in DOMAIN s.listings \ free :
                      s.listings[i].status # "ACTIVE" /\ Fits(s, l, i)}
    IN  IF free # {} /\ Fits(s, l, FirstFree(s.listings)) THEN {FirstFree(s.listings)}
        ELSE IF closed # {} THEN {Oldest(s.listings, closed)} ELSE {}

\* putListing, for a listing the table does not have.
PutListing(s, l) ==
    IF ListingRows(s, l) = {} THEN Refused(s)
    ELSE Done([s EXCEPT !.listings[CHOOSE i \in ListingRows(s, l) : TRUE] = l])

\* writeListing over the row the listing already has.
WriteListing(s, l) ==
    LET i == Row(s.listings, l.id)
    IN  IF l.text # s.listings[i].text /\ ~Fits(s, l, i) THEN Refused(s)
        ELSE Done([s EXCEPT !.listings[i] = l])

\* Mutant of RecycleOffer: the oldest offer goes, closed or not.
RecycleAny(s) ==
    IF FreeRows(s.offers) # {} THEN s
    ELSE [s EXCEPT !.offers[Oldest(s.offers, DOMAIN s.offers)] = NoOffer]

\* offerSlot for an offer the table does not have: with every row taken, the
\* oldest closed offer is freed, also when the caller only asks (canWriteOffer).
RecycleOffer(s) ==
    LET closed == {i \in DOMAIN s.offers : Closed(s.offers[i])}
    IN  IF FreeRows(s.offers) # {} \/ closed = {} THEN s
        ELSE [s EXCEPT !.offers[Oldest(s.offers, closed)] = NoOffer]

\* writeOffer: the identities of a new offer are stored whole or the offer is refused.
\* Its message is counted whole too, where the code would clip it.
PutOffer(s, o) ==
    LET r == RecycleOffer(s)
    IN  IF FreeRows(r.offers) = {} \/ OfferText > TextFree(r) THEN Refused(r)
        ELSE Done([r EXCEPT !.offers[FirstFree(r.offers)] = o])

-----------------------------------------------------------------------------
(* applyEvent. *)

\* Book.Replay: the ring drops the oldest record when it is full.
Record(s, t) ==
    LET l == IF Cardinality(Kept(s.led)) = Window THEN Forgotten(s.led, s.led.first + 1) ELSE s.led
    IN  [s EXCEPT !.led = Posted(l, t)]

Sold(s, id, buyer, tx, at) ==
    LET l == s.listings[Row(s.listings, id)]
    IN  WriteListing(s, [l EXCEPT !.status = "SOLD", !.buyer = buyer, !.soldTx = tx, !.at = at])

ApplyListingCreated(s, e) == PutListing(s, e.listing)

ApplyListingUpdated(s, e) ==
    IF ~Has(s.listings, e.id) THEN Refused(s)
    ELSE WriteListing(s, [s.listings[Row(s.listings, e.id)] EXCEPT
                             !.price = e.price, !.text = e.text, !.status = e.status, !.at = e.at])

ApplyTransaction(s, e) ==
    IF s.led.total = MaxSeq THEN Refused(s) ELSE Done(Record(s, e.txn))

ApplyPurchased(s, e) ==
    IF ~Has(s.listings, e.listing) \/ s.led.total = MaxSeq THEN Refused(s)
    ELSE Sold(Record(s, e.txn), e.listing, e.buyer, s.led.total + 1, e.at)

ApplyOfferCreated(s, e) == PutOffer(s, e.offer)

ApplyAccepted(s, e) ==
    IF ~Has(s.offers, e.offer) \/ ~Has(s.listings, e.listing) \/ s.led.total = MaxSeq THEN Refused(s)
    ELSE Sold([Record(s, e.txn) EXCEPT
                 !.offers[Row(s.offers, e.offer)] =
                     [@ EXCEPT !.status = "ACCEPTED", !.settledTx = s.led.total + 1,
                               !.settlesAt = e.settlesAt, !.at = e.at]],
              e.listing, e.buyer, s.led.total + 1, e.at)

\* An undone acceptance puts its listing back on the market.
Reopened(s, id, at) ==
    IF ~Has(s.listings, id) THEN Done(s)
    ELSE LET l == s.listings[Row(s.listings, id)]
         IN  WriteListing(s, [l EXCEPT !.status = "ACTIVE", !.buyer = None, !.soldTx = 0, !.at = at])

ApplyOfferUpdated(s, e) ==
    IF ~Has(s.offers, e.id) THEN Refused(s)
    ELSE LET i == Row(s.offers, e.id)
             r == [s EXCEPT !.offers[i] = [@ EXCEPT !.status = e.status, !.at = e.at]]
         IN  IF e.reopen THEN Reopened(r, s.offers[i].listing, e.at) ELSE Done(r)

\* userUpdatedEvent, of which the market sees the status.
ApplyUserUpdated(s, e) ==
    Done([s EXCEPT !.active = IF e.active THEN @ \cup {e.user} ELSE @ \ {e.user}])

ApplyEvent(s, e) ==
    CASE e.type = "ListingCreated"   -> ApplyListingCreated(s, e)
      [] e.type = "ListingUpdated"   -> ApplyListingUpdated(s, e)
      [] e.type = "Transaction"      -> ApplyTransaction(s, e)
      [] e.type = "ListingPurchased" -> ApplyPurchased(s, e)
      [] e.type = "OfferCreated"     -> ApplyOfferCreated(s, e)
      [] e.type = "OfferAccepted"    -> ApplyAccepted(s, e)
      [] e.type = "OfferUpdated"     -> ApplyOfferUpdated(s, e)
      [] e.type = "UserUpdated"      -> ApplyUserUpdated(s, e)

-----------------------------------------------------------------------------
(* The operations. *)

\* A payment for a listing: Transaction.Reference names it.
Deal(from, to, amount, id) ==
    [from |-> from, to |-> to, amount |-> amount, reverses |-> 0, listing |-> id]

\* BuildReversalInto: the same money the other way, under the same reference.
Undo(l, seq) ==
    [Deal(l.txns[seq].to, l.txns[seq].from, l.txns[seq].amount, l.txns[seq].listing)
        EXCEPT !.reverses = seq]

\* The household after provisioning and the initial grants, which have left the ring.
Provisioned(rows) ==
    [led |-> [EmptyLedger EXCEPT
                !.bal = [a \in Account |-> IF a = Bank THEN -(Grant * Cardinality(User)) ELSE Grant],
                !.first = Cardinality(User) + 1, !.total = Cardinality(User)],
     listings |-> [i \in 1..MaxListings |-> NoListing],
     offers |-> [i \in 1..rows |-> NoOffer],
     active |-> User]

Log == INSTANCE EventSourced WITH Apply <- ApplyEvent

\* With a table of any size up to MaxOffers.
Init ==
    /\ \E rows \in 1..MaxOffers : live = Provisioned(rows)
    /\ disk = Done(live)
    /\ up = TRUE
    /\ pending = {}
    /\ now = 0
    /\ nextId = 1

\* The service mutex is free.
Idle == up /\ pending = {}

\* The one append of an operation, with its outcomes.
AppendEvent(s, e) == Log!Commit(s, e) \/ Log!CommitFails(s) \/ Log!FoundAtBoot(e)

\* Book.Validate
Valid(t, overdraft) ==
    /\ live.led.total < MaxSeq
    /\ overdraft \/ Affordable(live.led.bal, t)

\* checkUserAccountLocked
AccountUsable(u) == u \in live.active

CreateListing(u, side, price, text) ==
    LET l == [id |-> nextId, seller |-> u, side |-> side, price |-> price, text |-> text,
              status |-> "ACTIVE", buyer |-> None, soldTx |-> 0, at |-> now]
    IN  /\ Idle
        /\ u \in live.active
        /\ nextId <= MaxIds
        /\ nextId' = nextId + 1
        /\ ListingRows(live, l) # {}
        /\ AppendEvent(live, [type |-> "ListingCreated", listing |-> l])
        /\ UNCHANGED <<pending, now>>

\* UpdateListing: the actor's own copy of their role and no look at their status.
UpdateListing(u, id, price, text) ==
    /\ Idle
    /\ Has(live.listings, id)
    /\ LET l == live.listings[Row(live.listings, id)]
       IN  /\ u = l.seller \/ u \in Nana
           /\ l.status = "ACTIVE"
           /\ text = l.text \/ Fits(live, [l EXCEPT !.text = text], Row(live.listings, id))
    /\ AppendEvent(live, [type |-> "ListingUpdated", id |-> id, price |-> price, text |-> text,
                      status |-> "ACTIVE", at |-> now])
    /\ UNCHANGED <<pending, now, nextId>>

CancelListing(u, id) ==
    /\ Idle
    /\ Has(live.listings, id)
    /\ LET l == live.listings[Row(live.listings, id)]
       IN  /\ u = l.seller \/ u \in Nana
           /\ l.status = "ACTIVE"
           /\ AppendEvent(live, [type |-> "ListingUpdated", id |-> id, price |-> l.price, text |-> l.text,
                             status |-> "CANCELLED", at |-> now])
    /\ UNCHANGED <<pending, now, nextId>>

\* Mutant of Purchase: a listing that is no longer active can be bought.
PurchaseAgain(u, id) ==
    /\ Idle
    /\ u \in live.active
    /\ Has(live.listings, id)
    /\ LET l == live.listings[Row(live.listings, id)]
           t == Deal(u, l.seller, l.price, id)
       IN  /\ l.seller # u
           /\ AccountUsable(l.seller)
           /\ Valid(t, FALSE)
           /\ AppendEvent(live, [type |-> "ListingPurchased", listing |-> id, buyer |-> u,
                             txn |-> t, at |-> now])
    /\ UNCHANGED <<pending, now, nextId>>

\* Purchase: the listing's side is not consulted.
Purchase(u, id) ==
    /\ Idle
    /\ u \in live.active
    /\ Has(live.listings, id)
    /\ LET l == live.listings[Row(live.listings, id)]
           t == Deal(u, l.seller, l.price, id)
       IN  /\ l.status = "ACTIVE"
           /\ l.seller # u
           /\ AccountUsable(l.seller)
           /\ Valid(t, FALSE)
           /\ AppendEvent(live, [type |-> "ListingPurchased", listing |-> id, buyer |-> u,
                             txn |-> t, at |-> now])
    /\ UNCHANGED <<pending, now, nextId>>

MakeOffer(u, id, amount) ==
    LET o == [id |-> nextId, listing |-> id, offerer |-> u, amount |-> amount,
              status |-> "OPEN", settledTx |-> 0, settlesAt |-> 0, at |-> now]
    IN  /\ Idle
        /\ u \in live.active
        /\ Has(live.listings, id)
        /\ live.listings[Row(live.listings, id)].status = "ACTIVE"
        /\ live.listings[Row(live.listings, id)].seller # u
        /\ nextId <= MaxIds
        /\ nextId' = nextId + 1
        /\ FreeRows(RecycleOffer(live).offers) # {}
        /\ AppendEvent(RecycleOffer(live), [type |-> "OfferCreated", offer |-> o])
        /\ UNCHANGED <<pending, now>>

\* AcceptOffer: on a want-ad the poster pays, otherwise the offerer.
AcceptOffer(u, id) ==
    /\ Idle
    /\ u \in live.active
    /\ Has(live.offers, id)
    /\ LET o == live.offers[Row(live.offers, id)]
       IN  /\ o.status = "OPEN"
           /\ Has(live.listings, o.listing)
           /\ LET l     == live.listings[Row(live.listings, o.listing)]
                  payer == IF l.side = "BUY" THEN l.seller ELSE o.offerer
                  payee == IF l.side = "BUY" THEN o.offerer ELSE l.seller
                  t     == Deal(payer, payee, o.amount, o.listing)
              IN  /\ l.seller = u
                  /\ l.status = "ACTIVE"
                  /\ AccountUsable(payer) /\ AccountUsable(payee)
                  /\ Valid(t, FALSE)
                  /\ AppendEvent(live, [type |-> "OfferAccepted", offer |-> id, listing |-> o.listing,
                                    buyer |-> payer, txn |-> t, settlesAt |-> now + SettleAfter,
                                    at |-> now])
    /\ UNCHANGED <<pending, now, nextId>>

\* Offer.Reversible
Reversible(o) == o.status = "ACCEPTED" /\ (o.settlesAt = 0 \/ now < o.settlesAt)

\* UnacceptOffer up to its first append, the mirror transaction.
Unaccept(u, id) ==
    /\ Idle
    /\ u \in live.active
    /\ Has(live.offers, id)
    /\ LET o == live.offers[Row(live.offers, id)]
       IN  /\ Has(live.listings, o.listing)
           /\ u \in {o.offerer, live.listings[Row(live.listings, o.listing)].seller} \cup Nana
           /\ Reversible(o)
           /\ CanReverse(live.led, o.settledTx)
           /\ Valid(Undo(live.led, o.settledTx), TRUE)
           /\ LET e == [type |-> "Transaction", txn |-> Undo(live.led, o.settledTx)]
              IN  \/ /\ Log!Commit(live, e)
                     /\ pending' = {[type |-> "OfferUpdated", id |-> id, status |-> "REVERSED",
                                     reopen |-> TRUE, at |-> now]}
                  \/ (Log!CommitFails(live) \/ Log!FoundAtBoot(e)) /\ UNCHANGED pending
    /\ UNCHANGED <<now, nextId>>

\* UnacceptOffer's second append.
UnacceptFinish ==
    /\ up
    /\ \E e \in pending : AppendEvent(live, e)
    /\ pending' = {}
    /\ UNCHANGED <<now, nextId>>

DeclineOffer(u, id) ==
    /\ Idle
    /\ u \in live.active
    /\ Has(live.offers, id)
    /\ LET o == live.offers[Row(live.offers, id)]
       IN  /\ o.status = "OPEN"
           /\ Has(live.listings, o.listing)
           /\ u \in {live.listings[Row(live.listings, o.listing)].seller} \cup Nana
    /\ AppendEvent(live, [type |-> "OfferUpdated", id |-> id, status |-> "DECLINED",
                      reopen |-> FALSE, at |-> now])
    /\ UNCHANGED <<pending, now, nextId>>

WithdrawOffer(u, id) ==
    /\ Idle
    /\ u \in live.active
    /\ Has(live.offers, id)
    /\ live.offers[Row(live.offers, id)].status = "OPEN"
    /\ u \in {live.offers[Row(live.offers, id)].offerer} \cup Nana
    /\ AppendEvent(live, [type |-> "OfferUpdated", id |-> id, status |-> "WITHDRAWN",
                      reopen |-> FALSE, at |-> now])
    /\ UNCHANGED <<pending, now, nextId>>

Transfer(u, to, amount) ==
    /\ Idle
    /\ u \in live.active
    /\ u # to
    /\ AccountUsable(to)
    /\ Valid(Deal(u, to, amount, 0), FALSE)
    /\ AppendEvent(live, [type |-> "Transaction", txn |-> Deal(u, to, amount, 0)])
    /\ UNCHANGED <<pending, now, nextId>>

\* Reverse: the listing of a reversed purchase stays sold.
Reverse(u, seq) ==
    /\ Idle
    /\ u \in Nana
    /\ CanReverse(live.led, seq)
    /\ Valid(Undo(live.led, seq), TRUE)
    /\ AppendEvent(live, [type |-> "Transaction", txn |-> Undo(live.led, seq)])
    /\ UNCHANGED <<pending, now, nextId>>

\* UpdateUser: Nana disables or enables another member.
SetStatus(u, active) ==
    /\ Idle
    /\ u \notin Nana
    /\ Nana # {}
    /\ AppendEvent(live, [type |-> "UserUpdated", user |-> u, active |-> active])
    /\ UNCHANGED <<pending, now, nextId>>

Tick ==
    /\ now < MaxTime
    /\ now' = now + 1
    /\ UNCHANGED <<live, disk, up, pending, nextId>>

Restart ==
    /\ up
    /\ Log!Reboot
    /\ pending' = {}
    /\ UNCHANGED <<now, nextId>>

Next ==
    \/ \E u \in User, side \in {"SELL", "BUY"}, price \in Amount, text \in 1..MaxText :
          CreateListing(u, side, price, text)
    \/ \E u \in User, id \in 1..MaxIds, price \in Amount, text \in 1..MaxText :
          UpdateListing(u, id, price, text)
    \/ \E u \in User, id \in 1..MaxIds : CancelListing(u, id)
    \/ \E u \in User, id \in 1..MaxIds : Purchase(u, id)
    \/ \E u \in User, id \in 1..MaxIds, amount \in Amount : MakeOffer(u, id, amount)
    \/ \E u \in User, id \in 1..MaxIds : AcceptOffer(u, id)
    \/ \E u \in User, id \in 1..MaxIds : Unaccept(u, id)
    \/ UnacceptFinish
    \/ \E u \in User, id \in 1..MaxIds : DeclineOffer(u, id)
    \/ \E u \in User, id \in 1..MaxIds : WithdrawOffer(u, id)
    \/ \E u, to \in User, amount \in Amount : Transfer(u, to, amount)
    \/ \E u \in Nana, seq \in 1..MaxSeq : Reverse(u, seq)
    \/ \E u \in User, active \in BOOLEAN : SetStatus(u, active)
    \/ Tick
    \/ Restart

Spec == Init /\ [][Next]_vars

-----------------------------------------------------------------------------
(* Properties. *)

StateOK(s) ==
    /\ s.led.bal \in [Account -> Int]
    /\ s.led.first \in 1..MaxSeq /\ s.led.total \in 0..MaxSeq
    /\ Cardinality(Kept(s.led)) <= Window
    /\ s.listings \in [1..MaxListings -> Listing \cup {NoListing}]
    /\ DOMAIN s.offers \subseteq 1..MaxOffers
    /\ s.offers \in [DOMAIN s.offers -> Offer \cup {NoOffer}]
    /\ s.active \subseteq User

TypeOK ==
    /\ StateOK(live)
    /\ disk.ok \in BOOLEAN /\ StateOK(disk.state)
    /\ Cardinality(pending) <= 1
    /\ up \in BOOLEAN
    /\ now \in 0..MaxTime
    /\ nextId \in 1..(MaxIds + 1)

Rows(tab) == {tab[i] : i \in DOMAIN tab \ FreeRows(tab)}

\* An accepted offer whose listing is still in the table is the deal that sold
\* it: no other purchase or acceptance got in between, and the listing is not
\* on the market, also after a reboot at any point of an undo.
DealsAgree ==
    \A o \in Rows(live.offers), l \in Rows(live.listings) :
        o.status = "ACCEPTED" /\ o.listing = l.id =>
            l.status = "SOLD" /\ l.soldTx = o.settledTx

\* Nobody pays for what is not sold to them: a payment for a listing that was not
\* undone is the one the listing, while it is in the table, was sold by.
NoPaymentWithoutSale ==
    \A s \in Kept(live.led), l \in Rows(live.listings) :
        LET t == live.led.txns[s]
        IN  t.listing = l.id /\ t.reverses = 0 /\ live.led.revBy[s] = 0 =>
                l.status = "SOLD" /\ l.soldTx = s

\* What somebody is waiting for: active listings, open and accepted offers.
Awaited(s) ==
    [listings |-> {l \in Rows(s.listings) : l.status = "ACTIVE"},
     offers |-> {o \in Rows(s.offers) : ~Closed(o)}]

\* A reboot gives back the money, the members, the listings, and every offer
\* that is not closed exactly as the running service knew them.
RebootKeepsAll ==
    up => /\ disk.ok
          /\ disk.state.led = live.led
          /\ disk.state.active = live.active
          /\ disk.state.listings = live.listings
          /\ Awaited(disk.state) = Awaited(live)

\* recycleOffer, recycleListing: no row that somebody is waiting for is reused;
\* an offer or a listing leaves its table only after it was closed.
NothingAwaitedIsLost ==
    up' => /\ \A l \in Awaited(live).listings : Has(live'.listings, l.id)
           /\ \A o \in Awaited(live).offers : Has(live'.offers, o.id)

-----------------------------------------------------------------------------
(* What the comments of the code claim and its steps do not keep. *)

\* offers_store.go:167, canWriteOffer "reports whether an offer would fit,
\* without writing it": what the service holds is what a replay of its journal
\* yields, also after an operation that failed.
LiveIsReplay == up => disk = Done(live)

\* offers_store.go:133-135: an accepted offer inside its window is a deal that
\* can still be undone, for which UnacceptOffer needs its listing.
UndoableDealKeepsListing ==
    \A o \in Rows(live.offers) : Reversible(o) => Has(live.listings, o.listing)

\* offers.go:246-248: once the money of a deal has come back, the deal does not
\* go on sitting there as accepted.
UndoneIsReopened ==
    pending = {} =>
        \A o \in Rows(live.offers) :
            o.status = "ACCEPTED" /\ o.settledTx \in Kept(live.led) => live.led.revBy[o.settledTx] = 0

\* offers_store.go:90-91: an offer from which nothing further happens is closed,
\* so its row can be used again.
SettledIsClosed ==
    \A o \in Rows(live.offers) : o.status = "ACCEPTED" /\ ~Reversible(o) => Closed(o)

\* events.go:13-16: the worst case of a failure is a record that was written and
\* reported as failed.  The journal can always be replayed.
Bootable == disk.ok

\* marketplace/types.go:48-50: the poster of a want-ad has the money and pays.
PosterPays ==
    \A l \in Rows(live.listings) :
        l.side = "BUY" /\ l.status = "SOLD" /\ l.soldTx \in Kept(live.led)
            => live.led.txns[l.soldTx].from = l.seller

-----------------------------------------------------------------------------
(* Proofs. *)

\* There is text for every listing and every offer of full tables.
RoomForText == Blocks >= MaxListings * MaxText + OfferText * MaxOffers

Txn == [from : Account, to : Account, amount : Int, reverses : Nat, listing : Nat]

\* The ring holds a window of transactions.
LedOK(l) ==
    /\ l = [bal |-> l.bal, first |-> l.first, total |-> l.total, txns |-> l.txns, revBy |-> l.revBy]
    /\ l.bal \in [Account -> Int]
    /\ l.total \in 0..MaxSeq /\ l.first \in 1..MaxSeq /\ l.first <= l.total + 1
    /\ l.total - l.first + 1 <= Window
    /\ l.txns \in [Kept(l) -> Txn]

\* A table has each identifier once.
Once(tab) == \A i, j \in DOMAIN tab : tab[i].id = tab[j].id /\ tab[i].id # 0 => i = j

ListingsOK(tab) == tab \in [1..MaxListings -> Listing \cup {NoListing}] /\ Once(tab)
OffersOK(tab) ==
    /\ DOMAIN tab \subseteq 1..MaxOffers
    /\ tab \in [DOMAIN tab -> Offer \cup {NoOffer}] /\ Once(tab)

\* The payments of a listing: none that stands, but the one it was sold by.
Paid(l, led) ==
    \A k \in Kept(led) :
        led.txns[k].listing = l.id /\ led.txns[k].reverses = 0 /\ led.revBy[k] = 0 =>
            l.status = "SOLD" /\ l.soldTx = k

\* An accepted offer is the deal that sold its listing.
Deals(o, l) == o.status = "ACCEPTED" /\ o.listing = l.id => l.status = "SOLD" /\ l.soldTx = o.settledTx

\* The accepted offers have a deal each, and it was made.
Settled(tab, n) ==
    /\ \A i \in DOMAIN tab : tab[i].id # 0 /\ tab[i].status = "ACCEPTED" => tab[i].settledTx <= n
    /\ \A i, j \in DOMAIN tab :
          /\ tab[i].id # 0 /\ tab[i].status = "ACCEPTED"
          /\ tab[j].id # 0 /\ tab[j].status = "ACCEPTED"
          /\ tab[i].settledTx = tab[j].settledTx
          => i = j

\* The two tables and the ledger tell one story.
Story(led, ls, os) ==
    /\ \A i \in DOMAIN ls : ls[i].id # 0 => Paid(ls[i], led)
    /\ \A i \in DOMAIN os, j \in DOMAIN ls : os[i].id # 0 /\ ls[j].id # 0 => Deals(os[i], ls[j])
    /\ Settled(os, led.total)

\* Identifiers from n on belong to nothing yet.
Fresh(led, ls, os, n) ==
    /\ \A i \in DOMAIN ls : ls[i].id < n
    /\ \A i \in DOMAIN os : os[i].id < n /\ (os[i].id # 0 => os[i].listing < n)
    /\ \A k \in Kept(led) : led.txns[k].listing < n

Sound(s, n) ==
    /\ s = [led |-> s.led, listings |-> s.listings, offers |-> s.offers, active |-> s.active]
    /\ LedOK(s.led) /\ ListingsOK(s.listings) /\ OffersOK(s.offers) /\ s.active \subseteq User
    /\ Story(s.led, s.listings, s.offers)
    /\ Fresh(s.led, s.listings, s.offers, n)

\* What may be appended to a journal that yields s.
Suits(e, s, n) ==
    \/ /\ e.type = "Transaction"
       /\ e.txn \in Txn /\ e.txn.listing < n
       /\ e.txn.listing = 0 \/ e.txn.reverses # 0
    \/ /\ e.type = "ListingUpdated"
       /\ e.id \in 1..MaxIds /\ e.price \in Amount /\ e.text \in 1..MaxText /\ e.at \in 0..MaxTime
       /\ e.status \in {"ACTIVE", "CANCELLED"}
       /\ \A i \in DOMAIN s.listings : s.listings[i].id = e.id => s.listings[i].status = "ACTIVE"
    \/ /\ e.type = "ListingPurchased"
       /\ e.listing \in 1..MaxIds /\ e.listing < n /\ e.buyer \in User /\ e.at \in 0..MaxTime
       /\ e.txn \in Txn /\ e.txn.listing = e.listing /\ e.txn.reverses = 0
       /\ \A i \in DOMAIN s.listings : s.listings[i].id = e.listing => s.listings[i].status = "ACTIVE"
    \/ /\ e.type = "OfferAccepted"
       /\ e.listing \in 1..MaxIds /\ e.listing < n /\ e.buyer \in User /\ e.at \in 0..MaxTime
       /\ e.offer \in 1..MaxIds /\ e.settlesAt \in 0..(MaxTime + SettleAfter)
       /\ e.txn \in Txn /\ e.txn.listing = e.listing /\ e.txn.reverses = 0
       /\ \A i \in DOMAIN s.listings : s.listings[i].id = e.listing => s.listings[i].status = "ACTIVE"
       /\ \A i \in DOMAIN s.offers : s.offers[i].id = e.offer =>
             s.offers[i].status = "OPEN" /\ s.offers[i].listing = e.listing
    \/ /\ e.type = "OfferUpdated"
       /\ e.id \in 1..MaxIds /\ e.at \in 0..MaxTime
       /\ e.status \in {"DECLINED", "WITHDRAWN"} /\ e.reopen = FALSE
       /\ \A i \in DOMAIN s.offers : s.offers[i].id = e.id => s.offers[i].status = "OPEN"
    \/ /\ e.type = "OfferUpdated"
       /\ e.id \in 1..MaxIds /\ e.at \in 0..MaxTime
       /\ e.status = "REVERSED" /\ e.reopen = TRUE
       /\ \A i \in DOMAIN s.offers : s.offers[i].id = e.id =>
             /\ s.offers[i].status = "ACCEPTED"
             /\ s.offers[i].settledTx \in Kept(s.led) => s.led.revBy[s.offers[i].settledTx] # 0
    \/ e.type = "UserUpdated" /\ e.user \in User

\* RAM and the journal are of one household, and what is in both tables is the same.
Agree(s, d) ==
    /\ s.led = d.led /\ s.active = d.active /\ DOMAIN s.offers = DOMAIN d.offers
    /\ \A i, j \in 1..MaxListings :
          s.listings[i].id = d.listings[j].id /\ s.listings[i].id # 0 => s.listings[i] = d.listings[j]
    /\ \A i \in DOMAIN s.offers, j \in DOMAIN d.offers :
          s.offers[i].id = d.offers[j].id /\ s.offers[i].id # 0 => s.offers[i] = d.offers[j]

\* The listings are the same, and the offers that are not closed; rows are given up
\* by the first only in a full table.
Match(s, d) ==
    /\ s.listings = d.listings
    /\ \A i \in DOMAIN s.offers : s.offers[i].id # 0 /\ ~Closed(s.offers[i]) => Has(d.offers, s.offers[i].id)
    /\ \A i \in DOMAIN d.offers : d.offers[i].id # 0 /\ ~Closed(d.offers[i]) => Has(s.offers, d.offers[i].id)
    /\ FreeRows(d.offers) # {} => s.offers = d.offers

\* The offer whose money has come back is accepted still, and its deal is undone.
PendingInv ==
    \/ pending = {}
    \/ up /\ \E e \in pending : /\ pending = {e} /\ e.type = "OfferUpdated" /\ e.status = "REVERSED"
                                /\ Suits(e, live, nextId) /\ Has(live.offers, e.id)

\* RAM at s, a journal that replays to d, and whether the service is up.
Mirrored(s, d, u, n) ==
    /\ d = [ok |-> d.ok, state |-> d.state] /\ d.ok \in BOOLEAN /\ u \in BOOLEAN
    /\ Sound(s, n) /\ Sound(d.state, n)
    /\ u /\ d.ok => Agree(s, d.state)
    /\ RoomForText => u /\ d.ok /\ Match(s, d.state)

IInv ==
    /\ now \in 0..MaxTime /\ nextId \in 1..(MaxIds + 1)
    /\ Mirrored(live, disk, up, nextId)
    /\ PendingInv
\* A set of numbers has a least one.
LEMMA LeastNumber ==
    ASSUME NEW S \in SUBSET Nat, S # {}
    PROVE  \E x \in S : \A y \in S : x <= y
<1> DEFINE Below == {0..(n - 1) : n \in S}
<1>1. Below \subseteq FiniteSubsetsOf(Nat) /\ Below # {}
  <2>1. \A n \in S : 0..(n - 1) \subseteq Nat /\ IsFiniteSet(0..(n - 1))
    BY FS_Interval
  <2> QED BY <2>1 DEF FiniteSubsetsOf
<1>2. PICK B \in Below : \A C \in Below : ~(<<C, B>> \in StrictSubsetOrdering(Nat))
  BY <1>1, FS_StrictSubsetOrderingWellFounded, WFMin, Zenon
<1>3. PICK x \in S : B = 0..(x - 1)
  OBVIOUS
<1>4. ASSUME NEW y \in S, y < x PROVE FALSE
  <2>1. 0..(y - 1) \subseteq B /\ 0..(y - 1) # B
    BY <1>3, <1>4
  <2>2. <<0..(y - 1), B>> \in StrictSubsetOrdering(Nat)
    BY <2>1, <1>1, <1>3 DEF StrictSubsetOrdering, FiniteSubsetsOf
  <2> QED BY <1>2, <2>2
<1> QED BY <1>4

-----------------------------------------------------------------------------
(* Tables. *)

\* The oldest of some rows is one of them.
LEMMA OldestIn ==
    ASSUME NEW tab, NEW S \in SUBSET Nat, S # {}, \A i \in S : tab[i].at \in Nat
    PROVE  Oldest(tab, S) \in S
<1> DEFINE Times == {tab[i].at : i \in S}
<1>1. PICK m \in Times : \A y \in Times : m <= y
  <2>1. Times \in SUBSET Nat /\ Times # {}
    OBVIOUS
  <2> HIDE DEF Times
  <2> QED BY <2>1, LeastNumber
<1> DEFINE First == {i \in S : tab[i].at = m}
<1>2. PICK x \in First : \A y \in First : x <= y
  <2>1. First \in SUBSET Nat /\ First # {}
    BY <1>1
  <2> HIDE DEF First
  <2> QED BY <2>1, LeastNumber
<1>3. ASSUME NEW j \in S PROVE tab[x].at < tab[j].at \/ (tab[x].at = tab[j].at /\ x <= j)
  <2>1. tab[x].at = m /\ tab[j].at \in Nat /\ m \in Nat /\ m <= tab[j].at
    BY <1>1, <1>2
  <2>2. tab[j].at = m => x <= j
    BY <1>2
  <2> QED BY <2>1, <2>2
<1> QED BY <1>2, <1>3 DEF Oldest

\* The first free row is free.
LEMMA FirstFreeIn ==
    ASSUME NEW tab, DOMAIN tab \subseteq Nat, FreeRows(tab) # {}
    PROVE  FirstFree(tab) \in FreeRows(tab)
<1>1. FreeRows(tab) \in SUBSET Nat
  BY DEF FreeRows
<1>2. \E x \in FreeRows(tab) : \A y \in FreeRows(tab) : x <= y
  BY <1>1, LeastNumber
<1> QED BY <1>2 DEF FirstFree

\* What the table has is in the row that is found for it.
LEMMA RowIs ==
    ASSUME NEW tab, NEW id, Has(tab, id)
    PROVE  Row(tab, id) \in DOMAIN tab /\ tab[Row(tab, id)].id = id
BY DEF Has, Row

\* The rows of the tables.
LEMMA Typed ==
    ASSUME MarketAssumption, NEW s, NEW n, Sound(s, n)
    PROVE  /\ DOMAIN s.listings = 1..MaxListings /\ DOMAIN s.offers \subseteq 1..MaxOffers
           /\ DOMAIN s.listings \subseteq Nat /\ DOMAIN s.offers \subseteq Nat
           /\ \A i \in DOMAIN s.listings : s.listings[i].id # 0 => s.listings[i] \in Listing
           /\ \A i \in DOMAIN s.offers : s.offers[i].id # 0 => s.offers[i] \in Offer
           /\ \A i \in DOMAIN s.listings : s.listings[i].id \in Nat
           /\ \A i \in DOMAIN s.offers : s.offers[i].id \in Nat
           /\ s.listings = [i \in DOMAIN s.listings |-> s.listings[i]]
           /\ s.offers = [i \in DOMAIN s.offers |-> s.offers[i]]
           /\ Once(s.listings) /\ Once(s.offers)
<1>1. MaxIds \in Nat /\ \A l \in Listing : l.id \in Nat
  BY DEF MarketAssumption, Listing
<1>2. \A o \in Offer : o.id \in Nat
  BY <1>1 DEF Offer
<1>3. NoListing.id = 0 /\ NoOffer.id = 0
  BY DEF NoListing, NoOffer
<1>4. s.listings \in [1..MaxListings -> Listing \cup {NoListing}] /\ Once(s.listings)
  BY DEF Sound, ListingsOK
<1>5. s.offers \in [DOMAIN s.offers -> Offer \cup {NoOffer}] /\ Once(s.offers) /\ DOMAIN s.offers \subseteq 1..MaxOffers
  BY DEF Sound, OffersOK
<1>6. \A i \in DOMAIN s.listings : s.listings[i] \in Listing \/ s.listings[i] = NoListing
  BY <1>4
<1>7. \A i \in DOMAIN s.offers : s.offers[i] \in Offer \/ s.offers[i] = NoOffer
  BY <1>5
<1>8. DOMAIN s.listings = 1..MaxListings /\ 1..MaxListings \subseteq Nat /\ 1..MaxOffers \subseteq Nat
  BY <1>4
<1>9. s.listings = [i \in DOMAIN s.listings |-> s.listings[i]] /\ s.offers = [i \in DOMAIN s.offers |-> s.offers[i]]
  BY <1>4, <1>5
<1>10. \A i \in DOMAIN s.listings : s.listings[i].id \in Nat
  BY <1>1, <1>3, <1>6
<1>11. \A i \in DOMAIN s.offers : s.offers[i].id \in Nat
  BY <1>2, <1>3, <1>7
<1>12. \A i \in DOMAIN s.listings : s.listings[i].id # 0 => s.listings[i] \in Listing
  BY <1>3, <1>6
<1>13. \A i \in DOMAIN s.offers : s.offers[i].id # 0 => s.offers[i] \in Offer
  BY <1>3, <1>7
<1> QED BY <1>4, <1>5, <1>8, <1>9, <1>10, <1>11, <1>12, <1>13

-----------------------------------------------------------------------------
(* The ledger. *)

NextLed(l, t) ==
    Posted(IF Cardinality(Kept(l)) = Window THEN Forgotten(l, l.first + 1) ELSE l, t)

\* A record is the last of the ring, which drops the oldest when it is full, and
\* marks what it reverses.
LEMMA NextLedIs ==
    ASSUME MarketAssumption, NEW l, LedOK(l), NEW t \in Txn, l.total < MaxSeq
    PROVE  /\ LedOK(NextLed(l, t)) /\ NextLed(l, t).total = l.total + 1
           /\ \A k \in Kept(NextLed(l, t)) : k = l.total + 1 \/ (k \in Kept(l) /\ k # l.total + 1)
           /\ \A k \in Kept(NextLed(l, t)) :
                 NextLed(l, t).txns[k] = IF k = l.total + 1 THEN t ELSE l.txns[k]
           /\ \A k \in Kept(NextLed(l, t)) :
                 NextLed(l, t).revBy[k] = IF k = l.total + 1 THEN 0
                                          ELSE IF k = t.reverses THEN l.total + 1 ELSE l.revBy[k]
<1> DEFINE m == IF Cardinality(Kept(l)) = Window THEN Forgotten(l, l.first + 1) ELSE l
<1>1. /\ l.total \in Nat /\ l.first \in Nat /\ l.first >= 1 /\ l.first <= l.total + 1
      /\ l.total - l.first + 1 <= Window /\ Window \in Nat /\ Window > 0 /\ MaxSeq \in Nat
      /\ l.bal \in [Account -> Int] /\ l.txns \in [l.first..l.total -> Txn]
      /\ l = [bal |-> l.bal, first |-> l.first, total |-> l.total, txns |-> l.txns, revBy |-> l.revBy]
  BY DEF LedOK, Kept, MarketAssumption, LedgerOpsAssumption
<1>2. Cardinality(Kept(l)) = l.total - l.first + 1
  BY <1>1, FS_Interval DEF Kept
<1>3. /\ m.total = l.total /\ m.bal = l.bal
      /\ m.first \in Nat /\ m.first >= l.first /\ m.first <= l.total + 1
      /\ l.total - m.first + 1 < Window
      /\ \A k \in m.first..l.total : m.txns[k] = l.txns[k] /\ m.revBy[k] = l.revBy[k]
  <2>1. CASE Cardinality(Kept(l)) = Window
    <3>1. m = [bal |-> l.bal, first |-> l.first + 1, total |-> l.total,
               txns |-> [k \in (l.first + 1)..l.total |-> l.txns[k]],
               revBy |-> [k \in (l.first + 1)..l.total |-> l.revBy[k]]]
      BY <1>1, <2>1 DEF Forgotten
    <3> QED BY <1>1, <1>2, <2>1, <3>1
  <2>2. CASE Cardinality(Kept(l)) # Window
    <3>1. m = l
      BY <2>2
    <3> QED BY <1>1, <1>2, <2>2, <3>1
  <2> QED BY <2>1, <2>2
<1>4. NextLed(l, t) = Posted(m, t)
  BY DEF NextLed
<1> HIDE DEF m
<1> DEFINE p == Posted(m, t)
<1>5. /\ p = [bal |-> p.bal, first |-> p.first, total |-> p.total, txns |-> p.txns, revBy |-> p.revBy]
      /\ p.bal = Moved(m.bal, t) /\ p.first = m.first /\ p.total = m.total + 1
      /\ p.txns = [k \in m.first..(m.total + 1) |-> IF k = m.total + 1 THEN t ELSE m.txns[k]]
      /\ p.revBy = [k \in m.first..(m.total + 1) |-> IF k = m.total + 1 THEN 0
                                                     ELSE IF k = t.reverses THEN m.total + 1 ELSE m.revBy[k]]
  BY DEF Posted
<1> HIDE DEF p
<1>6. Kept(p) = m.first..(l.total + 1)
  BY <1>3, <1>5 DEF Kept
<1>7. \A k \in m.first..(l.total + 1) :
         k = l.total + 1 \/ (k \in m.first..l.total /\ k \in l.first..l.total /\ k # l.total + 1)
  BY <1>1, <1>3
<1>8. \A k \in Kept(p) : p.txns[k] = IF k = l.total + 1 THEN t ELSE l.txns[k]
  BY <1>3, <1>5, <1>6, <1>7
<1>9. \A k \in Kept(p) : p.revBy[k] = IF k = l.total + 1 THEN 0
                                      ELSE IF k = t.reverses THEN l.total + 1 ELSE l.revBy[k]
  BY <1>3, <1>5, <1>6, <1>7
<1>10. p.bal \in [Account -> Int]
  BY <1>1, <1>3, <1>5 DEF Moved, Txn
<1>11. p.txns \in [Kept(p) -> Txn]
  <2>1. \A k \in Kept(p) : p.txns[k] \in Txn
    BY <1>1, <1>6, <1>7, <1>8
  <2>2. p.txns = [k \in Kept(p) |-> p.txns[k]]
    BY <1>3, <1>5, <1>6
  <2> QED BY <2>1, <2>2
<1>12. LedOK(p)
  BY <1>1, <1>3, <1>5, <1>10, <1>11 DEF LedOK
<1> QED BY <1>1, <1>3, <1>4, <1>5, <1>6, <1>7, <1>8, <1>9, <1>12 DEF p, Kept
-----------------------------------------------------------------------------
(* What an event that creates nothing makes of a state. *)

\* The listing and the offer it is about, 0 for none.
Target(s, e) ==
    IF e.type = "ListingUpdated" THEN e.id
    ELSE IF e.type \in {"ListingPurchased", "OfferAccepted"} THEN e.listing
    ELSE IF e.type = "OfferUpdated" /\ e.reopen THEN s.offers[Row(s.offers, e.id)].listing
    ELSE 0
Bid(e) ==
    IF e.type = "OfferAccepted" THEN e.offer ELSE IF e.type = "OfferUpdated" THEN e.id ELSE 0

Pays(e) == e.type \in {"Transaction", "ListingPurchased", "OfferAccepted"}

\* The sequence number tx is the next one.
NewListing(e, tx, l) ==
    IF e.type = "ListingUpdated"
    THEN [l EXCEPT !.price = e.price, !.text = e.text, !.status = e.status, !.at = e.at]
    ELSE IF e.type = "OfferUpdated"
    THEN [l EXCEPT !.status = "ACTIVE", !.buyer = None, !.soldTx = 0, !.at = e.at]
    ELSE [l EXCEPT !.status = "SOLD", !.buyer = e.buyer, !.soldTx = tx, !.at = e.at]
NewOffer(e, tx, o) ==
    IF e.type = "OfferAccepted"
    THEN [o EXCEPT !.status = "ACCEPTED", !.settledTx = tx, !.settlesAt = e.settlesAt, !.at = e.at]
    ELSE [o EXCEPT !.status = e.status, !.at = e.at]

NextLedger(s, e) == IF Pays(e) THEN NextLed(s.led, e.txn) ELSE s.led
NextListings(s, e) ==
    [i \in DOMAIN s.listings |->
        IF s.listings[i].id # 0 /\ s.listings[i].id = Target(s, e)
        THEN NewListing(e, s.led.total + 1, s.listings[i]) ELSE s.listings[i]]
NextOffers(s, e) ==
    [i \in DOMAIN s.offers |->
        IF s.offers[i].id # 0 /\ s.offers[i].id = Bid(e)
        THEN NewOffer(e, s.led.total + 1, s.offers[i]) ELSE s.offers[i]]
NextActive(s, e) ==
    IF e.type = "UserUpdated" THEN IF e.active THEN s.active \cup {e.user} ELSE s.active \ {e.user}
    ELSE s.active

After(s, e) ==
    [led |-> NextLedger(s, e), listings |-> NextListings(s, e), offers |-> NextOffers(s, e),
     active |-> NextActive(s, e)]

\* The state has what the event is about.
Known(s, e) ==
    /\ Bid(e) # 0 => Has(s.offers, Bid(e))
    /\ e.type \in {"ListingUpdated", "ListingPurchased", "OfferAccepted"} => Has(s.listings, Target(s, e))

Rewritable(s, e) ==
    LET i == Row(s.listings, e.id)
    IN  e.text = s.listings[i].text \/ Fits(s, [s.listings[i] EXCEPT !.text = e.text], i)

Ready(s, e) ==
    /\ Known(s, e)
    /\ Pays(e) => s.led.total < MaxSeq
    /\ e.type = "ListingUpdated" => Rewritable(s, e)

\* One row of a table changes.
LEMMA OneRow ==
    ASSUME NEW tab, tab = [i \in DOMAIN tab |-> tab[i]], Once(tab), NEW i \in DOMAIN tab, tab[i].id # 0, NEW q
    PROVE  [tab EXCEPT ![i] = q] =
           [j \in DOMAIN tab |-> IF tab[j].id # 0 /\ tab[j].id = tab[i].id THEN q ELSE tab[j]]
<1>1. \A j \in DOMAIN tab : tab[j].id # 0 /\ tab[j].id = tab[i].id <=> j = i
  BY DEF Once
<1>2. [tab EXCEPT ![i] = q] = [j \in DOMAIN tab |-> IF j = i THEN q ELSE tab[j]]
  OBVIOUS
<1> QED BY <1>1, <1>2

\* The listing an event is about is the one in its row, and so is the offer.
LEMMA ListingRow ==
    ASSUME NEW s, NEW e, s.listings = [i \in DOMAIN s.listings |-> s.listings[i]], Once(s.listings),
           Has(s.listings, Target(s, e)), Target(s, e) # 0
    PROVE  NextListings(s, e) =
           [s.listings EXCEPT ![Row(s.listings, Target(s, e))] =
               NewListing(e, s.led.total + 1, s.listings[Row(s.listings, Target(s, e))])]
<1> DEFINE tab == s.listings
           i == Row(tab, Target(s, e))
           q == NewListing(e, s.led.total + 1, tab[i])
<1>1. i \in DOMAIN tab /\ tab[i].id = Target(s, e)
  BY RowIs
<1>2. \A j \in DOMAIN tab : tab[j].id # 0 /\ tab[j].id = tab[i].id => tab[j] = tab[i]
  BY <1>1 DEF Once
<1>3. NextListings(s, e) = [j \in DOMAIN tab |-> IF tab[j].id # 0 /\ tab[j].id = tab[i].id THEN q ELSE tab[j]]
  BY <1>1, <1>2 DEF NextListings
<1> HIDE DEF i, q
<1>4. [tab EXCEPT ![i] = q] =
      [j \in DOMAIN tab |-> IF tab[j].id # 0 /\ tab[j].id = tab[i].id THEN q ELSE tab[j]]
  BY <1>1, OneRow
<1> QED BY <1>3, <1>4 DEF i, q

LEMMA OfferRow ==
    ASSUME NEW s, NEW e, s.offers = [i \in DOMAIN s.offers |-> s.offers[i]], Once(s.offers),
           Has(s.offers, Bid(e)), Bid(e) # 0
    PROVE  NextOffers(s, e) =
           [s.offers EXCEPT ![Row(s.offers, Bid(e))] =
               NewOffer(e, s.led.total + 1, s.offers[Row(s.offers, Bid(e))])]
<1> DEFINE tab == s.offers
           i == Row(tab, Bid(e))
           q == NewOffer(e, s.led.total + 1, tab[i])
<1>1. i \in DOMAIN tab /\ tab[i].id = Bid(e)
  BY RowIs
<1>2. \A j \in DOMAIN tab : tab[j].id # 0 /\ tab[j].id = tab[i].id => tab[j] = tab[i]
  BY <1>1 DEF Once
<1>3. NextOffers(s, e) = [j \in DOMAIN tab |-> IF tab[j].id # 0 /\ tab[j].id = tab[i].id THEN q ELSE tab[j]]
  BY <1>1, <1>2 DEF NextOffers
<1> HIDE DEF i, q
<1>4. [tab EXCEPT ![i] = q] =
      [j \in DOMAIN tab |-> IF tab[j].id # 0 /\ tab[j].id = tab[i].id THEN q ELSE tab[j]]
  BY <1>1, OneRow
<1> QED BY <1>3, <1>4 DEF i, q

\* A table that has not what the event is about stays.
LEMMA NoRow ==
    ASSUME NEW s, NEW e
    PROVE  /\ /\ s.listings = [i \in DOMAIN s.listings |-> s.listings[i]]
              /\ Target(s, e) = 0 \/ ~Has(s.listings, Target(s, e))
              => NextListings(s, e) = s.listings
           /\ /\ s.offers = [i \in DOMAIN s.offers |-> s.offers[i]]
              /\ Bid(e) = 0 \/ ~Has(s.offers, Bid(e))
              => NextOffers(s, e) = s.offers
<1>1. (Target(s, e) = 0 \/ ~Has(s.listings, Target(s, e))) =>
         \A i \in DOMAIN s.listings : ~(s.listings[i].id # 0 /\ s.listings[i].id = Target(s, e))
  BY DEF Has
<1>2. (Bid(e) = 0 \/ ~Has(s.offers, Bid(e))) =>
         \A i \in DOMAIN s.offers : ~(s.offers[i].id # 0 /\ s.offers[i].id = Bid(e))
  BY DEF Has
<1> QED BY <1>1, <1>2 DEF NextListings, NextOffers

\* A listing that keeps its text is written where it is.
LEMMA WriteIs ==
    ASSUME NEW s, NEW id, NEW l, l.id = id
    PROVE  WriteListing(s, l) =
           IF l.text # s.listings[Row(s.listings, id)].text /\ ~Fits(s, l, Row(s.listings, id)) THEN Refused(s)
           ELSE Done([s EXCEPT !.listings[Row(s.listings, id)] = l])
BY DEF WriteListing

Rec(led, listings, offers, active) ==
    [led |-> led, listings |-> listings, offers |-> offers, active |-> active]

\* A state with another ledger, listing or offer.
LEMMA RecIs ==
    ASSUME NEW led, NEW ls, NEW os, NEW act
    PROVE  LET r == Rec(led, ls, os, act)
           IN  /\ r.led = led /\ r.listings = ls /\ r.offers = os /\ r.active = act
               /\ \A x : [r EXCEPT !.led = x] = Rec(x, ls, os, act)
               /\ \A x : [r EXCEPT !.active = x] = Rec(led, ls, os, x)
BY DEF Rec

LEMMA RecordIs ==
    ASSUME NEW s, NEW n, Sound(s, n), NEW t
    PROVE  Record(s, t) = Rec(NextLed(s.led, t), s.listings, s.offers, s.active)
<1>1. Record(s, t) = [s EXCEPT !.led = NextLed(s.led, t)]
  BY DEF Record, NextLed
<1>2. s = Rec(s.led, s.listings, s.offers, s.active)
  BY DEF Sound, Rec
<1> QED BY <1>1, <1>2, RecIs
\* A listing that is sold, put back on the market or edited stays the same listing.
LEMMA NewListingIs ==
    ASSUME NEW l \in Listing, NEW e, NEW tx
    PROVE  /\ NewListing(e, tx, l).id = l.id
           /\ e.type # "ListingUpdated" => NewListing(e, tx, l).text = l.text
           /\ e.type = "ListingUpdated" =>
                 NewListing(e, tx, l).text = e.text /\ NewListing(e, tx, l).status = e.status
           /\ e.type = "OfferUpdated" => NewListing(e, tx, l).status = "ACTIVE"
           /\ e.type \in {"ListingPurchased", "OfferAccepted"} =>
                 NewListing(e, tx, l).status = "SOLD" /\ NewListing(e, tx, l).soldTx = tx
BY DEF NewListing, Listing

LEMMA NewOfferIs ==
    ASSUME NEW o \in Offer, NEW e, NEW tx
    PROVE  /\ NewOffer(e, tx, o).id = o.id /\ NewOffer(e, tx, o).listing = o.listing
           /\ e.type = "OfferAccepted" =>
                 NewOffer(e, tx, o).status = "ACCEPTED" /\ NewOffer(e, tx, o).settledTx = tx
           /\ e.type = "OfferUpdated" => NewOffer(e, tx, o).status = e.status
BY DEF NewOffer, Offer

\* Such an event is refused without a trace, or does what After says.
LEMMA EventIs ==
    ASSUME MarketAssumption, NEW s, NEW n, Sound(s, n), NEW e, Suits(e, s, n)
    PROVE  ApplyEvent(s, e) = IF Ready(s, e) THEN Done(After(s, e)) ELSE Refused(s)
<1> DEFINE tx == s.led.total + 1
           i == Row(s.listings, Target(s, e))
           j == Row(s.offers, Bid(e))
<1>1. /\ s = Rec(s.led, s.listings, s.offers, s.active)
      /\ s.listings = [k \in DOMAIN s.listings |-> s.listings[k]] /\ Once(s.listings)
      /\ s.offers = [k \in DOMAIN s.offers |-> s.offers[k]] /\ Once(s.offers)
  <2>1. s = Rec(s.led, s.listings, s.offers, s.active)
    BY DEF Sound, Rec
  <2> QED BY <2>1, Typed
<1>2. s.led.total \in Nat /\ MaxSeq \in Nat /\ (s.led.total = MaxSeq <=> ~(s.led.total < MaxSeq))
  BY DEF Sound, LedOK, MarketAssumption, LedgerOpsAssumption
<1>3. Has(s.listings, Target(s, e)) /\ Target(s, e) # 0 =>
         /\ i \in DOMAIN s.listings /\ s.listings[i].id = Target(s, e) /\ s.listings[i] \in Listing
         /\ NextListings(s, e) = [s.listings EXCEPT ![i] = NewListing(e, tx, s.listings[i])]
  <2> SUFFICES ASSUME Has(s.listings, Target(s, e)), Target(s, e) # 0
               PROVE  /\ i \in DOMAIN s.listings /\ s.listings[i].id = Target(s, e) /\ s.listings[i] \in Listing
                      /\ NextListings(s, e) = [s.listings EXCEPT ![i] = NewListing(e, tx, s.listings[i])]
    OBVIOUS
  <2>1. i \in DOMAIN s.listings /\ s.listings[i].id = Target(s, e)
    BY RowIs
  <2>2. s.listings[i] \in Listing
    BY <2>1, Typed
  <2> QED BY <1>1, <2>1, <2>2, ListingRow
<1>4. Has(s.offers, Bid(e)) /\ Bid(e) # 0 =>
         /\ j \in DOMAIN s.offers /\ s.offers[j].id = Bid(e) /\ s.offers[j] \in Offer
         /\ NextOffers(s, e) = [s.offers EXCEPT ![j] = NewOffer(e, tx, s.offers[j])]
  <2> SUFFICES ASSUME Has(s.offers, Bid(e)), Bid(e) # 0
               PROVE  /\ j \in DOMAIN s.offers /\ s.offers[j].id = Bid(e) /\ s.offers[j] \in Offer
                      /\ NextOffers(s, e) = [s.offers EXCEPT ![j] = NewOffer(e, tx, s.offers[j])]
    OBVIOUS
  <2>1. j \in DOMAIN s.offers /\ s.offers[j].id = Bid(e)
    BY RowIs
  <2>2. s.offers[j] \in Offer
    BY <2>1, Typed
  <2> QED BY <1>1, <2>1, <2>2, OfferRow
<1>5. /\ Target(s, e) = 0 \/ ~Has(s.listings, Target(s, e)) => NextListings(s, e) = s.listings
      /\ Bid(e) = 0 \/ ~Has(s.offers, Bid(e)) => NextOffers(s, e) = s.offers
  BY <1>1, NoRow
<1>6. After(s, e) = Rec(NextLedger(s, e), NextListings(s, e), NextOffers(s, e), NextActive(s, e))
  BY DEF After, Rec
<1>7. \A t : Record(s, t) = Rec(NextLed(s.led, t), s.listings, s.offers, s.active)
  BY RecordIs
<1>8. CASE e.type = "Transaction"
  <2>1. Target(s, e) = 0 /\ Bid(e) = 0 /\ Pays(e)
    BY <1>8 DEF Target, Bid, Pays
  <2>2. Ready(s, e) <=> s.led.total < MaxSeq
    BY <1>8, <2>1 DEF Ready, Known
  <2>3. After(s, e) = Record(s, e.txn)
    BY <1>5, <1>6, <1>7, <1>8, <2>1 DEF NextLedger, NextActive
  <2> QED BY <1>2, <1>8, <2>2, <2>3 DEF ApplyEvent, ApplyTransaction
<1>9. CASE e.type = "UserUpdated"
  <2>1. Target(s, e) = 0 /\ Bid(e) = 0 /\ ~Pays(e)
    BY <1>9 DEF Target, Bid, Pays
  <2>2. Ready(s, e)
    BY <1>9, <2>1 DEF Ready, Known
  <2>3. ApplyEvent(s, e) = Done([s EXCEPT !.active = NextActive(s, e)])
    BY <1>9 DEF ApplyEvent, ApplyUserUpdated, NextActive
  <2>4. After(s, e) = Rec(s.led, s.listings, s.offers, NextActive(s, e))
    BY <1>5, <1>6, <2>1 DEF NextLedger
  <2>5. [s EXCEPT !.active = NextActive(s, e)] = Rec(s.led, s.listings, s.offers, NextActive(s, e))
    BY <1>1, RecIs
  <2> QED BY <2>2, <2>3, <2>4, <2>5
<1>10. CASE e.type = "ListingUpdated"
  <2>1. Target(s, e) = e.id /\ e.id # 0 /\ Bid(e) = 0 /\ ~Pays(e) /\ NextActive(s, e) = s.active
    BY <1>10 DEF Target, Bid, Pays, Suits, NextActive
  <2>2. Ready(s, e) <=> Has(s.listings, e.id) /\ Rewritable(s, e)
    BY <1>10, <2>1 DEF Ready, Known
  <2>3. ApplyEvent(s, e) = ApplyListingUpdated(s, e)
    BY <1>10 DEF ApplyEvent
  <2>4. CASE ~Has(s.listings, e.id)
    BY <2>2, <2>3, <2>4 DEF ApplyListingUpdated
  <2>5. CASE Has(s.listings, e.id)
    <3> DEFINE l == NewListing(e, tx, s.listings[i])
    <3>1. /\ s.listings[i] \in Listing /\ s.listings[i].id = e.id
          /\ NextListings(s, e) = [s.listings EXCEPT ![i] = l]
      BY <1>3, <2>1, <2>5
    <3>2. l.id = e.id /\ l.text = e.text
      BY <1>10, <3>1, NewListingIs
    <3>3. ApplyEvent(s, e) = WriteListing(s, l)
      BY <1>10, <2>1, <2>3, <2>5 DEF ApplyListingUpdated, NewListing
    <3>4. [s.listings[i] EXCEPT !.text = e.text].text = e.text
      BY <3>1 DEF Listing
    <3>5. Rewritable(s, e) <=> ~(l.text # s.listings[i].text /\ ~Fits(s, l, i))
      BY <2>1, <3>2, <3>4 DEF Rewritable, Fits
    <3> HIDE DEF l
    <3>6. ApplyEvent(s, e) = IF Rewritable(s, e) THEN Done([s EXCEPT !.listings[i] = l]) ELSE Refused(s)
      BY <2>1, <3>2, <3>3, <3>5, WriteIs
    <3>7. [s EXCEPT !.listings[i] = l] = Rec(s.led, [s.listings EXCEPT ![i] = l], s.offers, s.active)
      <4>1. [Rec(s.led, s.listings, s.offers, s.active) EXCEPT !.listings[i] = l] =
            Rec(s.led, [s.listings EXCEPT ![i] = l], s.offers, s.active)
        BY DEF Rec
      <4> QED BY <1>1, <4>1
    <3>8. After(s, e) = Rec(s.led, [s.listings EXCEPT ![i] = l], s.offers, s.active)
      BY <1>5, <1>6, <2>1, <3>1 DEF NextLedger
    <3> QED BY <2>2, <2>5, <3>6, <3>7, <3>8
  <2> QED BY <2>4, <2>5
<1>11. CASE e.type = "ListingPurchased"
  <2>1. Target(s, e) = e.listing /\ e.listing # 0 /\ Bid(e) = 0 /\ Pays(e) /\ NextActive(s, e) = s.active
    BY <1>11 DEF Target, Bid, Pays, Suits, NextActive
  <2>2. Ready(s, e) <=> Has(s.listings, e.listing) /\ s.led.total < MaxSeq
    BY <1>11, <2>1 DEF Ready, Known
  <2>3. ApplyEvent(s, e) = ApplyPurchased(s, e)
    BY <1>11 DEF ApplyEvent
  <2>4. CASE ~(Has(s.listings, e.listing) /\ s.led.total < MaxSeq)
    BY <1>2, <2>2, <2>3, <2>4 DEF ApplyPurchased
  <2>5. CASE Has(s.listings, e.listing) /\ s.led.total < MaxSeq
    <3> DEFINE l == NewListing(e, tx, s.listings[i])
               r == Rec(NextLed(s.led, e.txn), s.listings, s.offers, s.active)
    <3>1. /\ s.listings[i] \in Listing /\ s.listings[i].id = e.listing
          /\ NextListings(s, e) = [s.listings EXCEPT ![i] = l]
      BY <1>3, <2>1, <2>5
    <3>2. l.id = e.listing /\ l.text = s.listings[i].text
      BY <1>11, <3>1, NewListingIs
    <3>3. r = Record(s, e.txn) /\ r.listings = s.listings
      BY <1>7, RecIs
    <3>4. ApplyEvent(s, e) = Sold(r, e.listing, e.buyer, tx, e.at)
      BY <1>2, <2>3, <2>5, <3>3 DEF ApplyPurchased
    <3> HIDE DEF r
    <3>5. ApplyEvent(s, e) = WriteListing(r, l)
      BY <1>11, <2>1, <3>3, <3>4 DEF Sold, NewListing
    <3> HIDE DEF l
    <3>6. ApplyEvent(s, e) = Done([r EXCEPT !.listings[i] = l])
      BY <2>1, <3>2, <3>3, <3>5, WriteIs
    <3>7. [r EXCEPT !.listings[i] = l] = Rec(NextLed(s.led, e.txn), [s.listings EXCEPT ![i] = l], s.offers, s.active)
      BY DEF r, Rec
    <3>8. After(s, e) = Rec(NextLed(s.led, e.txn), [s.listings EXCEPT ![i] = l], s.offers, s.active)
      BY <1>5, <1>6, <2>1, <3>1 DEF NextLedger
    <3> QED BY <2>2, <2>5, <3>6, <3>7, <3>8
  <2> QED BY <2>4, <2>5
<1>12. CASE e.type = "OfferAccepted"
  <2>1. /\ Target(s, e) = e.listing /\ e.listing # 0 /\ Bid(e) = e.offer /\ e.offer # 0
        /\ Pays(e) /\ NextActive(s, e) = s.active
    BY <1>12 DEF Target, Bid, Pays, Suits, NextActive
  <2>2. Ready(s, e) <=> Has(s.offers, e.offer) /\ Has(s.listings, e.listing) /\ s.led.total < MaxSeq
    BY <1>12, <2>1 DEF Ready, Known
  <2>3. ApplyEvent(s, e) = ApplyAccepted(s, e)
    BY <1>12 DEF ApplyEvent
  <2>4. CASE ~(Has(s.offers, e.offer) /\ Has(s.listings, e.listing) /\ s.led.total < MaxSeq)
    BY <1>2, <2>2, <2>3, <2>4 DEF ApplyAccepted
  <2>5. CASE Has(s.offers, e.offer) /\ Has(s.listings, e.listing) /\ s.led.total < MaxSeq
    <3> DEFINE l == NewListing(e, tx, s.listings[i])
               o == NewOffer(e, tx, s.offers[j])
               led == NextLed(s.led, e.txn)
               r == Rec(led, s.listings, [s.offers EXCEPT ![j] = o], s.active)
    <3>1. /\ s.listings[i] \in Listing /\ s.listings[i].id = e.listing
          /\ NextListings(s, e) = [s.listings EXCEPT ![i] = l]
          /\ NextOffers(s, e) = [s.offers EXCEPT ![j] = o]
      BY <1>3, <1>4, <2>1, <2>5
    <3>2. l.id = e.listing /\ l.text = s.listings[i].text
      BY <1>12, <3>1, NewListingIs
    <3>3. [Record(s, e.txn) EXCEPT !.offers[j] =
              [@ EXCEPT !.status = "ACCEPTED", !.settledTx = tx, !.settlesAt = e.settlesAt, !.at = e.at]] = r
      <4>1. Record(s, e.txn).offers = s.offers /\ Record(s, e.txn) = Rec(led, s.listings, s.offers, s.active)
        BY <1>7, RecIs
      <4>2. o = [s.offers[j] EXCEPT !.status = "ACCEPTED", !.settledTx = tx, !.settlesAt = e.settlesAt, !.at = e.at]
        BY <1>12 DEF NewOffer
      <4>3. [Record(s, e.txn) EXCEPT !.offers[j] =
                [@ EXCEPT !.status = "ACCEPTED", !.settledTx = tx, !.settlesAt = e.settlesAt, !.at = e.at]] =
            [Record(s, e.txn) EXCEPT !.offers[j] = o]
        BY <4>1, <4>2
      <4> HIDE DEF o, led, j
      <4>4. [Rec(led, s.listings, s.offers, s.active) EXCEPT !.offers[j] = o] = r
        BY DEF Rec
      <4> QED BY <4>1, <4>3, <4>4
    <3>4. ApplyEvent(s, e) = Sold(r, e.listing, e.buyer, tx, e.at)
      BY <1>2, <2>1, <2>3, <2>5, <3>3 DEF ApplyAccepted
    <3>5. r.listings = s.listings
      BY RecIs
    <3> HIDE DEF r
    <3>6. ApplyEvent(s, e) = WriteListing(r, l)
      BY <1>12, <2>1, <3>4, <3>5 DEF Sold, NewListing
    <3> HIDE DEF l, o, led
    <3>7. ApplyEvent(s, e) = Done([r EXCEPT !.listings[i] = l])
      BY <2>1, <3>2, <3>5, <3>6, WriteIs
    <3>8. [r EXCEPT !.listings[i] = l] =
          Rec(led, [s.listings EXCEPT ![i] = l], [s.offers EXCEPT ![j] = o], s.active)
      BY DEF r, Rec
    <3>9. After(s, e) = Rec(led, [s.listings EXCEPT ![i] = l], [s.offers EXCEPT ![j] = o], s.active)
      BY <1>6, <2>1, <3>1 DEF NextLedger, led
    <3> QED BY <2>2, <2>5, <3>7, <3>8, <3>9
  <2> QED BY <2>4, <2>5
<1>13. CASE e.type = "OfferUpdated"
  <2>1. Bid(e) = e.id /\ e.id # 0 /\ ~Pays(e) /\ NextActive(s, e) = s.active
    BY <1>13 DEF Bid, Pays, Suits, NextActive
  <2>2. Ready(s, e) <=> Has(s.offers, e.id)
    BY <1>13, <2>1 DEF Ready, Known
  <2>3. ApplyEvent(s, e) = ApplyOfferUpdated(s, e)
    BY <1>13 DEF ApplyEvent
  <2>4. CASE ~Has(s.offers, e.id)
    BY <2>2, <2>3, <2>4 DEF ApplyOfferUpdated
  <2>5. CASE Has(s.offers, e.id)
    <3> DEFINE o == NewOffer(e, tx, s.offers[j])
               r == Rec(s.led, s.listings, [s.offers EXCEPT ![j] = o], s.active)
    <3>1. /\ s.offers[j] \in Offer /\ NextOffers(s, e) = [s.offers EXCEPT ![j] = o]
      BY <1>4, <2>1, <2>5
    <3>2. [s EXCEPT !.offers[j] = [@ EXCEPT !.status = e.status, !.at = e.at]] = r
      <4>1. o = [s.offers[j] EXCEPT !.status = e.status, !.at = e.at]
        BY <1>13 DEF NewOffer
      <4>2. [s EXCEPT !.offers[j] = [@ EXCEPT !.status = e.status, !.at = e.at]] = [s EXCEPT !.offers[j] = o]
        BY <4>1
      <4> HIDE DEF o, j
      <4>3. [Rec(s.led, s.listings, s.offers, s.active) EXCEPT !.offers[j] = o] = r
        BY DEF Rec
      <4> QED BY <1>1, <4>2, <4>3
    <3>3. r.listings = s.listings
      BY RecIs
    <3>4. ApplyEvent(s, e) = IF e.reopen THEN Reopened(r, s.offers[j].listing, e.at) ELSE Done(r)
      BY <2>1, <2>3, <2>5, <3>2 DEF ApplyOfferUpdated
    <3>5. CASE ~e.reopen
      <4>1. Target(s, e) = 0
        BY <1>13, <3>5 DEF Target
      <4>2. After(s, e) = r
        BY <1>5, <1>6, <2>1, <3>1, <4>1 DEF NextLedger
      <4> QED BY <2>2, <2>5, <3>4, <3>5, <4>2
    <3>6. CASE e.reopen
      <4>1. Target(s, e) = s.offers[j].listing
        BY <1>13, <2>1, <3>6 DEF Target
      <4>2. Target(s, e) # 0
        BY <3>1, <4>1 DEF Offer
      <4> HIDE DEF r
      <4>3. CASE ~Has(s.listings, Target(s, e))
        <5>1. ApplyEvent(s, e) = Done(r)
          BY <3>3, <3>4, <3>6, <4>1, <4>3 DEF Reopened
        <5>2. After(s, e) = r
          BY <1>5, <1>6, <2>1, <3>1, <4>3 DEF NextLedger, r
        <5> QED BY <2>2, <2>5, <5>1, <5>2
      <4>4. CASE Has(s.listings, Target(s, e))
        <5> DEFINE l == NewListing(e, tx, s.listings[i])
        <5>1. /\ s.listings[i] \in Listing /\ s.listings[i].id = Target(s, e)
              /\ NextListings(s, e) = [s.listings EXCEPT ![i] = l]
          BY <1>3, <4>2, <4>4
        <5>2. l.id = Target(s, e) /\ l.text = s.listings[i].text
          BY <1>13, <5>1, NewListingIs
        <5>3. ApplyEvent(s, e) = WriteListing(r, l)
          BY <1>13, <3>3, <3>4, <3>6, <4>1, <4>4 DEF Reopened, NewListing
        <5> HIDE DEF l, o
        <5>4. ApplyEvent(s, e) = Done([r EXCEPT !.listings[i] = l])
          BY <3>3, <5>2, <5>3, WriteIs
        <5>5. [r EXCEPT !.listings[i] = l] =
              Rec(s.led, [s.listings EXCEPT ![i] = l], [s.offers EXCEPT ![j] = o], s.active)
          BY DEF r, Rec
        <5>6. After(s, e) = Rec(s.led, [s.listings EXCEPT ![i] = l], [s.offers EXCEPT ![j] = o], s.active)
          BY <1>6, <2>1, <3>1, <5>1 DEF NextLedger
        <5> QED BY <2>2, <2>5, <5>4, <5>5, <5>6
      <4> QED BY <4>3, <4>4
    <3> QED BY <3>5, <3>6
  <2> QED BY <2>4, <2>5
<1> QED BY <1>8, <1>9, <1>10, <1>11, <1>12, <1>13 DEF Suits
\* The tables after it: the same identifiers, and rows of the same kind.
LEMMA AfterRows ==
    ASSUME MarketAssumption, NEW s, NEW n, Sound(s, n), NEW e, Suits(e, s, n)
    PROVE  /\ DOMAIN NextListings(s, e) = DOMAIN s.listings /\ DOMAIN NextOffers(s, e) = DOMAIN s.offers
           /\ \A i \in DOMAIN s.listings :
                 \/ /\ NextListings(s, e)[i] = s.listings[i]
                    /\ s.listings[i].id = 0 \/ s.listings[i].id # Target(s, e)
                 \/ /\ s.listings[i] \in Listing /\ s.listings[i].id = Target(s, e)
                    /\ NextListings(s, e)[i] = NewListing(e, s.led.total + 1, s.listings[i])
                    /\ NextListings(s, e)[i].id = s.listings[i].id
           /\ \A i \in DOMAIN s.offers :
                 \/ /\ NextOffers(s, e)[i] = s.offers[i]
                    /\ s.offers[i].id = 0 \/ s.offers[i].id # Bid(e)
                 \/ /\ s.offers[i] \in Offer /\ s.offers[i].id = Bid(e)
                    /\ NextOffers(s, e)[i] = NewOffer(e, s.led.total + 1, s.offers[i])
                    /\ NextOffers(s, e)[i].id = s.offers[i].id
                    /\ NextOffers(s, e)[i].listing = s.offers[i].listing
<1>1. \A i \in DOMAIN s.listings : s.listings[i].id # 0 => s.listings[i] \in Listing
  BY Typed
<1>2. \A i \in DOMAIN s.offers : s.offers[i].id # 0 => s.offers[i] \in Offer
  BY Typed
<1>3. \A l \in Listing : NewListing(e, s.led.total + 1, l).id = l.id
  BY NewListingIs
<1>4. \A o \in Offer : NewOffer(e, s.led.total + 1, o).id = o.id /\ NewOffer(e, s.led.total + 1, o).listing = o.listing
  BY NewOfferIs
<1>5. \A i \in DOMAIN s.listings :
         NextListings(s, e)[i] = IF s.listings[i].id # 0 /\ s.listings[i].id = Target(s, e)
                                 THEN NewListing(e, s.led.total + 1, s.listings[i]) ELSE s.listings[i]
  BY DEF NextListings
<1>6. \A i \in DOMAIN s.offers :
         NextOffers(s, e)[i] = IF s.offers[i].id # 0 /\ s.offers[i].id = Bid(e)
                               THEN NewOffer(e, s.led.total + 1, s.offers[i]) ELSE s.offers[i]
  BY DEF NextOffers
<1>7. DOMAIN NextListings(s, e) = DOMAIN s.listings /\ DOMAIN NextOffers(s, e) = DOMAIN s.offers
  BY DEF NextListings, NextOffers
<1> QED BY <1>1, <1>2, <1>3, <1>4, <1>5, <1>6, <1>7

\* Which events change a listing or an offer.
LEMMA AboutIs ==
    ASSUME NEW s, NEW n, NEW e, Suits(e, s, n)
    PROVE  /\ Target(s, e) # 0 => e.type \in {"ListingUpdated", "ListingPurchased", "OfferAccepted", "OfferUpdated"}
           /\ Bid(e) # 0 => e.type \in {"OfferAccepted", "OfferUpdated"}
           /\ e.type \in {"ListingUpdated", "ListingPurchased", "OfferAccepted"} => Target(s, e) # 0
           /\ e.type = "ListingUpdated" => Target(s, e) = e.id
           /\ e.type \in {"ListingPurchased", "OfferAccepted"} => Target(s, e) = e.listing
           /\ e.type = "OfferAccepted" => Bid(e) = e.offer
           /\ e.type = "OfferUpdated" => Bid(e) = e.id
           /\ e.type \in {"OfferAccepted", "OfferUpdated"} => Bid(e) # 0
BY DEF Target, Bid, Suits

LEMMA AfterTyped ==
    ASSUME MarketAssumption, NEW s, NEW n, Sound(s, n), NEW e, Suits(e, s, n), Ready(s, e)
    PROVE  /\ ListingsOK(NextListings(s, e)) /\ OffersOK(NextOffers(s, e)) /\ LedOK(NextLedger(s, e))
           /\ NextActive(s, e) \subseteq User
<1>1. s.led.total \in Nat /\ MaxSeq \in Nat /\ LedOK(s.led)
  BY DEF Sound, LedOK, MarketAssumption, LedgerOpsAssumption
<1>2. ASSUME NEW l \in Listing, l.id = Target(s, e), l.id # 0
      PROVE  NewListing(e, s.led.total + 1, l) \in Listing
  <2>1. CASE e.type = "ListingUpdated"
    <3>1. /\ e.price \in Amount /\ e.text \in 1..MaxText /\ e.status \in {"ACTIVE", "CANCELLED"}
          /\ e.at \in 0..MaxTime
      BY <2>1 DEF Suits
    <3>2. NewListing(e, s.led.total + 1, l) =
          [l EXCEPT !.price = e.price, !.text = e.text, !.status = e.status, !.at = e.at]
      BY <2>1 DEF NewListing
    <3>3. NewListing(e, s.led.total + 1, l) =
          [id |-> l.id, seller |-> l.seller, side |-> l.side, price |-> e.price, text |-> e.text,
           status |-> e.status, buyer |-> l.buyer, soldTx |-> l.soldTx, at |-> e.at]
      BY <3>2 DEF Listing
    <3> QED BY <3>1, <3>3 DEF Listing
  <2>2. CASE e.type = "OfferUpdated"
    <3>1. e.at \in 0..MaxTime
      BY <2>2 DEF Suits
    <3>2. NewListing(e, s.led.total + 1, l) =
          [l EXCEPT !.status = "ACTIVE", !.buyer = None, !.soldTx = 0, !.at = e.at]
      BY <2>2 DEF NewListing
    <3>3. NewListing(e, s.led.total + 1, l) =
          [id |-> l.id, seller |-> l.seller, side |-> l.side, price |-> l.price, text |-> l.text,
           status |-> "ACTIVE", buyer |-> None, soldTx |-> 0, at |-> e.at]
      BY <3>2 DEF Listing
    <3> QED BY <1>1, <3>1, <3>3 DEF Listing
  <2>3. CASE e.type \in {"ListingPurchased", "OfferAccepted"}
    <3>1. e.at \in 0..MaxTime /\ e.buyer \in User
      BY <2>3 DEF Suits
    <3>2. NewListing(e, s.led.total + 1, l) =
          [l EXCEPT !.status = "SOLD", !.buyer = e.buyer, !.soldTx = s.led.total + 1, !.at = e.at]
      BY <2>3 DEF NewListing
    <3>3. NewListing(e, s.led.total + 1, l) =
          [id |-> l.id, seller |-> l.seller, side |-> l.side, price |-> l.price, text |-> l.text,
           status |-> "SOLD", buyer |-> e.buyer, soldTx |-> s.led.total + 1, at |-> e.at]
      BY <3>2 DEF Listing
    <3>4. s.led.total + 1 \in 0..MaxSeq
      BY <1>1, <2>3 DEF Ready, Pays
    <3> QED BY <3>1, <3>3, <3>4 DEF Listing
  <2> QED BY <1>2, <2>1, <2>2, <2>3, AboutIs
<1>3. ASSUME NEW o \in Offer, o.id = Bid(e), o.id # 0
      PROVE  NewOffer(e, s.led.total + 1, o) \in Offer
  <2>1. CASE e.type = "OfferAccepted"
    <3>1. e.at \in 0..MaxTime /\ e.settlesAt \in 0..(MaxTime + SettleAfter)
      BY <2>1 DEF Suits
    <3>2. NewOffer(e, s.led.total + 1, o) =
          [o EXCEPT !.status = "ACCEPTED", !.settledTx = s.led.total + 1, !.settlesAt = e.settlesAt, !.at = e.at]
      BY <2>1 DEF NewOffer
    <3>3. NewOffer(e, s.led.total + 1, o) =
          [id |-> o.id, listing |-> o.listing, offerer |-> o.offerer, amount |-> o.amount, status |-> "ACCEPTED",
           settledTx |-> s.led.total + 1, settlesAt |-> e.settlesAt, at |-> e.at]
      BY <3>2 DEF Offer
    <3>4. s.led.total + 1 \in 0..MaxSeq
      BY <1>1, <2>1 DEF Ready, Pays
    <3> QED BY <3>1, <3>3, <3>4 DEF Offer
  <2>2. CASE e.type = "OfferUpdated"
    <3>1. e.at \in 0..MaxTime /\ e.status \in {"DECLINED", "WITHDRAWN", "REVERSED"}
      BY <2>2 DEF Suits
    <3>2. NewOffer(e, s.led.total + 1, o) = [o EXCEPT !.status = e.status, !.at = e.at]
      BY <2>2 DEF NewOffer
    <3>3. NewOffer(e, s.led.total + 1, o) =
          [id |-> o.id, listing |-> o.listing, offerer |-> o.offerer, amount |-> o.amount, status |-> e.status,
           settledTx |-> o.settledTx, settlesAt |-> o.settlesAt, at |-> e.at]
      BY <3>2 DEF Offer
    <3> QED BY <3>1, <3>3 DEF Offer
  <2> QED BY <1>3, <2>1, <2>2, AboutIs
<1> DEFINE ls == NextListings(s, e)
           os == NextOffers(s, e)
<1>4. /\ DOMAIN ls = DOMAIN s.listings /\ DOMAIN os = DOMAIN s.offers
      /\ \A i \in DOMAIN s.listings :
            \/ ls[i] = s.listings[i]
            \/ /\ s.listings[i] \in Listing /\ s.listings[i].id = Target(s, e)
               /\ ls[i] = NewListing(e, s.led.total + 1, s.listings[i]) /\ ls[i].id = s.listings[i].id
      /\ \A i \in DOMAIN s.offers :
            \/ os[i] = s.offers[i]
            \/ /\ s.offers[i] \in Offer /\ s.offers[i].id = Bid(e)
               /\ os[i] = NewOffer(e, s.led.total + 1, s.offers[i]) /\ os[i].id = s.offers[i].id
  BY AfterRows
<1>5. ls = [i \in DOMAIN ls |-> ls[i]] /\ os = [i \in DOMAIN os |-> os[i]]
  BY DEF NextListings, NextOffers
<1> HIDE DEF ls, os
<1>6. ListingsOK(ls)
  <2>1. s.listings \in [1..MaxListings -> Listing \cup {NoListing}] /\ Once(s.listings)
    BY DEF Sound, ListingsOK
  <2>2. \A l \in Listing : l.id # 0
    BY DEF Listing
  <2>3. \A i \in 1..MaxListings : ls[i] \in Listing \cup {NoListing} /\ ls[i].id = s.listings[i].id
    BY <1>2, <1>4, <2>1, <2>2
  <2>4. ls \in [1..MaxListings -> Listing \cup {NoListing}]
    BY <1>4, <1>5, <2>1, <2>3
  <2>5. Once(ls)
    BY <1>4, <2>1, <2>3 DEF Once
  <2> QED BY <2>4, <2>5 DEF ListingsOK
<1>7. OffersOK(os)
  <2>1. /\ s.offers \in [DOMAIN s.offers -> Offer \cup {NoOffer}] /\ Once(s.offers)
        /\ DOMAIN s.offers \subseteq 1..MaxOffers
    BY DEF Sound, OffersOK
  <2>2. \A o \in Offer : o.id # 0
    BY DEF Offer
  <2>3. \A i \in DOMAIN s.offers : os[i] \in Offer \cup {NoOffer} /\ os[i].id = s.offers[i].id
    BY <1>3, <1>4, <2>1, <2>2
  <2>4. os \in [DOMAIN os -> Offer \cup {NoOffer}]
    BY <1>4, <1>5, <2>1, <2>3
  <2>5. Once(os)
    BY <1>4, <2>1, <2>3 DEF Once
  <2> QED BY <1>4, <2>1, <2>4, <2>5 DEF OffersOK
<1>8. LedOK(NextLedger(s, e))
  <2>1. CASE Pays(e)
    <3>1. e.txn \in Txn /\ s.led.total < MaxSeq
      BY <2>1 DEF Suits, Pays, Ready
    <3> QED BY <1>1, <2>1, <3>1, NextLedIs DEF NextLedger
  <2>2. CASE ~Pays(e)
    BY <1>1, <2>2 DEF NextLedger
  <2> QED BY <2>1, <2>2
<1>9. NextActive(s, e) \subseteq User
  BY DEF NextActive, Suits, Sound
<1> QED BY <1>6, <1>7, <1>8, <1>9 DEF ls, os
\* The payments after it: one more under the reference of its listing, if it pays,
\* and none that stands again.
LEMMA AfterPaid ==
    ASSUME MarketAssumption, NEW s, NEW n, Sound(s, n), NEW e, Suits(e, s, n), Ready(s, e),
           NEW k \in Kept(NextLedger(s, e))
    PROVE  \/ /\ Pays(e) /\ k = s.led.total + 1 /\ NextLedger(s, e).txns[k] = e.txn
           \/ /\ k \in Kept(s.led) /\ NextLedger(s, e).txns[k] = s.led.txns[k]
              /\ NextLedger(s, e).revBy[k] = 0 => s.led.revBy[k] = 0
<1>1. s.led.total \in Nat /\ LedOK(s.led)
  BY DEF Sound, LedOK
<1>2. CASE Pays(e)
  <2>1. e.txn \in Txn /\ s.led.total < MaxSeq
    BY <1>2 DEF Suits, Pays, Ready
  <2> DEFINE l == NextLed(s.led, e.txn)
  <2>2. /\ k = s.led.total + 1 \/ (k \in Kept(s.led) /\ k # s.led.total + 1)
        /\ l.txns[k] = IF k = s.led.total + 1 THEN e.txn ELSE s.led.txns[k]
        /\ l.revBy[k] = IF k = s.led.total + 1 THEN 0
                        ELSE IF k = e.txn.reverses THEN s.led.total + 1 ELSE s.led.revBy[k]
    BY <1>1, <1>2, <2>1, NextLedIs DEF NextLedger
  <2>3. NextLedger(s, e) = l
    BY <1>2 DEF NextLedger
  <2> HIDE DEF l
  <2> QED BY <1>1, <1>2, <2>2, <2>3
<1>3. CASE ~Pays(e)
  BY <1>3 DEF NextLedger
<1> QED BY <1>2, <1>3

\* What is known of a row that changes.
LEMMA TargetWas ==
    ASSUME MarketAssumption, NEW s, NEW n, Sound(s, n), NEW e, Suits(e, s, n), Ready(s, e),
           NEW i \in DOMAIN s.listings, s.listings[i].id # 0, s.listings[i].id = Target(s, e)
    PROVE  \/ /\ e.type \in {"ListingUpdated", "ListingPurchased", "OfferAccepted"}
              /\ s.listings[i].status = "ACTIVE"
           \/ /\ e.type = "OfferUpdated"
              /\ \E j \in DOMAIN s.offers :
                    /\ s.offers[j].id = Bid(e) /\ s.offers[j].id # 0 /\ s.offers[j].status = "ACCEPTED"
                    /\ s.offers[j].listing = Target(s, e)
                    /\ s.offers[j].settledTx \in Kept(s.led) => s.led.revBy[s.offers[j].settledTx] # 0
<1>1. Target(s, e) # 0
  OBVIOUS
<1>2. CASE e.type \in {"ListingUpdated", "ListingPurchased", "OfferAccepted"}
  <2>1. \A x \in DOMAIN s.listings : s.listings[x].id = Target(s, e) => s.listings[x].status = "ACTIVE"
    BY <1>2, AboutIs DEF Suits
  <2> QED BY <1>2, <2>1
<1>3. CASE e.type = "OfferUpdated"
  <2>1. e.reopen /\ e.id # 0 /\ Bid(e) = e.id
    BY <1>1, <1>3 DEF Target, Suits, Bid
  <2>2. Has(s.offers, e.id)
    BY <2>1 DEF Ready, Known
  <2>3. Row(s.offers, e.id) \in DOMAIN s.offers /\ s.offers[Row(s.offers, e.id)].id = e.id
    BY <2>2, RowIs
  <2>4. Target(s, e) = s.offers[Row(s.offers, e.id)].listing
    BY <1>3, <2>1 DEF Target
  <2>5. \A x \in DOMAIN s.offers : s.offers[x].id = e.id =>
           /\ s.offers[x].status = "ACCEPTED"
           /\ s.offers[x].settledTx \in Kept(s.led) => s.led.revBy[s.offers[x].settledTx] # 0
    BY <1>3, <2>1 DEF Suits
  <2> QED BY <1>3, <2>1, <2>3, <2>4, <2>5
<1> QED BY <1>1, <1>2, <1>3, AboutIs

\* The story goes on: payments.
LEMMA PaidAfter ==
    ASSUME MarketAssumption, NEW s, NEW n, Sound(s, n), NEW e, Suits(e, s, n), Ready(s, e),
           NEW i \in DOMAIN s.listings, s.listings[i].id # 0
    PROVE  Paid(NextListings(s, e)[i], NextLedger(s, e))
<1> DEFINE l == s.listings[i]
           m == NextListings(s, e)[i]
           led == NextLedger(s, e)
<1> SUFFICES ASSUME NEW k \in Kept(led), led.txns[k].listing = m.id, led.txns[k].reverses = 0, led.revBy[k] = 0
             PROVE  m.status = "SOLD" /\ m.soldTx = k
  BY DEF Paid
<1>1. \/ m = l /\ l.id # Target(s, e)
      \/ l \in Listing /\ l.id = Target(s, e) /\ m = NewListing(e, s.led.total + 1, l) /\ m.id = l.id
  BY AfterRows
<1>2. \/ Pays(e) /\ k = s.led.total + 1 /\ led.txns[k] = e.txn
      \/ /\ k \in Kept(s.led) /\ led.txns[k] = s.led.txns[k]
         /\ led.revBy[k] = 0 => s.led.revBy[k] = 0
  BY AfterPaid
<1>3. m.id = l.id /\ l.id # 0 /\ Paid(l, s.led)
  BY <1>1 DEF Sound, Story
<1> HIDE DEF m, led, l
<1>4. CASE k \in Kept(s.led) /\ led.txns[k] = s.led.txns[k] /\ (led.revBy[k] = 0 => s.led.revBy[k] = 0)
  <2>1. l.status = "SOLD" /\ l.soldTx = k /\ s.led.revBy[k] = 0
    BY <1>3, <1>4 DEF Paid
  <2>2. CASE m = l
    BY <2>1, <2>2
  <2>3. CASE l.id = Target(s, e)
    <3>1. e.type = "OfferUpdated"
      BY <1>3, <2>1, <2>3, TargetWas DEF l
    <3>2. PICK j \in DOMAIN s.offers :
             /\ s.offers[j].id # 0 /\ s.offers[j].status = "ACCEPTED" /\ s.offers[j].listing = l.id
             /\ s.offers[j].settledTx \in Kept(s.led) => s.led.revBy[s.offers[j].settledTx] # 0
      BY <1>3, <2>3, <3>1, TargetWas DEF l
    <3>3. Deals(s.offers[j], l)
      BY <1>3, <3>2 DEF Sound, Story, l
    <3>4. s.offers[j].settledTx = k
      BY <2>1, <3>2, <3>3 DEF Deals
    <3> QED BY <1>4, <2>1, <3>2, <3>4
  <2> QED BY <1>1, <2>2, <2>3
<1>5. CASE Pays(e) /\ k = s.led.total + 1 /\ led.txns[k] = e.txn
  <2>1. e.type \in {"ListingPurchased", "OfferAccepted"} /\ e.txn.listing = Target(s, e)
    BY <1>3, <1>5, AboutIs DEF Pays, Suits
  <2>2. l \in Listing /\ m = NewListing(e, s.led.total + 1, l)
    BY <1>1, <1>3, <1>5, <2>1
  <2> QED BY <1>5, <2>1, <2>2, NewListingIs
<1> QED BY <1>2, <1>4, <1>5

\* Deals.
LEMMA DealsAfter ==
    ASSUME MarketAssumption, NEW s, NEW n, Sound(s, n), NEW e, Suits(e, s, n), Ready(s, e),
           NEW j \in DOMAIN s.offers, s.offers[j].id # 0,
           NEW i \in DOMAIN s.listings, s.listings[i].id # 0
    PROVE  Deals(NextOffers(s, e)[j], NextListings(s, e)[i])
<1> DEFINE l == s.listings[i]
           m == NextListings(s, e)[i]
           o == s.offers[j]
           p == NextOffers(s, e)[j]
<1> SUFFICES ASSUME p.status = "ACCEPTED", p.listing = m.id
             PROVE  m.status = "SOLD" /\ m.soldTx = p.settledTx
  BY DEF Deals
<1>1. \/ m = l /\ l.id # Target(s, e)
      \/ l \in Listing /\ l.id = Target(s, e) /\ m = NewListing(e, s.led.total + 1, l) /\ m.id = l.id
  BY AfterRows
<1>2. \/ p = o /\ o.id # Bid(e)
      \/ o \in Offer /\ o.id = Bid(e) /\ p = NewOffer(e, s.led.total + 1, o) /\ p.listing = o.listing
  BY AfterRows
<1>3. Deals(o, l) /\ Settled(s.offers, s.led.total) /\ m.id = l.id /\ p.listing = o.listing /\ l.id # 0 /\ o.id # 0
  BY <1>1, <1>2 DEF Sound, Story
<1> HIDE DEF m, p
<1>4. CASE o.id = Bid(e)
  <2>1. e.type = "OfferAccepted" /\ p.settledTx = s.led.total + 1
    <3>1. p = NewOffer(e, s.led.total + 1, o) /\ o \in Offer
      BY <1>2, <1>4
    <3>2. e.type \in {"OfferAccepted", "OfferUpdated"}
      BY <1>3, <1>4, AboutIs
    <3>3. CASE e.type = "OfferUpdated"
      <4>1. p.status = e.status /\ e.status \in {"DECLINED", "WITHDRAWN", "REVERSED"}
        BY <3>1, <3>3, NewOfferIs DEF Suits
      <4> QED BY <4>1
    <3>4. CASE e.type = "OfferAccepted"
      BY <3>1, <3>4, NewOfferIs
    <3> QED BY <3>2, <3>3, <3>4
  <2>2. o.listing = e.listing /\ Target(s, e) = e.listing
    <3>1. \A x \in DOMAIN s.offers : s.offers[x].id = e.offer => s.offers[x].listing = e.listing
      BY <2>1 DEF Suits
    <3>2. Target(s, e) = e.listing /\ Bid(e) = e.offer
      BY <2>1, AboutIs
    <3> QED BY <1>4, <3>1, <3>2
  <2>3. l \in Listing /\ m = NewListing(e, s.led.total + 1, l)
    BY <1>1, <1>3, <2>2
  <2> QED BY <2>1, <2>3, NewListingIs
<1>5. CASE o.id # Bid(e)
  <2>1. p = o /\ o.status = "ACCEPTED" /\ o.listing = l.id /\ l.status = "SOLD" /\ l.soldTx = o.settledTx
    BY <1>2, <1>3, <1>5 DEF Deals
  <2>2. CASE m = l
    BY <2>1, <2>2
  <2>3. CASE l.id = Target(s, e)
    <3>1. PICK x \in DOMAIN s.offers :
             /\ s.offers[x].id = Bid(e) /\ s.offers[x].id # 0 /\ s.offers[x].status = "ACCEPTED"
             /\ s.offers[x].listing = l.id
      BY <1>3, <2>1, <2>3, TargetWas
    <3>2. Deals(s.offers[x], l)
      BY <1>3, <3>1 DEF Sound, Story
    <3>3. s.offers[x].settledTx = o.settledTx
      BY <2>1, <3>1, <3>2 DEF Deals
    <3>4. x = j
      BY <1>3, <2>1, <3>1, <3>3 DEF Settled
    <3> QED BY <1>5, <3>1, <3>4
  <2> QED BY <1>1, <2>2, <2>3
<1> QED BY <1>4, <1>5
\* The accepted offers.
LEMMA SettledAfter ==
    ASSUME MarketAssumption, NEW s, NEW n, Sound(s, n), NEW e, Suits(e, s, n), Ready(s, e)
    PROVE  Settled(NextOffers(s, e), NextLedger(s, e).total)
<1> DEFINE os == s.offers
           ps == NextOffers(s, e)
           tx == s.led.total + 1
<1>1. s.led.total \in Nat /\ LedOK(s.led) /\ Settled(os, s.led.total)
  BY DEF Sound, LedOK, Story
<1>2. NextLedger(s, e).total = IF Pays(e) THEN tx ELSE s.led.total
  <2>1. CASE Pays(e)
    <3>1. e.txn \in Txn /\ s.led.total < MaxSeq
      BY <2>1 DEF Suits, Pays, Ready
    <3> QED BY <1>1, <2>1, <3>1, NextLedIs DEF NextLedger
  <2>2. CASE ~Pays(e)
    BY <2>2 DEF NextLedger
  <2> QED BY <2>1, <2>2
<1>3. \A i \in DOMAIN os : os[i].id # 0 => os[i] \in Offer /\ os[i].settledTx \in Nat
  <2>1. \A i \in DOMAIN os : os[i].id # 0 => os[i] \in Offer
    BY Typed
  <2>2. \A o \in Offer : o.settledTx \in Nat
    BY DEF Offer, MarketAssumption, LedgerOpsAssumption
  <2> QED BY <2>1, <2>2
<1>4. ASSUME NEW i \in DOMAIN os, ps[i].id # 0, ps[i].status = "ACCEPTED"
      PROVE  \/ e.type = "OfferAccepted" /\ os[i].id = Bid(e) /\ os[i].id # 0 /\ ps[i].settledTx = tx
             \/ os[i].id # 0 /\ os[i].status = "ACCEPTED" /\ ps[i].settledTx = os[i].settledTx
  <2>1. \/ ps[i] = os[i]
        \/ /\ os[i] \in Offer /\ os[i].id = Bid(e) /\ ps[i] = NewOffer(e, tx, os[i]) /\ ps[i].id = os[i].id
    BY AfterRows
  <2> HIDE DEF ps
  <2>2. CASE ps[i] = os[i]
    BY <1>4, <2>2
  <2>3. CASE os[i] \in Offer /\ os[i].id = Bid(e) /\ ps[i] = NewOffer(e, tx, os[i]) /\ ps[i].id = os[i].id
    <3>1. e.type \in {"OfferAccepted", "OfferUpdated"}
      BY <1>4, <2>3, AboutIs
    <3>2. e.type # "OfferUpdated"
      <4>1. e.type = "OfferUpdated" => ps[i].status = e.status /\ e.status \in {"DECLINED", "WITHDRAWN", "REVERSED"}
        BY <2>3, NewOfferIs DEF Suits
      <4> QED BY <1>4, <4>1
    <3> QED BY <1>4, <2>3, <3>1, <3>2, NewOfferIs
  <2> QED BY <2>1, <2>2, <2>3
<1>5. DOMAIN ps = DOMAIN os /\ Once(os)
  BY AfterRows, Typed
<1> HIDE DEF ps, os
<1>6. \A i \in DOMAIN ps : ps[i].id # 0 /\ ps[i].status = "ACCEPTED" => ps[i].settledTx <= NextLedger(s, e).total
  <2> SUFFICES ASSUME NEW i \in DOMAIN ps, ps[i].id # 0, ps[i].status = "ACCEPTED"
               PROVE  ps[i].settledTx <= NextLedger(s, e).total
    OBVIOUS
  <2>1. CASE e.type = "OfferAccepted" /\ ps[i].settledTx = tx
    BY <1>1, <1>2, <2>1 DEF Pays
  <2>2. CASE os[i].id # 0 /\ os[i].status = "ACCEPTED" /\ ps[i].settledTx = os[i].settledTx
    <3>1. os[i].settledTx <= s.led.total /\ os[i].settledTx \in Nat
      BY <1>1, <1>3, <1>5, <2>2 DEF Settled
    <3> QED BY <1>1, <1>2, <2>2, <3>1
  <2> QED BY <1>4, <1>5, <2>1, <2>2
<1>7. ASSUME NEW i \in DOMAIN ps, NEW j \in DOMAIN ps, ps[i].id # 0, ps[i].status = "ACCEPTED",
             ps[j].id # 0, ps[j].status = "ACCEPTED", ps[i].settledTx = ps[j].settledTx
      PROVE  i = j
  <2>1. \A x \in DOMAIN os : os[x].id # 0 /\ os[x].status = "ACCEPTED" => os[x].settledTx # tx
    <3>1. \A x \in DOMAIN os : os[x].id # 0 /\ os[x].status = "ACCEPTED" =>
             os[x].settledTx <= s.led.total /\ os[x].settledTx \in Nat
      BY <1>1, <1>3 DEF Settled
    <3> QED BY <1>1, <3>1
  <2>2. \/ os[i].id = Bid(e) /\ os[i].id # 0 /\ ps[i].settledTx = tx
        \/ os[i].id # 0 /\ os[i].status = "ACCEPTED" /\ ps[i].settledTx = os[i].settledTx
    BY <1>4, <1>5, <1>7
  <2>3. \/ os[j].id = Bid(e) /\ os[j].id # 0 /\ ps[j].settledTx = tx
        \/ os[j].id # 0 /\ os[j].status = "ACCEPTED" /\ ps[j].settledTx = os[j].settledTx
    BY <1>4, <1>5, <1>7
  <2> QED BY <1>1, <1>5, <1>7, <2>1, <2>2, <2>3 DEF Settled, Once
<1> QED BY <1>6, <1>7 DEF Settled, ps

\* The state after such an event is sound.
LEMMA AfterSound ==
    ASSUME MarketAssumption, NEW s, NEW n \in Nat, Sound(s, n), NEW e, Suits(e, s, n), Ready(s, e)
    PROVE  Sound(After(s, e), n)
<1> DEFINE led == NextLedger(s, e)
           ls == NextListings(s, e)
           os == NextOffers(s, e)
           a == After(s, e)
<1>1. LedOK(led) /\ ListingsOK(ls) /\ OffersOK(os) /\ NextActive(s, e) \subseteq User
  BY AfterTyped
<1>2. /\ DOMAIN ls = DOMAIN s.listings /\ DOMAIN os = DOMAIN s.offers
      /\ \A i \in DOMAIN s.listings : ls[i].id = s.listings[i].id
      /\ \A i \in DOMAIN s.offers : os[i].id = s.offers[i].id /\ (os[i].id # 0 => os[i].listing = s.offers[i].listing)
  BY AfterRows
<1>3. \A i \in DOMAIN s.listings : s.listings[i].id # 0 => Paid(ls[i], led)
  BY PaidAfter
<1>4. \A j \in DOMAIN s.offers, i \in DOMAIN s.listings :
         s.offers[j].id # 0 /\ s.listings[i].id # 0 => Deals(os[j], ls[i])
  BY DealsAfter
<1>5. Settled(os, led.total)
  BY SettledAfter
<1>6. \A k \in Kept(led) : led.txns[k].listing < n
  <2> SUFFICES ASSUME NEW k \in Kept(led) PROVE led.txns[k].listing < n
    OBVIOUS
  <2>1. \/ Pays(e) /\ led.txns[k] = e.txn
        \/ k \in Kept(s.led) /\ led.txns[k] = s.led.txns[k]
    BY AfterPaid
  <2> HIDE DEF led
  <2>2. Pays(e) => e.txn.listing < n
    BY DEF Pays, Suits
  <2>3. \A x \in Kept(s.led) : s.led.txns[x].listing < n
    BY DEF Sound, Fresh
  <2> QED BY <2>1, <2>2, <2>3
<1>7. /\ a.led = led /\ a.listings = ls /\ a.offers = os /\ a.active = NextActive(s, e)
      /\ a = [led |-> a.led, listings |-> a.listings, offers |-> a.offers, active |-> a.active]
  BY DEF After
<1> HIDE DEF led, ls, os, a
<1>8. Story(led, ls, os)
  BY <1>2, <1>3, <1>4, <1>5 DEF Story
<1>9. Fresh(led, ls, os, n)
  BY <1>2, <1>6 DEF Sound, Fresh
<1>10. Sound(a, n)
  BY <1>1, <1>7, <1>8, <1>9 DEF Sound
<1> QED BY <1>10 DEF a
-----------------------------------------------------------------------------
(* RAM and the journal make the same of it. *)

\* What RAM has of an event, a journal that has the same rows has as well.
LEMMA SuitsThere ==
    ASSUME MarketAssumption, NEW s, NEW d, NEW n, Sound(s, n), Sound(d, n), Agree(s, d),
           NEW e, Suits(e, s, n), Known(s, e)
    PROVE  Suits(e, d, n)
<1>1. s.led = d.led
  BY DEF Agree
<1>2. ASSUME e.type \in {"ListingUpdated", "ListingPurchased", "OfferAccepted"},
             NEW i \in DOMAIN d.listings, d.listings[i].id = Target(s, e)
      PROVE  d.listings[i].status = "ACTIVE"
  <2>1. Target(s, e) # 0 /\ Has(s.listings, Target(s, e))
    BY <1>2, AboutIs DEF Known
  <2>2. PICK j \in DOMAIN s.listings : s.listings[j].id = Target(s, e)
    BY <2>1 DEF Has
  <2>3. DOMAIN s.listings = 1..MaxListings /\ DOMAIN d.listings = 1..MaxListings
    BY Typed
  <2>4. s.listings[j] = d.listings[i]
    BY <1>2, <2>1, <2>2, <2>3 DEF Agree
  <2>5. \A x \in DOMAIN s.listings : s.listings[x].id = Target(s, e) => s.listings[x].status = "ACTIVE"
    BY <1>2, AboutIs DEF Suits
  <2> QED BY <2>2, <2>4, <2>5
<1>3. ASSUME NEW i \in DOMAIN d.offers, d.offers[i].id = Bid(e), Bid(e) # 0
      PROVE  \E j \in DOMAIN s.offers : s.offers[j].id = Bid(e) /\ s.offers[j] = d.offers[i]
  <2>1. PICK j \in DOMAIN s.offers : s.offers[j].id = Bid(e)
    BY <1>3 DEF Known, Has
  <2> QED BY <1>3, <2>1 DEF Agree
<1>4. CASE e.type \in {"Transaction", "UserUpdated"}
  BY <1>4 DEF Suits
<1>5. CASE e.type \in {"ListingUpdated", "ListingPurchased"}
  <2>1. \A i \in DOMAIN d.listings : d.listings[i].id = Target(s, e) => d.listings[i].status = "ACTIVE"
    BY <1>2, <1>5
  <2>2. Target(s, e) = IF e.type = "ListingUpdated" THEN e.id ELSE e.listing
    BY <1>5 DEF Target
  <2> QED BY <1>5, <2>1, <2>2 DEF Suits
<1>6. CASE e.type = "OfferAccepted"
  <2>1. \A i \in DOMAIN d.listings : d.listings[i].id = e.listing => d.listings[i].status = "ACTIVE"
    BY <1>2, <1>6, AboutIs
  <2>2. Bid(e) = e.offer /\ e.offer # 0
    BY <1>6, AboutIs
  <2>3. \A x \in DOMAIN s.offers : s.offers[x].id = e.offer =>
           s.offers[x].status = "OPEN" /\ s.offers[x].listing = e.listing
    BY <1>6 DEF Suits
  <2>4. \A i \in DOMAIN d.offers : d.offers[i].id = e.offer =>
           d.offers[i].status = "OPEN" /\ d.offers[i].listing = e.listing
    BY <1>3, <2>2, <2>3
  <2> QED BY <1>6, <2>1, <2>4 DEF Suits
<1>7. CASE e.type = "OfferUpdated"
  <2>1. Bid(e) = e.id /\ e.id # 0
    BY <1>7, AboutIs
  <2>2. \A i \in DOMAIN d.offers : d.offers[i].id = e.id =>
           \E j \in DOMAIN s.offers : s.offers[j].id = e.id /\ s.offers[j] = d.offers[i]
    BY <1>3, <2>1
  <2> QED BY <1>1, <1>7, <2>2 DEF Suits
<1> QED BY <1>4, <1>5, <1>6, <1>7 DEF Suits

\* It is about the same listing there.
LEMMA TargetThere ==
    ASSUME NEW s, NEW d, NEW n, Agree(s, d), NEW e, Suits(e, s, n), Known(s, e), Known(d, e)
    PROVE  Target(s, e) = Target(d, e)
<1>1. CASE e.type = "OfferUpdated" /\ e.reopen
  <2>1. e.id # 0 /\ Bid(e) = e.id
    BY <1>1, AboutIs
  <2>2. Has(s.offers, e.id) /\ Has(d.offers, e.id)
    BY <2>1 DEF Known
  <2>3. /\ Row(s.offers, e.id) \in DOMAIN s.offers /\ s.offers[Row(s.offers, e.id)].id = e.id
        /\ Row(d.offers, e.id) \in DOMAIN d.offers /\ d.offers[Row(d.offers, e.id)].id = e.id
    BY <2>2, RowIs
  <2>4. s.offers[Row(s.offers, e.id)] = d.offers[Row(d.offers, e.id)]
    BY <2>1, <2>3 DEF Agree
  <2> QED BY <1>1, <2>4 DEF Target
<1>2. CASE ~(e.type = "OfferUpdated" /\ e.reopen)
  BY <1>2 DEF Target
<1> QED BY <1>1, <1>2

LEMMA AfterAgree ==
    ASSUME MarketAssumption, NEW s, NEW d, NEW n, Sound(s, n), Sound(d, n), Agree(s, d),
           NEW e, Suits(e, s, n), Ready(s, e), Ready(d, e)
    PROVE  Agree(After(s, e), After(d, e))
<1> DEFINE tx == s.led.total + 1
           r == Target(s, e)
           ls == NextListings(s, e)
           ms == NextListings(d, e)
           os == NextOffers(s, e)
           ps == NextOffers(d, e)
<1>1. s.led = d.led /\ s.active = d.active /\ DOMAIN s.offers = DOMAIN d.offers /\ Suits(e, d, n)
  BY SuitsThere DEF Agree, Ready
<1>2. Target(d, e) = r
  BY TargetThere DEF Ready
<1>3. DOMAIN s.listings = 1..MaxListings /\ DOMAIN d.listings = 1..MaxListings
  BY Typed
<1>4. /\ DOMAIN os = DOMAIN s.offers
      /\ \A i \in DOMAIN s.listings : ls[i].id = s.listings[i].id
      /\ \A i \in DOMAIN s.offers : os[i].id = s.offers[i].id
  BY AfterRows
<1>5. /\ \A i \in DOMAIN d.listings : ms[i].id = d.listings[i].id
      /\ \A i \in DOMAIN d.offers : ps[i].id = d.offers[i].id
      /\ DOMAIN ps = DOMAIN d.offers
  BY <1>1, AfterRows
<1>6. /\ \A i \in DOMAIN s.listings :
            ls[i] = IF s.listings[i].id # 0 /\ s.listings[i].id = r
                    THEN NewListing(e, tx, s.listings[i]) ELSE s.listings[i]
      /\ \A i \in DOMAIN d.listings :
            ms[i] = IF d.listings[i].id # 0 /\ d.listings[i].id = r
                    THEN NewListing(e, tx, d.listings[i]) ELSE d.listings[i]
      /\ \A i \in DOMAIN s.offers :
            os[i] = IF s.offers[i].id # 0 /\ s.offers[i].id = Bid(e)
                    THEN NewOffer(e, tx, s.offers[i]) ELSE s.offers[i]
      /\ \A i \in DOMAIN d.offers :
            ps[i] = IF d.offers[i].id # 0 /\ d.offers[i].id = Bid(e)
                    THEN NewOffer(e, tx, d.offers[i]) ELSE d.offers[i]
  BY <1>1, <1>2 DEF NextListings, NextOffers
<1> HIDE DEF tx, r, ls, ms, os, ps
<1>7. \A i, j \in 1..MaxListings : ls[i].id = ms[j].id /\ ls[i].id # 0 => ls[i] = ms[j]
  <2>1. \A i, j \in 1..MaxListings :
           s.listings[i].id = d.listings[j].id /\ s.listings[i].id # 0 => s.listings[i] = d.listings[j]
    BY DEF Agree
  <2> QED BY <1>3, <1>4, <1>5, <1>6, <2>1
<1>8. \A i \in DOMAIN os, j \in DOMAIN ps : os[i].id = ps[j].id /\ os[i].id # 0 => os[i] = ps[j]
  <2>1. \A i \in DOMAIN s.offers, j \in DOMAIN d.offers :
           s.offers[i].id = d.offers[j].id /\ s.offers[i].id # 0 => s.offers[i] = d.offers[j]
    BY DEF Agree
  <2> QED BY <1>4, <1>5, <1>6, <2>1
<1>9. NextLedger(s, e) = NextLedger(d, e) /\ NextActive(s, e) = NextActive(d, e)
  BY <1>1 DEF NextLedger, NextActive
<1>10. /\ After(s, e).led = NextLedger(s, e) /\ After(s, e).listings = ls /\ After(s, e).offers = os
       /\ After(s, e).active = NextActive(s, e)
       /\ After(d, e).led = NextLedger(d, e) /\ After(d, e).listings = ms /\ After(d, e).offers = ps
       /\ After(d, e).active = NextActive(d, e)
  BY DEF After, ls, ms, os, ps
<1> QED BY <1>1, <1>4, <1>5, <1>7, <1>8, <1>9, <1>10 DEF Agree

\* The offer such an event changes was not closed.
LEMMA BidOpen ==
    ASSUME NEW s, NEW n, NEW e, Suits(e, s, n), NEW i \in DOMAIN s.offers, s.offers[i].id = Bid(e)
    PROVE  ~Closed(s.offers[i])
BY DEF Bid, Suits, Closed

LEMMA AfterMatch ==
    ASSUME MarketAssumption, NEW s, NEW d, NEW n, Sound(s, n), Sound(d, n), Agree(s, d), Match(s, d),
           NEW e, Suits(e, s, n), Known(s, e), Known(d, e)
    PROVE  Match(After(s, e), After(d, e))
<1> DEFINE ls == NextListings(s, e)
           ms == NextListings(d, e)
           os == NextOffers(s, e)
           ps == NextOffers(d, e)
<1>1. /\ s.led = d.led /\ s.listings = d.listings /\ DOMAIN s.offers = DOMAIN d.offers
      /\ Suits(e, d, n) /\ Target(d, e) = Target(s, e)
  BY SuitsThere, TargetThere DEF Agree, Match
<1>2. ls = ms
  BY <1>1 DEF NextListings
<1>3. /\ DOMAIN os = DOMAIN s.offers
      /\ \A i \in DOMAIN s.offers : os[i].id = s.offers[i].id /\ (os[i] = s.offers[i] \/ s.offers[i].id = Bid(e))
  BY AfterRows
<1>4. /\ DOMAIN ps = DOMAIN d.offers
      /\ \A i \in DOMAIN d.offers : ps[i].id = d.offers[i].id /\ (ps[i] = d.offers[i] \/ d.offers[i].id = Bid(e))
  BY <1>1, AfterRows
<1>5. s.offers = d.offers => os = ps
  BY <1>1 DEF NextOffers
<1> HIDE DEF ls, ms, os, ps
<1>6. /\ \A id : Has(d.offers, id) => Has(ps, id)
      /\ \A id : Has(s.offers, id) => Has(os, id)
  BY <1>3, <1>4 DEF Has
<1>7. \A i \in DOMAIN os : os[i].id # 0 /\ ~Closed(os[i]) => Has(ps, os[i].id)
  <2> SUFFICES ASSUME NEW i \in DOMAIN os, os[i].id # 0, ~Closed(os[i]) PROVE Has(ps, os[i].id)
    OBVIOUS
  <2>1. i \in DOMAIN s.offers /\ s.offers[i].id # 0 /\ ~Closed(s.offers[i])
    BY <1>3, BidOpen
  <2> QED BY <1>3, <1>6, <2>1 DEF Match
<1>8. \A i \in DOMAIN ps : ps[i].id # 0 /\ ~Closed(ps[i]) => Has(os, ps[i].id)
  <2> SUFFICES ASSUME NEW i \in DOMAIN ps, ps[i].id # 0, ~Closed(ps[i]) PROVE Has(os, ps[i].id)
    OBVIOUS
  <2>1. i \in DOMAIN d.offers /\ d.offers[i].id # 0 /\ ~Closed(d.offers[i])
    BY <1>1, <1>4, BidOpen
  <2> QED BY <1>4, <1>6, <2>1 DEF Match
<1>9. FreeRows(ps) # {} => os = ps
  <2>1. FreeRows(ps) = FreeRows(d.offers)
    BY <1>4 DEF FreeRows
  <2> QED BY <1>5, <2>1 DEF Match
<1>10. /\ After(s, e).listings = ls /\ After(s, e).offers = os
       /\ After(d, e).listings = ms /\ After(d, e).offers = ps
  BY DEF After, ls, ms, os, ps
<1> QED BY <1>2, <1>7, <1>8, <1>9, <1>10 DEF Match
-----------------------------------------------------------------------------
(* Text. *)

LEMMA TimesMore ==
    ASSUME NEW a \in Nat, NEW b \in Nat, NEW c \in Nat, a <= b
    PROVE  c * a <= c * b /\ c * a \in Nat /\ c * b \in Nat
BY Z3

LEMMA TimesLess ==
    ASSUME NEW a \in Nat, NEW c \in Nat
    PROVE  (a - 1) * c = a * c - c /\ a * c \in Nat /\ c * (a - 1) = c * a - c /\ c * a \in Nat
BY Z3

\* The text of all listings but one takes the text of that many listings at most.
LEMMA TextFew ==
    ASSUME MarketAssumption, NEW s, NEW n, Sound(s, n), NEW i \in 1..MaxListings
    PROVE  LET own == IF s.listings[i].id = 0 THEN 0 ELSE s.listings[i].text
           IN  /\ own \in Nat
               /\ Cardinality(Text(s.listings, DOMAIN s.listings)) \in Nat
               /\ Cardinality(Text(s.listings, DOMAIN s.listings)) <= own + (MaxListings - 1) * MaxText
<1> DEFINE own == IF s.listings[i].id = 0 THEN 0 ELSE s.listings[i].text
           D == 1..MaxListings
           T == 1..MaxText
           U == Text(s.listings, DOMAIN s.listings)
           A == {i} \X (1..own)
           V == (D \ {i}) \X T
<1>1. MaxListings \in Nat /\ MaxText \in Nat /\ DOMAIN s.listings = D
  BY Typed DEF MarketAssumption
<1>2. \A j \in D : s.listings[j].id # 0 => s.listings[j].text \in 1..MaxText
  BY <1>1, Typed DEF Listing
<1>3. own \in Nat
  BY <1>1, <1>2
<1>4. U \subseteq A \cup V
  <2>1. ASSUME NEW x \in U PROVE x \in A \cup V
    <3>1. PICK j \in D \ FreeRows(s.listings) : x \in {j} \X (1..s.listings[j].text)
      BY <1>1 DEF Text
    <3>2. s.listings[j].id # 0 /\ s.listings[j].text \in 1..MaxText
      BY <1>1, <1>2, <3>1 DEF FreeRows
    <3>3. CASE j = i
      BY <3>1, <3>2, <3>3
    <3>4. CASE j # i
      <4>1. \A y \in 1..s.listings[j].text : y \in T
        BY <1>1, <3>2
      <4> HIDE DEF T, D
      <4> QED BY <3>1, <3>4, <4>1
    <3> QED BY <3>3, <3>4
  <2> QED BY <2>1
<1>5. IsFiniteSet(A) /\ Cardinality(A) = own
  <2>1. IsFiniteSet({i}) /\ Cardinality({i}) = 1
    BY FS_Singleton
  <2>2. IsFiniteSet(1..own) /\ Cardinality(1..own) = own
    <3> HIDE DEF own
    <3>1. 1 \in Int /\ own \in Int
      BY <1>3
    <3> QED BY <1>3, <3>1, FS_Interval
  <2> HIDE DEF own
  <2>3. IsFiniteSet(A) /\ Cardinality(A) = Cardinality({i}) * Cardinality(1..own)
    BY <2>1, <2>2, FS_Product
  <2> QED BY <1>3, <2>1, <2>2, <2>3
<1>6. IsFiniteSet(V) /\ Cardinality(V) = (MaxListings - 1) * MaxText
  <2>1. IsFiniteSet(D) /\ Cardinality(D) = MaxListings
    BY <1>1, FS_Interval
  <2>2. IsFiniteSet(T) /\ Cardinality(T) = MaxText
    BY <1>1, FS_Interval
  <2> HIDE DEF T
  <2>3. IsFiniteSet(D \ {i}) /\ Cardinality(D \ {i}) = MaxListings - 1
    <3> HIDE DEF D
    <3>1. i \in D
      BY DEF D
    <3> QED BY <2>1, <3>1, FS_RemoveElement
  <2> HIDE DEF D
  <2>4. IsFiniteSet(V) /\ Cardinality(V) = Cardinality(D \ {i}) * Cardinality(T)
    BY <2>2, <2>3, FS_Product
  <2> QED BY <2>2, <2>3, <2>4
<1> HIDE DEF U, A, V, own
<1>7. IsFiniteSet(A \cup V) /\ Cardinality(A \cup V) <= Cardinality(A) + Cardinality(V)
  <2>1. IsFiniteSet(A \cup V) /\ Cardinality(A \cup V) = Cardinality(A) + Cardinality(V) - Cardinality(A \cap V)
    BY <1>5, <1>6, FS_Union
  <2>2. IsFiniteSet(A \cap V)
    BY <1>5, FS_Intersection
  <2>3. Cardinality(A \cap V) \in Nat /\ Cardinality(A) \in Nat /\ Cardinality(V) \in Nat
    BY <1>5, <1>6, <2>2, FS_CardinalityType
  <2> QED BY <2>1, <2>3
<1>8. IsFiniteSet(U) /\ Cardinality(U) <= Cardinality(A \cup V)
  BY <1>4, <1>7, FS_Subset
<1>9. Cardinality(U) \in Nat /\ Cardinality(A \cup V) \in Nat
  BY <1>7, <1>8, FS_CardinalityType
<1>10. Cardinality(U) <= own + (MaxListings - 1) * MaxText
  <2>1. Cardinality(A \cup V) <= own + (MaxListings - 1) * MaxText
    BY <1>5, <1>6, <1>7
  <2> DEFINE c == (MaxListings - 1) * MaxText
             u == Cardinality(U)
             w == Cardinality(A \cup V)
  <2>2. c \in Int
    BY <1>1
  <2>3. u \in Nat /\ w \in Nat /\ u <= w /\ w <= own + c
    BY <1>8, <1>9, <2>1
  <2> HIDE DEF c, u, w
  <2>4. u <= own + c
    BY <1>3, <2>2, <2>3
  <2> QED BY <2>4 DEF c, u
<1> QED BY <1>3, <1>9, <1>10 DEF own, U

\* The offers in a table, and those in a table with a free row.
LEMMA OffersFew ==
    ASSUME MarketAssumption, NEW tab, DOMAIN tab \subseteq 1..MaxOffers
    PROVE  LET c == Cardinality(DOMAIN tab \ FreeRows(tab))
           IN  c \in Nat /\ c <= MaxOffers /\ (FreeRows(tab) # {} => c <= MaxOffers - 1)
<1> DEFINE S == 1..MaxOffers
           T == DOMAIN tab \ FreeRows(tab)
<1>1. MaxOffers \in Nat /\ FreeRows(tab) \subseteq S
  BY DEF MarketAssumption, FreeRows
<1>2. IsFiniteSet(S) /\ Cardinality(S) = MaxOffers
  BY <1>1, FS_Interval
<1>3. T \in SUBSET S
  OBVIOUS
<1>4. FreeRows(tab) # {} => Cardinality(T) <= MaxOffers - 1
  <2> SUFFICES ASSUME FreeRows(tab) # {} PROVE Cardinality(T) <= MaxOffers - 1
    OBVIOUS
  <2>1. PICK x \in S : x \in FreeRows(tab)
    BY <1>1
  <2>2. T \in SUBSET (S \ {x})
    BY <1>3, <2>1
  <2> HIDE DEF S, T
  <2>3. IsFiniteSet(S \ {x}) /\ Cardinality(S \ {x}) = MaxOffers - 1
    BY <1>2, FS_RemoveElement
  <2> QED BY <2>2, <2>3, FS_Subset
<1> HIDE DEF S, T
<1>5. IsFiniteSet(T) /\ Cardinality(T) <= MaxOffers
  BY <1>2, <1>3, FS_Subset
<1>6. Cardinality(T) \in Nat
  BY <1>5, FS_CardinalityType
<1> QED BY <1>4, <1>5, <1>6 DEF T

\* With text for full tables every listing fits in every row, and an offer in a free one.
LEMMA RoomFits ==
    ASSUME MarketAssumption, RoomForText, NEW s, NEW n, Sound(s, n),
           NEW l, l.text \in 1..MaxText, NEW i \in DOMAIN s.listings
    PROVE  Fits(s, l, i)
<1> DEFINE own == IF s.listings[i].id = 0 THEN 0 ELSE s.listings[i].text
           u == Cardinality(Text(s.listings, DOMAIN s.listings))
           c == Cardinality(DOMAIN s.offers \ FreeRows(s.offers))
<1>1. /\ {MaxListings, MaxText, OfferText, MaxOffers, Blocks} \subseteq Nat
      /\ i \in 1..MaxListings /\ DOMAIN s.offers \subseteq 1..MaxOffers
  BY Typed DEF MarketAssumption
<1>2. own \in Nat /\ u \in Nat /\ u <= own + (MaxListings - 1) * MaxText
  BY <1>1, TextFew
<1>3. c \in Nat /\ c <= MaxOffers
  BY <1>1, OffersFew
<1> HIDE DEF own, u, c
<1>4. (MaxListings - 1) * MaxText = MaxListings * MaxText - MaxText /\ MaxListings * MaxText \in Nat
  BY <1>1, TimesLess
<1>5. OfferText * c <= OfferText * MaxOffers /\ OfferText * c \in Nat /\ OfferText * MaxOffers \in Nat
  BY <1>1, <1>3, TimesMore
<1>6. Blocks >= MaxListings * MaxText + OfferText * MaxOffers
  BY DEF RoomForText
<1>7. l.text <= (Blocks - u - OfferText * c) + own
  <2>1. \A x, y, z, v \in Nat : \A t \in 1..MaxText :
           /\ Blocks >= x + y /\ u <= own + (x - MaxText) /\ z <= y
           => t <= (Blocks - u - z) + own
    BY <1>1, <1>2
  <2> QED BY <1>1, <1>2, <1>4, <1>5, <1>6, <2>1
<1> QED BY <1>7 DEF Fits, TextFree, own, u, c

LEMMA RoomForOffer ==
    ASSUME MarketAssumption, RoomForText, NEW s, NEW n, Sound(s, n), FreeRows(s.offers) # {}
    PROVE  ~(OfferText > TextFree(s))
<1> DEFINE u == Cardinality(Text(s.listings, DOMAIN s.listings))
           c == Cardinality(DOMAIN s.offers \ FreeRows(s.offers))
<1>1. /\ {MaxListings, MaxText, OfferText, MaxOffers, Blocks} \subseteq Nat
      /\ DOMAIN s.listings = 1..MaxListings /\ DOMAIN s.offers \subseteq 1..MaxOffers
  BY Typed DEF MarketAssumption
<1>2. u \in Nat /\ u <= MaxListings * MaxText /\ MaxListings * MaxText \in Nat
  <2>1. MaxListings * MaxText \in Nat /\ (MaxListings - 1) * MaxText = MaxListings * MaxText - MaxText
    BY <1>1, TimesLess
  <2>2. CASE MaxListings = 0
    <3>1. Text(s.listings, DOMAIN s.listings) = {}
      BY <1>1, <2>2 DEF Text
    <3>2. u = 0
      BY <3>1, FS_EmptySet
    <3> HIDE DEF u
    <3> DEFINE m == MaxListings * MaxText
    <3>3. m \in Nat
      BY <2>1
    <3> HIDE DEF m
    <3>4. u \in Nat /\ u <= m /\ m \in Nat
      BY <3>2, <3>3
    <3> QED BY <3>4 DEF m
  <2>3. CASE MaxListings > 0
    <3> DEFINE own == IF s.listings[1].id = 0 THEN 0 ELSE s.listings[1].text
    <3>1. 1 \in 1..MaxListings
      BY <1>1, <2>3
    <3>2. own \in Nat /\ u \in Nat /\ u <= own + (MaxListings - 1) * MaxText
      BY <3>1, TextFew
    <3>3. own <= MaxText
      <4>1. s.listings[1].id # 0 => s.listings[1].text \in 1..MaxText
        BY <1>1, <3>1, Typed DEF Listing
      <4> QED BY <1>1, <4>1
    <3> HIDE DEF own, u
    <3> DEFINE m == MaxListings * MaxText
    <3>4. m \in Nat /\ u <= own + (m - MaxText)
      BY <2>1, <3>2
    <3> HIDE DEF m
    <3>5. u \in Nat /\ u <= m
      BY <1>1, <3>2, <3>3, <3>4
    <3> QED BY <2>1, <3>5 DEF m
  <2> QED BY <1>1, <2>2, <2>3
<1>3. c \in Nat /\ c <= MaxOffers - 1
  BY <1>1, OffersFew
<1> HIDE DEF u, c
<1>4. OfferText * (c + 1) <= OfferText * MaxOffers /\ OfferText * (c + 1) \in Nat /\ OfferText * MaxOffers \in Nat
  <2>1. c + 1 \in Nat /\ c + 1 <= MaxOffers
    BY <1>1, <1>3
  <2> QED BY <1>1, <2>1, TimesMore
<1>5. OfferText * ((c + 1) - 1) = OfferText * (c + 1) - OfferText /\ (c + 1) - 1 = c /\ c + 1 \in Nat
  <2>1. c + 1 \in Nat /\ (c + 1) - 1 = c
    BY <1>3
  <2> QED BY <1>1, <2>1, TimesLess
<1>6. Blocks >= MaxListings * MaxText + OfferText * MaxOffers
  BY DEF RoomForText
<1>7. OfferText <= Blocks - u - OfferText * c
  <2>1. \A x, y, z \in Nat :
           /\ Blocks >= x + y /\ u <= x /\ z <= y
           => OfferText <= Blocks - u - (z - OfferText)
    BY <1>1, <1>2
  <2>2. OfferText <= Blocks - u - (OfferText * (c + 1) - OfferText)
    BY <1>2, <1>4, <1>6, <2>1
  <2> QED BY <1>5, <2>2
<1>8. Blocks - u - OfferText * c \in Int
  BY <1>1, <1>2, <1>3
<1> QED BY <1>1, <1>7, <1>8 DEF TextFree, u, c
-----------------------------------------------------------------------------
(* Appends of what is no new listing or offer. *)

\* With text for full tables the journal can do what RAM can.
LEMMA ReadyThere ==
    ASSUME MarketAssumption, RoomForText, NEW s, NEW d, NEW n, Sound(s, n), Sound(d, n),
           Agree(s, d), Match(s, d), NEW e, Suits(e, s, n), Ready(s, e)
    PROVE  Ready(d, e)
<1>1. Bid(e) # 0 => Has(d.offers, Bid(e))
  <2> SUFFICES ASSUME Bid(e) # 0 PROVE Has(d.offers, Bid(e))
    OBVIOUS
  <2>1. PICK i \in DOMAIN s.offers : s.offers[i].id = Bid(e)
    BY DEF Ready, Known, Has
  <2>2. ~Closed(s.offers[i])
    BY <2>1, BidOpen
  <2> QED BY <2>1, <2>2 DEF Match
<1>2. e.type \in {"ListingUpdated", "ListingPurchased", "OfferAccepted"} =>
         Target(d, e) = Target(s, e) /\ Has(d.listings, Target(d, e))
  BY DEF Target, Ready, Known, Match
<1>3. Known(d, e)
  BY <1>1, <1>2 DEF Known
<1>4. Pays(e) => d.led.total < MaxSeq
  BY DEF Ready, Agree
<1>5. e.type = "ListingUpdated" => Rewritable(d, e)
  <2> SUFFICES ASSUME e.type = "ListingUpdated" PROVE Rewritable(d, e)
    OBVIOUS
  <2> DEFINE i == Row(d.listings, e.id)
             l == [d.listings[i] EXCEPT !.text = e.text]
  <2>1. Target(d, e) = e.id /\ e.id # 0 /\ e.text \in 1..MaxText
    BY DEF Target, Suits
  <2>2. i \in DOMAIN d.listings /\ d.listings[i].id = e.id
    BY <1>2, <2>1, RowIs
  <2>3. d.listings[i] \in Listing
    BY <2>1, <2>2, Typed
  <2>4. l.text \in 1..MaxText
    BY <2>1, <2>3 DEF Listing
  <2> HIDE DEF l, i
  <2>5. Fits(d, l, i)
    BY <2>2, <2>4, RoomFits
  <2> QED BY <2>5 DEF Rewritable, l, i
<1> QED BY <1>3, <1>4, <1>5 DEF Ready

\* A journal is what the RAM of the next boot is like.
LEMMA BootMirrored ==
    ASSUME MarketAssumption, NEW d, NEW n, d = [ok |-> d.ok, state |-> d.state], d.ok \in BOOLEAN,
           Sound(d.state, n), RoomForText => d.ok
    PROVE  Mirrored(d.state, d, d.ok, n)
<1>1. DOMAIN d.state.listings = 1..MaxListings /\ Once(d.state.listings) /\ Once(d.state.offers)
  BY Typed
<1>2. Agree(d.state, d.state)
  BY <1>1 DEF Agree, Once
<1>3. Match(d.state, d.state)
  BY DEF Match, Has
<1> QED BY <1>2, <1>3 DEF Mirrored

\* What somebody waits for in RAM is in t as well.
Spared(s, t) ==
    /\ \A i \in DOMAIN s.listings :
          s.listings[i].id # 0 /\ s.listings[i].status = "ACTIVE" => Has(t.listings, s.listings[i].id)
    /\ \A i \in DOMAIN s.offers :
          s.offers[i].id # 0 /\ ~Closed(s.offers[i]) => Has(t.offers, s.offers[i].id)

LEMMA SparedAfter ==
    ASSUME MarketAssumption, NEW s, NEW t, NEW n, Sound(t, n), NEW e, Suits(e, t, n), Spared(s, t)
    PROVE  Spared(s, After(t, e))
<1>1. /\ DOMAIN NextListings(t, e) = DOMAIN t.listings /\ DOMAIN NextOffers(t, e) = DOMAIN t.offers
      /\ \A i \in DOMAIN t.listings : NextListings(t, e)[i].id = t.listings[i].id
      /\ \A i \in DOMAIN t.offers : NextOffers(t, e)[i].id = t.offers[i].id
  BY AfterRows
<1>2. After(t, e).listings = NextListings(t, e) /\ After(t, e).offers = NextOffers(t, e)
  BY DEF After
<1>3. /\ \A id : Has(t.listings, id) => Has(After(t, e).listings, id)
      /\ \A id : Has(t.offers, id) => Has(After(t, e).offers, id)
  BY <1>1, <1>2 DEF Has
<1> QED BY <1>3 DEF Spared

LEMMA SparedSelf ==
    ASSUME NEW s
    PROVE  Spared(s, s)
BY DEF Spared, Has

LEMMA SparedMatch ==
    ASSUME NEW s, NEW d, Match(s, d)
    PROVE  Spared(s, d)
BY DEF Spared, Match, Has

\* Whatever comes of an append, RAM and the journal are mirrored again, and with text
\* for full tables nothing that somebody waits for is lost.
LEMMA AppendMirrored ==
    ASSUME MarketAssumption, NEW n \in Nat, Mirrored(live, disk, up, n), up,
           NEW e, Suits(e, live, n), Ready(live, e), AppendEvent(live, e)
    PROVE  Mirrored(live', disk', up', n) /\ (RoomForText => Spared(live, live'))
<1> DEFINE r == After(live, e)
           d == Log!Replayed(disk, e)
<1>1. /\ Sound(live, n) /\ Sound(disk.state, n) /\ disk.ok \in BOOLEAN /\ up \in BOOLEAN
      /\ disk = [ok |-> disk.ok, state |-> disk.state]
      /\ disk.ok => Agree(live, disk.state)
      /\ RoomForText => disk.ok /\ Match(live, disk.state)
  BY DEF Mirrored
<1>2. Sound(r, n) /\ ApplyEvent(live, e) = Done(r) /\ Known(live, e)
  BY <1>1, AfterSound, EventIs DEF Ready
<1>3. CASE disk.ok /\ Ready(disk.state, e)
  <2>1. Suits(e, disk.state, n) /\ Agree(live, disk.state) /\ Known(disk.state, e)
    BY <1>1, <1>2, <1>3, SuitsThere DEF Ready
  <2> DEFINE q == After(disk.state, e)
  <2>2. d = Done(q)
    BY <1>1, <1>3, <2>1, EventIs DEF Log!Replayed
  <2>3. Sound(q, n)
    BY <1>1, <1>3, <2>1, AfterSound
  <2>4. Agree(r, q)
    BY <1>1, <1>3, <2>1, AfterAgree
  <2>5. Match(live, disk.state) => Match(r, q)
    BY <1>1, <1>2, <2>1, AfterMatch
  <2>6. /\ RoomForText => Spared(live, r)
        /\ RoomForText => Spared(live, q)
    <3>1. Spared(live, r)
      BY <1>1, SparedAfter, SparedSelf
    <3>2. RoomForText => Spared(live, disk.state)
      BY <1>1, SparedMatch
    <3>3. RoomForText => Spared(live, q)
      BY <1>1, <2>1, <3>2, SparedAfter
    <3> QED BY <3>1, <3>3
  <2> HIDE DEF q
  <2>7. d.ok = TRUE /\ d.state = q /\ d = [ok |-> d.ok, state |-> d.state]
    BY <2>2 DEF Done
  <2> HIDE DEF d, r
  <2>8. CASE Log!Commit(live, e)
    <3>1. live' = r /\ disk' = d /\ up' = up
      BY <1>2, <2>8 DEF Log!Commit, d, Done
    <3>2. Mirrored(r, d, up, n)
      BY <1>1, <1>2, <2>3, <2>4, <2>5, <2>7 DEF Mirrored
    <3> QED BY <2>6, <3>1, <3>2
  <2>9. CASE Log!CommitFails(live)
    <3>1. live' = live /\ disk' = disk /\ up' = up
      BY <2>9 DEF Log!CommitFails
    <3> QED BY <3>1, SparedSelf
  <2>10. CASE Log!FoundAtBoot(e)
    <3>1. live' = d.state /\ disk' = d /\ up' = d.ok
      BY <2>10 DEF Log!FoundAtBoot, Log!Boot, d
    <3>2. Mirrored(d.state, d, d.ok, n)
      BY <2>3, <2>7, BootMirrored
    <3> QED BY <2>6, <2>7, <3>1, <3>2
  <2> QED BY <2>8, <2>9, <2>10 DEF AppendEvent
<1>4. CASE ~(disk.ok /\ Ready(disk.state, e))
  <2>1. ~RoomForText
    BY <1>1, <1>4, ReadyThere
  <2>2. d.ok = FALSE /\ d.state = disk.state /\ d = [ok |-> d.ok, state |-> d.state]
    <3>1. CASE ~disk.ok
      BY <1>1, <3>1 DEF Log!Replayed
    <3>2. CASE disk.ok
      <4>1. Suits(e, disk.state, n)
        BY <1>1, <1>2, <3>2, SuitsThere
      <4>2. ApplyEvent(disk.state, e) = Refused(disk.state)
        BY <1>1, <1>4, <3>2, <4>1, EventIs
      <4>3. d = Refused(disk.state)
        BY <3>2, <4>2 DEF Log!Replayed
      <4> QED BY <4>3 DEF Refused
    <3> QED BY <1>1, <3>1, <3>2
  <2> HIDE DEF d, r
  <2>3. CASE Log!Commit(live, e)
    <3>1. live' = r /\ disk' = d /\ up' = up
      BY <1>2, <2>3 DEF Log!Commit, d, Done
    <3>2. Mirrored(r, d, up, n)
      BY <1>1, <1>2, <2>1, <2>2 DEF Mirrored
    <3> QED BY <2>1, <3>1, <3>2
  <2>4. CASE Log!CommitFails(live)
    <3>1. live' = live /\ disk' = disk /\ up' = up
      BY <2>4 DEF Log!CommitFails
    <3> QED BY <2>1, <3>1
  <2>5. CASE Log!FoundAtBoot(e)
    <3>1. live' = d.state /\ disk' = d /\ up' = d.ok
      BY <2>5 DEF Log!FoundAtBoot, Log!Boot, d
    <3>2. Mirrored(d.state, d, d.ok, n)
      BY <1>1, <2>1, <2>2, BootMirrored
    <3> QED BY <2>1, <3>1, <3>2
  <2> QED BY <2>3, <2>4, <2>5 DEF AppendEvent
<1> QED BY <1>3, <1>4
-----------------------------------------------------------------------------
(* What is new. *)

\* Identifiers that belong to nothing yet still do when one more is given out.
LEMMA SoundLater ==
    ASSUME MarketAssumption, NEW s, NEW n \in Nat, Sound(s, n)
    PROVE  Sound(s, n + 1)
<1>1. /\ \A i \in DOMAIN s.listings : s.listings[i].id \in Nat
      /\ \A i \in DOMAIN s.offers : s.offers[i].id \in Nat /\ (s.offers[i].id # 0 => s.offers[i].listing \in Nat)
  <2>1. /\ \A i \in DOMAIN s.listings : s.listings[i].id \in Nat
        /\ \A i \in DOMAIN s.offers : s.offers[i].id \in Nat /\ (s.offers[i].id # 0 => s.offers[i] \in Offer)
    BY Typed
  <2>2. \A o \in Offer : o.listing \in Nat
    BY DEF Offer, MarketAssumption
  <2> QED BY <2>1, <2>2
<1>2. \A k \in Kept(s.led) : s.led.txns[k].listing \in Nat
  BY DEF Sound, LedOK, Txn
<1>3. Fresh(s.led, s.listings, s.offers, n + 1)
  BY <1>1, <1>2 DEF Sound, Fresh
<1> QED BY <1>3 DEF Sound

\* An append to a RAM model s0 that may have given up a row before.
LEMMA PutMirrored ==
    ASSUME MarketAssumption, NEW n \in Nat, Mirrored(live, disk, up, n), up, NEW s0, NEW e, AppendEvent(s0, e),
           Sound(s0, n), Sound(ApplyEvent(s0, e).state, n + 1),
           disk.ok => /\ Agree(s0, disk.state)
                      /\ Sound(ApplyEvent(disk.state, e).state, n + 1)
                      /\ ApplyEvent(disk.state, e).ok \in BOOLEAN
                      /\ ApplyEvent(disk.state, e) =
                            [ok |-> ApplyEvent(disk.state, e).ok, state |-> ApplyEvent(disk.state, e).state]
                      /\ ApplyEvent(disk.state, e).ok =>
                            Agree(ApplyEvent(s0, e).state, ApplyEvent(disk.state, e).state),
           RoomForText => /\ Match(s0, disk.state) /\ ApplyEvent(disk.state, e).ok
                          /\ Match(ApplyEvent(s0, e).state, ApplyEvent(disk.state, e).state)
                          /\ Spared(live, s0) /\ Spared(live, ApplyEvent(s0, e).state)
                          /\ Spared(live, ApplyEvent(disk.state, e).state)
    PROVE  Mirrored(live', disk', up', n + 1) /\ (RoomForText => Spared(live, live'))
<1> DEFINE p == ApplyEvent(s0, e).state
           q == ApplyEvent(disk.state, e)
           d == Log!Replayed(disk, e)
<1>1. /\ Sound(disk.state, n + 1) /\ Sound(s0, n + 1) /\ disk.ok \in BOOLEAN
      /\ disk = [ok |-> disk.ok, state |-> disk.state] /\ (RoomForText => disk.ok)
  BY SoundLater DEF Mirrored
<1>2. d = IF disk.ok THEN q ELSE disk
  BY DEF Log!Replayed
<1>3. /\ d = [ok |-> d.ok, state |-> d.state] /\ d.ok \in BOOLEAN /\ Sound(d.state, n + 1)
      /\ d.ok => Agree(p, d.state)
      /\ RoomForText => d.ok /\ Match(p, d.state) /\ Spared(live, d.state)
  <2> HIDE DEF p, q, d
  <2>1. CASE disk.ok
    <3>1. d = q
      BY <1>2, <2>1
    <3> QED BY <1>1, <2>1, <3>1 DEF p, q
  <2>2. CASE ~disk.ok
    <3>1. d = disk
      BY <1>2, <2>2
    <3> QED BY <1>1, <2>2, <3>1
  <2> QED BY <1>1, <2>1, <2>2
<1>4. CASE Log!Commit(s0, e)
  <2>1. live' = p /\ disk' = d /\ up' = up
    BY <1>4 DEF Log!Commit
  <2>2. Sound(p, n + 1) /\ (RoomForText => Spared(live, p))
    OBVIOUS
  <2> HIDE DEF p, d
  <2>3. Mirrored(p, d, up, n + 1)
    BY <1>3, <2>2 DEF Mirrored
  <2> QED BY <2>1, <2>2, <2>3
<1>5. CASE Log!CommitFails(s0)
  <2>1. live' = s0 /\ disk' = disk /\ up' = up
    BY <1>5 DEF Log!CommitFails
  <2>2. Mirrored(s0, disk, up, n + 1)
    BY <1>1 DEF Mirrored
  <2> QED BY <2>1, <2>2
<1>6. CASE Log!FoundAtBoot(e)
  <2>1. live' = d.state /\ disk' = d /\ up' = d.ok
    BY <1>6 DEF Log!FoundAtBoot, Log!Boot
  <2> HIDE DEF p, d
  <2>2. Mirrored(d.state, d, d.ok, n + 1)
    BY <1>3, BootMirrored
  <2> QED BY <1>3, <2>1, <2>2
<1> QED BY <1>4, <1>5, <1>6 DEF AppendEvent

-----------------------------------------------------------------------------
(* A new listing. *)

\* It takes a free row or that of a listing that is not on the market.
LEMMA ListingRowsIn ==
    ASSUME MarketAssumption, NEW s, NEW n, Sound(s, n), NEW l, NEW i \in ListingRows(s, l)
    PROVE  i \in DOMAIN s.listings /\ (s.listings[i].id = 0 \/ s.listings[i].status # "ACTIVE")
<1> DEFINE free == FreeRows(s.listings)
           closed == {j \in DOMAIN s.listings \ free : s.listings[j].status # "ACTIVE" /\ Fits(s, l, j)}
<1>1. /\ DOMAIN s.listings \subseteq Nat
      /\ \A j \in DOMAIN s.listings : s.listings[j].id # 0 => s.listings[j].at \in Nat
  <2>1. DOMAIN s.listings \subseteq Nat /\ \A j \in DOMAIN s.listings : s.listings[j].id # 0 => s.listings[j] \in Listing
    BY Typed
  <2>2. \A x \in Listing : x.at \in Nat
    BY DEF Listing, MarketAssumption
  <2> QED BY <2>1, <2>2
<1>2. ListingRows(s, l) = IF free # {} /\ Fits(s, l, FirstFree(s.listings)) THEN {FirstFree(s.listings)}
                          ELSE IF closed # {} THEN {Oldest(s.listings, closed)} ELSE {}
  BY DEF ListingRows
<1>3. free # {} => FirstFree(s.listings) \in free
  BY <1>1, FirstFreeIn
<1>4. closed # {} => Oldest(s.listings, closed) \in closed
  <2>1. closed \in SUBSET Nat /\ \A j \in closed : s.listings[j].at \in Nat
    BY <1>1 DEF FreeRows
  <2> HIDE DEF closed
  <2> QED BY <2>1, OldestIn
<1>5. /\ \A j \in free : j \in DOMAIN s.listings /\ s.listings[j].id = 0
      /\ \A j \in closed : j \in DOMAIN s.listings /\ s.listings[j].status # "ACTIVE"
  BY DEF FreeRows
<1> HIDE DEF free, closed
<1>6. i \in free \/ i \in closed
  BY <1>2, <1>3, <1>4
<1> QED BY <1>5, <1>6

\* With text for full tables the row depends on the listings only.
LEMMA RoomRows ==
    ASSUME MarketAssumption, RoomForText, NEW s, NEW d, NEW n, Sound(s, n), Sound(d, n),
           s.listings = d.listings, NEW l, l.text \in 1..MaxText
    PROVE  ListingRows(s, l) = ListingRows(d, l)
<1>1. \A i \in DOMAIN s.listings : Fits(s, l, i)
  BY RoomFits
<1>2. \A i \in DOMAIN s.listings : Fits(d, l, i)
  BY RoomFits
<1>3. FreeRows(s.listings) # {} => FirstFree(s.listings) \in DOMAIN s.listings
  <2>1. DOMAIN s.listings \subseteq Nat
    BY Typed
  <2> QED BY <2>1, FirstFreeIn DEF FreeRows
<1> DEFINE closed(x) == {j \in DOMAIN s.listings \ FreeRows(s.listings) : s.listings[j].status # "ACTIVE" /\ Fits(x, l, j)}
<1>4. closed(s) = closed(d)
  BY <1>1, <1>2
<1>5. /\ ListingRows(s, l) =
            IF FreeRows(s.listings) # {} /\ Fits(s, l, FirstFree(s.listings)) THEN {FirstFree(s.listings)}
            ELSE IF closed(s) # {} THEN {Oldest(s.listings, closed(s))} ELSE {}
      /\ ListingRows(d, l) =
            IF FreeRows(s.listings) # {} /\ Fits(d, l, FirstFree(s.listings)) THEN {FirstFree(s.listings)}
            ELSE IF closed(d) # {} THEN {Oldest(s.listings, closed(d))} ELSE {}
  BY DEF ListingRows
<1> HIDE DEF closed
<1> QED BY <1>1, <1>2, <1>3, <1>4, <1>5

\* The row it takes.
PlaceFor(s, l) == CHOOSE i \in ListingRows(s, l) : TRUE

Listed(s, l) == Rec(s.led, [s.listings EXCEPT ![PlaceFor(s, l)] = l], s.offers, s.active)

LEMMA PutListingIs ==
    ASSUME MarketAssumption, NEW s, NEW n, Sound(s, n), NEW l
    PROVE  /\ PutListing(s, l) = IF ListingRows(s, l) = {} THEN Refused(s) ELSE Done(Listed(s, l))
           /\ ListingRows(s, l) # {} =>
                 /\ PlaceFor(s, l) \in DOMAIN s.listings
                 /\ s.listings[PlaceFor(s, l)].id = 0 \/ s.listings[PlaceFor(s, l)].status # "ACTIVE"
<1>1. s = Rec(s.led, s.listings, s.offers, s.active)
  BY DEF Sound, Rec
<1> DEFINE i == PlaceFor(s, l)
<1>2. PutListing(s, l) = IF ListingRows(s, l) = {} THEN Refused(s) ELSE Done([s EXCEPT !.listings[i] = l])
  BY DEF PutListing, PlaceFor
<1>3. ListingRows(s, l) # {} => i \in ListingRows(s, l)
  BY DEF PlaceFor
<1> HIDE DEF i
<1>4. [s EXCEPT !.listings[i] = l] = Rec(s.led, [s.listings EXCEPT ![i] = l], s.offers, s.active)
  BY <1>1 DEF Rec
<1>5. ListingRows(s, l) # {} => i \in DOMAIN s.listings /\ (s.listings[i].id = 0 \/ s.listings[i].status # "ACTIVE")
  BY <1>3, ListingRowsIn
<1> QED BY <1>2, <1>4, <1>5 DEF Listed, i

LEMMA ListedSound ==
    ASSUME MarketAssumption, NEW s, NEW n \in Nat, Sound(s, n), NEW l \in Listing, l.id = n,
           NEW i \in DOMAIN s.listings
    PROVE  Sound(Rec(s.led, [s.listings EXCEPT ![i] = l], s.offers, s.active), n + 1)
<1> DEFINE tab == [s.listings EXCEPT ![i] = l]
           r == Rec(s.led, tab, s.offers, s.active)
<1>1. /\ s.listings \in [1..MaxListings -> Listing \cup {NoListing}] /\ Once(s.listings)
      /\ DOMAIN s.listings = 1..MaxListings
      /\ \A j \in DOMAIN s.listings : s.listings[j].id < n
      /\ \A j \in DOMAIN s.offers : s.offers[j].id # 0 => s.offers[j].listing < n
      /\ \A k \in Kept(s.led) : s.led.txns[k].listing < n
  BY DEF Sound, ListingsOK, Fresh
<1>2. /\ DOMAIN tab = DOMAIN s.listings
      /\ \A j \in DOMAIN s.listings : tab[j] = IF j = i THEN l ELSE s.listings[j]
  BY <1>1
<1>3. tab \in [1..MaxListings -> Listing \cup {NoListing}]
  BY <1>1
<1>4. Sound(s, n + 1)
  BY SoundLater
<1>5. r.led = s.led /\ r.listings = tab /\ r.offers = s.offers /\ r.active = s.active
      /\ r = [led |-> r.led, listings |-> r.listings, offers |-> r.offers, active |-> r.active]
  BY DEF Rec
<1> HIDE DEF tab, r
<1>6. Once(tab)
  BY <1>1, <1>2 DEF Once
<1>7. ListingsOK(tab)
  BY <1>3, <1>6 DEF ListingsOK
<1>8. Paid(l, s.led)
  BY <1>1 DEF Paid
<1>9. \A j \in DOMAIN s.offers : s.offers[j].id # 0 => Deals(s.offers[j], l)
  BY <1>1 DEF Deals
<1>10. Story(s.led, tab, s.offers)
  BY <1>2, <1>8, <1>9 DEF Sound, Story
<1>11. Fresh(s.led, tab, s.offers, n + 1)
  BY <1>2, <1>4 DEF Sound, Fresh
<1>12. Sound(r, n + 1)
  BY <1>4, <1>5, <1>7, <1>10, <1>11 DEF Sound
<1> QED BY <1>12 DEF r, tab

\* Posting a listing keeps RAM and the journal mirrored.
LEMMA PostListing ==
    ASSUME MarketAssumption, NEW n \in Nat, Mirrored(live, disk, up, n), up, NEW l \in Listing, l.id = n,
           ListingRows(live, l) # {},
           AppendEvent(live, [type |-> "ListingCreated", listing |-> l])
    PROVE  Mirrored(live', disk', up', n + 1) /\ (RoomForText => Spared(live, live'))
<1> DEFINE e == [type |-> "ListingCreated", listing |-> l]
           d == disk.state
<1>1. /\ Sound(live, n) /\ Sound(d, n) /\ (disk.ok => Agree(live, d)) /\ (RoomForText => Match(live, d))
  BY DEF Mirrored
<1>2. \A s : ApplyEvent(s, e) = PutListing(s, l)
  BY DEF ApplyEvent, ApplyListingCreated
<1>3. /\ PutListing(live, l) = Done(Listed(live, l))
      /\ PlaceFor(live, l) \in DOMAIN live.listings
      /\ live.listings[PlaceFor(live, l)].id = 0 \/ live.listings[PlaceFor(live, l)].status # "ACTIVE"
  BY <1>1, PutListingIs
<1>4. /\ PutListing(d, l) = IF ListingRows(d, l) = {} THEN Refused(d) ELSE Done(Listed(d, l))
      /\ ListingRows(d, l) # {} =>
            /\ PlaceFor(d, l) \in DOMAIN d.listings
            /\ d.listings[PlaceFor(d, l)].id = 0 \/ d.listings[PlaceFor(d, l)].status # "ACTIVE"
  BY <1>1, PutListingIs
<1> HIDE DEF e, d
<1> DEFINE i == PlaceFor(live, l)
           j == PlaceFor(d, l)
           p == Listed(live, l)
           q == Listed(d, l)
<1>5. /\ p.led = live.led /\ p.listings = [live.listings EXCEPT ![i] = l]
      /\ p.offers = live.offers /\ p.active = live.active
      /\ q.led = d.led /\ q.listings = [d.listings EXCEPT ![j] = l]
      /\ q.offers = d.offers /\ q.active = d.active
  BY DEF Listed, Rec
<1>6. /\ live.listings = [x \in DOMAIN live.listings |-> live.listings[x]] /\ DOMAIN live.listings = 1..MaxListings
      /\ d.listings = [x \in DOMAIN d.listings |-> d.listings[x]] /\ DOMAIN d.listings = 1..MaxListings
  BY <1>1, Typed
<1>7. ApplyEvent(live, e).state = p /\ ApplyEvent(live, e).ok = TRUE
  BY <1>2, <1>3 DEF Done
<1>8. \/ ListingRows(d, l) = {} /\ ApplyEvent(d, e).ok = FALSE /\ ApplyEvent(d, e).state = d
      \/ ListingRows(d, l) # {} /\ ApplyEvent(d, e).ok = TRUE /\ ApplyEvent(d, e).state = q
  BY <1>2, <1>4 DEF Done, Refused
<1>9. ApplyEvent(d, e) = [ok |-> ApplyEvent(d, e).ok, state |-> ApplyEvent(d, e).state]
  BY <1>2, <1>4 DEF Done, Refused
<1>10. Sound(p, n + 1) /\ (ListingRows(d, l) # {} => Sound(q, n + 1)) /\ Sound(d, n + 1)
  <2>1. Sound(p, n + 1)
    BY <1>1, <1>3, ListedSound DEF Listed
  <2>2. ListingRows(d, l) # {} => Sound(q, n + 1)
    BY <1>1, <1>4, ListedSound DEF Listed
  <2> QED BY <1>1, <2>1, <2>2, SoundLater
<1> HIDE DEF p, q, i, j
<1>11. /\ \A x \in 1..MaxListings : p.listings[x] = IF x = i THEN l ELSE live.listings[x]
       /\ \A x \in 1..MaxListings : q.listings[x] = IF x = j THEN l ELSE d.listings[x]
       /\ DOMAIN p.listings = 1..MaxListings
  BY <1>5, <1>6
<1>12. \A x \in 1..MaxListings : live.listings[x].id # n /\ d.listings[x].id # n
  <2>1. \A x \in 1..MaxListings : live.listings[x].id < n /\ live.listings[x].id \in Nat
    BY <1>1, <1>6, Typed DEF Sound, Fresh
  <2>2. \A x \in 1..MaxListings : d.listings[x].id < n /\ d.listings[x].id \in Nat
    BY <1>1, <1>6, Typed DEF Sound, Fresh
  <2> QED BY <2>1, <2>2
<1>13. Agree(live, d) => Agree(p, q)
  <2> SUFFICES ASSUME Agree(live, d) PROVE Agree(p, q)
    OBVIOUS
  <2>1. \A x, y \in 1..MaxListings :
           p.listings[x].id = q.listings[y].id /\ p.listings[x].id # 0 => p.listings[x] = q.listings[y]
    BY <1>11, <1>12 DEF Agree
  <2> QED BY <1>5, <2>1 DEF Agree
<1>14. Spared(live, p)
  <2>1. \A x \in DOMAIN live.listings : live.listings[x].id # 0 /\ live.listings[x].status = "ACTIVE" =>
           p.listings[x] = live.listings[x]
    BY <1>3, <1>6, <1>11 DEF i
  <2> QED BY <1>5, <1>6, <1>11, <2>1 DEF Spared, Has
<1>15. ASSUME RoomForText PROVE ListingRows(d, l) # {} /\ Match(p, q) /\ Spared(live, q)
  <2>1. Match(live, d) /\ live.listings = d.listings
    BY <1>1, <1>15 DEF Match
  <2>2. ListingRows(d, l) = ListingRows(live, l)
    <3>1. l.text \in 1..MaxText
      BY DEF Listing
    <3> QED BY <1>1, <1>15, <2>1, <3>1, RoomRows
  <2>3. p.listings = q.listings
    BY <1>5, <2>1, <2>2 DEF i, j, PlaceFor
  <2>4. Match(p, q)
    BY <1>5, <2>1, <2>3 DEF Match
  <2>5. Spared(p, q)
    BY <2>4, SparedMatch
  <2>6. Spared(live, q)
    BY <1>5, <1>14, <2>1, <2>3 DEF Spared, Match
  <2> QED BY <2>2, <2>4, <2>6
<1>16. AppendEvent(live, e)
  BY DEF e
<1>17. Spared(live, live)
  BY SparedSelf
<1>18. disk.ok => /\ Agree(live, disk.state)
                  /\ Sound(ApplyEvent(disk.state, e).state, n + 1)
                  /\ ApplyEvent(disk.state, e).ok \in BOOLEAN
                  /\ ApplyEvent(disk.state, e) =
                        [ok |-> ApplyEvent(disk.state, e).ok, state |-> ApplyEvent(disk.state, e).state]
                  /\ ApplyEvent(disk.state, e).ok =>
                        Agree(ApplyEvent(live, e).state, ApplyEvent(disk.state, e).state)
  BY <1>1, <1>7, <1>8, <1>9, <1>10, <1>13 DEF d
<1>19. RoomForText => /\ Match(live, disk.state) /\ ApplyEvent(disk.state, e).ok
                      /\ Match(ApplyEvent(live, e).state, ApplyEvent(disk.state, e).state)
                      /\ Spared(live, live) /\ Spared(live, ApplyEvent(live, e).state)
                      /\ Spared(live, ApplyEvent(disk.state, e).state)
  BY <1>1, <1>7, <1>8, <1>14, <1>15, <1>17 DEF d
<1>20. Sound(ApplyEvent(live, e).state, n + 1)
  BY <1>7, <1>10
<1> QED BY <1>1, <1>16, <1>18, <1>19, <1>20, PutMirrored
-----------------------------------------------------------------------------
(* A new offer. *)

\* r is s but for offers that were closed: their rows are free, or o's, as the
\* free rows of s may be.
Given(s, r, o) ==
    /\ r.led = s.led /\ r.listings = s.listings /\ r.active = s.active /\ DOMAIN r.offers = DOMAIN s.offers
    /\ \A i \in DOMAIN s.offers :
          \/ r.offers[i] = s.offers[i]
          \/ /\ s.offers[i].id = 0 \/ Closed(s.offers[i])
             /\ r.offers[i] \in {NoOffer, o}

\* A row becomes free, or that of a new offer.
LEMMA OfferRowSound ==
    ASSUME MarketAssumption, NEW s, NEW m \in Nat, Sound(s, m), NEW c \in DOMAIN s.offers,
           NEW q \in Offer \cup {NoOffer},
           q.id # 0 => /\ q.status = "OPEN" /\ q.id < m /\ q.listing < m
                       /\ \A j \in DOMAIN s.offers : s.offers[j].id # q.id
    PROVE  Sound(Rec(s.led, s.listings, [s.offers EXCEPT ![c] = q], s.active), m)
<1> DEFINE tab == [s.offers EXCEPT ![c] = q]
           r == Rec(s.led, s.listings, tab, s.active)
<1>1. /\ s.offers \in [DOMAIN s.offers -> Offer \cup {NoOffer}] /\ Once(s.offers)
      /\ DOMAIN s.offers \subseteq 1..MaxOffers
      /\ \A j \in DOMAIN s.offers : s.offers[j].id < m /\ (s.offers[j].id # 0 => s.offers[j].listing < m)
      /\ \A i \in DOMAIN s.listings : s.listings[i].id < m
      /\ \A k \in Kept(s.led) : s.led.txns[k].listing < m
  BY DEF Sound, OffersOK, Fresh
<1>2. /\ DOMAIN tab = DOMAIN s.offers
      /\ \A j \in DOMAIN s.offers : tab[j] = IF j = c THEN q ELSE s.offers[j]
      /\ tab \in [DOMAIN s.offers -> Offer \cup {NoOffer}]
  BY <1>1
<1>3. m > 0
  <2>1. s.offers[c].id \in Nat
    BY Typed
  <2> QED BY <1>1, <2>1
<1>4. r.led = s.led /\ r.listings = s.listings /\ r.offers = tab /\ r.active = s.active
      /\ r = [led |-> r.led, listings |-> r.listings, offers |-> r.offers, active |-> r.active]
  BY DEF Rec
<1> HIDE DEF tab, r
<1>5. OffersOK(tab)
  BY <1>1, <1>2 DEF OffersOK, Once
<1>6. \A i \in DOMAIN tab, j \in DOMAIN s.listings : tab[i].id # 0 /\ s.listings[j].id # 0 => Deals(tab[i], s.listings[j])
  <2>1. q.id # 0 => \A l : Deals(q, l)
    BY DEF Deals
  <2>2. \A i \in DOMAIN s.offers, j \in DOMAIN s.listings :
           s.offers[i].id # 0 /\ s.listings[j].id # 0 => Deals(s.offers[i], s.listings[j])
    BY DEF Sound, Story
  <2> QED BY <1>2, <2>1, <2>2
<1>7. Settled(tab, s.led.total)
  <2>1. Settled(s.offers, s.led.total)
    BY DEF Sound, Story
  <2>2. \A i \in DOMAIN tab : tab[i].id # 0 /\ tab[i].status = "ACCEPTED" => i # c /\ tab[i] = s.offers[i]
    BY <1>2
  <2> QED BY <1>2, <2>1, <2>2 DEF Settled
<1>8. Story(s.led, s.listings, tab)
  BY <1>6, <1>7 DEF Sound, Story
<1>9. Fresh(s.led, s.listings, tab, m)
  <2>1. q.id < m /\ (q.id # 0 => q.listing < m)
    BY <1>3
  <2> QED BY <1>1, <1>2, <2>1 DEF Fresh
<1>10. Sound(r, m)
  BY <1>4, <1>5, <1>8, <1>9 DEF Sound
<1> QED BY <1>10 DEF r, tab

\* A full table gives up a closed offer, if it has one.
LEMMA RecycleIs ==
    ASSUME MarketAssumption, NEW s, NEW n, Sound(s, n)
    PROVE  \/ /\ RecycleOffer(s) = s
              /\ FreeRows(s.offers) # {} \/ \A i \in DOMAIN s.offers : ~Closed(s.offers[i])
           \/ /\ FreeRows(s.offers) = {}
              /\ \E c \in DOMAIN s.offers :
                    /\ Closed(s.offers[c])
                    /\ RecycleOffer(s) = Rec(s.led, s.listings, [s.offers EXCEPT ![c] = NoOffer], s.active)
<1> DEFINE closed == {i \in DOMAIN s.offers : Closed(s.offers[i])}
           c == Oldest(s.offers, closed)
<1>1. RecycleOffer(s) = IF FreeRows(s.offers) # {} \/ closed = {} THEN s ELSE [s EXCEPT !.offers[c] = NoOffer]
  BY DEF RecycleOffer
<1>2. s = Rec(s.led, s.listings, s.offers, s.active)
  BY DEF Sound, Rec
<1>3. [s EXCEPT !.offers[c] = NoOffer] = Rec(s.led, s.listings, [s.offers EXCEPT ![c] = NoOffer], s.active)
  BY <1>2 DEF Rec
<1>4. closed # {} => c \in closed
  <2>1. DOMAIN s.offers \subseteq Nat /\ \A i \in DOMAIN s.offers : s.offers[i].id # 0 => s.offers[i] \in Offer
    BY Typed
  <2>2. \A o \in Offer : o.at \in Nat
    BY DEF Offer, MarketAssumption
  <2>3. closed \in SUBSET Nat /\ \A i \in closed : s.offers[i].at \in Nat
    BY <2>1, <2>2 DEF Closed
  <2> HIDE DEF closed
  <2> QED BY <2>3, OldestIn
<1> HIDE DEF c
<1>5. CASE FreeRows(s.offers) # {} \/ closed = {}
  BY <1>1, <1>5
<1>6. CASE FreeRows(s.offers) = {} /\ closed # {}
  <2>1. c \in DOMAIN s.offers /\ Closed(s.offers[c])
    BY <1>4, <1>6
  <2>2. RecycleOffer(s) = Rec(s.led, s.listings, [s.offers EXCEPT ![c] = NoOffer], s.active)
    BY <1>1, <1>3, <1>6
  <2> QED BY <1>6, <2>1, <2>2
<1> QED BY <1>5, <1>6

\* What becomes of the table: the row it gives up is the only free one.
LEMMA RecycleSound ==
    ASSUME MarketAssumption, NEW s, NEW n \in Nat, Sound(s, n), NEW o
    PROVE  /\ Sound(RecycleOffer(s), n) /\ Given(s, RecycleOffer(s), o)
           /\ FreeRows(s.offers) # {} => RecycleOffer(s) = s
           /\ FreeRows(s.offers) = {} => \A i, j \in FreeRows(RecycleOffer(s).offers) : i = j
           /\ FreeRows(RecycleOffer(s).offers) = {} =>
                 FreeRows(s.offers) = {} /\ \A i \in DOMAIN s.offers : ~Closed(s.offers[i])
<1> DEFINE r == RecycleOffer(s)
<1>2. ASSUME FreeRows(s.offers) = {}, NEW c \in DOMAIN s.offers, Closed(s.offers[c]),
             r = Rec(s.led, s.listings, [s.offers EXCEPT ![c] = NoOffer], s.active)
      PROVE  /\ Sound(r, n) /\ Given(s, r, o)
             /\ \A i, j \in FreeRows(r.offers) : i = j
             /\ FreeRows(r.offers) # {}
  <2>1. NoOffer \in Offer \cup {NoOffer} /\ NoOffer.id = 0
    BY DEF NoOffer
  <2>2. Sound(r, n)
    BY <1>2, <2>1, OfferRowSound
  <2>3. s.offers = [i \in DOMAIN s.offers |-> s.offers[i]]
    BY Typed
  <2>4. r.led = s.led /\ r.listings = s.listings /\ r.active = s.active /\ r.offers = [s.offers EXCEPT ![c] = NoOffer]
    BY <1>2 DEF Rec
  <2> HIDE DEF r
  <2>5. /\ DOMAIN r.offers = DOMAIN s.offers
        /\ \A i \in DOMAIN s.offers : r.offers[i] = IF i = c THEN NoOffer ELSE s.offers[i]
    BY <2>3, <2>4
  <2>6. Given(s, r, o)
    BY <1>2, <2>4, <2>5 DEF Given
  <2>7. FreeRows(r.offers) = {c}
    BY <1>2, <2>1, <2>5 DEF FreeRows
  <2> QED BY <2>2, <2>6, <2>7
<1> HIDE DEF r
<1>3. \/ /\ r = s
         /\ FreeRows(s.offers) # {} \/ \A i \in DOMAIN s.offers : ~Closed(s.offers[i])
      \/ /\ FreeRows(s.offers) = {}
         /\ \E c \in DOMAIN s.offers :
               /\ Closed(s.offers[c])
               /\ r = Rec(s.led, s.listings, [s.offers EXCEPT ![c] = NoOffer], s.active)
  BY RecycleIs DEF r
<1>4. /\ Sound(r, n) /\ Given(s, r, o)
      /\ FreeRows(s.offers) # {} => r = s
      /\ FreeRows(s.offers) = {} => \A i, j \in FreeRows(r.offers) : i = j
      /\ FreeRows(r.offers) = {} => FreeRows(s.offers) = {} /\ \A i \in DOMAIN s.offers : ~Closed(s.offers[i])
  <2>1. CASE /\ r = s
             /\ FreeRows(s.offers) # {} \/ \A i \in DOMAIN s.offers : ~Closed(s.offers[i])
    <3>1. Given(s, s, o)
      BY DEF Given
    <3> QED BY <2>1, <3>1
  <2> QED BY <1>2, <1>3, <2>1
<1> QED BY <1>4 DEF r
LEMMA GivenOn ==
    ASSUME NEW s, NEW r, NEW t, NEW o, Given(s, r, o), Given(r, t, o)
    PROVE  Given(s, t, o)
BY DEF Given

LEMMA GivenSpared ==
    ASSUME NEW s, NEW r, NEW o, Given(s, r, o)
    PROVE  Spared(s, r)
BY DEF Given, Spared, Has

\* A new offer is nobody else's row.
LEMMA GivenAgree ==
    ASSUME NEW s, NEW d, NEW r, NEW q, NEW o, Agree(s, d), Given(s, r, o), Given(d, q, o), o.id # 0,
           \A i \in DOMAIN s.offers : s.offers[i].id # o.id,
           \A i \in DOMAIN d.offers : d.offers[i].id # o.id
    PROVE  Agree(r, q)
<1>1. NoOffer.id = 0
  BY DEF NoOffer
<1>2. /\ r.led = q.led /\ r.active = q.active /\ DOMAIN r.offers = DOMAIN q.offers
      /\ r.listings = s.listings /\ q.listings = d.listings
      /\ DOMAIN r.offers = DOMAIN s.offers /\ DOMAIN q.offers = DOMAIN d.offers
  BY DEF Given, Agree
<1>3. /\ \A i \in DOMAIN s.offers : r.offers[i] \in {s.offers[i], NoOffer, o}
      /\ \A i \in DOMAIN d.offers : q.offers[i] \in {d.offers[i], NoOffer, o}
  BY DEF Given
<1>4. \A i \in DOMAIN s.offers, j \in DOMAIN d.offers :
         s.offers[i].id = d.offers[j].id /\ s.offers[i].id # 0 => s.offers[i] = d.offers[j]
  BY DEF Agree
<1>5. \A i \in DOMAIN r.offers, j \in DOMAIN q.offers :
         r.offers[i].id = q.offers[j].id /\ r.offers[i].id # 0 => r.offers[i] = q.offers[j]
  <2> SUFFICES ASSUME NEW i \in DOMAIN r.offers, NEW j \in DOMAIN q.offers,
                      r.offers[i].id = q.offers[j].id, r.offers[i].id # 0
               PROVE  r.offers[i] = q.offers[j]
    OBVIOUS
  <2>1. r.offers[i] = s.offers[i] \/ r.offers[i] = o
    BY <1>1, <1>2, <1>3
  <2>2. q.offers[j] = d.offers[j] \/ q.offers[j] = o
    BY <1>1, <1>2, <1>3
  <2>3. i \in DOMAIN s.offers /\ j \in DOMAIN d.offers
    BY <1>2
  <2>4. CASE r.offers[i] = o
    BY <2>2, <2>3, <2>4
  <2>5. CASE r.offers[i] = s.offers[i]
    <3>1. CASE q.offers[j] = o
      BY <2>3, <2>5, <3>1
    <3>2. CASE q.offers[j] = d.offers[j]
      BY <1>4, <2>3, <2>5, <3>2
    <3> QED BY <2>2, <3>1, <3>2
  <2> QED BY <2>1, <2>4, <2>5
<1> QED BY <1>2, <1>5 DEF Agree

\* A new offer goes to the first free row, if the text fits.
LEMMA PutOfferIs ==
    ASSUME MarketAssumption, NEW s, NEW n \in Nat, Sound(s, n), NEW o \in Offer, o.id = n,
           o.status = "OPEN", o.listing < n
    PROVE  LET p == PutOffer(s, o)
               r == RecycleOffer(s)
           IN  /\ p = [ok |-> p.ok, state |-> p.state] /\ p.ok \in BOOLEAN
               /\ FreeRows(r.offers) # {} /\ ~(OfferText > TextFree(r)) => p.ok
               /\ p.ok => FreeRows(r.offers) # {}
               /\ Given(s, p.state, o) /\ Sound(p.state, n + 1)
               /\ p.ok => Has(p.state.offers, n)
               /\ p.ok /\ FreeRows(s.offers) = {} => FreeRows(p.state.offers) = {}
               /\ p.ok /\ FreeRows(s.offers) # {} =>
                     p.state.offers = [s.offers EXCEPT ![FirstFree(s.offers)] = o]
<1> DEFINE p == PutOffer(s, o)
           r == RecycleOffer(s)
           x == FirstFree(r.offers)
           t == Rec(r.led, r.listings, [r.offers EXCEPT ![x] = o], r.active)
<1>1. /\ Sound(r, n) /\ Given(s, r, o)
      /\ FreeRows(s.offers) # {} => r = s
      /\ FreeRows(s.offers) = {} => \A i, j \in FreeRows(r.offers) : i = j
  BY RecycleSound
<1>2. Sound(r, n + 1) /\ o.id \in Nat /\ o.id # 0
  <2>1. o.id # 0 /\ o.id \in Nat
    BY DEF Offer, MarketAssumption
  <2> QED BY <1>1, <2>1, SoundLater
<1>3. p = IF FreeRows(r.offers) = {} \/ OfferText > TextFree(r) THEN Refused(r) ELSE Done([r EXCEPT !.offers[x] = o])
  BY DEF PutOffer
<1>4. [r EXCEPT !.offers[x] = o] = t
  <2>1. r = Rec(r.led, r.listings, r.offers, r.active)
    BY <1>1 DEF Sound, Rec
  <2> HIDE DEF r, x
  <2> QED BY <2>1 DEF Rec, t
<1> HIDE DEF p, r, x
<1>5. CASE FreeRows(r.offers) = {} \/ OfferText > TextFree(r)
  <2>1. p = Refused(r)
    BY <1>3, <1>5
  <2>2. p.ok = FALSE /\ p.state = r /\ p = [ok |-> p.ok, state |-> p.state]
    BY <2>1 DEF Refused
  <2>3. ~(FreeRows(r.offers) # {} /\ ~(OfferText > TextFree(r)))
    BY <1>5
  <2> QED BY <1>1, <1>2, <2>2, <2>3 DEF p, r
<1>6. CASE FreeRows(r.offers) # {} /\ ~(OfferText > TextFree(r))
  <2>1. p = Done(t)
    BY <1>3, <1>4, <1>6
  <2>2. p.ok = TRUE /\ p.state = t /\ p = [ok |-> p.ok, state |-> p.state]
    BY <2>1 DEF Done
  <2>3. x \in DOMAIN r.offers /\ r.offers[x].id = 0 /\ x \in FreeRows(r.offers)
    <3>1. DOMAIN r.offers \subseteq Nat
      BY <1>1, Typed
    <3> QED BY <1>6, <3>1, FirstFreeIn DEF x, FreeRows
  <2>4. \A j \in DOMAIN r.offers : r.offers[j].id # o.id
    <3>1. \A j \in DOMAIN r.offers : r.offers[j].id < n /\ r.offers[j].id \in Nat
      BY <1>1, Typed DEF Sound, Fresh
    <3> QED BY <3>1
  <2>5. Sound(t, n + 1)
    <3>1. o \in Offer \cup {NoOffer} /\ o.id < n + 1 /\ o.listing < n + 1
      <4>1. o.listing \in Nat
        BY DEF Offer, MarketAssumption
      <4> QED BY <4>1
    <3> QED BY <1>2, <2>3, <2>4, <3>1, OfferRowSound
  <2>6. /\ t.led = r.led /\ t.listings = r.listings /\ t.active = r.active
        /\ t.offers = [r.offers EXCEPT ![x] = o]
    BY DEF Rec
  <2> HIDE DEF t
  <2>7. /\ DOMAIN t.offers = DOMAIN r.offers
        /\ \A i \in DOMAIN r.offers : t.offers[i] = IF i = x THEN o ELSE r.offers[i]
    <3>1. r.offers = [i \in DOMAIN r.offers |-> r.offers[i]]
      BY <1>1, Typed
    <3> QED BY <2>6, <3>1
  <2>8. Given(s, t, o)
    <3>1. Given(r, t, o)
      BY <2>3, <2>6, <2>7 DEF Given
    <3> QED BY <1>1, <3>1, GivenOn
  <2>9. Has(t.offers, n)
    BY <2>3, <2>7 DEF Has
  <2>10. FreeRows(s.offers) = {} => FreeRows(t.offers) = {}
    BY <1>1, <1>2, <2>3, <2>7 DEF FreeRows
  <2>11. FreeRows(s.offers) # {} => t.offers = [s.offers EXCEPT ![FirstFree(s.offers)] = o]
    BY <1>1, <2>6 DEF x
  <2> QED BY <1>6, <2>2, <2>5, <2>8, <2>9, <2>10, <2>11 DEF p, r
<1> QED BY <1>5, <1>6

\* While one table has a free row or a closed offer, the other has one.
LEMMA SomeClosed ==
    ASSUME MarketAssumption, NEW s, NEW d, NEW n, Sound(s, n), Sound(d, n), Agree(s, d), Match(s, d),
           FreeRows(d.offers) = {}, NEW x \in DOMAIN s.offers, s.offers[x].id = 0 \/ Closed(s.offers[x])
    PROVE  \E i \in DOMAIN d.offers : Closed(d.offers[i])
<1> SUFFICES ASSUME \A i \in DOMAIN d.offers : ~Closed(d.offers[i]) PROVE FALSE
  OBVIOUS
<1> DEFINE S == DOMAIN d.offers
           f == [i \in S |-> Row(s.offers, d.offers[i].id)]
<1>1. DOMAIN s.offers = S
  BY DEF Agree
<1>2. \A i \in S : d.offers[i].id # 0 /\ Has(s.offers, d.offers[i].id)
  BY DEF FreeRows, Match
<1>3. \A i \in S : f[i] \in S /\ s.offers[f[i]].id = d.offers[i].id
  BY <1>1, <1>2, RowIs
<1>4. \A i \in S : s.offers[f[i]] = d.offers[i]
  BY <1>1, <1>2, <1>3 DEF Agree
<1>5. f \in [S -> S \ {x}]
  <2>1. f = [i \in S |-> f[i]]
    OBVIOUS
  <2>3. \A i \in S : ~Closed(d.offers[i])
    OBVIOUS
  <2> HIDE DEF f, S
  <2>2. \A i \in S : f[i] # x
    BY <1>2, <1>3, <1>4, <2>3
  <2> QED BY <1>3, <2>1, <2>2
<1>6. \A i, j \in S : f[i] = f[j] => i = j
  <2>1. \A i, j \in S : d.offers[i].id = d.offers[j].id /\ d.offers[i].id # 0 => i = j
    BY Typed DEF Once
  <2> HIDE DEF f, S
  <2> QED BY <1>2, <1>3, <2>1
<1>7. IsFiniteSet(S) /\ Cardinality(S) \in Nat
  <2>1. S \subseteq 1..MaxOffers
    BY Typed
  <2>2. IsFiniteSet(1..MaxOffers)
    <3>1. 1 \in Int /\ MaxOffers \in Int
      BY DEF MarketAssumption
    <3> QED BY <3>1, FS_Interval
  <2>3. IsFiniteSet(S)
    BY <2>1, <2>2, FS_Subset
  <2> QED BY <2>3, FS_CardinalityType
<1>8. IsFiniteSet(S \ {x}) /\ Cardinality(S \ {x}) < Cardinality(S)
  <2>1. IsFiniteSet(S \ {x}) /\ Cardinality(S \ {x}) = Cardinality(S) - 1
    BY <1>1, <1>7, FS_RemoveElement
  <2> QED BY <1>7, <2>1
<1> HIDE DEF f, S
<1>9. \E i, j \in S : i # j /\ f[i] = f[j]
  BY <1>5, <1>7, <1>8, FS_PigeonHole
<1> QED BY <1>6, <1>9
\* What somebody waits for is in both tables, before and after.
LEMMA GivenHas ==
    ASSUME NEW s, NEW d, NEW r, NEW q, NEW o, Agree(s, d), Given(s, r, o), Given(d, q, o),
           Has(r.offers, o.id) => Has(q.offers, o.id),
           \A i \in DOMAIN s.offers : s.offers[i].id # 0 /\ ~Closed(s.offers[i]) => Has(d.offers, s.offers[i].id)
    PROVE  \A i \in DOMAIN r.offers : r.offers[i].id # 0 /\ ~Closed(r.offers[i]) => Has(q.offers, r.offers[i].id)
<1> SUFFICES ASSUME NEW i \in DOMAIN r.offers, r.offers[i].id # 0, ~Closed(r.offers[i])
             PROVE  Has(q.offers, r.offers[i].id)
  OBVIOUS
<1>1. NoOffer.id = 0
  BY DEF NoOffer
<1>2. i \in DOMAIN s.offers /\ r.offers[i] \in {s.offers[i], NoOffer, o}
  BY DEF Given
<1>3. CASE r.offers[i] = s.offers[i]
  <2>1. Has(d.offers, s.offers[i].id) /\ s.offers[i].id # 0 /\ ~Closed(s.offers[i])
    BY <1>2, <1>3
  <2>2. PICK j \in DOMAIN d.offers : d.offers[j].id = s.offers[i].id
    BY <2>1 DEF Has
  <2>3. d.offers[j] = s.offers[i]
    BY <1>2, <2>1, <2>2 DEF Agree
  <2>4. j \in DOMAIN q.offers /\ q.offers[j] = d.offers[j]
    BY <2>1, <2>2, <2>3 DEF Given
  <2> QED BY <1>3, <2>3, <2>4 DEF Has
<1>4. CASE r.offers[i] = o
  <2>1. Has(r.offers, o.id)
    BY <1>4 DEF Has
  <2> QED BY <1>4, <2>1
<1> QED BY <1>1, <1>2, <1>3, <1>4

LEMMA AgreeBack ==
    ASSUME NEW s, NEW d, Agree(s, d)
    PROVE  Agree(d, s)
<1>1. \A i, j \in 1..MaxListings :
         s.listings[i].id = d.listings[j].id /\ s.listings[i].id # 0 => s.listings[i] = d.listings[j]
  BY DEF Agree
<1>2. \A i \in DOMAIN s.offers, j \in DOMAIN d.offers :
         s.offers[i].id = d.offers[j].id /\ s.offers[i].id # 0 => s.offers[i] = d.offers[j]
  BY DEF Agree
<1>3. \A i, j \in 1..MaxListings :
         d.listings[i].id = s.listings[j].id /\ d.listings[i].id # 0 => d.listings[i] = s.listings[j]
  BY <1>1
<1>4. \A i \in DOMAIN d.offers, j \in DOMAIN s.offers :
         d.offers[i].id = s.offers[j].id /\ d.offers[i].id # 0 => d.offers[i] = s.offers[j]
  BY <1>2
<1> QED BY <1>3, <1>4 DEF Agree

LEMMA GivenMatch ==
    ASSUME NEW s, NEW d, NEW r, NEW q, NEW o, Agree(s, d), Match(s, d), Given(s, r, o), Given(d, q, o),
           Has(r.offers, o.id) <=> Has(q.offers, o.id),
           FreeRows(q.offers) # {} => r.offers = q.offers
    PROVE  Match(r, q)
<1>1. r.listings = q.listings
  BY DEF Match, Given
<1>2. /\ \A i \in DOMAIN s.offers : s.offers[i].id # 0 /\ ~Closed(s.offers[i]) => Has(d.offers, s.offers[i].id)
      /\ \A i \in DOMAIN d.offers : d.offers[i].id # 0 /\ ~Closed(d.offers[i]) => Has(s.offers, d.offers[i].id)
  BY DEF Match
<1>3. \A i \in DOMAIN r.offers : r.offers[i].id # 0 /\ ~Closed(r.offers[i]) => Has(q.offers, r.offers[i].id)
  BY <1>2, GivenHas
<1>4. \A i \in DOMAIN q.offers : q.offers[i].id # 0 /\ ~Closed(q.offers[i]) => Has(r.offers, q.offers[i].id)
  BY <1>2, AgreeBack, GivenHas
<1> QED BY <1>1, <1>3, <1>4 DEF Match

LEMMA SparedOn ==
    ASSUME NEW s, NEW d, NEW q, Agree(s, d), Match(s, d), Spared(d, q), DOMAIN s.listings = 1..MaxListings
    PROVE  Spared(s, q)
<1>1. \A i \in DOMAIN s.offers : s.offers[i].id # 0 /\ ~Closed(s.offers[i]) => Has(q.offers, s.offers[i].id)
  <2> SUFFICES ASSUME NEW i \in DOMAIN s.offers, s.offers[i].id # 0, ~Closed(s.offers[i])
               PROVE  Has(q.offers, s.offers[i].id)
    OBVIOUS
  <2>1. PICK j \in DOMAIN d.offers : d.offers[j].id = s.offers[i].id
    BY DEF Match, Has
  <2>2. d.offers[j] = s.offers[i]
    BY <2>1 DEF Agree
  <2> QED BY <2>2 DEF Spared
<1> QED BY <1>1 DEF Match, Spared
-----------------------------------------------------------------------------

\* Posting an offer keeps RAM and the journal mirrored, also when the row for it was
\* given up and the append failed.
LEMMA PostOffer ==
    ASSUME MarketAssumption, NEW n \in Nat, Mirrored(live, disk, up, n), up, NEW o \in Offer, o.id = n,
           o.status = "OPEN", o.listing < n, FreeRows(RecycleOffer(live).offers) # {},
           AppendEvent(RecycleOffer(live), [type |-> "OfferCreated", offer |-> o])
    PROVE  Mirrored(live', disk', up', n + 1) /\ (RoomForText => Spared(live, live'))
<1> DEFINE e == [type |-> "OfferCreated", offer |-> o]
           d == disk.state
           s0 == RecycleOffer(live)
           p == PutOffer(s0, o)
           q == PutOffer(d, o)
<1>1. /\ Sound(live, n) /\ Sound(d, n) /\ (disk.ok => Agree(live, d))
      /\ RoomForText => disk.ok /\ Match(live, d)
  BY DEF Mirrored
<1>2. \A s : ApplyEvent(s, e) = PutOffer(s, o)
  BY DEF ApplyEvent, ApplyOfferCreated
<1>3. AppendEvent(s0, e)
  OBVIOUS
<1>4. /\ Sound(s0, n) /\ Given(live, s0, o) /\ (FreeRows(live.offers) # {} => s0 = live)
      /\ FreeRows(s0.offers) # {}
  BY <1>1, RecycleSound
<1> HIDE DEF s0
<1>5. RecycleOffer(s0) = s0
  BY <1>4, RecycleSound
<1>6. /\ p = [ok |-> p.ok, state |-> p.state] /\ p.ok \in BOOLEAN
      /\ ~(OfferText > TextFree(s0)) => p.ok
      /\ Given(s0, p.state, o) /\ Sound(p.state, n + 1)
      /\ p.ok => Has(p.state.offers, n)
      /\ p.ok => p.state.offers = [s0.offers EXCEPT ![FirstFree(s0.offers)] = o]
  BY <1>4, <1>5, PutOfferIs
<1>7. /\ q = [ok |-> q.ok, state |-> q.state] /\ q.ok \in BOOLEAN
      /\ FreeRows(RecycleOffer(d).offers) # {} /\ ~(OfferText > TextFree(RecycleOffer(d))) => q.ok
      /\ Given(d, q.state, o) /\ Sound(q.state, n + 1)
      /\ q.ok => Has(q.state.offers, n)
      /\ q.ok /\ FreeRows(d.offers) = {} => FreeRows(q.state.offers) = {}
      /\ q.ok /\ FreeRows(d.offers) # {} => q.state.offers = [d.offers EXCEPT ![FirstFree(d.offers)] = o]
  BY <1>1, PutOfferIs
<1>8. ApplyEvent(s0, e) = p /\ ApplyEvent(d, e) = q
  BY <1>2
<1> HIDE DEF e, p, q, d
<1>9. o.id # 0
  BY DEF Offer, MarketAssumption
<1>10. /\ \A i \in DOMAIN live.offers : live.offers[i].id # o.id
       /\ \A i \in DOMAIN d.offers : d.offers[i].id # o.id
       /\ \A i \in DOMAIN s0.offers : s0.offers[i].id # o.id
  <2>1. \A s : Sound(s, n) => \A i \in DOMAIN s.offers : s.offers[i].id # n
    <3> SUFFICES ASSUME NEW s, Sound(s, n) PROVE \A i \in DOMAIN s.offers : s.offers[i].id # n
      OBVIOUS
    <3>1. \A i \in DOMAIN s.offers : s.offers[i].id < n /\ s.offers[i].id \in Nat
      BY Typed DEF Sound, Fresh
    <3> QED BY <3>1
  <2> QED BY <1>1, <1>4, <2>1
<1>11. Given(live, p.state, o) /\ Given(d, d, o)
  BY <1>4, <1>6, GivenOn DEF Given
<1>12. Agree(live, d) => Agree(s0, d) /\ Agree(p.state, q.state)
  BY <1>4, <1>7, <1>9, <1>10, <1>11, GivenAgree
<1>13. Spared(live, s0) /\ Spared(live, p.state) /\ Spared(d, q.state)
  BY <1>4, <1>7, <1>11, GivenSpared
<1>14. ASSUME RoomForText
       PROVE  Match(s0, d) /\ q.ok /\ Match(p.state, q.state) /\ Spared(live, q.state)
  <2>1. Agree(live, d) /\ Match(live, d) /\ DOMAIN live.offers = DOMAIN s0.offers
    BY <1>1, <1>4, <1>14 DEF Given
  <2>2. p.ok
    BY <1>4, <1>6, <1>14, RoomForOffer
  <2>3. FreeRows(d.offers) # {} => live.offers = d.offers /\ s0 = live
    BY <1>4, <2>1 DEF Match
  <2>4. FreeRows(RecycleOffer(d).offers) # {}
    <3>1. PICK x \in DOMAIN s0.offers : s0.offers[x].id = 0
      BY <1>4 DEF FreeRows
    <3>2. x \in DOMAIN live.offers /\ (live.offers[x].id = 0 \/ Closed(live.offers[x]))
      BY <1>4, <3>1 DEF Given
    <3>3. FreeRows(d.offers) = {} => \E i \in DOMAIN d.offers : Closed(d.offers[i])
      BY <1>1, <2>1, <3>2, SomeClosed
    <3> QED BY <1>1, <3>3, RecycleSound
  <2>5. q.ok
    <3>1. Sound(RecycleOffer(d), n)
      BY <1>1, RecycleSound
    <3> QED BY <1>7, <1>14, <2>4, <3>1, RoomForOffer
  <2>6. ~Has(s0.offers, o.id) /\ ~Has(d.offers, o.id)
    BY <1>10 DEF Has
  <2>7. Match(s0, d)
    BY <1>4, <1>11, <2>1, <2>3, <2>6, GivenMatch
  <2>8. FreeRows(q.state.offers) # {} => p.state.offers = q.state.offers
    BY <1>6, <1>7, <2>2, <2>3, <2>5
  <2>9. Has(p.state.offers, o.id) /\ Has(q.state.offers, o.id)
    BY <1>6, <1>7, <2>2, <2>5
  <2>10. Match(p.state, q.state)
    BY <1>7, <1>11, <2>1, <2>8, <2>9, GivenMatch
  <2>11. Spared(live, q.state)
    <3>1. DOMAIN live.listings = 1..MaxListings
      BY <1>1, Typed
    <3> QED BY <1>13, <2>1, <3>1, SparedOn
  <2> QED BY <2>5, <2>7, <2>10, <2>11
<1>15. disk.ok => /\ Agree(s0, disk.state)
                  /\ Sound(ApplyEvent(disk.state, e).state, n + 1)
                  /\ ApplyEvent(disk.state, e).ok \in BOOLEAN
                  /\ ApplyEvent(disk.state, e) =
                        [ok |-> ApplyEvent(disk.state, e).ok, state |-> ApplyEvent(disk.state, e).state]
                  /\ ApplyEvent(disk.state, e).ok =>
                        Agree(ApplyEvent(s0, e).state, ApplyEvent(disk.state, e).state)
  BY <1>1, <1>7, <1>8, <1>12 DEF d
<1>16. RoomForText => /\ Match(s0, disk.state) /\ ApplyEvent(disk.state, e).ok
                      /\ Match(ApplyEvent(s0, e).state, ApplyEvent(disk.state, e).state)
                      /\ Spared(live, s0) /\ Spared(live, ApplyEvent(s0, e).state)
                      /\ Spared(live, ApplyEvent(disk.state, e).state)
  BY <1>8, <1>13, <1>14 DEF d
<1>17. Sound(ApplyEvent(s0, e).state, n + 1)
  BY <1>6, <1>8
<1> QED BY <1>3, <1>4, <1>15, <1>16, <1>17, PutMirrored
-----------------------------------------------------------------------------
(* The steps. *)

Preserved == IInv' /\ (RoomForText => NothingAwaitedIsLost)

LEMMA NothingLost ==
    ASSUME Spared(live, live')
    PROVE  NothingAwaitedIsLost
BY DEF Spared, NothingAwaitedIsLost, Awaited, Rows, FreeRows

\* An append that leaves nothing pending.
LEMMA AppendStep ==
    ASSUME MarketAssumption, IInv, up, NEW e, Suits(e, live, nextId), Ready(live, e), AppendEvent(live, e),
           pending' = {}, UNCHANGED <<now, nextId>>
    PROVE  Preserved
<1>1. Mirrored(live, disk, up, nextId) /\ nextId \in Nat
  BY DEF IInv, MarketAssumption
<1>2. Mirrored(live', disk', up', nextId) /\ (RoomForText => Spared(live, live'))
  BY <1>1, AppendMirrored
<1>3. IInv'
  BY <1>2 DEF IInv, PendingInv
<1> QED BY <1>2, <1>3, NothingLost DEF Preserved

\* The listing under an identifier.
LEMMA ListingIs ==
    ASSUME MarketAssumption, IInv, NEW id, id # 0, Has(live.listings, id),
           NEW l, l = live.listings[Row(live.listings, id)]
    PROVE  /\ l \in Listing /\ l.id = id /\ id < nextId
           /\ \A i \in DOMAIN live.listings : live.listings[i].id = id => live.listings[i] = l
<1>1. Sound(live, nextId)
  BY DEF IInv, Mirrored
<1>2. Row(live.listings, id) \in DOMAIN live.listings /\ l.id = id
  BY RowIs
<1>3. l \in Listing /\ Once(live.listings)
  BY <1>1, <1>2, Typed
<1>4. id < nextId
  BY <1>1, <1>2 DEF Sound, Fresh
<1> QED BY <1>2, <1>3, <1>4 DEF Once

\* The offer under an identifier.
LEMMA OfferIs ==
    ASSUME MarketAssumption, IInv, NEW id, id # 0, Has(live.offers, id),
           NEW o, o = live.offers[Row(live.offers, id)]
    PROVE  /\ o \in Offer /\ o.id = id /\ o.listing < nextId /\ o.listing \in 1..MaxIds /\ o.listing # 0
           /\ \A i \in DOMAIN live.offers : live.offers[i].id = id => live.offers[i] = o
<1>1. Sound(live, nextId)
  BY DEF IInv, Mirrored
<1>2. Row(live.offers, id) \in DOMAIN live.offers /\ o.id = id
  BY RowIs
<1>3. o \in Offer /\ Once(live.offers)
  BY <1>1, <1>2, Typed
<1>4. o.listing < nextId
  BY <1>1, <1>2 DEF Sound, Fresh
<1>5. o.listing \in 1..MaxIds /\ o.listing # 0
  BY <1>3 DEF Offer, MarketAssumption
<1> QED BY <1>2, <1>3, <1>4, <1>5 DEF Once

\* A reversal stays under the reference of what it undoes.
LEMMA UndoIs ==
    ASSUME MarketAssumption, NEW l, LedOK(l), NEW seq, CanReverse(l, seq)
    PROVE  /\ Undo(l, seq) \in Txn /\ Undo(l, seq).reverses = seq /\ seq # 0
           /\ Undo(l, seq).listing = l.txns[seq].listing
<1>1. seq \in Kept(l) /\ seq \in Nat /\ seq # 0
  <2>1. seq \in Kept(l)
    BY DEF CanReverse
  <2>2. l.first \in Nat /\ l.total \in Nat /\ l.first >= 1
    BY DEF LedOK, MarketAssumption, LedgerOpsAssumption
  <2> QED BY <2>1, <2>2 DEF Kept
<1>2. l.txns[seq] \in Txn
  BY <1>1 DEF LedOK
<1>3. Undo(l, seq) = [from |-> l.txns[seq].to, to |-> l.txns[seq].from, amount |-> l.txns[seq].amount,
                      reverses |-> seq, listing |-> l.txns[seq].listing]
  BY DEF Undo, Deal
<1> QED BY <1>1, <1>2, <1>3 DEF Txn

\* Posting a listing.
LEMMA CreateListingStep ==
    ASSUME MarketAssumption, IInv, NEW u \in User, NEW side \in {"SELL", "BUY"}, NEW price \in Amount,
           NEW text \in 1..MaxText, CreateListing(u, side, price, text)
    PROVE  Preserved
<1> DEFINE l == [id |-> nextId, seller |-> u, side |-> side, price |-> price, text |-> text,
                 status |-> "ACTIVE", buyer |-> None, soldTx |-> 0, at |-> now]
<1>1. /\ up /\ nextId <= MaxIds /\ nextId' = nextId + 1 /\ ListingRows(live, l) # {}
      /\ AppendEvent(live, [type |-> "ListingCreated", listing |-> l])
      /\ pending' = {} /\ now' = now
  BY DEF CreateListing, Idle
<1>2. /\ nextId \in Nat /\ nextId \in 1..MaxIds /\ now \in 0..MaxTime /\ nextId + 1 \in 1..(MaxIds + 1)
      /\ Mirrored(live, disk, up, nextId)
  BY <1>1 DEF IInv, MarketAssumption
<1>3. l \in Listing
  <2>1. 0 \in 0..MaxSeq
    BY DEF MarketAssumption, LedgerOpsAssumption
  <2> QED BY <1>2, <2>1 DEF Listing
<1>4. l.id = nextId
  OBVIOUS
<1> HIDE DEF l
<1>5. Mirrored(live', disk', up', nextId + 1) /\ (RoomForText => Spared(live, live'))
  BY <1>1, <1>2, <1>3, <1>4, PostListing
<1>6. IInv'
  BY <1>1, <1>2, <1>5 DEF IInv, PendingInv
<1> QED BY <1>5, <1>6, NothingLost DEF Preserved

\* A change of a listing on the market.
LEMMA ListingUpdatedStep ==
    ASSUME MarketAssumption, IInv, Idle, NEW id \in 1..MaxIds, Has(live.listings, id),
           NEW l, l = live.listings[Row(live.listings, id)], l.status = "ACTIVE",
           NEW price \in Amount, NEW text \in 1..MaxText, NEW status \in {"ACTIVE", "CANCELLED"},
           text = l.text \/ Fits(live, [l EXCEPT !.text = text], Row(live.listings, id)),
           AppendEvent(live, [type |-> "ListingUpdated", id |-> id, price |-> price, text |-> text,
                              status |-> status, at |-> now]),
           UNCHANGED <<pending, now, nextId>>
    PROVE  Preserved
<1> DEFINE e == [type |-> "ListingUpdated", id |-> id, price |-> price, text |-> text,
                 status |-> status, at |-> now]
<1>1. /\ e.type = "ListingUpdated" /\ e.id = id /\ e.price = price /\ e.text = text
      /\ e.status = status /\ e.at = now /\ AppendEvent(live, e)
  OBVIOUS
<1> HIDE DEF e
<1>2. id # 0
  BY DEF MarketAssumption
<1>3. \A i \in DOMAIN live.listings : live.listings[i].id = id => live.listings[i] = l
  BY <1>2, ListingIs
<1>4. Suits(e, live, nextId)
  BY <1>1, <1>3 DEF Suits, IInv
<1>5. Rewritable(live, e)
  BY <1>1 DEF Rewritable
<1>6. Ready(live, e)
  BY <1>1, <1>5 DEF Ready, Known, Bid, Target, Pays
<1>7. up /\ pending' = {}
  BY DEF Idle
<1> QED BY <1>1, <1>4, <1>6, <1>7, AppendStep

LEMMA UpdateListingStep ==
    ASSUME MarketAssumption, IInv, NEW u \in User, NEW id \in 1..MaxIds, NEW price \in Amount,
           NEW text \in 1..MaxText, UpdateListing(u, id, price, text)
    PROVE  Preserved
<1> DEFINE l == live.listings[Row(live.listings, id)]
<1>1. /\ Idle /\ Has(live.listings, id) /\ l.status = "ACTIVE"
      /\ text = l.text \/ Fits(live, [l EXCEPT !.text = text], Row(live.listings, id))
      /\ AppendEvent(live, [type |-> "ListingUpdated", id |-> id, price |-> price, text |-> text,
                            status |-> "ACTIVE", at |-> now])
      /\ UNCHANGED <<pending, now, nextId>>
  BY DEF UpdateListing
<1>2. l = live.listings[Row(live.listings, id)]
  OBVIOUS
<1> HIDE DEF l
<1> QED BY <1>1, <1>2, ListingUpdatedStep

LEMMA CancelListingStep ==
    ASSUME MarketAssumption, IInv, NEW u \in User, NEW id \in 1..MaxIds, CancelListing(u, id)
    PROVE  Preserved
<1> DEFINE l == live.listings[Row(live.listings, id)]
<1>1. /\ Idle /\ Has(live.listings, id) /\ l.status = "ACTIVE"
      /\ AppendEvent(live, [type |-> "ListingUpdated", id |-> id, price |-> l.price, text |-> l.text,
                            status |-> "CANCELLED", at |-> now])
      /\ UNCHANGED <<pending, now, nextId>>
  BY DEF CancelListing
<1>2. l = live.listings[Row(live.listings, id)] /\ id # 0
  BY DEF MarketAssumption
<1> HIDE DEF l
<1>3. l \in Listing
  BY <1>1, <1>2, ListingIs
<1>4. l.price \in Amount /\ l.text \in 1..MaxText
  BY <1>3 DEF Listing
<1> QED BY <1>1, <1>2, <1>4, ListingUpdatedStep

\* A listing is bought.
LEMMA PurchaseStep ==
    ASSUME MarketAssumption, IInv, NEW u \in User, NEW id \in 1..MaxIds, Purchase(u, id)
    PROVE  Preserved
<1> DEFINE l == live.listings[Row(live.listings, id)]
           t == Deal(u, l.seller, l.price, id)
           e == [type |-> "ListingPurchased", listing |-> id, buyer |-> u, txn |-> t, at |-> now]
<1>1. /\ Idle /\ Has(live.listings, id) /\ l.status = "ACTIVE" /\ live.led.total < MaxSeq
      /\ AppendEvent(live, e) /\ UNCHANGED <<pending, now, nextId>>
  BY DEF Purchase, Valid
<1>2. l = live.listings[Row(live.listings, id)] /\ id # 0
  BY DEF MarketAssumption
<1>3. /\ e.type = "ListingPurchased" /\ e.listing = id /\ e.buyer = u /\ e.txn = t /\ e.at = now
      /\ t = [from |-> u, to |-> l.seller, amount |-> l.price, reverses |-> 0, listing |-> id]
  BY DEF Deal
<1> HIDE DEF l, t, e
<1>4. /\ l \in Listing /\ id < nextId
      /\ \A i \in DOMAIN live.listings : live.listings[i].id = id => live.listings[i] = l
  BY <1>1, <1>2, ListingIs
<1>5. l.seller \in Account /\ l.price \in Int /\ u \in Account /\ id \in Nat
  BY <1>4 DEF Listing, Amount, MarketAssumption
<1>6. t \in Txn /\ t.listing = id /\ t.reverses = 0
  BY <1>3, <1>5 DEF Txn
<1>7. Suits(e, live, nextId)
  BY <1>1, <1>3, <1>4, <1>6 DEF Suits, IInv
<1>8. Ready(live, e)
  BY <1>1, <1>3 DEF Ready, Known, Bid, Target, Pays
<1>9. up /\ pending' = {}
  BY <1>1 DEF Idle
<1> QED BY <1>1, <1>7, <1>8, <1>9, AppendStep
\* An offer is posted under an identifier of its own.
LEMMA MakeOfferStep ==
    ASSUME MarketAssumption, IInv, NEW u \in User, NEW id \in 1..MaxIds, NEW amount \in Amount,
           MakeOffer(u, id, amount)
    PROVE  Preserved
<1> DEFINE o == [id |-> nextId, listing |-> id, offerer |-> u, amount |-> amount,
                 status |-> "OPEN", settledTx |-> 0, settlesAt |-> 0, at |-> now]
<1>1. /\ up /\ nextId <= MaxIds /\ nextId' = nextId + 1 /\ FreeRows(RecycleOffer(live).offers) # {}
      /\ AppendEvent(RecycleOffer(live), [type |-> "OfferCreated", offer |-> o])
      /\ Has(live.listings, id) /\ pending' = {} /\ now' = now
  BY DEF MakeOffer, Idle
<1>2. /\ nextId \in Nat /\ nextId \in 1..MaxIds /\ now \in 0..MaxTime /\ nextId + 1 \in 1..(MaxIds + 1)
      /\ Mirrored(live, disk, up, nextId)
  BY <1>1 DEF IInv, MarketAssumption
<1>3. o \in Offer
  <2>1. 0 \in 0..MaxSeq /\ 0 \in 0..(MaxTime + SettleAfter)
    BY DEF MarketAssumption, LedgerOpsAssumption
  <2> QED BY <1>2, <2>1 DEF Offer
<1>4. o.id = nextId /\ o.status = "OPEN" /\ o.listing = id
  OBVIOUS
<1> HIDE DEF o
<1>5. id < nextId
  <2>1. id # 0
    BY DEF MarketAssumption
  <2> QED BY <1>1, <2>1, ListingIs
<1>6. Mirrored(live', disk', up', nextId + 1) /\ (RoomForText => Spared(live, live'))
  BY <1>1, <1>2, <1>3, <1>4, <1>5, PostOffer
<1>7. IInv'
  BY <1>1, <1>2, <1>6 DEF IInv, PendingInv
<1> QED BY <1>6, <1>7, NothingLost DEF Preserved

\* An offer is accepted, and paid for.
LEMMA AcceptOfferStep ==
    ASSUME MarketAssumption, IInv, NEW u \in User, NEW id \in 1..MaxIds, AcceptOffer(u, id)
    PROVE  Preserved
<1> DEFINE o == live.offers[Row(live.offers, id)]
           l == live.listings[Row(live.listings, o.listing)]
           payer == IF l.side = "BUY" THEN l.seller ELSE o.offerer
           payee == IF l.side = "BUY" THEN o.offerer ELSE l.seller
           t == Deal(payer, payee, o.amount, o.listing)
           e == [type |-> "OfferAccepted", offer |-> id, listing |-> o.listing, buyer |-> payer, txn |-> t,
                 settlesAt |-> now + SettleAfter, at |-> now]
<1>1. /\ Idle /\ Has(live.offers, id) /\ o.status = "OPEN" /\ Has(live.listings, o.listing)
      /\ l.status = "ACTIVE" /\ live.led.total < MaxSeq
      /\ AppendEvent(live, e) /\ UNCHANGED <<pending, now, nextId>>
  BY DEF AcceptOffer, Valid
<1>2. /\ o = live.offers[Row(live.offers, id)] /\ l = live.listings[Row(live.listings, o.listing)]
      /\ id # 0
  BY DEF MarketAssumption
<1>3. /\ e.type = "OfferAccepted" /\ e.offer = id /\ e.listing = o.listing /\ e.buyer = payer /\ e.txn = t
      /\ e.settlesAt = now + SettleAfter /\ e.at = now
  OBVIOUS
<1>4. t = [from |-> payer, to |-> payee, amount |-> o.amount, reverses |-> 0, listing |-> o.listing]
  BY DEF Deal
<1>5. payer \in {l.seller, o.offerer} /\ payee \in {l.seller, o.offerer}
  OBVIOUS
<1> HIDE DEF o, l, payer, payee, t, e
<1>6. /\ o \in Offer /\ o.listing < nextId /\ o.listing \in 1..MaxIds /\ o.listing # 0
      /\ \A i \in DOMAIN live.offers : live.offers[i].id = id => live.offers[i] = o
  BY <1>1, <1>2, OfferIs
<1>7. /\ l \in Listing
      /\ \A i \in DOMAIN live.listings : live.listings[i].id = o.listing => live.listings[i] = l
  BY <1>1, <1>2, <1>6, ListingIs
<1>8. l.seller \in User /\ o.offerer \in User /\ o.amount \in Int /\ User \subseteq Account /\ o.listing \in Nat
  BY <1>6, <1>7 DEF Listing, Offer, Amount, MarketAssumption
<1>9. t \in Txn /\ t.listing = o.listing /\ t.reverses = 0 /\ payer \in User
  BY <1>4, <1>5, <1>8 DEF Txn
<1>10. now \in 0..MaxTime /\ now + SettleAfter \in 0..(MaxTime + SettleAfter)
  BY DEF IInv, MarketAssumption
<1>11. Suits(e, live, nextId)
  BY <1>1, <1>3, <1>6, <1>7, <1>9, <1>10 DEF Suits
<1>12. Ready(live, e)
  BY <1>1, <1>3 DEF Ready, Known, Bid, Target, Pays
<1>13. up /\ pending' = {}
  BY <1>1 DEF Idle
<1> QED BY <1>1, <1>11, <1>12, <1>13, AppendStep

\* A payment without a listing, or a reversal.
LEMMA PaymentStep ==
    ASSUME MarketAssumption, IInv, Idle, NEW t \in Txn, t.listing < nextId, t.listing = 0 \/ t.reverses # 0,
           live.led.total < MaxSeq, AppendEvent(live, [type |-> "Transaction", txn |-> t]),
           UNCHANGED <<pending, now, nextId>>
    PROVE  Preserved
<1> DEFINE e == [type |-> "Transaction", txn |-> t]
<1>1. e.type = "Transaction" /\ e.txn = t /\ AppendEvent(live, e)
  OBVIOUS
<1> HIDE DEF e
<1>2. Suits(e, live, nextId)
  BY <1>1 DEF Suits
<1>3. Ready(live, e)
  BY <1>1 DEF Ready, Known, Bid, Target, Pays
<1>4. up /\ pending' = {}
  BY DEF Idle
<1> QED BY <1>1, <1>2, <1>3, <1>4, AppendStep

LEMMA TransferStep ==
    ASSUME MarketAssumption, IInv, NEW u \in User, NEW to \in User, NEW amount \in Amount,
           Transfer(u, to, amount)
    PROVE  Preserved
<1>1. Deal(u, to, amount, 0) \in Txn /\ Deal(u, to, amount, 0).listing = 0 /\ 0 < nextId
  BY DEF Deal, Txn, MarketAssumption, IInv, Amount
<1>2. /\ Idle /\ live.led.total < MaxSeq /\ UNCHANGED <<pending, now, nextId>>
      /\ AppendEvent(live, [type |-> "Transaction", txn |-> Deal(u, to, amount, 0)])
  BY DEF Transfer, Valid
<1> QED BY <1>1, <1>2, PaymentStep

LEMMA ReverseStep ==
    ASSUME MarketAssumption, IInv, NEW u \in Nana, NEW seq \in 1..MaxSeq, Reverse(u, seq)
    PROVE  Preserved
<1> DEFINE t == Undo(live.led, seq)
<1>1. /\ CanReverse(live.led, seq) /\ Idle /\ live.led.total < MaxSeq /\ UNCHANGED <<pending, now, nextId>>
      /\ AppendEvent(live, [type |-> "Transaction", txn |-> t])
  BY DEF Reverse, Valid
<1>2. LedOK(live.led) /\ \A k \in Kept(live.led) : live.led.txns[k].listing < nextId
  BY DEF IInv, Mirrored, Sound, Fresh
<1>3. t \in Txn /\ t.reverses # 0 /\ t.listing = live.led.txns[seq].listing
  BY <1>1, <1>2, UndoIs
<1>4. t.listing < nextId
  BY <1>1, <1>2, <1>3 DEF CanReverse
<1> HIDE DEF t
<1> QED BY <1>1, <1>3, <1>4, PaymentStep

\* The money of a deal comes back first; the offer stays accepted until the second append.
LEMMA UnacceptStep ==
    ASSUME MarketAssumption, IInv, NEW u \in User, NEW id \in 1..MaxIds, Unaccept(u, id)
    PROVE  Preserved
<1> DEFINE o == live.offers[Row(live.offers, id)]
           t == Undo(live.led, o.settledTx)
           e == [type |-> "Transaction", txn |-> t]
           c == [type |-> "OfferUpdated", id |-> id, status |-> "REVERSED", reopen |-> TRUE, at |-> now]
<1>1. /\ Idle /\ Has(live.offers, id) /\ o.status = "ACCEPTED" /\ CanReverse(live.led, o.settledTx)
      /\ live.led.total < MaxSeq /\ UNCHANGED <<now, nextId>>
      /\ \/ Log!Commit(live, e) /\ pending' = {c}
         \/ (Log!CommitFails(live) \/ Log!FoundAtBoot(e)) /\ UNCHANGED pending
  BY DEF Unaccept, Valid, Reversible
<1>2. /\ o = live.offers[Row(live.offers, id)] /\ id # 0 /\ t = Undo(live.led, o.settledTx)
      /\ e = [type |-> "Transaction", txn |-> t] /\ e.type = "Transaction" /\ e.txn = t
      /\ c.type = "OfferUpdated" /\ c.id = id /\ c.status = "REVERSED" /\ c.reopen = TRUE /\ c.at = now
  BY DEF MarketAssumption
<1> HIDE DEF o, t, e, c
<1>3. /\ Mirrored(live, disk, up, nextId) /\ Sound(live, nextId) /\ LedOK(live.led) /\ nextId \in Nat
      /\ now \in 0..MaxTime /\ up /\ \A k \in Kept(live.led) : live.led.txns[k].listing < nextId
  BY <1>1 DEF IInv, Mirrored, Sound, Fresh, MarketAssumption, Idle
<1>4. t \in Txn /\ t.reverses = o.settledTx /\ t.reverses # 0 /\ t.listing < nextId
  BY <1>1, <1>2, <1>3, UndoIs DEF CanReverse
<1>5. CASE (Log!CommitFails(live) \/ Log!FoundAtBoot(e)) /\ UNCHANGED pending
  <2>1. AppendEvent(live, [type |-> "Transaction", txn |-> t])
    BY <1>2, <1>5 DEF AppendEvent
  <2> QED BY <1>1, <1>4, <1>5, <2>1, PaymentStep
<1>6. CASE Log!Commit(live, e) /\ pending' = {c}
  <2>1. Suits(e, live, nextId) /\ AppendEvent(live, e)
    BY <1>2, <1>4, <1>6 DEF Suits, AppendEvent
  <2>2. Ready(live, e) /\ Bid(e) = 0 /\ Pays(e)
    BY <1>1, <1>2 DEF Ready, Known, Bid, Target, Pays
  <2>3. Mirrored(live', disk', up', nextId) /\ (RoomForText => Spared(live, live'))
    BY <1>3, <2>1, <2>2, AppendMirrored
  <2>4. live' = After(live, e) /\ up'
    <3>1. ApplyEvent(live, e) = Done(After(live, e))
      BY <1>3, <2>1, <2>2, EventIs
    <3> QED BY <1>3, <1>6, <3>1 DEF Log!Commit, Done
  <2>5. live'.offers = live.offers /\ live'.led = NextLed(live.led, t)
    <3>1. live.offers = [i \in DOMAIN live.offers |-> live.offers[i]]
      BY <1>3, Typed
    <3>2. NextOffers(live, e) = live.offers
      BY <2>2, <3>1, NoRow
    <3>3. NextLedger(live, e) = NextLed(live.led, t)
      BY <1>2, <2>2 DEF NextLedger
    <3>4. live'.offers = NextOffers(live, e) /\ live'.led = NextLedger(live, e)
      BY <2>4 DEF After
    <3> QED BY <3>2, <3>3, <3>4
  <2>6. o.settledTx \in Kept(live.led) /\ o.settledTx # live.led.total + 1 /\ live.led.total + 1 # 0
    <3>1. o.settledTx \in Kept(live.led)
      BY <1>1 DEF CanReverse
    <3>2. live.led.first \in Nat /\ live.led.total \in Nat
      BY <1>3 DEF LedOK, MarketAssumption, LedgerOpsAssumption
    <3> QED BY <3>1, <3>2 DEF Kept
  <2>7. o.settledTx \in Kept(live'.led) => live'.led.revBy[o.settledTx] # 0
    BY <1>1, <1>3, <1>4, <2>5, <2>6, NextLedIs
  <2>8. \A i \in DOMAIN live.offers : live.offers[i].id = id => live.offers[i] = o
    BY <1>1, <1>2, OfferIs
  <2>9. Suits(c, live', nextId)
    BY <1>1, <1>2, <1>3, <2>5, <2>7, <2>8 DEF Suits
  <2>10. PendingInv'
    BY <1>1, <1>2, <1>6, <2>4, <2>5, <2>9 DEF PendingInv
  <2>11. IInv'
    BY <1>1, <2>3, <2>10 DEF IInv
  <2> QED BY <2>3, <2>11, NothingLost DEF Preserved
<1> QED BY <1>1, <1>5, <1>6

\* The offer itself is reversed, and its listing is back on the market.
LEMMA UnacceptFinishStep ==
    ASSUME MarketAssumption, IInv, UnacceptFinish
    PROVE  Preserved
<1>1. PICK e \in pending : AppendEvent(live, e)
  BY DEF UnacceptFinish
<1>2. up /\ e.type = "OfferUpdated" /\ Suits(e, live, nextId) /\ Has(live.offers, e.id)
  BY <1>1 DEF IInv, PendingInv
<1>3. Ready(live, e)
  BY <1>2 DEF Ready, Known, Bid, Target, Pays
<1>4. pending' = {} /\ UNCHANGED <<now, nextId>>
  BY DEF UnacceptFinish
<1> QED BY <1>1, <1>2, <1>3, <1>4, AppendStep

\* An open offer is closed.
LEMMA OfferClosedStep ==
    ASSUME MarketAssumption, IInv, Idle, NEW id \in 1..MaxIds, Has(live.offers, id),
           live.offers[Row(live.offers, id)].status = "OPEN", NEW status \in {"DECLINED", "WITHDRAWN"},
           AppendEvent(live, [type |-> "OfferUpdated", id |-> id, status |-> status, reopen |-> FALSE, at |-> now]),
           UNCHANGED <<pending, now, nextId>>
    PROVE  Preserved
<1> DEFINE e == [type |-> "OfferUpdated", id |-> id, status |-> status, reopen |-> FALSE, at |-> now]
<1>1. /\ e.type = "OfferUpdated" /\ e.id = id /\ e.status = status /\ e.reopen = FALSE /\ e.at = now
      /\ AppendEvent(live, e) /\ id # 0
  BY DEF MarketAssumption
<1> HIDE DEF e
<1>2. \A i \in DOMAIN live.offers : live.offers[i].id = id => live.offers[i].status = "OPEN"
  BY <1>1, OfferIs
<1>3. Suits(e, live, nextId)
  BY <1>1, <1>2 DEF Suits, IInv
<1>4. Ready(live, e)
  BY <1>1 DEF Ready, Known, Bid, Target, Pays
<1>5. up /\ pending' = {}
  BY DEF Idle
<1> QED BY <1>1, <1>3, <1>4, <1>5, AppendStep

LEMMA DeclineOfferStep ==
    ASSUME MarketAssumption, IInv, NEW u \in User, NEW id \in 1..MaxIds, DeclineOffer(u, id)
    PROVE  Preserved
BY OfferClosedStep DEF DeclineOffer

LEMMA WithdrawOfferStep ==
    ASSUME MarketAssumption, IInv, NEW u \in User, NEW id \in 1..MaxIds, WithdrawOffer(u, id)
    PROVE  Preserved
BY OfferClosedStep DEF WithdrawOffer

\* A member's status.
LEMMA SetStatusStep ==
    ASSUME MarketAssumption, IInv, NEW u \in User, NEW active \in BOOLEAN, SetStatus(u, active)
    PROVE  Preserved
<1> DEFINE e == [type |-> "UserUpdated", user |-> u, active |-> active]
<1>1. up /\ AppendEvent(live, e) /\ pending' = {} /\ UNCHANGED <<now, nextId>>
  BY DEF SetStatus, Idle
<1>2. e.type = "UserUpdated" /\ e.user = u
  OBVIOUS
<1> HIDE DEF e
<1>3. Suits(e, live, nextId)
  BY <1>2 DEF Suits
<1>4. Ready(live, e)
  BY <1>2 DEF Ready, Known, Bid, Target, Pays
<1> QED BY <1>1, <1>3, <1>4, AppendStep

LEMMA TickStep ==
    ASSUME MarketAssumption, IInv, Tick
    PROVE  Preserved
<1>1. now' \in 0..MaxTime
  BY DEF Tick, IInv, MarketAssumption
<1>2. UNCHANGED <<live, disk, up, pending, nextId>>
  BY DEF Tick
<1>3. IInv'
  BY <1>1, <1>2 DEF IInv, PendingInv
<1>4. Spared(live, live')
  BY <1>2, SparedSelf
<1> QED BY <1>3, <1>4, NothingLost DEF Preserved

\* A boot, also one between the two appends of an undo.
LEMMA RestartStep ==
    ASSUME MarketAssumption, IInv, Restart
    PROVE  Preserved
<1>1. /\ live' = disk.state /\ disk' = disk /\ up' = disk.ok /\ pending' = {}
      /\ now' = now /\ nextId' = nextId
  BY DEF Restart, Log!Reboot, Log!Boot
<1>2. Mirrored(disk.state, disk, disk.ok, nextId)
  BY BootMirrored DEF IInv, Mirrored
<1>3. IInv'
  BY <1>1, <1>2 DEF IInv, PendingInv
<1>4. RoomForText => Spared(live, live')
  BY <1>1, SparedMatch DEF IInv, Mirrored
<1> QED BY <1>3, <1>4, NothingLost DEF Preserved
-----------------------------------------------------------------------------
(* The theorems. *)

\* The household as provisioned: nothing is posted.
LEMMA InitHolds ==
    ASSUME MarketAssumption, Init
    PROVE  IInv
<1> DEFINE n == Cardinality(User)
           bal == [a \in Account |-> IF a = Bank THEN -(Grant * n) ELSE Grant]
<1>1. PICK rows \in 1..MaxOffers : live = Provisioned(rows)
  BY DEF Init
<1>2. n \in Nat /\ n < MaxSeq /\ MaxSeq \in Nat /\ Window \in Nat
  <2>1. IsFiniteSet(User) /\ MaxSeq > Cardinality(User) /\ MaxSeq \in Nat /\ Window \in Nat
    BY DEF MarketAssumption, LedgerOpsAssumption
  <2> QED BY <2>1, FS_CardinalityType
<1>3. live = [led |-> [bal |-> bal, first |-> n + 1, total |-> n,
                       txns |-> EmptyLedger.txns, revBy |-> EmptyLedger.revBy],
              listings |-> [i \in 1..MaxListings |-> NoListing], offers |-> [i \in 1..rows |-> NoOffer],
              active |-> User]
  BY <1>1 DEF Provisioned, EmptyLedger
<1>4. bal \in [Account -> Int]
  <2>1. Grant \in Int
    BY DEF MarketAssumption
  <2> HIDE DEF n
  <2>2. Grant * n \in Int
    BY <1>2, <2>1, Z3
  <2> DEFINE g == Grant * n
  <2>3. g \in Int
    BY <2>2
  <2> HIDE DEF g
  <2>4. [a \in Account |-> IF a = Bank THEN -g ELSE Grant] \in [Account -> Int]
    BY <2>1, <2>3
  <2> QED BY <2>4 DEF g
<1> HIDE DEF bal, n
<1> DEFINE l == live.led
<1>5. /\ l = [bal |-> bal, first |-> n + 1, total |-> n, txns |-> EmptyLedger.txns, revBy |-> EmptyLedger.revBy]
      /\ live.listings = [i \in 1..MaxListings |-> NoListing]
      /\ live.offers = [i \in 1..rows |-> NoOffer] /\ live.active = User
      /\ live = [led |-> live.led, listings |-> live.listings, offers |-> live.offers, active |-> live.active]
  BY <1>3
<1> HIDE DEF l
<1>6. /\ l.bal = bal /\ l.total = n /\ l.first = n + 1 /\ l.txns = EmptyLedger.txns
      /\ l = [bal |-> l.bal, first |-> l.first, total |-> l.total, txns |-> l.txns, revBy |-> l.revBy]
  BY <1>5
<1>7. Kept(l) = {}
  BY <1>2, <1>6 DEF Kept
<1>8. LedOK(l)
  <2>1. EmptyLedger.txns \in [{} -> Txn]
    BY DEF EmptyLedger
  <2>2. l.txns \in [Kept(l) -> Txn]
    BY <1>6, <1>7, <2>1
  <2>3. /\ l.total \in 0..MaxSeq /\ l.first \in 1..MaxSeq /\ l.first <= l.total + 1
        /\ l.total - l.first + 1 <= Window
    BY <1>2, <1>6
  <2> QED BY <1>4, <1>6, <2>2, <2>3 DEF LedOK
<1>9. /\ DOMAIN live.listings = 1..MaxListings /\ DOMAIN live.offers = 1..rows /\ 1..rows \subseteq 1..MaxOffers
      /\ \A i \in DOMAIN live.listings : live.listings[i] = NoListing /\ live.listings[i].id = 0
      /\ \A i \in DOMAIN live.offers : live.offers[i] = NoOffer /\ live.offers[i].id = 0
  BY <1>5 DEF NoListing, NoOffer, MarketAssumption
<1>10. live.listings \in [1..MaxListings -> Listing \cup {NoListing}]
       /\ live.offers \in [DOMAIN live.offers -> Offer \cup {NoOffer}]
  BY <1>5
<1>11. ListingsOK(live.listings) /\ OffersOK(live.offers)
  BY <1>9, <1>10 DEF ListingsOK, OffersOK, Once
<1>12. Story(l, live.listings, live.offers)
  BY <1>9 DEF Story, Settled
<1>13. Fresh(l, live.listings, live.offers, 1)
  BY <1>7, <1>9 DEF Fresh
<1>14. Sound(live, 1)
  BY <1>5, <1>8, <1>11, <1>12, <1>13 DEF Sound, l
<1>15. disk = [ok |-> TRUE, state |-> live] /\ up = TRUE /\ pending = {} /\ now = 0 /\ nextId = 1
  BY DEF Init, Done
<1>16. Mirrored(disk.state, disk, disk.ok, 1)
  BY <1>14, <1>15, BootMirrored
<1>17. Mirrored(live, disk, up, nextId)
  BY <1>15, <1>16
<1>18. now \in 0..MaxTime /\ nextId \in 1..(MaxIds + 1)
  BY <1>15 DEF MarketAssumption
<1> QED BY <1>15, <1>17, <1>18 DEF IInv, PendingInv

\* Every step keeps the invariant, and with text for full tables nothing that somebody
\* waits for is lost.
LEMMA StepKeeps ==
    ASSUME MarketAssumption, IInv, Next
    PROVE  Preserved
BY CreateListingStep, UpdateListingStep, CancelListingStep, PurchaseStep, MakeOfferStep, AcceptOfferStep,
   UnacceptStep, UnacceptFinishStep, DeclineOfferStep, WithdrawOfferStep, TransferStep, ReverseStep,
   SetStatusStep, TickStep, RestartStep DEF Next

\* A step that changes nothing keeps the invariant.
LEMMA StutterKeeps ==
    ASSUME MarketAssumption, IInv, UNCHANGED vars
    PROVE  IInv'
BY DEF vars, IInv, PendingInv

\* What the invariant says of a state.
LEMMA SoundIs ==
    ASSUME MarketAssumption, NEW s, NEW n, Sound(s, n)
    PROVE  StateOK(s)
<1>1. LedOK(s.led) /\ ListingsOK(s.listings) /\ OffersOK(s.offers) /\ s.active \subseteq User
      /\ MaxSeq \in Nat /\ Window \in Nat
  BY DEF Sound, MarketAssumption, LedgerOpsAssumption
<1>2. /\ s.led.total \in 0..MaxSeq /\ s.led.first \in 1..MaxSeq
      /\ s.led.first <= s.led.total + 1 /\ s.led.total - s.led.first + 1 <= Window
  BY <1>1 DEF LedOK
<1>3. Cardinality(Kept(s.led)) <= Window
  <2>1. Cardinality(Kept(s.led)) = IF s.led.first > s.led.total THEN 0 ELSE s.led.total - s.led.first + 1
    <3>1. s.led.first \in Int /\ s.led.total \in Int
      BY <1>2
    <3> QED BY <3>1, FS_Interval DEF Kept
  <2> QED BY <1>1, <1>2, <2>1
<1> QED BY <1>1, <1>2, <1>3 DEF StateOK, LedOK, ListingsOK, OffersOK

\* RAM and the journal always replay to a household whose tables and ring keep their
\* bounds, and at most one half of an undo is on its way.
THEOREM TypeCorrect == ASSUME MarketAssumption PROVE Spec => []TypeOK
<1>1. Init => IInv
  BY InitHolds
<1>2. IInv /\ [Next]_vars => IInv'
  BY StepKeeps, StutterKeeps DEF Preserved
<1>3. IInv => TypeOK
  <2> SUFFICES ASSUME IInv PROVE TypeOK
    OBVIOUS
  <2>1. StateOK(live) /\ StateOK(disk.state) /\ disk.ok \in BOOLEAN /\ up \in BOOLEAN
    BY SoundIs DEF IInv, Mirrored
  <2>2. Cardinality(pending) <= 1
    <3>1. CASE pending = {}
      BY <3>1, FS_EmptySet
    <3>2. CASE \E e : pending = {e}
      <4>1. PICK e : pending = {e}
        BY <3>2
      <4>2. Cardinality({e}) = 1
        BY FS_Singleton
      <4> QED BY <4>1, <4>2
    <3> QED BY <3>1, <3>2 DEF IInv, PendingInv
  <2> QED BY <2>1, <2>2 DEF TypeOK, IInv
<1> QED BY <1>1, <1>2, <1>3, PTL DEF Spec

\* An accepted offer is the deal that sold its listing, whatever purchases, acceptances
\* and undos came in between, at whatever point the service failed or restarted, and
\* however little text there is left.
THEOREM DealsAlwaysAgree == ASSUME MarketAssumption PROVE Spec => []DealsAgree
<1>1. Init => IInv
  BY InitHolds
<1>2. IInv /\ [Next]_vars => IInv'
  BY StepKeeps, StutterKeeps DEF Preserved
<1>3. IInv => DealsAgree
  <2>1. IInv => \A o \in Rows(live.offers), l \in Rows(live.listings) : Deals(o, l)
    BY DEF IInv, Mirrored, Sound, Story, Rows, FreeRows
  <2> QED BY <2>1 DEF Deals, DealsAgree
<1> QED BY <1>1, <1>2, <1>3, PTL DEF Spec

\* A payment for a listing that was not undone is the one the listing, while it is in
\* the table, was sold by: nobody pays twice for it, and it is not on the market.
THEOREM NoPaymentWithoutASale == ASSUME MarketAssumption PROVE Spec => []NoPaymentWithoutSale
<1>1. Init => IInv
  BY InitHolds
<1>2. IInv /\ [Next]_vars => IInv'
  BY StepKeeps, StutterKeeps DEF Preserved
<1>3. IInv => NoPaymentWithoutSale
  <2>1. IInv => \A l \in Rows(live.listings) : Paid(l, live.led)
    BY DEF IInv, Mirrored, Sound, Story, Rows, FreeRows
  <2> QED BY <2>1 DEF Paid, NoPaymentWithoutSale
<1> QED BY <1>1, <1>2, <1>3, PTL DEF Spec

\* With text for every listing and offer of full tables, a reboot at any point, also
\* between the two appends of an undo, succeeds and gives back the money, the members,
\* the listings, and every offer that is not closed.
THEOREM RebootKeeps ==
    ASSUME MarketAssumption, RoomForText
    PROVE  Spec => []RebootKeepsAll
<1>1. Init => IInv
  BY InitHolds
<1>2. IInv /\ [Next]_vars => IInv'
  BY StepKeeps, StutterKeeps DEF Preserved
<1>3. IInv => RebootKeepsAll
  <2> SUFFICES ASSUME IInv PROVE RebootKeepsAll
    OBVIOUS
  <2> DEFINE s == live
             d == disk.state
  <2>1. disk.ok /\ Agree(s, d) /\ Match(s, d)
    BY DEF IInv, Mirrored
  <2>2. \A p \in Rows(d.offers) : ~Closed(p) => p \in Rows(s.offers)
    <3> SUFFICES ASSUME NEW i \in DOMAIN d.offers, d.offers[i].id # 0, ~Closed(d.offers[i])
                 PROVE  d.offers[i] \in Rows(s.offers)
      BY DEF Rows, FreeRows
    <3>1. PICK j \in DOMAIN s.offers : s.offers[j].id = d.offers[i].id
      BY <2>1 DEF Match, Has
    <3>2. s.offers[j] = d.offers[i]
      BY <2>1, <3>1 DEF Agree
    <3> QED BY <3>1, <3>2 DEF Rows, FreeRows
  <2>3. \A p \in Rows(s.offers) : ~Closed(p) => p \in Rows(d.offers)
    <3> SUFFICES ASSUME NEW i \in DOMAIN s.offers, s.offers[i].id # 0, ~Closed(s.offers[i])
                 PROVE  s.offers[i] \in Rows(d.offers)
      BY DEF Rows, FreeRows
    <3>1. PICK j \in DOMAIN d.offers : d.offers[j].id = s.offers[i].id
      BY <2>1 DEF Match, Has
    <3>2. d.offers[j] = s.offers[i]
      BY <2>1, <3>1 DEF Agree
    <3> QED BY <3>1, <3>2 DEF Rows, FreeRows
  <2>4. {p \in Rows(d.offers) : ~Closed(p)} = {p \in Rows(s.offers) : ~Closed(p)}
    BY <2>2, <2>3
  <2>5. Awaited(d) = Awaited(s)
    BY <2>1, <2>4 DEF Awaited, Match
  <2> QED BY <2>1, <2>5 DEF RebootKeepsAll, Agree, Match
<1> QED BY <1>1, <1>2, <1>3, PTL DEF Spec

\* With text for every listing and offer of full tables, no step of the running service
\* and no reboot loses a listing on the market or an offer that is not closed.
THEOREM NothingAwaitedLost ==
    ASSUME MarketAssumption, RoomForText
    PROVE  Spec => [][NothingAwaitedIsLost]_vars
<1>1. Init => IInv
  BY InitHolds
<1>2. IInv /\ [Next]_vars => IInv'
  BY StepKeeps, StutterKeeps DEF Preserved
<1>3. IInv /\ [Next]_vars => [NothingAwaitedIsLost]_vars
  BY StepKeeps DEF Preserved
<1> QED BY <1>1, <1>2, <1>3, PTL DEF Spec
=============================================================================
