---------------------------- MODULE Idempotency -----------------------------
(***************************************************************************)
(* internal/core: Service.IdempotentInto and its receipt cache.  A client  *)
(* that did not see an answer sends its request again under the same key;  *)
(* a receipt that is still kept answers it without running it.             *)
(*                                                                         *)
(* A call takes the lock stripe of its key, looks for a receipt under the  *)
(* service mutex, runs the operation, which takes the mutex for itself,    *)
(* and publishes the receipt under the mutex again.  The operation is one  *)
(* append, the receipt another.  A key stands for the user, the endpoint   *)
(* and the key of the request; an answer for the sequence number of the    *)
(* transaction it reports.                                                 *)
(***************************************************************************)
EXTENDS Integers, Sequences, SequencesExt, FiniteSets, FiniteSetTheorems, FunctionTheorems, SequenceTheorems,
        WellFoundedInduction, TLAPS

CONSTANTS
    Call,          \* calls of IdempotentInto that can be in progress together
    Key,
    Stripe,        \* the keys that hash to one lock stripe, for each stripe
    Large,         \* the keys whose answers take two units of the cache, not one
    MaxEntries,    \* MaxIdempotencyEntries
    MaxBytes,      \* MaxIdempotencyBytes
    MaxTx          \* bound on the transactions ever made

ASSUME IdempotencyAssumption ==
    /\ \A k \in Key : \E g \in Stripe : k \in g
    /\ Large \subseteq Key
    /\ {MaxEntries, MaxBytes, MaxTx} \subseteq Nat
    /\ MaxEntries > 0
    /\ IsFiniteSet(Call)

VARIABLES
    live, disk, up,    \* EventSourced: the transactions, by the key they were
                       \* made under, and the receipts, oldest first
    call,              \* where each call is, under which key, with what answer
    holder,            \* for each stripe, the calls that hold it
    ended              \* history: the process has ended before

vars == <<live, disk, up, call, holder, ended>>

Gate == [k \in Key |-> CHOOSE g \in Stripe : k \in g]
Size == [k \in Key |-> IF k \in Large THEN 2 ELSE 1]
Receipt == [key : Key, tx : 1..MaxTx]
NotRunning == [at |-> "out"]

-----------------------------------------------------------------------------
(* receiptCache *)

Remembers(s, k) == \E i \in DOMAIN s.receipts : s.receipts[i].key = k
AnswerTo(s, k) == s.receipts[CHOOSE i \in DOMAIN s.receipts : s.receipts[i].key = k].tx

\* What the answers take: one unit each, the large ones another.
Used(receipts) == Len(receipts) + Cardinality({i \in DOMAIN receipts : receipts[i].key \in Large})

\* Mutant of Room: the bytes are not counted.
RoomForOne(receipts, k) == Len(receipts) < MaxEntries

Room(receipts, k) == Len(receipts) < MaxEntries /\ Used(receipts) + Size[k] <= MaxBytes

\* remember: an answer larger than the whole cache is not kept, nor is a second
\* one under the same key; the oldest receipts go until there is room.
Remember(s, k, tx) ==
    IF Size[k] > MaxBytes \/ Remembers(s, k) THEN s
    ELSE LET n == Min({m \in 0..Len(s.receipts) : Room(SubSeq(s.receipts, m + 1, Len(s.receipts)), k)})
         IN  [s EXCEPT !.receipts =
                 Append(SubSeq(@, n + 1, Len(@)), [key |-> k, tx |-> tx])]

\* applyEvent: a transaction, or an idempotency event.
ApplyEvent(s, e) ==
    [ok |-> TRUE,
     state |-> IF e.type = "Transaction" THEN [s EXCEPT !.txns = Append(@, e.key)]
               ELSE Remember(s, e.key, e.tx)]

-----------------------------------------------------------------------------
(* IdempotentInto *)

Log == INSTANCE EventSourced WITH Apply <- ApplyEvent

Empty == [txns |-> <<>>, receipts |-> <<>>]

Init ==
    /\ live = Empty
    /\ disk = [ok |-> TRUE, state |-> Empty]
    /\ up = TRUE
    /\ call = [c \in Call |-> NotRunning]
    /\ holder = [g \in Stripe |-> {}]
    /\ ended = FALSE

At(c, where) == call[c].at = where
Goto(c, where) == call' = [call EXCEPT ![c].at = where]

\* The deferred unlock of the stripe, and the answer to the client: a
\* transaction, or 0 for an error.
Return(c, tx) ==
    /\ call' = [call EXCEPT ![c] = [at |-> "out", key |-> @.key, tx |-> tx]]
    /\ holder' = [holder EXCEPT ![Gate[call[c].key]] = @ \ {c}]

\* A request under a new key, or one sent again.
Start(c, k) ==
    /\ At(c, "out")
    /\ call' = [call EXCEPT ![c] = [at |-> "gate", key |-> k, tx |-> 0]]
    /\ UNCHANGED <<live, disk, up, holder, ended>>

\* Mutant of Lock: no stripes.
LockNothing(c) ==
    /\ At(c, "gate")
    /\ Goto(c, "find")
    /\ holder' = [holder EXCEPT ![Gate[call[c].key]] = @ \cup {c}]
    /\ UNCHANGED <<live, disk, up, ended>>

\* gate.Lock
Lock(c) ==
    /\ At(c, "gate")
    /\ holder[Gate[call[c].key]] = {}
    /\ Goto(c, "find")
    /\ holder' = [holder EXCEPT ![Gate[call[c].key]] = {c}]
    /\ UNCHANGED <<live, disk, up, ended>>

\* A receipt answers the call.
Repeat(c) ==
    /\ At(c, "find")
    /\ Remembers(live, call[c].key)
    /\ Return(c, AnswerTo(live, call[c].key))
    /\ UNCHANGED <<live, disk, up, ended>>

Miss(c) ==
    /\ At(c, "find")
    /\ ~Remembers(live, call[c].key)
    /\ Goto(c, "run")
    /\ UNCHANGED <<live, disk, up, holder, ended>>

\* What a process end leaves: no calls and no locks.
Stopped ==
    /\ call' = [c \in Call |-> NotRunning]
    /\ holder' = [g \in Stripe |-> {}]
    /\ ended' = TRUE

\* fn() makes its transaction.
Run(c) ==
    /\ At(c, "run")
    /\ Len(live.txns) < MaxTx
    /\ Log!Commit(live, [type |-> "Transaction", key |-> call[c].key])
    /\ call' = [call EXCEPT ![c].at = "remember", ![c].tx = Len(live.txns) + 1]
    /\ UNCHANGED <<holder, ended>>

\* Mutant of Fail: the stripe stays locked.
FailLocked(c) ==
    /\ At(c, "run")
    /\ Log!CommitFails(live)
    /\ call' = [call EXCEPT ![c] = [at |-> "out", key |-> @.key, tx |-> 0]]
    /\ UNCHANGED <<holder, ended>>

\* fn() returns an error, and so does the call.  Failures are not remembered.  Nothing
\* was appended: what an operation of several appends undoes is in Market and Exchange.
Fail(c) ==
    /\ At(c, "run")
    /\ Log!CommitFails(live)
    /\ Return(c, 0)
    /\ UNCHANGED ended

\* The append of fn() reports a failure, the process ends, and the record is there.
RunFound(c) ==
    /\ At(c, "run")
    /\ Len(live.txns) < MaxTx
    /\ Log!FoundAtBoot([type |-> "Transaction", key |-> call[c].key])
    /\ Stopped

\* Mutant of Publish: no receipt in RAM when the append of the receipt fails.
PublishDurable(c) ==
    /\ At(c, "remember")
    /\ LET k == call[c].key  tx == call[c].tx
       IN  \/ Log!Commit(live, [type |-> "Idempotency", key |-> k, tx |-> tx])
           \/ Log!CommitFails(live)
    /\ Return(c, call[c].tx)
    /\ UNCHANGED ended

\* Mutant of Publish: the receipt is for the newest transaction.
PublishNewest(c) ==
    /\ At(c, "remember")
    /\ LET k == call[c].key  tx == Len(live.txns)
       IN  \/ Log!Commit(live, [type |-> "Idempotency", key |-> k, tx |-> tx])
           \/ Log!CommitFails(Remember(live, k, tx))
    /\ Return(c, call[c].tx)
    /\ UNCHANGED ended

\* The receipt is appended; if that fails it is kept in RAM only.  The answer is
\* the same.
Publish(c) ==
    /\ At(c, "remember")
    /\ LET k == call[c].key  tx == call[c].tx
       IN  \/ Log!Commit(live, [type |-> "Idempotency", key |-> k, tx |-> tx])
           \/ Log!CommitFails(Remember(live, k, tx))
    /\ Return(c, call[c].tx)
    /\ UNCHANGED ended

\* As RunFound, for the receipt.
PublishFound(c) ==
    /\ At(c, "remember")
    /\ Log!FoundAtBoot([type |-> "Idempotency", key |-> call[c].key, tx |-> call[c].tx])
    /\ Stopped

Restart == Log!Reboot /\ Stopped

Step(c) ==
    \/ Lock(c) \/ Repeat(c) \/ Miss(c) \/ Run(c) \/ Fail(c) \/ Publish(c)

Next ==
    \/ \E c \in Call, k \in Key : Start(c, k)
    \/ \E c \in Call : Step(c) \/ RunFound(c) \/ PublishFound(c)
    \/ Restart

\* Goroutines run: a step that can be taken is taken, and a mutex is handed to
\* who waits for it (sync.Mutex in its starvation mode).
Fairness == \A c \in Call : WF_vars(Step(c)) /\ SF_vars(Lock(c))

Spec == Init /\ [][Next]_vars /\ Fairness

-----------------------------------------------------------------------------
(* Properties. *)

StateOK(s) ==
    /\ s.txns \in BoundedSeq(Key, MaxTx)
    /\ s.receipts \in BoundedSeq(Receipt, MaxEntries)
    /\ Used(s.receipts) <= MaxBytes

TypeOK ==
    /\ StateOK(live)
    /\ disk.ok /\ StateOK(disk.state)
    /\ up
    /\ \A c \in Call : call[c].at \in {"out", "gate", "find", "run", "remember"}
    /\ holder \in [Stripe -> SUBSET Call]

\* A request never runs while a receipt for its key is kept, however calls under
\* one key interleave, and two never run at once.
NoRunWhileRemembered ==
    /\ \A c \in Call : At(c, "run") => ~Remembers(live, call[c].key)
    /\ \A c, d \in Call :
          c # d /\ {call[c].at, call[d].at} \subseteq {"run", "remember"} => call[c].key # call[d].key

\* Every answer, and every receipt in RAM or to be found by a replay, names a
\* transaction made under the key of the request: nobody is told of another's.
AnswersAreTrue ==
    /\ \A c \in Call :
          At(c, "out") /\ call[c] # NotRunning /\ call[c].tx # 0 => live.txns[call[c].tx] = call[c].key
    /\ \A s \in {live, disk.state} : \A i \in DOMAIN s.receipts :
          s.txns[s.receipts[i].tx] = s.receipts[i].key

\* Receipts of the transactions T would fill a cache that keeps one for k.
Fill(txns, T, k) ==
    \/ Cardinality(T) >= MaxEntries
    \/ Cardinality(T) + Cardinality({t \in T : txns[t] \in Large}) + Size[k] > MaxBytes

Others(txns, E, i, n) == {t \in E \cup ((i + 1)..n) : txns[t] # txns[i]}

\* Receipts of other requests filled the cache after that of transaction i: of those made
\* later, up to n, and of some made earlier, fewer than there can be calls at a time, that
\* were published later.
Displaced(txns, i, n) ==
    \E E \in SUBSET (1..(i - 1)) :
        Cardinality(E) < Cardinality(Call) /\ Fill(txns, Others(txns, E, i, n), txns[i])

\* As long as the process runs, a request is carried out at most once, unless the
\* receipts of other requests that were published since filled the cache.
AtMostOnce ==
    ~ended =>
        \A i, j \in DOMAIN live.txns :
            i < j /\ live.txns[i] = live.txns[j] => Displaced(live.txns, i, j - 1)

\* Every call returns: with an answer, with an error, or because the process ends.
EveryCallReturns == \A c \in Call : At(c, "gate") ~> At(c, "out")

-----------------------------------------------------------------------------
(* Proofs.  The invariant adds to the properties what a step needs to know of the *)
(* calls it does not move: the stripes are held by exactly the calls that are     *)
(* inside them, one each, and the journal holds the transactions of RAM.          *)

CallType == [at : {"out", "gate", "find", "run", "remember"}, key : Key, tx : 0..MaxTx]
StateType == [txns : Seq(Key), receipts : Seq(Receipt)]
Inside(c) == call[c].at \in {"find", "run", "remember"}

\* The receipts fit, and name transactions under their keys.
Sound(s) ==
    /\ s \in StateType
    /\ Len(s.txns) <= MaxTx /\ Len(s.receipts) <= MaxEntries /\ Used(s.receipts) <= MaxBytes
    /\ \A i \in DOMAIN s.receipts :
          s.receipts[i].tx \in DOMAIN s.txns /\ s.txns[s.receipts[i].tx] = s.receipts[i].key

Answered(c, s) == call[c].tx \in DOMAIN s.txns /\ s.txns[call[c].tx] = call[c].key

DataInv ==
    /\ Sound(live)
    /\ disk = [ok |-> TRUE, state |-> disk.state] /\ Sound(disk.state)
    /\ disk.state.txns = live.txns
    /\ up = TRUE

LockInv ==
    /\ call \in [Call -> CallType \cup {NotRunning}]
    /\ holder = [g \in Stripe |-> {c \in Call : Inside(c) /\ Gate[call[c].key] = g}]
    /\ \A c, d \in Call :
          Inside(c) /\ Inside(d) /\ Gate[call[c].key] = Gate[call[d].key] => c = d

CallInv ==
    \A c \in Call :
        /\ At(c, "run") => ~Remembers(live, call[c].key)
        /\ At(c, "remember") => Answered(c, live)
        /\ At(c, "out") /\ call[c] # NotRunning /\ call[c].tx # 0 => Answered(c, live)

IInv == DataInv /\ LockInv /\ CallInv

\* A set of numbers has a least one.
LEMMA LeastNumber ==
    ASSUME NEW S \in SUBSET Nat, S # {}
    PROVE  Min(S) \in S /\ \A y \in S : Min(S) <= y
<1> DEFINE Below == {0..(n - 1) : n \in S}
<1>1. Below \subseteq FiniteSubsetsOf(Nat) /\ Below # {}
  <2>1. \A n \in S : 0..(n - 1) \subseteq Nat /\ IsFiniteSet(0..(n - 1))
    BY FS_Interval
  <2> QED BY <2>1 DEF FiniteSubsetsOf
<1>2. PICK B \in Below : \A C \in Below : ~(<<C, B>> \in StrictSubsetOrdering(Nat))
  BY <1>1, FS_StrictSubsetOrderingWellFounded, WFMin, Zenon
<1>3. PICK x \in S : B = 0..(x - 1)
  OBVIOUS
<1>4. ASSUME NEW y \in S, y < x PROVE FALSE
  <2>1. 0..(y - 1) \subseteq B /\ 0..(y - 1) # B
    BY <1>3, <1>4
  <2>2. <<0..(y - 1), B>> \in StrictSubsetOrdering(Nat)
    BY <2>1, <1>1, <1>3 DEF StrictSubsetOrdering, FiniteSubsetsOf
  <2> QED BY <1>2, <2>2
<1>5. \A y \in S : x <= y
  BY <1>4
<1> QED BY <1>5 DEF Min

\* The receipts of large answers are counted once each.
LEMMA UsedIsNat ==
    ASSUME NEW r \in Seq(Receipt)
    PROVE  /\ IsFiniteSet({i \in DOMAIN r : r[i].key \in Large})
           /\ Used(r) \in Nat
<1>1. DOMAIN r = 1..Len(r) /\ Len(r) \in Nat
  OBVIOUS
<1>2. IsFiniteSet({i \in DOMAIN r : r[i].key \in Large})
  <2>1. IsFiniteSet(1..Len(r))
    BY <1>1, FS_Interval
  <2>2. {i \in DOMAIN r : r[i].key \in Large} \subseteq 1..Len(r)
    BY <1>1
  <2> QED BY <2>1, <2>2, FS_Subset
<1> QED BY <1>1, <1>2, FS_CardinalityType DEF Used

\* An empty cache holds no bytes.
LEMMA UsedOfNone == Used(<<>>) = 0
<1>1. {i \in DOMAIN <<>> : <<>>[i].key \in Large} = {}
  OBVIOUS
<1> QED BY <1>1, FS_EmptySet DEF Used

\* A receipt that is appended takes its size.
LEMMA UsedOfAppend ==
    ASSUME NEW r \in Seq(Receipt), NEW e \in Receipt
    PROVE  Used(Append(r, e)) = Used(r) + Size[e.key]
<1> DEFINE q == Append(r, e)
           Big(s) == {i \in DOMAIN s : s[i].key \in Large}
<1>1. /\ Len(r) \in Nat /\ DOMAIN r = 1..Len(r)
      /\ q \in Seq(Receipt) /\ Len(q) = Len(r) + 1 /\ DOMAIN q = 1..(Len(r) + 1)
      /\ \A i \in 1..Len(r) : q[i] = r[i]
      /\ q[Len(r) + 1] = e /\ e.key \in Key
  BY DEF Receipt
<1>2. IsFiniteSet(Big(r)) /\ Cardinality(Big(r)) \in Nat
  BY UsedIsNat, FS_CardinalityType
<1>u. Used(q) = Len(q) + Cardinality(Big(q)) /\ Used(r) = Len(r) + Cardinality(Big(r))
  BY DEF Used
<1> HIDE DEF q, Big
<1>3. CASE e.key \in Large
  <2>1. Big(q) = Big(r) \cup {Len(r) + 1} /\ Len(r) + 1 \notin Big(r)
    BY <1>1, <1>3 DEF Big
  <2>2. Cardinality(Big(q)) = Cardinality(Big(r)) + 1
    BY <2>1, <1>2, FS_AddElement
  <2>3. Size[e.key] = 2
    BY <1>1, <1>3 DEF Size
  <2> QED BY <1>1, <1>2, <1>u, <2>2, <2>3 DEF q
<1>4. CASE e.key \notin Large
  <2>1. Big(q) = Big(r)
    BY <1>1, <1>4 DEF Big
  <2>2. Size[e.key] = 1
    BY <1>1, <1>4 DEF Size
  <2> QED BY <1>1, <1>2, <1>u, <2>1, <2>2 DEF q
<1> QED BY <1>3, <1>4

\* What remember does to receipts r: the n oldest go, the new one comes last.
Pushed(r, n, q, e) ==
    /\ n \in 0..Len(r)
    /\ q \in Seq(Receipt) /\ Len(q) = Len(r) - n + 1
    /\ \A i \in 1..(Len(r) - n) : q[i] = r[i + n]
    /\ q[Len(r) - n + 1] = e

\* It changes nothing, or the fewest oldest receipts go that make room.
LEMMA RememberIs ==
    ASSUME NEW s, Sound(s), NEW k \in Key, NEW tx \in DOMAIN s.txns
    PROVE  \/ Remember(s, k, tx) = s /\ (Size[k] > MaxBytes \/ Remembers(s, k))
           \/ \E q, n :
                 /\ Pushed(s.receipts, n, q, [key |-> k, tx |-> tx])
                 /\ Remember(s, k, tx) = [s EXCEPT !.receipts = q]
                 /\ Len(q) <= MaxEntries /\ Used(q) <= MaxBytes
                 /\ \A m \in 0..(n - 1) : ~Room(SubSeq(s.receipts, m + 1, Len(s.receipts)), k)
<1> USE IdempotencyAssumption
<1>1. CASE Size[k] > MaxBytes \/ Remembers(s, k)
  BY <1>1 DEF Remember
<1>2. CASE ~(Size[k] > MaxBytes \/ Remembers(s, k))
  <2> DEFINE r == s.receipts
             Kept(m) == SubSeq(r, m + 1, Len(r))
             Ns == {m \in 0..Len(r) : Room(Kept(m), k)}
             n == Min(Ns)
             e == [key |-> k, tx |-> tx]
             t == Remember(s, k, tx)
  <2>1. /\ s \in StateType /\ r \in Seq(Receipt) /\ s.txns \in Seq(Key)
        /\ Len(r) \in Nat /\ Len(s.txns) \in Nat /\ DOMAIN r = 1..Len(r)
        /\ Len(s.txns) <= MaxTx /\ DOMAIN s.txns = 1..Len(s.txns)
    BY DEF Sound, StateType
  <2>2. Size[k] \in Nat /\ Size[k] <= MaxBytes
    BY <1>2 DEF Size
  <2>3. Len(r) \in Ns
    <3>1. Kept(Len(r)) = <<>>
      BY <2>1
    <3>2. Room(<<>>, k)
      BY <2>2, UsedOfNone DEF Room
    <3>3. Len(r) \in 0..Len(r)
      BY <2>1
    <3> HIDE DEF r, Kept
    <3> QED BY <3>1, <3>2, <3>3
  <2>4. n \in 0..Len(r) /\ Room(Kept(n), k) /\ \A m \in 0..(n - 1) : ~Room(Kept(m), k)
    <3>1. Ns \subseteq Nat /\ Ns # {}
      BY <2>1, <2>3
    <3>2. n \in Ns /\ \A m \in Ns : n <= m
      <4> HIDE DEF Ns
      <4> QED BY <3>1, LeastNumber
    <3>3. n \in 0..Len(r) /\ Room(Kept(n), k)
      BY <3>2
    <3>4. ASSUME NEW m \in 0..(n - 1) PROVE ~Room(Kept(m), k)
      <4>1. m \notin Ns /\ m \in 0..Len(r)
        <5> HIDE DEF Ns, n
        <5> QED BY <2>1, <3>2, <3>3
      <4> QED BY <4>1
    <3> QED BY <3>3, <3>4
  <2>5. /\ Kept(n) \in Seq(Receipt) /\ Len(Kept(n)) = Len(r) - n
        /\ \A i \in 1..Len(Kept(n)) : Kept(n)[i] = r[i + n] /\ i + n \in DOMAIN r
    <3>1. n \in Nat /\ n <= Len(r)
      BY <2>1, <2>4
    <3> HIDE DEF n
    <3>2. \A i \in (n + 1)..Len(r) : r[i] \in Receipt
      BY <2>1, <3>1
    <3>3. /\ Kept(n) \in Seq(Receipt)
          /\ Len(Kept(n)) = IF n + 1 <= Len(r) THEN Len(r) - (n + 1) + 1 ELSE 0
          /\ \A i \in 1..(Len(r) - (n + 1) + 1) : Kept(n)[i] = r[n + 1 + i - 1]
      BY <2>1, <3>1, <3>2, SubSeqProperties
    <3>4. Len(Kept(n)) = Len(r) - n
      BY <2>1, <3>1, <3>3
    <3> HIDE DEF Kept
    <3> QED BY <2>1, <3>1, <3>3, <3>4
  <2>6. e \in Receipt /\ e.key = k
    BY <2>1 DEF Receipt
  <2>7. t = [s EXCEPT !.receipts = Append(Kept(n), e)]
    BY <1>2 DEF Remember
  <2> DEFINE q == Append(Kept(n), e)
  <2> HIDE DEF n, Kept, e, t
  <2>8. /\ q \in Seq(Receipt) /\ Len(q) = Len(Kept(n)) + 1
        /\ \A i \in 1..Len(Kept(n)) : q[i] = Kept(n)[i]
        /\ q[Len(Kept(n)) + 1] = e
    BY <2>5, <2>6
  <2>9. Len(q) <= MaxEntries /\ Used(q) <= MaxBytes
    <3>1. Used(q) = Used(Kept(n)) + Size[k] /\ Used(Kept(n)) \in Nat
      BY <2>5, <2>6, UsedOfAppend, UsedIsNat
    <3> HIDE DEF q
    <3> QED BY <3>1, <2>4, <2>5, <2>8, <2>2 DEF Room
  <2>10. Pushed(r, n, q, e) /\ t = [s EXCEPT !.receipts = q]
    <3>1. t = [s EXCEPT !.receipts = q]
      BY <2>7
    <3> HIDE DEF q, r
    <3> QED BY <3>1, <2>4, <2>5, <2>8 DEF Pushed
  <2>11. \A m \in 0..(n - 1) : ~Room(SubSeq(r, m + 1, Len(r)), k)
    BY <2>4 DEF Kept
  <2> HIDE DEF q
  <2> QED BY <2>9, <2>10, <2>11 DEF e, t
<1> QED BY <1>1, <1>2

\* What remember does: the cache stays within its bounds and true, and only the
\* key it was called for can be new in it.
LEMMA RememberStep ==
    ASSUME NEW s, Sound(s), NEW k \in Key, NEW tx \in DOMAIN s.txns, s.txns[tx] = k
    PROVE  /\ Sound(Remember(s, k, tx))
           /\ Remember(s, k, tx).txns = s.txns
           /\ \A l \in Key : Remembers(Remember(s, k, tx), l) => Remembers(s, l) \/ l = k
<1> DEFINE r == s.receipts
           e == [key |-> k, tx |-> tx]
           t == Remember(s, k, tx)
<1>1. CASE t = s
  BY <1>1
<1>2. CASE t # s
  <2>1. PICK q, n : /\ Pushed(r, n, q, e) /\ t = [s EXCEPT !.receipts = q]
                    /\ Len(q) <= MaxEntries /\ Used(q) <= MaxBytes
    BY <1>2, RememberIs
  <2>2. /\ s \in StateType /\ Len(r) \in Nat /\ DOMAIN r = 1..Len(r) /\ n \in 0..Len(r)
        /\ q \in Seq(Receipt) /\ DOMAIN q = 1..(Len(r) - n + 1) /\ e.key = k /\ e.tx = tx
    BY <2>1 DEF Sound, StateType, Pushed
  <2> HIDE DEF t, e
  <2>3. t \in StateType /\ t.txns = s.txns /\ t.receipts = q
    BY <2>1, <2>2 DEF StateType
  <2>4. ASSUME NEW i \in DOMAIN q
        PROVE  /\ q[i].tx \in DOMAIN s.txns /\ s.txns[q[i].tx] = q[i].key
               /\ (\E j \in DOMAIN r : r[j].key = q[i].key) \/ q[i].key = k
    <3>1. CASE i \in 1..(Len(r) - n)
      <4>1. q[i] = r[i + n] /\ i + n \in DOMAIN r
        BY <2>1, <2>2, <3>1 DEF Pushed
      <4>2. \A j \in DOMAIN r : r[j].tx \in DOMAIN s.txns /\ s.txns[r[j].tx] = r[j].key
        BY DEF Sound
      <4> HIDE DEF r
      <4> QED BY <4>1, <4>2
    <3>2. CASE i = Len(r) - n + 1
      BY <2>1, <2>2, <3>2 DEF Pushed
    <3> HIDE DEF r
    <3> QED BY <2>2, <3>1, <3>2
  <2>5. Sound(t)
    BY <2>1, <2>3, <2>4 DEF Sound
  <2>6. \A l \in Key : Remembers(t, l) => Remembers(s, l) \/ l = k
    BY <2>3, <2>4 DEF Remembers
  <2> QED BY <2>3, <2>5, <2>6 DEF t
<1> QED BY <1>1, <1>2

\* One more transaction leaves the receipts and their transactions as they were.
LEMMA TransactionStep ==
    ASSUME NEW s, Sound(s), NEW k \in Key, Len(s.txns) < MaxTx,
           NEW t, t = [s EXCEPT !.txns = Append(@, k)]
    PROVE  /\ Sound(t)
           /\ Len(t.txns) = Len(s.txns) + 1
           /\ \A i \in DOMAIN s.txns : i \in DOMAIN t.txns /\ t.txns[i] = s.txns[i]
           /\ Len(t.txns) \in DOMAIN t.txns /\ t.txns[Len(t.txns)] = k
           /\ \A l \in Key : Remembers(t, l) <=> Remembers(s, l)
<1> USE IdempotencyAssumption
<1>1. /\ s \in StateType /\ s.txns \in Seq(Key) /\ Len(s.txns) \in Nat
      /\ DOMAIN s.txns = 1..Len(s.txns)
  BY DEF Sound, StateType
<1>2. t \in StateType /\ t.txns = Append(s.txns, k) /\ t.receipts = s.receipts
  <2>1. Append(s.txns, k) \in Seq(Key)
    BY <1>1
  <2> QED BY <1>1, <2>1 DEF StateType
<1>3. /\ Len(t.txns) = Len(s.txns) + 1 /\ DOMAIN t.txns = 1..(Len(s.txns) + 1)
      /\ \A i \in DOMAIN s.txns : t.txns[i] = s.txns[i]
      /\ t.txns[Len(s.txns) + 1] = k
  BY <1>1, <1>2
<1>4. Sound(t)
  BY <1>1, <1>2, <1>3 DEF Sound
<1> QED BY <1>1, <1>2, <1>3, <1>4 DEF Remembers

\* Every key has its stripe.
LEMMA GateIsStripe == \A k \in Key : Gate[k] \in Stripe
BY IdempotencyAssumption DEF Gate

\* What the appends make of the data.
LEMMA TransactionCommitted ==
    ASSUME DataInv, NEW k \in Key, Len(live.txns) < MaxTx,
           Log!Commit(live, [type |-> "Transaction", key |-> k])
    PROVE  DataInv' /\ live' = [live EXCEPT !.txns = Append(@, k)]
<1>1. /\ live' = [live EXCEPT !.txns = Append(@, k)]
      /\ disk'.state = [disk.state EXCEPT !.txns = Append(@, k)]
      /\ disk' = [ok |-> TRUE, state |-> disk'.state] /\ up'
  BY DEF DataInv, Log!Commit, Log!Replayed, ApplyEvent
<1>2. Sound(live') /\ Sound(disk'.state)
  <2> DEFINE d == disk.state
             e == disk'.state
  <2>1. Sound(live) /\ Sound(d) /\ Len(d.txns) < MaxTx /\ e = [d EXCEPT !.txns = Append(@, k)]
    BY <1>1 DEF DataInv
  <2>2. Sound(live')
    BY <1>1, <2>1, TransactionStep
  <2> HIDE DEF d, e
  <2>3. Sound(e)
    BY <2>1, TransactionStep
  <2> QED BY <2>2, <2>3 DEF e
<1>3. disk'.state.txns = live'.txns
  BY <1>1 DEF DataInv, Sound, StateType
<1> QED BY <1>1, <1>2, <1>3 DEF DataInv

\* The record of a transaction whose append failed may be in the journal at the next boot.
LEMMA TransactionFound ==
    ASSUME DataInv, NEW k \in Key, Len(live.txns) < MaxTx,
           Log!FoundAtBoot([type |-> "Transaction", key |-> k])
    PROVE  DataInv'
<1>1. /\ disk'.state = [disk.state EXCEPT !.txns = Append(@, k)]
      /\ disk' = [ok |-> TRUE, state |-> disk'.state] /\ live' = disk'.state /\ up'
  BY DEF DataInv, Log!FoundAtBoot, Log!Boot, Log!Replayed, ApplyEvent
<1>2. Sound(disk'.state)
  <2> DEFINE d == disk.state
             e == disk'.state
  <2>1. Sound(d) /\ Len(d.txns) < MaxTx /\ e = [d EXCEPT !.txns = Append(@, k)]
    BY <1>1 DEF DataInv
  <2> HIDE DEF d, e
  <2>2. Sound(e)
    BY <2>1, TransactionStep
  <2> QED BY <2>2 DEF e
<1> QED BY <1>1, <1>2 DEF DataInv

\* A receipt is remembered in RAM whether or not its append succeeded.
LEMMA ReceiptCommitted ==
    ASSUME DataInv, NEW k \in Key, NEW tx \in DOMAIN live.txns, live.txns[tx] = k,
           \/ Log!Commit(live, [type |-> "Idempotency", key |-> k, tx |-> tx])
           \/ Log!CommitFails(Remember(live, k, tx))
    PROVE  DataInv' /\ live' = Remember(live, k, tx)
<1>1. /\ Sound(Remember(live, k, tx)) /\ Remember(live, k, tx).txns = live.txns
      /\ Sound(Remember(disk.state, k, tx)) /\ Remember(disk.state, k, tx).txns = live.txns
  BY RememberStep DEF DataInv
<1>2. CASE Log!Commit(live, [type |-> "Idempotency", key |-> k, tx |-> tx])
  <2>1. /\ live' = Remember(live, k, tx) /\ disk'.state = Remember(disk.state, k, tx)
        /\ disk' = [ok |-> TRUE, state |-> disk'.state] /\ up'
    BY <1>2 DEF DataInv, Log!Commit, Log!Replayed, ApplyEvent
  <2> QED BY <1>1, <2>1 DEF DataInv
<1>3. CASE Log!CommitFails(Remember(live, k, tx))
  BY <1>1, <1>3 DEF DataInv, Log!CommitFails
<1> QED BY <1>2, <1>3

\* The record of a receipt whose append failed may be in the journal at the next boot.
LEMMA ReceiptFound ==
    ASSUME DataInv, NEW k \in Key, NEW tx \in DOMAIN live.txns, live.txns[tx] = k,
           Log!FoundAtBoot([type |-> "Idempotency", key |-> k, tx |-> tx])
    PROVE  DataInv'
<1>1. /\ Sound(Remember(disk.state, k, tx)) /\ Remember(disk.state, k, tx).txns = live.txns
  BY RememberStep DEF DataInv
<1>2. /\ disk'.state = Remember(disk.state, k, tx) /\ live' = disk'.state
      /\ disk' = [ok |-> TRUE, state |-> disk'.state] /\ up'
  BY DEF DataInv, Log!FoundAtBoot, Log!Boot, Log!Replayed, ApplyEvent
<1> QED BY <1>1, <1>2 DEF DataInv

\* What the steps of a call make of the locks: it stays on its side of the
\* stripe, takes it, or leaves it.
LEMMA Stays ==
    ASSUME LockInv, NEW c \in Call, NEW e \in CallType,
           call' = [call EXCEPT ![c] = e], UNCHANGED holder,
           \/ Inside(c) /\ e.at \in {"find", "run", "remember"} /\ e.key = call[c].key
           \/ ~Inside(c) /\ e.at \notin {"find", "run", "remember"}
    PROVE  LockInv'
<1>1. call' \in [Call -> CallType \cup {NotRunning}]
  BY DEF LockInv
<1>2. \A d \in Call : (Inside(d)' <=> Inside(d)) /\ (Inside(d) => call'[d].key = call[d].key)
  BY DEF LockInv, Inside
<1>3. \A g \in Stripe : {d \in Call : Inside(d)' /\ Gate[call'[d].key] = g}
                        = {d \in Call : Inside(d) /\ Gate[call[d].key] = g}
  BY <1>2
<1> QED BY <1>1, <1>2, <1>3 DEF LockInv

\* A call enters its stripe only when nobody holds it.
LEMMA Enters ==
    ASSUME LockInv, NEW c \in Call, NEW e \in CallType, ~Inside(c),
           call' = [call EXCEPT ![c] = e], e.at = "find",
           holder[Gate[e.key]] = {},
           holder' = [holder EXCEPT ![Gate[e.key]] = {c}]
    PROVE  LockInv'
<1>1. call' \in [Call -> CallType \cup {NotRunning}]
  BY DEF LockInv
<1>2. Inside(c)' /\ call'[c].key = e.key /\ Gate[e.key] \in Stripe
  BY GateIsStripe DEF LockInv, Inside, CallType
<1>3. \A d \in Call \ {c} : (Inside(d)' <=> Inside(d)) /\ call'[d] = call[d]
  BY DEF LockInv, Inside
<1>4. \A d \in Call : Inside(d) => Gate[call[d].key] # Gate[e.key]
  BY <1>2 DEF LockInv
<1>5. ASSUME NEW g \in Stripe
      PROVE  holder'[g] = {d \in Call : Inside(d)' /\ Gate[call'[d].key] = g}
  BY <1>2, <1>3, <1>4 DEF LockInv
<1>6. holder' = [g \in Stripe |-> {d \in Call : Inside(d)' /\ Gate[call'[d].key] = g}]
  BY <1>5 DEF LockInv
<1>7. \A b, d \in Call :
          Inside(b)' /\ Inside(d)' /\ Gate[call'[b].key] = Gate[call'[d].key] => b = d
  BY <1>2, <1>3, <1>4 DEF LockInv
<1> QED BY <1>1, <1>6, <1>7 DEF LockInv

\* A call that returns gives its stripe back.
LEMMA Leaves ==
    ASSUME LockInv, NEW c \in Call, Inside(c), NEW tx \in 0..MaxTx, Return(c, tx)
    PROVE  LockInv'
<1> DEFINE e == [at |-> "out", key |-> call[c].key, tx |-> tx]
<1>1. e \in CallType /\ call[c].key \in Key
  BY DEF LockInv, Inside, CallType, NotRunning
<1>2. call' = [call EXCEPT ![c] = e] /\ call' \in [Call -> CallType \cup {NotRunning}]
  BY <1>1 DEF Return, LockInv
<1>3. ~Inside(c)'
  BY <1>2 DEF Inside, LockInv
<1>4. \A d \in Call \ {c} : (Inside(d)' <=> Inside(d)) /\ call'[d] = call[d]
  BY <1>2 DEF LockInv, Inside
<1>5. ASSUME NEW g \in Stripe
      PROVE  holder'[g] = {d \in Call : Inside(d)' /\ Gate[call'[d].key] = g}
  BY <1>1, <1>3, <1>4, GateIsStripe DEF LockInv, Return
<1>6. holder' = [g \in Stripe |-> {d \in Call : Inside(d)' /\ Gate[call'[d].key] = g}]
  BY <1>5 DEF LockInv, Return
<1>7. \A b, d \in Call :
          Inside(b)' /\ Inside(d)' /\ Gate[call'[b].key] = Gate[call'[d].key] => b = d
  BY <1>3, <1>4 DEF LockInv
<1> QED BY <1>2, <1>6, <1>7 DEF LockInv

\* Every step of a call keeps the invariant.
LEMMA Steps ==
    ASSUME NEW c \in Call, IInv, Step(c) \/ (\E k \in Key : Start(c, k))
    PROVE  IInv'
<1> USE DEF IInv
<1>1. /\ call \in [Call -> CallType \cup {NotRunning}]
      /\ ~At(c, "out") => call[c] \in CallType
  BY DEF LockInv, At, CallType, NotRunning
<1>2. ASSUME NEW k \in Key, Start(c, k) PROVE IInv'
  <2> DEFINE e == [at |-> "gate", key |-> k, tx |-> 0]
  <2>1. e \in CallType /\ call' = [call EXCEPT ![c] = e] /\ ~Inside(c)
    BY <1>2, IdempotencyAssumption DEF Start, At, Inside, CallType
  <2>2. LockInv'
    BY <1>2, <2>1, Stays DEF Start
  <2>3. CallInv'
    BY <1>1, <1>2, <2>1 DEF Start, CallInv, At, Answered
  <2> QED BY <1>2, <2>2, <2>3 DEF Start, DataInv
<1>3. ASSUME Lock(c) PROVE IInv'
  <2> DEFINE e == [call[c] EXCEPT !.at = "find"]
  <2>1. call[c] \in CallType /\ ~Inside(c)
    BY <1>1, <1>3 DEF Lock, At, Inside
  <2>2. e \in CallType /\ e.at = "find" /\ e.key = call[c].key /\ call' = [call EXCEPT ![c] = e]
    BY <1>1, <1>3, <2>1 DEF Lock, Goto, CallType
  <2>3. LockInv'
    BY <1>3, <2>1, <2>2, Enters DEF Lock
  <2>4. CallInv'
    BY <1>1, <1>3, <2>2 DEF Lock, CallInv, At, Answered
  <2> QED BY <1>3, <2>3, <2>4 DEF Lock, DataInv
<1>4. ASSUME Repeat(c) PROVE IInv'
  <2> DEFINE tx == AnswerTo(live, call[c].key)
             e == [at |-> "out", key |-> call[c].key, tx |-> tx]
  <2>1. call[c] \in CallType /\ Inside(c)
    BY <1>1, <1>4 DEF Repeat, At, Inside
  <2>2. tx \in DOMAIN live.txns /\ live.txns[tx] = call[c].key
    BY <1>4 DEF Repeat, Remembers, AnswerTo, DataInv, Sound
  <2>3. tx \in 0..MaxTx
    BY <2>2, IdempotencyAssumption DEF DataInv, Sound, StateType
  <2>4. LockInv'
    BY <1>4, <2>1, <2>3, Leaves DEF Repeat
  <2> HIDE DEF tx
  <2>5. CallInv'
    BY <1>1, <1>4, <2>2 DEF Repeat, Return, CallInv, At, Answered, tx
  <2> QED BY <1>4, <2>4, <2>5 DEF Repeat, DataInv
<1>5. ASSUME Miss(c) PROVE IInv'
  <2> DEFINE e == [call[c] EXCEPT !.at = "run"]
  <2>1. call[c] \in CallType /\ Inside(c)
    BY <1>1, <1>5 DEF Miss, At, Inside
  <2>2. e \in CallType /\ e.at = "run" /\ e.key = call[c].key /\ call' = [call EXCEPT ![c] = e]
    BY <1>1, <1>5, <2>1 DEF Miss, Goto, CallType
  <2>3. LockInv'
    BY <1>5, <2>1, <2>2, Stays DEF Miss
  <2>4. CallInv'
    BY <1>1, <1>5, <2>2 DEF Miss, CallInv, At, Answered
  <2> QED BY <1>5, <2>3, <2>4 DEF Miss, DataInv
<1>6. ASSUME Run(c) PROVE IInv'
  <2> DEFINE k == call[c].key
             tx == Len(live.txns) + 1
             e == [call[c] EXCEPT !.at = "remember", !.tx = tx]
  <2>1. call[c] \in CallType /\ Inside(c) /\ k \in Key
    BY <1>1, <1>6 DEF Run, At, Inside, CallType
  <2>2. DataInv' /\ live' = [live EXCEPT !.txns = Append(@, k)]
    BY <1>6, <2>1, TransactionCommitted DEF Run
  <2>3. /\ Len(live'.txns) = tx /\ tx \in DOMAIN live'.txns /\ live'.txns[tx] = k
        /\ \A i \in DOMAIN live.txns : i \in DOMAIN live'.txns /\ live'.txns[i] = live.txns[i]
        /\ \A l \in Key : Remembers(live', l) <=> Remembers(live, l)
    BY <1>6, <2>1, <2>2, TransactionStep DEF Run, DataInv
  <2>4. tx \in 0..MaxTx
    BY <1>6, IdempotencyAssumption DEF Run, DataInv, Sound, StateType
  <2>5. e \in CallType /\ e.at = "remember" /\ e.key = k /\ e.tx = tx /\ call' = [call EXCEPT ![c] = e]
    BY <1>1, <1>6, <2>1, <2>4 DEF Run, CallType
  <2> HIDE DEF e, tx
  <2>6. LockInv'
    BY <1>6, <2>1, <2>5, Stays DEF Run
  <2>7. CallInv'
    <3> SUFFICES ASSUME NEW d \in Call
                 PROVE  /\ At(d, "run")' => ~Remembers(live', call'[d].key)
                        /\ At(d, "remember")' => Answered(d, live)'
                        /\ At(d, "out")' /\ call'[d] # NotRunning /\ call'[d].tx # 0 => Answered(d, live)'
      BY DEF CallInv
    <3>1. CASE d = c
      BY <1>1, <3>1, <2>3, <2>5 DEF At, Answered
    <3>2. CASE d # c
      <4>1. call'[d] = call[d] /\ (At(d, "run") => call[d].key \in Key)
        BY <1>1, <3>2, <2>5 DEF CallType, At, NotRunning
      <4> QED BY <4>1, <2>3 DEF CallInv, At, Answered
    <3> QED BY <3>1, <3>2
  <2> QED BY <2>2, <2>6, <2>7
<1>7. ASSUME Fail(c) PROVE IInv'
  <2>1. call[c] \in CallType /\ Inside(c)
    BY <1>1, <1>7 DEF Fail, At, Inside
  <2>2. live' = live /\ disk' = disk /\ up' = up
    BY <1>7 DEF Fail, Log!CommitFails
  <2>3. LockInv'
    BY <1>7, <2>1, Leaves, IdempotencyAssumption DEF Fail
  <2>4. CallInv'
    BY <1>1, <1>7, <2>2 DEF Fail, Return, CallInv, At, Answered
  <2> QED BY <2>2, <2>3, <2>4 DEF DataInv
<1>8. ASSUME Publish(c) PROVE IInv'
  <2> DEFINE k == call[c].key
             tx == call[c].tx
             e == [at |-> "out", key |-> k, tx |-> tx]
  <2>1. call[c] \in CallType /\ Inside(c) /\ k \in Key /\ tx \in 0..MaxTx
    BY <1>1, <1>8 DEF Publish, At, Inside, CallType
  <2>2. tx \in DOMAIN live.txns /\ live.txns[tx] = k
    BY <1>8 DEF Publish, CallInv, Answered
  <2>3. DataInv' /\ live' = Remember(live, k, tx)
    BY <1>8, <2>1, <2>2, ReceiptCommitted DEF Publish
  <2>4. /\ live'.txns = live.txns
        /\ \A l \in Key : Remembers(live', l) => Remembers(live, l) \/ l = k
    BY <2>1, <2>2, <2>3, RememberStep DEF DataInv
  <2>5. LockInv'
    BY <1>8, <2>1, Leaves DEF Publish
  <2>6. CallInv'
    <3> SUFFICES ASSUME NEW d \in Call
                 PROVE  /\ At(d, "run")' => ~Remembers(live', call'[d].key)
                        /\ At(d, "remember")' => Answered(d, live)'
                        /\ At(d, "out")' /\ call'[d] # NotRunning /\ call'[d].tx # 0 => Answered(d, live)'
      BY DEF CallInv
    <3>1. CASE d = c
      BY <1>1, <1>8, <3>1, <2>2, <2>4 DEF Publish, Return, At, Answered
    <3>2. CASE d # c
      <4>1. call'[d] = call[d]
        BY <1>1, <1>8, <3>2 DEF Publish, Return
      <4>2. ASSUME At(d, "run") PROVE call[d].key \in Key /\ call[d].key # k
        <5>1. Inside(d) /\ call[d].key \in Key
          BY <1>1, <4>2 DEF At, Inside, CallType, NotRunning
        <5> QED BY <5>1, <2>1, <3>2 DEF LockInv
      <4> QED BY <4>1, <4>2, <2>4 DEF CallInv, At, Answered
    <3> QED BY <3>1, <3>2
  <2> QED BY <2>3, <2>5, <2>6
<1> QED BY <1>2, <1>3, <1>4, <1>5, <1>6, <1>7, <1>8 DEF Step

\* A process that ended leaves no call running and no stripe held.
LEMMA Ends ==
    ASSUME DataInv', Stopped
    PROVE  IInv'
BY DEF IInv, Stopped, LockInv, CallInv, Inside, At, NotRunning

\* Every step keeps the invariant.
LEMMA Invariance == IInv /\ [Next]_vars => IInv'
<1> SUFFICES ASSUME IInv, [Next]_vars PROVE IInv'
  OBVIOUS
<1>1. ASSUME NEW c \in Call, RunFound(c) PROVE IInv'
  <2>1. call[c].key \in Key
    BY <1>1 DEF RunFound, At, IInv, LockInv, CallType, NotRunning
  <2> QED BY <1>1, <2>1, TransactionFound, Ends DEF RunFound, IInv
<1>2. ASSUME NEW c \in Call, PublishFound(c) PROVE IInv'
  <2>1. /\ call[c].key \in Key /\ call[c].tx \in DOMAIN live.txns
        /\ live.txns[call[c].tx] = call[c].key
    BY <1>2 DEF PublishFound, At, IInv, LockInv, CallInv, Answered, CallType, NotRunning
  <2> QED BY <1>2, <2>1, ReceiptFound, Ends DEF PublishFound, IInv
<1>3. ASSUME Restart PROVE IInv'
  <2>1. DataInv'
    BY <1>3 DEF Restart, Log!Reboot, Log!Boot, IInv, DataInv
  <2> QED BY <1>3, <2>1, Ends DEF Restart
<1>4. ASSUME UNCHANGED vars PROVE IInv'
  BY <1>4 DEF vars, IInv, DataInv, LockInv, CallInv, Inside, At, Answered
<1> QED BY <1>1, <1>2, <1>3, <1>4, Steps DEF Next

\* A freshly opened service satisfies the invariant.
LEMMA Begins == Init => IInv
<1> SUFFICES ASSUME Init PROVE IInv
  OBVIOUS
<1>1. Sound(Empty)
  BY UsedOfNone, IdempotencyAssumption DEF Sound, Empty, StateType
<1> QED BY <1>1 DEF Init, IInv, DataInv, LockInv, CallInv, Inside, At, NotRunning, Empty

\* Every state the store reaches is within the bounds of the code: the receipts
\* within MaxEntries and MaxBytes, the replayed ones too, and the stripes locked
\* by calls only.
THEOREM TypeCorrect == Spec => []TypeOK
<1>1. IInv => TypeOK
  <2> SUFFICES ASSUME IInv PROVE TypeOK
    OBVIOUS
  <2>1. \A s : Sound(s) => StateOK(s)
    <3> SUFFICES ASSUME NEW s, Sound(s) PROVE StateOK(s)
      OBVIOUS
    <3>1. /\ Len(s.txns) \in 0..MaxTx /\ s.txns \in [1..Len(s.txns) -> Key]
          /\ \A i \in DOMAIN s.txns : i \in 1..MaxTx
      BY IdempotencyAssumption DEF Sound, StateType
    <3>2. s.receipts \in [1..Len(s.receipts) -> Receipt] /\ Len(s.receipts) \in 0..MaxEntries
      BY IdempotencyAssumption DEF Sound, StateType
    <3>3. s.txns \in BoundedSeq(Key, MaxTx)
      BY <3>1 DEF BoundedSeq, SeqOf
    <3>4. s.receipts \in BoundedSeq(Receipt, MaxEntries)
      BY <3>2 DEF BoundedSeq, SeqOf
    <3> QED BY <3>3, <3>4 DEF Sound, StateOK
  <2>2. StateOK(live) /\ disk.ok /\ StateOK(disk.state) /\ up
    BY <2>1 DEF IInv, DataInv
  <2>3. \A c \in Call : call[c].at \in {"out", "gate", "find", "run", "remember"}
    BY DEF IInv, LockInv, CallType, NotRunning
  <2>4. holder \in [Stripe -> SUBSET Call]
    BY DEF IInv, LockInv
  <2> QED BY <2>2, <2>3, <2>4 DEF TypeOK
<1> QED BY <1>1, Begins, Invariance, PTL DEF Spec

\* For any number of calls, keys and stripes: no request runs while its receipt
\* is kept, and no two calls under one key are past the lookup together.
THEOREM NoRun == Spec => []NoRunWhileRemembered
<1>1. IInv => NoRunWhileRemembered
  <2> SUFFICES ASSUME IInv PROVE NoRunWhileRemembered
    OBVIOUS
  <2>1. \A c \in Call : At(c, "run") => ~Remembers(live, call[c].key)
    BY DEF IInv, CallInv
  <2>2. ASSUME NEW c \in Call, NEW d \in Call, c # d,
               {call[c].at, call[d].at} \subseteq {"run", "remember"}
        PROVE  call[c].key # call[d].key
    <3>1. Inside(c) /\ Inside(d)
      BY <2>2 DEF Inside
    <3> QED BY <3>1, <2>2 DEF IInv, LockInv
  <2> QED BY <2>1, <2>2 DEF NoRunWhileRemembered
<1> QED BY <1>1, Begins, Invariance, PTL DEF Spec

\* For any number of calls, keys and stripes: an answer, and a receipt in RAM or
\* in the journal, names a transaction made under its own key.
THEOREM AnswersTrue == Spec => []AnswersAreTrue
<1>1. IInv => AnswersAreTrue
  BY DEF IInv, DataInv, CallInv, Answered, Sound, AnswersAreTrue
<1> QED BY <1>1, Begins, Invariance, PTL DEF Spec

-----------------------------------------------------------------------------
(* AtMostOnce.  A transaction that is not in a receipt is about to get one, or its  *)
(* receipt was pushed out.  Receipts are published out of the order of their        *)
(* transactions only as far as calls are in progress together.                      *)

\* The transactions whose receipts are about to be published.
Flying == {call[c].tx : c \in {d \in Call : At(d, "remember")}}

\* The transactions before that of receipt p, of receipts that are newer than it.
Early(F, r, p) == {t \in F \cup {r[q].tx : q \in (p + 1)..Len(r)} : t < r[p].tx}

Unique(r) == \A p, q \in DOMAIN r : r[p].key = r[q].key => p = q

OnceInv ==
    /\ Unique(live.receipts)
    /\ \A c \in Call : At(c, "remember") => ~Remembers(live, call[c].key)
    /\ \A p \in DOMAIN live.receipts : Cardinality(Early(Flying, live.receipts, p)) < Cardinality(Call)
    /\ \A t \in DOMAIN live.txns :
          \/ t \in Flying
          \/ \E p \in DOMAIN live.receipts : live.receipts[p].tx = t
          \/ Displaced(live.txns, t, Len(live.txns))
    /\ \A i, j \in DOMAIN live.txns :
          i < j /\ live.txns[i] = live.txns[j] => Displaced(live.txns, i, j - 1)

\* A larger set fills the cache too.
LEMMA FillMore ==
    ASSUME NEW txns, NEW T, IsFiniteSet(T), NEW S \in SUBSET T, NEW k \in Key, Fill(txns, S, k)
    PROVE  Fill(txns, T, k)
<1> DEFINE Big(X) == {t \in X : txns[t] \in Large}
<1>1. IsFiniteSet(S) /\ Cardinality(S) \in Nat /\ Cardinality(T) \in Nat /\ Cardinality(S) <= Cardinality(T)
  BY FS_Subset, FS_CardinalityType
<1>2. IsFiniteSet(Big(T)) /\ Big(S) \subseteq Big(T)
  BY FS_Subset
<1>3. Cardinality(Big(S)) \in Nat /\ Cardinality(Big(T)) \in Nat /\ Cardinality(Big(S)) <= Cardinality(Big(T))
  <2> HIDE DEF Big
  <2> QED BY <1>2, FS_Subset, FS_CardinalityType
<1>4. Size[k] \in Nat /\ MaxEntries \in Nat /\ MaxBytes \in Nat
  BY IdempotencyAssumption DEF Size
<1>5. \/ Cardinality(S) >= MaxEntries
      \/ Cardinality(S) + Cardinality(Big(S)) + Size[k] > MaxBytes
  BY DEF Fill
<1>6. \/ Cardinality(T) >= MaxEntries
      \/ Cardinality(T) + Cardinality(Big(T)) + Size[k] > MaxBytes
  <2> HIDE DEF Big
  <2> QED BY <1>1, <1>3, <1>4, <1>5
<1> QED BY <1>6 DEF Fill

\* Transactions made since change nothing about what filled the cache.
LEMMA DisplacedStays ==
    ASSUME NEW txns, NEW n \in Nat, NEW i \in 1..n, txns[i] \in Key, Displaced(txns, i, n),
           NEW more, NEW m \in Nat, n <= m, \A t \in 1..n : more[t] = txns[t]
    PROVE  Displaced(more, i, m)
<1>1. PICK E \in SUBSET (1..(i - 1)) : /\ Cardinality(E) < Cardinality(Call)
                                       /\ Fill(txns, Others(txns, E, i, n), txns[i])
  BY DEF Displaced
<1> DEFINE S == Others(txns, E, i, n)
           T == Others(more, E, i, m)
<1>2. S \subseteq 1..n /\ S \subseteq T /\ T \subseteq 1..m
  BY DEF Others
<1>3. {t \in S : txns[t] \in Large} = {t \in S : more[t] \in Large} /\ more[i] = txns[i]
  BY <1>2
<1> HIDE DEF S, T
<1>4. Fill(more, S, more[i])
  BY <1>1, <1>3 DEF Fill, S
<1>5. IsFiniteSet(T)
  <2>1. 1 \in Int /\ m \in Int
    OBVIOUS
  <2>2. IsFiniteSet(1..m)
    BY <2>1, FS_Interval
  <2> QED BY <1>2, <2>2, FS_Subset
<1>6. Fill(more, T, more[i])
  BY <1>2, <1>3, <1>4, <1>5, FillMore
<1> QED BY <1>1, <1>6 DEF Displaced, T

\* Receipts under different keys are as many as their transactions, and so are the large ones.
LEMMA CountedOnce ==
    ASSUME NEW v \in Seq(Receipt), Unique(v), NEW txns, \A p \in DOMAIN v : txns[v[p].tx] = v[p].key,
           NEW W, W = {v[p].tx : p \in DOMAIN v}
    PROVE  /\ IsFiniteSet(W) /\ Cardinality(W) = Len(v)
           /\ Cardinality({t \in W : txns[t] \in Large}) = Cardinality({p \in DOMAIN v : v[p].key \in Large})
<1> DEFINE B == {p \in DOMAIN v : v[p].key \in Large}
           C == {t \in W : txns[t] \in Large}
           f == [p \in DOMAIN v |-> v[p].tx]
           g == [p \in B |-> v[p].tx]
<1>1. DOMAIN v = 1..Len(v) /\ Len(v) \in Nat
  OBVIOUS
<1>2. IsFiniteSet(DOMAIN v) /\ Cardinality(DOMAIN v) = Len(v)
  BY <1>1, FS_Interval
<1>3. \A p, q \in DOMAIN v : v[p].tx = v[q].tx => p = q
  BY DEF Unique
<1>4. f \in Bijection(DOMAIN v, W)
  <2>1. f \in [DOMAIN v -> W] /\ \A t \in W : \E p \in DOMAIN v : f[p] = t
    OBVIOUS
  <2>2. \A p, q \in DOMAIN v : f[p] = f[q] => p = q
    BY <1>3
  <2> HIDE DEF f
  <2> QED BY <2>1, <2>2, Fun_IsBij
<1>5. g \in Bijection(B, C)
  <2>1. g \in [B -> C]
    OBVIOUS
  <2>2. \A t \in C : \E p \in B : g[p] = t
    OBVIOUS
  <2>3. \A p, q \in B : g[p] = g[q] => p = q
    BY <1>3
  <2> HIDE DEF g, B, C
  <2> QED BY <2>1, <2>2, <2>3, Fun_IsBij
<1>6. IsFiniteSet(B)
  BY <1>2, FS_Subset
<1> HIDE DEF f, g, B, C
<1>7. ExistsBijection(DOMAIN v, W) /\ ExistsBijection(B, C)
  BY <1>4, <1>5 DEF ExistsBijection
<1>8. IsFiniteSet(W) /\ Cardinality(W) = Len(v)
  BY <1>2, <1>7, FS_Bijection
<1>9. Cardinality(C) = Cardinality(B)
  BY <1>6, <1>7, FS_Bijection
<1> QED BY <1>8, <1>9 DEF B, C

\* If there is no room beside receipts W for one more of transaction t, then that one and
\* the others fill a cache that keeps the receipt of any i of W.
LEMMA Swapped ==
    ASSUME NEW txns, NEW W, IsFiniteSet(W), NEW i \in W, NEW t, t \notin W, txns[i] \in Key, txns[t] \in Key,
           \/ Cardinality(W) >= MaxEntries
           \/ Cardinality(W) + Cardinality({x \in W : txns[x] \in Large}) + Size[txns[t]] > MaxBytes
    PROVE  Fill(txns, (W \ {i}) \cup {t}, txns[i])
<1> DEFINE V == W \ {i}
           S == V \cup {t}
           Big(X) == {x \in X : txns[x] \in Large}
<1>1. IsFiniteSet(V) /\ Cardinality(V) = Cardinality(W) - 1 /\ Cardinality(W) \in Nat
  BY FS_RemoveElement, FS_CardinalityType
<1>2. Cardinality(S) = Cardinality(W)
  <2>1. t \notin V
    OBVIOUS
  <2> HIDE DEF V
  <2>2. Cardinality(V \cup {t}) = Cardinality(V) + 1
    BY <1>1, <2>1, FS_AddElement
  <2> QED BY <1>1, <2>2
<1>3. IsFiniteSet(Big(W)) /\ Cardinality(Big(W)) \in Nat
  <2>1. IsFiniteSet(Big(W))
    BY FS_Subset
  <2> HIDE DEF Big
  <2> QED BY <2>1, FS_CardinalityType
<1> DEFINE one(x) == IF txns[x] \in Large THEN 1 ELSE 0
<1>4. /\ IsFiniteSet(Big(V)) /\ Cardinality(Big(V)) \in Nat
      /\ Cardinality(Big(V)) = Cardinality(Big(W)) - one(i)
  <2>1. Big(V) = Big(W) \ {i} /\ (i \in Big(W) <=> txns[i] \in Large)
    OBVIOUS
  <2>2. IsFiniteSet(Big(W) \ {i}) /\ Cardinality(Big(W) \ {i}) =
           IF i \in Big(W) THEN Cardinality(Big(W)) - 1 ELSE Cardinality(Big(W))
    <3> HIDE DEF Big
    <3> QED BY <1>3, FS_RemoveElement
  <2>3. Cardinality(Big(V)) \in Nat
    <3> HIDE DEF Big, V
    <3> QED BY <2>1, <2>2, FS_CardinalityType
  <2> HIDE DEF Big, V
  <2> QED BY <1>3, <2>1, <2>2, <2>3
<1>5. Cardinality(Big(S)) = Cardinality(Big(V)) + one(t)
  <2>1. CASE txns[t] \in Large
    <3>1. Big(S) = Big(V) \cup {t} /\ t \notin Big(V)
      BY <2>1
    <3>2. Cardinality(Big(S)) = Cardinality(Big(V)) + 1
      <4> HIDE DEF Big
      <4> QED BY <1>4, <3>1, FS_AddElement
    <3> QED BY <2>1, <3>2
  <2>2. CASE txns[t] \notin Large
    <3>1. Big(S) = Big(V)
      BY <2>2
    <3>2. Cardinality(Big(S)) = Cardinality(Big(V)) + 0
      <4> HIDE DEF Big
      <4> QED BY <1>4, <3>1
    <3> QED BY <2>2, <3>2
  <2> QED BY <2>1, <2>2
<1>6. Size[txns[i]] = 1 + one(i) /\ Size[txns[t]] = 1 + one(t) /\ one(i) \in 0..1 /\ one(t) \in 0..1
  BY DEF Size
<1>7. \/ Cardinality(S) >= MaxEntries
      \/ Cardinality(S) + Cardinality(Big(S)) + Size[txns[i]] > MaxBytes
  <2>1. \/ Cardinality(W) >= MaxEntries
        \/ Cardinality(W) + Cardinality(Big(W)) + Size[txns[t]] > MaxBytes
    OBVIOUS
  <2>2. MaxEntries \in Nat /\ MaxBytes \in Nat
    BY IdempotencyAssumption
  <2> HIDE DEF S, Big, V, one
  <2> QED BY <1>1, <1>2, <1>3, <1>4, <1>5, <1>6, <2>1, <2>2
<1> QED BY <1>7 DEF Fill

\* A receipt that goes because one is published: the receipts after it, and the new one,
\* would fill a cache that keeps it.
LEMMA PushedOut ==
    ASSUME NEW s, Sound(s), Unique(s.receipts), NEW tx \in DOMAIN s.txns, ~Remembers(s, s.txns[tx]),
           NEW F \in SUBSET (1..Len(s.txns)), tx \in F, NEW p \in DOMAIN s.receipts,
           Cardinality(Early(F, s.receipts, p)) < Cardinality(Call),
           ~Room(SubSeq(s.receipts, p, Len(s.receipts)), s.txns[tx])
    PROVE  Displaced(s.txns, s.receipts[p].tx, Len(s.txns))
<1> DEFINE r == s.receipts
           n == Len(s.txns)
           i == r[p].tx
           v == SubSeq(r, p, Len(r))
           W == {v[j].tx : j \in DOMAIN v}
           E == Early(F, r, p)
           T == Others(s.txns, E, i, n)
<1>1. /\ r \in Seq(Receipt) /\ Len(r) \in Nat /\ DOMAIN r = 1..Len(r) /\ p \in 1..Len(r)
      /\ n \in Nat /\ DOMAIN s.txns = 1..n /\ \A t \in 1..n : s.txns[t] \in Key
      /\ \A q \in 1..Len(r) : r[q].tx \in 1..n /\ s.txns[r[q].tx] = r[q].key
  BY DEF Sound, StateType
<1>2. \A q \in 1..Len(r) : r[q].key # s.txns[tx]
  BY <1>1 DEF Remembers
<1>3. \A q, l \in 1..Len(r) : r[q].key = r[l].key => q = l
  BY <1>1 DEF Unique
<1>4. /\ v \in Seq(Receipt) /\ Len(v) = Len(r) - p + 1 /\ DOMAIN v = 1..Len(v)
      /\ \A j \in 1..Len(v) : v[j] = r[j + p - 1] /\ j + p - 1 \in 1..Len(r)
  <2>1. \A j \in p..Len(r) : r[j] \in Receipt
    BY <1>1
  <2>2. /\ v \in Seq(Receipt)
        /\ Len(v) = IF p <= Len(r) THEN Len(r) - p + 1 ELSE 0
        /\ \A j \in 1..(Len(r) - p + 1) : v[j] = r[p + j - 1]
    BY <1>1, <2>1, SubSeqProperties
  <2>3. Len(v) = Len(r) - p + 1 /\ DOMAIN v = 1..Len(v)
    <3> HIDE DEF v, r
    <3> QED BY <1>1, <2>2
  <2>4. \A j \in 1..(Len(r) - p + 1) : p + j - 1 = j + p - 1 /\ j + p - 1 \in 1..Len(r)
    <3> HIDE DEF v, r
    <3> QED BY <1>1
  <2> HIDE DEF v, r
  <2> QED BY <2>2, <2>3, <2>4
<1>5. Fill(s.txns, (W \ {i}) \cup {tx}, s.txns[i])
  <2> HIDE DEF v, r
  <2>1. Unique(v) /\ \A j \in DOMAIN v : s.txns[v[j].tx] = v[j].key
    <3>1. ASSUME NEW j \in DOMAIN v, NEW l \in DOMAIN v, v[j].key = v[l].key PROVE j = l
      <4> DEFINE a == j + p - 1
                 b == l + p - 1
      <4>0. a \in 1..Len(r) /\ b \in 1..Len(r) /\ v[j] = r[a] /\ v[l] = r[b]
        BY <1>4
      <4>1. a = b
        <5> HIDE DEF a, b
        <5> QED BY <1>3, <3>1, <4>0
      <4>2. j \in Int /\ l \in Int /\ p \in Int
        BY <1>1, <1>4
      <4> QED BY <4>1, <4>2
    <3>2. \A j \in DOMAIN v : s.txns[v[j].tx] = v[j].key
      BY <1>1, <1>4
    <3> QED BY <3>1, <3>2 DEF Unique
  <2>2. i \in W
    <3>1. 1 \in DOMAIN v /\ v[1] = r[p]
      BY <1>1, <1>4
    <3> QED BY <3>1
  <2>3. tx \notin W
    BY <1>1, <1>2, <1>4
  <2>4. s.txns[i] \in Key /\ s.txns[tx] \in Key
    BY <1>1
  <2>5. /\ IsFiniteSet(W) /\ Cardinality(W) = Len(v)
        /\ Cardinality({t \in W : s.txns[t] \in Large}) = Cardinality({j \in DOMAIN v : v[j].key \in Large})
    BY <1>4, <2>1, CountedOnce
  <2>6. Len(v) \in Nat /\ MaxEntries \in Nat /\ MaxBytes \in Nat /\ Size[s.txns[tx]] \in Nat
    BY <1>4, <2>4, IdempotencyAssumption DEF Size
  <2>7. Used(v) \in Nat /\ Used(v) = Len(v) + Cardinality({j \in DOMAIN v : v[j].key \in Large})
    BY <1>4, UsedIsNat DEF Used
  <2>8. ~Room(v, s.txns[tx])
    BY DEF v, r
  <2>9. \/ Cardinality(W) >= MaxEntries
        \/ Cardinality(W) + Cardinality({t \in W : s.txns[t] \in Large}) + Size[s.txns[tx]] > MaxBytes
    <3> HIDE DEF W
    <3> QED BY <2>5, <2>6, <2>7, <2>8 DEF Room
  <2> HIDE DEF W, i
  <2> QED BY <2>2, <2>3, <2>4, <2>5, <2>9, Swapped
<1>6. E \subseteq 1..(i - 1) /\ i \in 1..n
  <2>1. \A q \in (p + 1)..Len(r) : q \in 1..Len(r)
    BY <1>1
  <2> HIDE DEF r
  <2> QED BY <1>1, <2>1 DEF Early
<1>7. (W \ {i}) \cup {tx} \subseteq T
  <2> HIDE DEF r, v
  <2>1. ASSUME NEW t \in W, t # i PROVE t \in T
    <3>1. PICK j \in 1..Len(v) : t = v[j].tx
      BY <1>4
    <3>2. PICK q \in 1..Len(r) : q >= p /\ t = r[q].tx
      <4> DEFINE q == j + p - 1
      <4>1. q \in 1..Len(r) /\ t = r[q].tx
        BY <1>4, <3>1
      <4>2. q >= p
        BY <1>1, <1>4
      <4> HIDE DEF q
      <4> QED BY <4>1, <4>2
    <3>3. q # p
      BY <2>1, <3>2
    <3>4. t \in 1..n /\ s.txns[t] # s.txns[i]
      BY <1>1, <1>3, <3>2, <3>3
    <3>5. q \in (p + 1)..Len(r)
      BY <1>1, <3>2, <3>3
    <3>6. t < i => t \in E
      BY <3>2, <3>5 DEF Early
    <3>7. t \in E \/ t \in (i + 1)..n
      <4> HIDE DEF i, E
      <4> QED BY <1>6, <2>1, <3>4, <3>6
    <3> QED BY <3>4, <3>7 DEF Others
  <2>2. tx \in T
    <3>1. tx \in 1..n /\ s.txns[tx] # s.txns[i]
      BY <1>1, <1>2
    <3>2. tx < i => tx \in E
      BY DEF Early
    <3>3. tx # i
      BY <3>1
    <3>4. tx \in E \/ tx \in (i + 1)..n
      <4> HIDE DEF i, E
      <4> QED BY <1>6, <3>1, <3>2, <3>3
    <3> QED BY <3>1, <3>4 DEF Others
  <2> QED BY <2>1, <2>2
<1>8. IsFiniteSet(T)
  <2>1. 1 \in Int /\ n \in Int
    BY <1>1
  <2>2. IsFiniteSet(1..n)
    BY <2>1, FS_Interval
  <2>3. T \subseteq 1..n
    <3> HIDE DEF i, E, n
    <3>1. E \subseteq 1..n /\ (i + 1)..n \subseteq 1..n
      BY <1>1, <1>6
    <3> QED BY <3>1 DEF Others
  <2> QED BY <2>2, <2>3, FS_Subset
<1>9. Fill(s.txns, T, s.txns[i])
  <2>1. s.txns[i] \in Key
    BY <1>1, <1>6
  <2> HIDE DEF T, W, i
  <2> QED BY <1>5, <1>7, <1>8, <2>1, FillMore
<1> HIDE DEF E, i, n
<1>10. Displaced(s.txns, i, n)
  BY <1>6, <1>9 DEF Displaced, E, r
<1> QED BY <1>10 DEF i, n

\* The calls of D have fewer transactions than there are calls.
LEMMA FewerThanCalls ==
    ASSUME NEW D \in SUBSET Call, D # Call, NEW f
    PROVE  LET X == {f[d] : d \in D} IN IsFiniteSet(X) /\ Cardinality(X) < Cardinality(Call)
<1> DEFINE X == {f[d] : d \in D}
           g == [d \in D |-> f[d]]
<1>1. IsFiniteSet(Call) /\ IsFiniteSet(D) /\ Cardinality(D) < Cardinality(Call) /\ Cardinality(D) \in Nat
      /\ Cardinality(Call) \in Nat
  <2>1. IsFiniteSet(Call)
    BY IdempotencyAssumption
  <2>2. IsFiniteSet(D) /\ Cardinality(D) <= Cardinality(Call)
        /\ (Cardinality(D) = Cardinality(Call) => D = Call)
    BY <2>1, FS_Subset
  <2>3. Cardinality(D) \in Nat /\ Cardinality(Call) \in Nat
    BY <2>1, <2>2, FS_CardinalityType
  <2> QED BY <2>1, <2>2, <2>3
<1>2. g \in Surjection(D, X)
  <2>1. g \in [D -> X] /\ \A x \in X : \E d \in D : g[d] = x
    OBVIOUS
  <2> HIDE DEF g, X
  <2> QED BY <2>1, Fun_IsSurj
<1>3. IsFiniteSet(X) /\ Cardinality(X) <= Cardinality(D)
  <2> HIDE DEF g, X
  <2> QED BY <1>1, <1>2, FS_Surjection
<1>4. Cardinality(X) \in Nat
  BY <1>3, FS_CardinalityType
<1> HIDE DEF X
<1> QED BY <1>1, <1>3, <1>4 DEF X

\* When a receipt is published, no older one gets behind more than before.
LEMMA EarlyPushed ==
    ASSUME NEW r \in Seq(Receipt), NEW e, NEW q, NEW n, Pushed(r, n, q, e), NEW F, e.tx \in F, NEW G \in SUBSET F
    PROVE  /\ \A j \in 1..(Len(r) - n) : j + n \in DOMAIN r /\ q[j] = r[j + n] /\ Early(G, q, j) \subseteq Early(F, r, j + n)
           /\ Early(G, q, Len(r) - n + 1) \subseteq G
<1>1. /\ Len(r) \in Nat /\ DOMAIN r = 1..Len(r) /\ n \in 0..Len(r) /\ Len(q) = Len(r) - n + 1
      /\ \A j \in 1..(Len(r) - n) : q[j] = r[j + n]
      /\ q[Len(r) - n + 1] = e
  BY DEF Pushed
<1>2. ASSUME NEW j \in 1..(Len(r) - n)
      PROVE  j + n \in DOMAIN r /\ q[j] = r[j + n] /\ Early(G, q, j) \subseteq Early(F, r, j + n)
  <2>1. j + n \in DOMAIN r /\ q[j] = r[j + n]
    BY <1>1
  <2>2. ASSUME NEW l \in (j + 1)..Len(q) PROVE q[l].tx \in F \cup {r[m].tx : m \in (j + n + 1)..Len(r)}
    <3>1. CASE l = Len(r) - n + 1
      BY <1>1, <3>1
    <3>2. CASE l # Len(r) - n + 1
      <4>1. l \in 1..(Len(r) - n) /\ l + n \in (j + n + 1)..Len(r)
        BY <1>1, <3>2
      <4> QED BY <1>1, <4>1
    <3> QED BY <3>1, <3>2
  <2> QED BY <2>1, <2>2 DEF Early
<1>3. Early(G, q, Len(r) - n + 1) \subseteq G
  <2>1. (Len(r) - n + 1 + 1)..Len(q) = {}
    BY <1>1
  <2> QED BY <2>1 DEF Early
<1> QED BY <1>2, <1>3

\* A smaller set of numbers below a bound counts less.
LEMMA CountsLess ==
    ASSUME NEW A, NEW B, A \subseteq B, IsFiniteSet(B), NEW n \in Nat, Cardinality(B) < n
    PROVE  Cardinality(A) < n
<1>1. IsFiniteSet(A) /\ Cardinality(A) <= Cardinality(B)
  BY FS_Subset
<1>2. Cardinality(A) \in Nat /\ Cardinality(B) \in Nat
  BY <1>1, FS_CardinalityType
<1> QED BY <1>1, <1>2

\* What IInv says of the calls about to publish.
LEMMA FlyingIs ==
    ASSUME IInv
    PROVE  /\ Flying \subseteq 1..Len(live.txns)
           /\ \A d \in Call : At(d, "remember") =>
                 /\ call[d].tx \in Flying /\ call[d].key \in Key
                 /\ call[d].tx \in 1..Len(live.txns) /\ live.txns[call[d].tx] = call[d].key
           /\ \A c, d \in Call :
                 Inside(c) /\ Inside(d) /\ call[c].key = call[d].key => c = d
<1>1. DOMAIN live.txns = 1..Len(live.txns) /\ \A t \in DOMAIN live.txns : live.txns[t] \in Key
  BY DEF IInv, DataInv, Sound, StateType
<1>2. \A d \in Call : At(d, "remember") => Answered(d, live)
  BY DEF IInv, CallInv
<1>3. \A c, d \in Call : Inside(c) /\ Inside(d) /\ call[c].key = call[d].key => c = d
  BY DEF IInv, LockInv
<1> QED BY <1>1, <1>2, <1>3 DEF Flying, Answered

\* A transaction is made by the only call under its key, and no receipt of another is kept.
LEMMA RunOnce ==
    ASSUME IInv, IInv', OnceInv, NEW c \in Call, Run(c)
    PROVE  OnceInv'
<1> DEFINE k == call[c].key
           n == Len(live.txns)
           r == live.receipts
<1>1. /\ call \in [Call -> CallType \cup {NotRunning}] /\ call[c] \in CallType /\ k \in Key /\ Inside(c)
      /\ ~Remembers(live, k) /\ Sound(live) /\ DataInv /\ n < MaxTx
  <2>1. call \in [Call -> CallType \cup {NotRunning}] /\ call[c].at = "run"
    BY DEF Run, IInv, LockInv, At
  <2>2. call[c] \in CallType
    BY <2>1 DEF NotRunning
  <2>3. Inside(c) /\ k \in Key
    BY <2>1, <2>2 DEF Inside, CallType
  <2>4. ~Remembers(live, k) /\ DataInv /\ Sound(live) /\ n < MaxTx
    BY <2>1 DEF Run, At, IInv, CallInv, DataInv
  <2> QED BY <2>1, <2>2, <2>3, <2>4
<1>2. live' = [live EXCEPT !.txns = Append(@, k)]
  BY <1>1, TransactionCommitted DEF Run
<1>3. /\ live.txns \in Seq(Key) /\ n \in Nat /\ DOMAIN live.txns = 1..n /\ r \in Seq(Receipt)
      /\ DOMAIN r = 1..Len(r) /\ \A p \in DOMAIN r : r[p].tx \in 1..n /\ live.txns[r[p].tx] = r[p].key
      /\ live.txns = [i \in 1..n |-> live.txns[i]] /\ \A i \in 1..n : live.txns[i] \in Key
  BY <1>1 DEF Sound, StateType
<1>4. /\ live'.receipts = r /\ Len(live'.txns) = n + 1 /\ DOMAIN live'.txns = 1..(n + 1)
      /\ live'.txns[n + 1] = k /\ \A i \in 1..n : live'.txns[i] = live.txns[i]
  BY <1>1, <1>2, <1>3 DEF Sound, StateType
<1>5. /\ call'[c].at = "remember" /\ call'[c].key = k /\ call'[c].tx = n + 1
      /\ \A d \in Call : d # c => call'[d] = call[d]
  BY <1>1 DEF Run, CallType
<1> HIDE DEF n
<1>6. Flying' = Flying \cup {n + 1}
  <2>1. ~At(c, "remember") /\ At(c, "remember")'
    BY <1>5 DEF Run, At
  <2>2. \A d \in Call : d # c => (At(d, "remember")' <=> At(d, "remember"))
    BY <1>5 DEF At
  <2>3. \A d \in Call : At(d, "remember") => d # c
    BY <2>1
  <2>4. Flying' = {call'[d].tx : d \in {b \in Call : At(b, "remember")'}}
    BY DEF Flying
  <2> QED BY <1>5, <2>1, <2>2, <2>3, <2>4 DEF Flying
<1>7. \A d \in Call : d # c /\ (At(d, "remember") \/ At(d, "remember")') => call[d].key # k
  <2>1. \A d \in Call : d # c /\ At(d, "remember")' => At(d, "remember")
    BY <1>5 DEF At
  <2> QED BY <1>1, <2>1, FlyingIs DEF Inside, At
<1>8. Unique(live'.receipts)
  BY <1>4 DEF OnceInv
<1>9. \A d \in Call : At(d, "remember")' => ~Remembers(live', call'[d].key)
  <2>1. \A l : Remembers(live', l) <=> Remembers(live, l)
    BY <1>4 DEF Remembers
  <2>2. \A d \in Call : d # c /\ At(d, "remember")' => ~Remembers(live, call[d].key)
    BY <1>5 DEF OnceInv, At
  <2> QED BY <1>1, <1>5, <2>1, <2>2
<1>10. \A p \in DOMAIN live'.receipts : Cardinality(Early(Flying', live'.receipts, p)) < Cardinality(Call)
  <2>1. \A p \in DOMAIN r : Early(Flying', r, p) = Early(Flying, r, p)
    <3> SUFFICES ASSUME NEW p \in DOMAIN r PROVE Early(Flying \cup {n + 1}, r, p) = Early(Flying, r, p)
      BY <1>6
    <3>1. ~(n + 1 < r[p].tx)
      BY <1>3
    <3> QED BY <3>1 DEF Early
  <2> QED BY <1>4, <2>1 DEF OnceInv
<1>11. ASSUME NEW i \in 1..n, NEW m \in Nat, m <= n, i <= m, Displaced(live.txns, i, m), NEW l \in Nat, m <= l
       PROVE  Displaced(live'.txns, i, l)
  <2>1. i \in 1..m /\ live.txns[i] \in Key /\ \A t \in 1..m : live'.txns[t] = live.txns[t]
    BY <1>3, <1>4, <1>11
  <2> QED BY <1>11, <2>1, DisplacedStays
<1>12. ASSUME NEW t \in DOMAIN live'.txns
       PROVE  \/ t \in Flying'
              \/ \E p \in DOMAIN live'.receipts : live'.receipts[p].tx = t
              \/ Displaced(live'.txns, t, Len(live'.txns))
  <2>1. CASE t = n + 1
    BY <1>6, <2>1
  <2>2. CASE t # n + 1
    <3>1. t \in 1..n /\ n + 1 \in Nat /\ n <= n + 1 /\ n <= n /\ t <= n
      BY <1>3, <1>4, <2>2
    <3>2. t \in Flying \/ (\E p \in DOMAIN r : r[p].tx = t) \/ Displaced(live.txns, t, n)
      BY <1>3, <3>1 DEF OnceInv, n
    <3>3. Displaced(live.txns, t, n) => Displaced(live'.txns, t, Len(live'.txns))
      BY <1>3, <1>4, <1>11, <3>1
    <3> QED BY <1>4, <1>6, <3>2, <3>3
  <2> QED BY <2>1, <2>2
<1>13. ASSUME NEW i \in DOMAIN live'.txns, NEW j \in DOMAIN live'.txns, i < j, live'.txns[i] = live'.txns[j]
       PROVE  Displaced(live'.txns, i, j - 1)
  <2>1. i \in 1..n /\ j - 1 \in Nat /\ j - 1 <= n /\ i <= j - 1
    BY <1>3, <1>4, <1>13
  <2>2. Displaced(live.txns, i, j - 1)
    <3>1. CASE j = n + 1
      <4>1. live.txns[i] = k /\ i \in DOMAIN live.txns
        BY <1>3, <1>4, <1>13, <2>1, <3>1
      <4>2. i \notin Flying
        <5>1. ASSUME NEW d \in Call, At(d, "remember"), call[d].tx = i PROVE FALSE
          <6>1. call[d].key = k
            BY <4>1, <5>1, FlyingIs
          <6>2. d # c
            BY <5>1 DEF Run, At
          <6> QED BY <1>7, <5>1, <6>1, <6>2
        <5> QED BY <5>1 DEF Flying
      <4>3. ~\E p \in DOMAIN r : r[p].tx = i
        BY <1>1, <1>3, <4>1 DEF Remembers
      <4>4. Displaced(live.txns, i, n)
        BY <4>1, <4>2, <4>3 DEF OnceInv, n
      <4>5. j - 1 = n
        BY <1>3, <3>1
      <4> QED BY <4>4, <4>5
    <3>2. CASE j # n + 1
      <4>1. j \in 1..n
        BY <1>3, <1>4, <3>2
      <4>2. live.txns[i] = live.txns[j]
        BY <1>4, <1>13, <2>1, <4>1
      <4> QED BY <1>3, <1>13, <2>1, <4>1, <4>2 DEF OnceInv
    <3> QED BY <3>1, <3>2
  <2> QED BY <1>11, <2>1, <2>2
<1> QED BY <1>8, <1>9, <1>10, <1>12, <1>13 DEF OnceInv

\* When a receipt is published those that go are displaced by the newer ones and by it.
LEMMA PublishOnce ==
    ASSUME IInv, OnceInv, NEW c \in Call, Publish(c)
    PROVE  OnceInv'
<1> DEFINE k == call[c].key
           tx == call[c].tx
           r == live.receipts
           e == [key |-> k, tx |-> tx]
           m == Len(live.txns)
<1>1. /\ call \in [Call -> CallType \cup {NotRunning}] /\ At(c, "remember") /\ Inside(c)
      /\ Sound(live) /\ DataInv /\ ~Remembers(live, k)
  BY DEF Publish, IInv, LockInv, DataInv, OnceInv, At, Inside
<1>2. /\ live.txns \in Seq(Key) /\ m \in Nat /\ DOMAIN live.txns = 1..m /\ r \in Seq(Receipt)
      /\ DOMAIN r = 1..Len(r) /\ Len(r) \in Nat
      /\ \A p \in DOMAIN r : r[p].tx \in 1..m /\ live.txns[r[p].tx] = r[p].key
  BY <1>1 DEF Sound, StateType
<1>3. k \in Key /\ tx \in 1..m /\ live.txns[tx] = k /\ tx \in Flying /\ Flying \subseteq 1..m
  BY <1>1, FlyingIs
<1>4. live' = Remember(live, k, tx)
  BY <1>1, <1>2, <1>3, ReceiptCommitted DEF Publish
<1>5. live'.txns = live.txns /\ \A l \in Key : Remembers(live', l) => Remembers(live, l) \/ l = k
  BY <1>1, <1>2, <1>3, <1>4, RememberStep
<1>6. /\ call'[c].at = "out" /\ \A d \in Call : d # c => call'[d] = call[d]
  BY <1>1 DEF Publish, Return
<1>7. \A d \in Call : At(d, "remember")' => d # c /\ At(d, "remember") /\ call'[d] = call[d]
  BY <1>6 DEF At
<1>8. \A d \in Call : At(d, "remember") /\ d # c => At(d, "remember")' /\ call'[d] = call[d]
  BY <1>6 DEF At
<1>9. Flying' = {call'[d].tx : d \in {b \in Call : At(b, "remember")'}}
  BY DEF Flying
<1>10. Flying' \subseteq Flying /\ Flying \subseteq Flying' \cup {tx}
  BY <1>7, <1>8, <1>9 DEF Flying
<1>11. IsFiniteSet(Flying') /\ Cardinality(Flying') < Cardinality(Call) /\ Cardinality(Call) \in Nat
  <2> DEFINE D == {b \in Call : At(b, "remember")'}
             f == [d \in Call |-> call'[d].tx]
             X == {f[d] : d \in D}
  <2>1. D \in SUBSET Call /\ D # Call
    BY <1>7
  <2> HIDE DEF D, f
  <2>2. IsFiniteSet(X) /\ Cardinality(X) < Cardinality(Call)
    BY <2>1, FewerThanCalls
  <2>3. Flying' = X
    BY <1>9, <2>1 DEF D, f
  <2>4. Cardinality(Call) \in Nat
    BY IdempotencyAssumption, FS_CardinalityType
  <2> HIDE DEF X
  <2> QED BY <2>2, <2>3, <2>4
<1>12. \A d \in Call : At(d, "remember")' => ~Remembers(live', call'[d].key)
  <2> SUFFICES ASSUME NEW d \in Call, At(d, "remember")' PROVE ~Remembers(live', call[d].key)
    BY <1>7
  <2>1. d # c /\ At(d, "remember") /\ Inside(d)
    BY <1>7 DEF At, Inside
  <2>2. call[d].key \in Key /\ call[d].key # k
    BY <1>1, <2>1, FlyingIs
  <2>3. ~Remembers(live, call[d].key)
    BY <2>1 DEF OnceInv
  <2> QED BY <1>5, <2>2, <2>3
<1>13. \A i, j \in DOMAIN live'.txns :
           i < j /\ live'.txns[i] = live'.txns[j] => Displaced(live'.txns, i, j - 1)
  BY <1>5 DEF OnceInv
<1> HIDE DEF e
<1>14. CASE live' = live /\ Size[k] > MaxBytes
  <2>1. Displaced(live.txns, tx, m)
    <3> DEFINE T == Others(live.txns, {}, tx, m)
    <3>1. IsFiniteSet({}) /\ Cardinality({}) = 0 /\ {} \subseteq T
      BY FS_EmptySet
    <3>2. {t \in {} : live.txns[t] \in Large} = {}
      OBVIOUS
    <3>3. Size[k] \in Nat /\ MaxBytes \in Nat
      BY <1>3, IdempotencyAssumption DEF Size
    <3>4. Fill(live.txns, {}, k)
      BY <1>14, <3>1, <3>2, <3>3 DEF Fill
    <3>5. IsFiniteSet(T)
      <4>1. 1 \in Int /\ m \in Int
        BY <1>2
      <4>2. IsFiniteSet(1..m)
        BY <4>1, FS_Interval
      <4>3. T \subseteq 1..m
        <5> HIDE DEF tx, m
        <5> QED BY <1>2, <1>3 DEF Others
      <4> QED BY <4>2, <4>3, FS_Subset
    <3> HIDE DEF T
    <3>6. Fill(live.txns, T, k)
      BY <1>3, <3>1, <3>4, <3>5, FillMore
    <3>7. Cardinality({}) < Cardinality(Call)
      <4>1. Cardinality(Flying') \in Nat
        BY <1>11, FS_CardinalityType
      <4> QED BY <1>11, <3>1, <4>1
    <3>8. {} \in SUBSET (1..(tx - 1))
      OBVIOUS
    <3> QED BY <1>3, <3>6, <3>7, <3>8 DEF Displaced, T
  <2>2. ASSUME NEW p \in DOMAIN r PROVE Cardinality(Early(Flying', r, p)) < Cardinality(Call)
    <3>1. Early(Flying', r, p) \subseteq Early(Flying, r, p)
      BY <1>10 DEF Early
    <3>2. IsFiniteSet(Early(Flying, r, p))
      <4>1. Early(Flying, r, p) \subseteq 1..m
        <5>1. \A q \in (p + 1)..Len(r) : q \in DOMAIN r
          BY <1>2
        <5> HIDE DEF r
        <5> QED BY <1>2, <1>3, <5>1 DEF Early
      <4>2. 1 \in Int /\ m \in Int
        BY <1>2
      <4>3. IsFiniteSet(1..m)
        BY <4>2, FS_Interval
      <4> QED BY <4>1, <4>3, FS_Subset
    <3>3. Cardinality(Early(Flying, r, p)) < Cardinality(Call)
      BY DEF OnceInv
    <3> QED BY <1>11, <3>1, <3>2, <3>3, CountsLess
  <2>3. ASSUME NEW t \in DOMAIN live.txns
        PROVE  t \in Flying' \/ (\E p \in DOMAIN r : r[p].tx = t) \/ Displaced(live.txns, t, m)
    <3>1. t \in Flying \/ (\E p \in DOMAIN r : r[p].tx = t) \/ Displaced(live.txns, t, m)
      BY DEF OnceInv
    <3> QED BY <1>10, <2>1, <3>1
  <2>4. Unique(r)
    BY DEF OnceInv
  <2>5. live'.receipts = r /\ live'.txns = live.txns /\ Len(live'.txns) = m
    BY <1>14
  <2> HIDE DEF r, m
  <2> QED BY <1>12, <1>13, <2>2, <2>3, <2>4, <2>5 DEF OnceInv
<1>15. ASSUME NEW q, NEW n, Pushed(r, n, q, e), live' = [live EXCEPT !.receipts = q],
              \A l \in 0..(n - 1) : ~Room(SubSeq(r, l + 1, Len(r)), k)
       PROVE  OnceInv'
  <2>1. live'.receipts = q /\ live'.txns = live.txns /\ Len(live'.txns) = m
    BY <1>1, <1>15 DEF Sound, StateType
  <2>2. /\ n \in 0..Len(r) /\ q \in Seq(Receipt) /\ Len(q) = Len(r) - n + 1 /\ DOMAIN q = 1..(Len(r) - n + 1)
        /\ q[Len(r) - n + 1] = e /\ e.key = k /\ e.tx = tx
    BY <1>15 DEF Pushed, e
  <2>3. /\ \A j \in 1..(Len(r) - n) : j + n \in DOMAIN r /\ q[j] = r[j + n] /\ Early(Flying', q, j) \subseteq Early(Flying, r, j + n)
        /\ Early(Flying', q, Len(r) - n + 1) \subseteq Flying'
    <3> DEFINE F == Flying
               G == Flying'
    <3>1. e.tx \in F /\ G \in SUBSET F
      BY <1>3, <1>10, <2>2
    <3>2. r \in Seq(Receipt) /\ Pushed(r, n, q, e)
      BY <1>2, <1>15
    <3> HIDE DEF r, F, G
    <3>3. /\ \A j \in 1..(Len(r) - n) : j + n \in DOMAIN r /\ q[j] = r[j + n] /\ Early(G, q, j) \subseteq Early(F, r, j + n)
          /\ Early(G, q, Len(r) - n + 1) \subseteq G
      BY <3>1, <3>2, EarlyPushed
    <3> QED BY <3>3 DEF F, G
  <2>4. \A j \in DOMAIN q : j \in 1..(Len(r) - n) \/ j = Len(r) - n + 1
    BY <1>2, <2>2
  <2>5. Unique(q)
    <3>1. \A p \in DOMAIN r : r[p].key # k
      BY <1>1 DEF Remembers
    <3>2. ASSUME NEW i \in DOMAIN q, NEW j \in DOMAIN q, q[i].key = q[j].key PROVE i = j
      <4>1. CASE i \in 1..(Len(r) - n) /\ j \in 1..(Len(r) - n)
        <5>1. i + n \in DOMAIN r /\ j + n \in DOMAIN r /\ r[i + n].key = r[j + n].key
          BY <2>3, <3>2, <4>1
        <5>2. i + n = j + n
          BY <5>1 DEF OnceInv, Unique
        <5> QED BY <2>2, <4>1, <5>2
      <4>2. CASE i \in 1..(Len(r) - n) /\ j = Len(r) - n + 1
        BY <2>2, <2>3, <3>1, <3>2, <4>2
      <4>3. CASE j \in 1..(Len(r) - n) /\ i = Len(r) - n + 1
        BY <2>2, <2>3, <3>1, <3>2, <4>3
      <4> QED BY <2>4, <4>1, <4>2, <4>3
    <3> QED BY <3>2 DEF Unique
  <2>6. ASSUME NEW j \in DOMAIN q PROVE Cardinality(Early(Flying', q, j)) < Cardinality(Call)
    <3>1. CASE j \in 1..(Len(r) - n)
      <4> DEFINE p == j + n
      <4>1. p \in DOMAIN r /\ Early(Flying', q, j) \subseteq Early(Flying, r, p)
        BY <2>3, <3>1
      <4> HIDE DEF p
      <4>2. IsFiniteSet(Early(Flying, r, p))
        <5>1. Early(Flying, r, p) \subseteq 1..m
          <6>1. \A l \in (p + 1)..Len(r) : l \in DOMAIN r
            BY <1>2, <4>1
          <6> HIDE DEF r
          <6> QED BY <1>2, <1>3, <6>1 DEF Early
        <5>2. 1 \in Int /\ m \in Int
          BY <1>2
        <5>3. IsFiniteSet(1..m)
          BY <5>2, FS_Interval
        <5> QED BY <5>1, <5>3, FS_Subset
      <4>3. Cardinality(Early(Flying, r, p)) < Cardinality(Call)
        BY <4>1 DEF OnceInv
      <4> QED BY <1>11, <4>1, <4>2, <4>3, CountsLess
    <3>2. CASE j = Len(r) - n + 1
      <4>1. Early(Flying', q, j) \subseteq Flying'
        BY <2>3, <3>2
      <4> QED BY <1>11, <4>1, CountsLess
    <3> QED BY <2>4, <3>1, <3>2
  <2>7. ASSUME NEW t \in DOMAIN live.txns
        PROVE  t \in Flying' \/ (\E p \in DOMAIN q : q[p].tx = t) \/ Displaced(live.txns, t, m)
    <3>1. t \in Flying \/ (\E p \in DOMAIN r : r[p].tx = t) \/ Displaced(live.txns, t, m)
      BY DEF OnceInv
    <3>2. CASE t \in Flying
      <4>1. t \in Flying' \/ t = tx
        BY <1>10, <3>2
      <4>2. Len(r) - n + 1 \in DOMAIN q /\ q[Len(r) - n + 1].tx = tx
        BY <1>2, <2>2
      <4> QED BY <4>1, <4>2
    <3>3. ASSUME NEW p \in DOMAIN r, r[p].tx = t
          PROVE  (\E j \in DOMAIN q : q[j].tx = t) \/ Displaced(live.txns, t, m)
      <4>1. CASE p > n
        <5> DEFINE j == p - n
        <5>1. j \in 1..(Len(r) - n) /\ j \in DOMAIN q /\ j + n = p
          BY <1>2, <2>2, <4>1
        <5> HIDE DEF j
        <5>2. q[j] = r[p]
          BY <2>3, <5>1
        <5> QED BY <3>3, <5>1, <5>2
      <4>2. CASE p <= n
        <5> DEFINE l == p - 1
        <5>1. l \in 0..(n - 1) /\ l + 1 = p
          BY <1>2, <2>2, <4>2
        <5> HIDE DEF l
        <5>2. ~Room(SubSeq(r, p, Len(r)), k)
          BY <1>15, <5>1
        <5>3. Cardinality(Early(Flying, r, p)) < Cardinality(Call) /\ Unique(r)
          BY DEF OnceInv
        <5>4. tx \in DOMAIN live.txns /\ live.txns[tx] = k
          BY <1>2, <1>3
        <5> HIDE DEF tx, k
        <5>5. Displaced(live.txns, r[p].tx, m)
          BY <1>1, <1>3, <5>2, <5>3, <5>4, PushedOut
        <5> QED BY <3>3, <5>5
      <4>3. p > n \/ p <= n
        BY <1>2, <2>2
      <4> QED BY <4>1, <4>2, <4>3
    <3> QED BY <3>1, <3>2, <3>3
  <2> HIDE DEF r, m
  <2> QED BY <1>12, <1>13, <2>1, <2>5, <2>6, <2>7 DEF OnceInv
<1>16. QED
  <2>1. tx \in DOMAIN live.txns
    BY <1>2, <1>3
  <2>2. \/ Remember(live, k, tx) = live /\ (Size[k] > MaxBytes \/ Remembers(live, k))
        \/ \E q, n :
              /\ Pushed(r, n, q, e)
              /\ Remember(live, k, tx) = [live EXCEPT !.receipts = q]
              /\ Len(q) <= MaxEntries /\ Used(q) <= MaxBytes
              /\ \A l \in 0..(n - 1) : ~Room(SubSeq(r, l + 1, Len(r)), k)
    BY <1>1, <1>3, <2>1, RememberIs DEF e
  <2> HIDE DEF r, k, tx, m
  <2> QED BY <1>1, <1>4, <1>14, <1>15, <2>2

\* The other steps of a call make and publish nothing.
LEMMA QuietOnce ==
    ASSUME OnceInv, live' = live,
           \A d \in Call : (At(d, "remember")' <=> At(d, "remember")) /\ (At(d, "remember") => call'[d] = call[d])
    PROVE  OnceInv'
<1>1. Flying' = Flying
  <2>1. Flying' = {call'[d].tx : d \in {b \in Call : At(b, "remember")'}}
    BY DEF Flying
  <2> QED BY <2>1 DEF Flying
<1>2. \A d \in Call : At(d, "remember")' => ~Remembers(live', call'[d].key)
  BY DEF OnceInv
<1> QED BY <1>1, <1>2 DEF OnceInv

\* Until the process ends, every step keeps OnceInv.
LEMMA OnceStays ==
    ASSUME IInv, IInv', ~ended => OnceInv, [Next]_vars
    PROVE  (~ended => OnceInv)'
<1> SUFFICES ASSUME ~ended' PROVE OnceInv'
  OBVIOUS
<1>1. call \in [Call -> CallType \cup {NotRunning}]
  BY DEF IInv, LockInv
<1>2. ASSUME ~ended, NEW c \in Call, At(c, "out") \/ At(c, "gate") \/ At(c, "find") \/ At(c, "run"),
             live' = live, \A d \in Call : d # c => call'[d] = call[d], ~At(c, "remember")'
      PROVE  OnceInv'
  <2>1. \A d \in Call : (At(d, "remember")' <=> At(d, "remember")) /\ (At(d, "remember") => call'[d] = call[d])
    BY <1>2 DEF At
  <2> QED BY <1>2, <2>1, QuietOnce
<1>3. ASSUME NEW c \in Call, Run(c) PROVE OnceInv'
  BY <1>3, RunOnce DEF Run
<1>4. ASSUME NEW c \in Call, Publish(c) PROVE OnceInv'
  BY <1>4, PublishOnce DEF Publish
<1>5. ASSUME NEW c \in Call, NEW k \in Key, Start(c, k) PROVE OnceInv'
  BY <1>1, <1>2, <1>5 DEF Start, At
<1>6. ASSUME NEW c \in Call, Lock(c) PROVE OnceInv'
  <2>1. call[c] \in CallType
    BY <1>1, <1>6 DEF Lock, At, NotRunning
  <2> QED BY <1>1, <1>2, <1>6, <2>1 DEF Lock, Goto, At, CallType
<1>7. ASSUME NEW c \in Call, Miss(c) PROVE OnceInv'
  <2>1. call[c] \in CallType
    BY <1>1, <1>7 DEF Miss, At, NotRunning
  <2> QED BY <1>1, <1>2, <1>7, <2>1 DEF Miss, Goto, At, CallType
<1>8. ASSUME NEW c \in Call, Repeat(c) PROVE OnceInv'
  BY <1>1, <1>2, <1>8 DEF Repeat, Return, At
<1>9. ASSUME NEW c \in Call, Fail(c) PROVE OnceInv'
  BY <1>1, <1>2, <1>9 DEF Fail, Return, At, Log!CommitFails
<1>10. ASSUME Stopped PROVE FALSE
  BY <1>10 DEF Stopped
<1>11. ASSUME UNCHANGED vars PROVE OnceInv'
  BY <1>11, QuietOnce DEF vars, At
<1> QED BY <1>3, <1>4, <1>5, <1>6, <1>7, <1>8, <1>9, <1>10, <1>11 DEF Next, Step, RunFound, PublishFound, Restart

\* For any number of calls, keys, stripes and transactions, and a cache of any size: until the
\* process ends, a request whose receipt was not pushed out by those of others is carried out once.
THEOREM CarriedOutOnce == Spec => []AtMostOnce
<1>1. Init => (~ended => OnceInv)
  <2> SUFFICES ASSUME Init PROVE OnceInv
    OBVIOUS
  <2>1. DOMAIN live.txns = {} /\ DOMAIN live.receipts = {}
    BY DEF Init, Empty
  <2>2. \A c \in Call : ~At(c, "remember")
    BY DEF Init, At, NotRunning
  <2> QED BY <2>1, <2>2 DEF OnceInv, Unique
<1>2. IInv /\ IInv' /\ (~ended => OnceInv) /\ [Next]_vars => (~ended => OnceInv)'
  BY OnceStays
<1>3. (~ended => OnceInv) => AtMostOnce
  BY DEF OnceInv, AtMostOnce
<1> QED BY <1>1, <1>2, <1>3, Begins, Invariance, PTL DEF Spec

=============================================================================
