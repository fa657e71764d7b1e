---------------------------- MODULE RecordStore -----------------------------
(***************************************************************************)
(* The state of a party board as one flash record per row: the tables that *)
(* remember what changed (party/api/src/table.rs), the savepoint and       *)
(* rollback of a request (state.rs), the commit through a journal          *)
(* (records.rs), and the housekeeping that changes the state without a     *)
(* savepoint (api.rs).                                                     *)
(*                                                                         *)
(* The eleven tables are treated alike and are one here, as the meta       *)
(* record is one value.  A row and the list of a person's sessions are     *)
(* values; a session record's CRC stands for its bytes.  The key-value     *)
(* store is external: a write or a removal of one key happens or fails,    *)
(* and never does half of it.                                              *)
(***************************************************************************)
EXTENDS Integers, Sequences, FiniteSets, FiniteSetTheorems, SequenceTheorems,
        WellFoundedInduction, TLAPS

CONSTANTS
    Id,          \* row ids
    Person,      \* owners of sessions
    Value,       \* contents of a row and of meta
    Sessions,    \* contents of a person's session record
    None,        \* no record
    Zero,        \* the meta of a fresh board, a member of Value
    MaxUndo      \* bound on the undo entries of the table

RecordStoreAssumption ==
    /\ None \notin Value \cup Sessions
    /\ Zero \in Value
    /\ MaxUndo \in Nat

VARIABLES
    kv,          \* the records on flash, and the journal
    table,       \* State.people and the other tables
    sess,        \* State.sessions
    meta,        \* the counters and settings
    store,       \* RecordStore: what it believes is on flash
    point,       \* the Savepoint of the change in progress
    todo,        \* the writes of a journal being applied
    pc           \* where the holder of the lock is

storeVars == <<kv, table, sess, meta, store, point, todo, pc>>

Maybe(S) == S \cup {None}

Present(f) == {x \in DOMAIN f : f[x] # None}

-----------------------------------------------------------------------------
(* Flash. *)

RowKey(id) == <<"row", id>>
SessionKey(p) == <<"s", p>>
Key == {RowKey(id) : id \in Id} \cup {SessionKey(p) : p \in Person}
       \cup {<<"index">>, <<"is">>, <<"meta">>, <<"tx">>}

\* A commit writes a function from keys to contents, None to remove the key.
Nothing == [key \in {} |-> None]

\* Kv::set and Kv::remove, of one key and of all.
Put(flash, writes, key) == [flash EXCEPT ![key] = writes[key]]

PutAll(flash, writes) ==
    [key \in DOMAIN flash |-> IF key \in DOMAIN writes THEN writes[key] ELSE flash[key]]

\* The journal on flash; none is an empty one.
Journal(flash) == flash[<<"tx">>]

\* The next write in the order of the journal, which is that of the tables.
NextKey(writes) == CHOOSE key \in DOMAIN writes : TRUE

Without(writes, key) == [k \in DOMAIN writes \ {key} |-> writes[k]]

\* open: the rows the index names, their sessions, and meta.
RowsOn(flash) == [id \in Id |-> IF id \in flash[<<"index">>] THEN flash[RowKey(id)] ELSE None]
SessionsOn(flash) == [p \in Person |-> IF p \in flash[<<"is">>] THEN flash[SessionKey(p)] ELSE None]

NoRows == [id \in Id |-> None]
NoSessions == [p \in Person |-> None]

Load(flash) ==
    IF flash[<<"meta">>] = None THEN [rows |-> NoRows, sess |-> NoSessions, meta |-> Zero]
    ELSE [rows |-> RowsOn(flash), sess |-> SessionsOn(flash), meta |-> flash[<<"meta">>]]

\* What a boot would load: a journal it finds is applied first.
Whole(flash) == PutAll(flash, Journal(flash))
Recovered(flash) == Load(Whole(flash))

-----------------------------------------------------------------------------
(* table.rs: rows that remember what changed, and how to undo it. *)

CleanTable(rows) == [rows |-> rows, dirty |-> {}, touched |-> {}, undo |-> <<>>]

\* touch: a row is copied for undo at its first change since the savepoint.
Touch(t, id) ==
    [t EXCEPT !.dirty = @ \cup {id},
              !.touched = @ \cup {id},
              !.undo = IF id \in t.touched THEN @
                       ELSE Append(@, [op |-> "changed", id |-> id, row |-> t.rows[id]])]

\* IndexMut: the row is touched before it is written.
ChangeRow(t, id, v) == [Touch(t, id) EXCEPT !.rows[id] = v]

PushRow(t, id, v) ==
    [rows |-> [t.rows EXCEPT ![id] = v], dirty |-> t.dirty \cup {id}, touched |-> t.touched \cup {id},
     undo |-> Append(t.undo, [op |-> "added", id |-> id, row |-> None])]

RemoveRow(t, id) ==
    [t EXCEPT !.rows[id] = None, !.dirty = @ \cup {id},
              !.undo = Append(@, [op |-> "removed", id |-> id, row |-> t.rows[id]])]

\* Rows touched before a savepoint are copied again at their next change.
TableSavepoint(t) == [t EXCEPT !.touched = {}]

Undone(rows, entry) ==
    CASE entry.op = "changed" -> [rows EXCEPT ![entry.id] = IF @ = None THEN None ELSE entry.row]
      [] entry.op = "added"   -> [rows EXCEPT ![entry.id] = None]
      [] entry.op = "removed" -> [rows EXCEPT ![entry.id] = entry.row]

\* The rows with the last n entries undone, the last one first.
Unwound(rows, undo) ==
    LET back[n \in 0..Len(undo)] ==
            IF n = 0 THEN rows ELSE Undone(back[n - 1], undo[Len(undo) + 1 - n])
    IN  back

\* The entries past the savepoint are undone.
TableRollback(t, at) ==
    [t EXCEPT !.touched = {},
              !.rows = Unwound(@, t.undo)[Len(t.undo) - at],
              !.undo = SubSeq(@, 1, at)]

-----------------------------------------------------------------------------
(* state.rs: the savepoint of a request. *)

SessionsDirty == sess.dirty \/ sess.unsure

Savepoint == [at |-> Len(table.undo), meta |-> meta, sess |-> sess.at, sessDirty |-> SessionsDirty]

\* Mutant of SessionsBack: whether they had been saved is forgotten.
SessionsBackSure(s, sp) ==
    IF s.at = sp.sess THEN s ELSE [at |-> sp.sess, dirty |-> FALSE, unsure |-> s.unsure]

\* What rollback makes of the sessions: they are rebuilt, and so not dirty.
SessionsBack(s, sp) ==
    IF s.at = sp.sess THEN s
    ELSE [at |-> sp.sess, dirty |-> FALSE, unsure |-> s.unsure \/ sp.sessDirty]

Rollback ==
    /\ table' = TableRollback(table, point.at)
    /\ meta' = point.meta
    /\ sess' = SessionsBack(sess, point)

\* State::saved.
Saved ==
    /\ table' = CleanTable(table.rows)
    /\ sess' = [sess EXCEPT !.dirty = FALSE, !.unsure = FALSE]

-----------------------------------------------------------------------------
(* records.rs: what a commit writes. *)

\* The content of a record.
Content(key) ==
    CASE key[1] = "row"   -> table.rows[key[2]]
      [] key[1] = "index" -> Present(table.rows)
      [] key[1] = "s"     -> sess.at[key[2]]
      [] key[1] = "is"    -> Present(sess.at)
      [] key[1] = "meta"  -> meta

\* Rows that changed, and the index if a row came or went.
TableWrites ==
    {RowKey(id) : id \in {x \in table.dirty : x \in Present(table.rows) \cup store.ids}}
    \cup {key \in {<<"index">>} : Present(table.rows) # store.ids}

\* The sessions whose bytes are not the ones the store remembers.
SessionWrites ==
    IF SessionsDirty
    THEN {SessionKey(p) : p \in {q \in Person : sess.at[q] # store.sess[q]}}
         \cup {key \in {<<"is">>} : Present(sess.at) # Present(store.sess)}
    ELSE {}

\* RecordStore::changes.
Changes ==
    [key \in TableWrites \cup SessionWrites \cup {m \in {<<"meta">>} : meta # store.meta}
     |-> Content(key)]

\* What the store believes once the changes are written.
Believes(pending) ==
    [ids |-> Present(table.rows), meta |-> meta, pending |-> pending,
     sess |-> IF SessionsDirty THEN sess.at ELSE store.sess]

-----------------------------------------------------------------------------
(* api.rs: requests, housekeeping, and the steps of a commit. *)

Free == pc = "idle"
Changing == pc \in {"change", "replay", "write"}
HasRoom == Len(table.undo) < MaxUndo

\* What a handler, or housekeeping, does to rows and sessions; a new row takes
\* its id from a counter in meta.
EditRow(id) ==
    /\ HasRoom
    /\ \/ /\ table.rows[id] = None
          /\ \E v \in Value : table' = PushRow(table, id, v)
          /\ \E v \in Value \ {meta} : meta' = v
       \/ /\ table.rows[id] # None
          /\ \/ \E v \in Value \ {table.rows[id]} : table' = ChangeRow(table, id, v)
             \/ table' = RemoveRow(table, id)
          /\ UNCHANGED meta
    /\ UNCHANGED sess

EditSessions(p) ==
    /\ \E v \in Maybe(Sessions) \ {sess.at[p]} : sess' = [sess EXCEPT !.at[p] = v, !.dirty = TRUE]
    /\ UNCHANGED <<table, meta>>

NoPoint == [at |-> 0, meta |-> Zero, sess |-> NoSessions, sessDirty |-> FALSE]
NoStore == [ids |-> {}, sess |-> NoSessions, meta |-> None, pending |-> FALSE]

\* The lock is given up.
Ended ==
    /\ pc' = "idle"
    /\ point' = NoPoint
    /\ todo' = Nothing

\* mutate: the lock is taken, and a savepoint.
Begin ==
    /\ Free
    /\ table' = TableSavepoint(table)
    /\ point' = Savepoint
    /\ pc' = "change"
    /\ UNCHANGED <<kv, sess, meta, store, todo>>

Edit ==
    /\ pc = "change"
    /\ (\E id \in Id : EditRow(id)) \/ (\E p \in Person : EditSessions(p))
    /\ UNCHANGED <<kv, store, point, todo, pc>>

\* tick: the same without a savepoint.
Tick ==
    /\ Free \/ pc = "tick"
    /\ (\E id \in Id : EditRow(id)) \/ (\E p \in Person : EditSessions(p))
    /\ pc' = "tick"
    /\ UNCHANGED <<kv, store, point, todo>>

\* caller: a request that only reads dates its session, and commits nothing.
TouchSession ==
    /\ Free
    /\ \E p \in Person :
         /\ sess.at[p] # None
         /\ \E v \in Sessions \ {sess.at[p]} : sess' = [sess EXCEPT !.at[p] = v, !.dirty = TRUE]
    /\ UNCHANGED <<kv, table, meta, store, point, todo, pc>>

\* The handler refuses, or its commit does.
Fails ==
    /\ Rollback
    /\ Ended
    /\ UNCHANGED <<kv, store>>

HandlerFails == pc = "change" /\ Fails

\* commit, with nothing to write.
NothingToWrite ==
    /\ pc \in {"change", "tick"}
    /\ Changes = Nothing
    /\ Ended
    /\ UNCHANGED <<kv, table, sess, meta, store>>

\* Mutant of StartWrite: it is left where it is.
StartWriteOver ==
    /\ pc \in {"change", "tick"}
    /\ Changes # Nothing
    /\ pc' = (IF pc = "tick" THEN "tickWrite" ELSE "write")
    /\ UNCHANGED <<kv, table, sess, meta, store, point, todo>>

\* RecordStore::write: a journal not fully applied comes first.
StartWrite ==
    /\ pc \in {"change", "tick"}
    /\ Changes # Nothing
    /\ IF store.pending
       THEN /\ pc' = IF pc = "tick" THEN "tickReplay" ELSE "replay"
            /\ todo' = Journal(kv)
       ELSE pc' = (IF pc = "tick" THEN "tickWrite" ELSE "write") /\ UNCHANGED todo
    /\ UNCHANGED <<kv, table, sess, meta, store, point>>

\* A write that flash refuses: a request is rolled back, housekeeping is not.
FlashRefuses ==
    \/ pc \in {"replay", "write"} /\ Fails
    \/ /\ pc \in {"tickReplay", "tickWrite"}
       /\ Ended
       /\ UNCHANGED <<kv, table, sess, meta, store>>

\* replay_tx, one record at a time, then the journal is removed.
ReplayOne ==
    /\ pc \in {"replay", "tickReplay", "boot"}
    /\ todo # Nothing
    /\ kv' = Put(kv, todo, NextKey(todo))
    /\ todo' = Without(todo, NextKey(todo))
    /\ UNCHANGED <<table, sess, meta, store, point, pc>>

ReplayDone ==
    /\ pc \in {"replay", "tickReplay"}
    /\ todo = Nothing
    /\ kv' = [kv EXCEPT ![<<"tx">>] = Nothing]
    /\ store' = [store EXCEPT !.pending = FALSE]
    /\ pc' = IF pc = "replay" THEN "write" ELSE "tickWrite"
    /\ UNCHANGED <<table, sess, meta, point, todo>>

\* The state is what the store now believes is on flash, and is clean.
Committed(pending) ==
    /\ store' = Believes(pending)
    /\ Saved
    /\ Ended
    /\ UNCHANGED meta

\* One record needs no journal.
WriteOne ==
    /\ pc \in {"write", "tickWrite"}
    /\ Cardinality(DOMAIN Changes) = 1
    /\ kv' = PutAll(kv, Changes)
    /\ Committed(FALSE)

\* Several: once the journal is on flash the commit has happened.
WriteJournal ==
    /\ pc \in {"write", "tickWrite"}
    /\ Cardinality(DOMAIN Changes) > 1
    /\ kv' = [kv EXCEPT ![<<"tx">>] = Changes]
    /\ todo' = Changes
    /\ pc' = "apply"
    /\ UNCHANGED <<table, sess, meta, store, point>>

ApplyOne ==
    /\ pc = "apply"
    /\ todo # Nothing
    /\ kv' = Put(kv, todo, NextKey(todo))
    /\ todo' = Without(todo, NextKey(todo))
    /\ UNCHANGED <<table, sess, meta, store, point, pc>>

JournalApplied ==
    /\ pc = "apply"
    /\ todo = Nothing
    /\ kv' = [kv EXCEPT ![<<"tx">>] = Nothing]
    /\ Committed(FALSE)

\* A record that does not get into place, or the journal that stays: the commit
\* stands, and the journal is applied before the next.
ApplyFails ==
    /\ pc = "apply"
    /\ Committed(TRUE)
    /\ UNCHANGED kv

-----------------------------------------------------------------------------
(* Power cuts and boots. *)

\* State::from_parts: nothing is dirty and there is nothing to undo.
FromParts(load) ==
    /\ table' = CleanTable(load.rows)
    /\ sess' = [at |-> load.sess, dirty |-> FALSE, unsure |-> FALSE]
    /\ meta' = load.meta
    /\ point' = NoPoint
    /\ todo' = Nothing

RamEmpty ==
    /\ FromParts([rows |-> NoRows, sess |-> NoSessions, meta |-> Zero])
    /\ store' = NoStore

PowerCut ==
    /\ pc # "down"
    /\ pc' = "down"
    /\ RamEmpty
    /\ UNCHANGED kv

\* open: a leftover journal is replayed; if flash refuses, the board does not start.
StartBoot ==
    /\ pc = "down"
    /\ pc' = "boot"
    /\ todo' = Journal(kv)
    /\ UNCHANGED <<kv, table, sess, meta, store, point>>

Booted ==
    /\ pc = "boot"
    /\ todo = Nothing
    /\ kv' = [kv EXCEPT ![<<"tx">>] = Nothing]
    /\ FromParts(Load(kv))
    /\ store' = [ids |-> IF kv[<<"meta">>] = None THEN {} ELSE kv[<<"index">>],
                 sess |-> Load(kv).sess, meta |-> kv[<<"meta">>], pending |-> FALSE]
    /\ pc' = "idle"

\* An empty flash: nothing on it, so the first commit writes meta and the indexes.
Init ==
    /\ kv = [k \in Key |-> IF k \in {<<"index">>, <<"is">>} THEN {}
                          ELSE IF k = <<"tx">> THEN Nothing ELSE None]
    /\ table = CleanTable(NoRows)
    /\ sess = [at |-> NoSessions, dirty |-> FALSE, unsure |-> FALSE]
    /\ meta = Zero
    /\ store = NoStore
    /\ point = NoPoint
    /\ todo = Nothing
    /\ pc = "idle"

Next ==
    \/ Begin \/ Edit \/ Tick \/ TouchSession
    \/ HandlerFails \/ NothingToWrite \/ StartWrite \/ FlashRefuses
    \/ ReplayOne \/ ReplayDone \/ WriteOne \/ WriteJournal
    \/ ApplyOne \/ JournalApplied \/ ApplyFails
    \/ PowerCut \/ StartBoot \/ Booted

Spec == Init /\ [][Next]_storeVars

-----------------------------------------------------------------------------
(* Properties. *)

Tables == [rows : [Id -> Maybe(Value)], sess : [Person -> Maybe(Sessions)], meta : Value]

Live == [rows |-> table.rows, sess |-> sess.at, meta |-> meta]

\* What a failing request would go back to, by the undo log.
Kept == [rows |-> TableRollback(table, point.at).rows, sess |-> point.sess, meta |-> point.meta]

TypeOK ==
    /\ Live \in Tables
    /\ table.dirty \cup table.touched \subseteq Id
    /\ Len(table.undo) <= MaxUndo
    /\ store.ids \subseteq Id
    /\ pc \in {"idle", "change", "tick", "replay", "write", "tickReplay", "tickWrite",
               "apply", "boot", "down"}

\* A row that is not marked dirty, and sessions that are neither dirty nor
\* unsure, are on flash as they are in RAM: the next commit, which skips them,
\* loses nothing (table.rs: "every way to change a row goes through this type";
\* state.rs: sessions_unsure).
CleanMeansSaved ==
    Free => LET disk == Recovered(kv)
            IN  /\ \A id \in Id \ table.dirty : disk.rows[id] = table.rows[id]
                /\ ~SessionsDirty => disk.sess = sess.at
                /\ store.meta \in {None, disk.meta}

\* The board's state changes on flash all at once or not at all, whatever fails
\* and wherever the power is cut, and a request that fails leaves the state as
\* it was before it (AtomicStore).
Atomic == INSTANCE AtomicStore WITH
    State <- Tables,
    live <- Live,
    saved <- IF Changing THEN Kept ELSE Live,
    durable <- Recovered(kv),
    changing <- Changing,
    running <- pc \notin {"down", "boot"}

\* A step of Atomic, or none.
AtomicStep == [Atomic!Next]_(Atomic!vars)

ImplementsAtomic == Atomic!Spec

-----------------------------------------------------------------------------
(* Proofs. *)

Entry == [op : {"changed", "added", "removed"}, id : Id, row : Maybe(Value)]

\* Flash is a board: the rows and sessions the indexes name are there, and without
\* a meta record there are none.
Board(f) ==
    /\ f[<<"index">>] \subseteq Id /\ f[<<"is">>] \subseteq Person
    /\ \A id \in f[<<"index">>] : f[RowKey(id)] \in Value
    /\ \A p \in f[<<"is">>] : f[SessionKey(p)] \in Sessions
    /\ f[<<"meta">>] \in Maybe(Value)
    /\ f[<<"meta">>] = None => f[<<"index">>] = {} /\ f[<<"is">>] = {}

Writes(f) == f = [key \in DOMAIN f |-> f[key]] /\ DOMAIN f \subseteq Key \ {<<"tx">>}

FlashInv == DOMAIN kv = Key /\ Writes(Journal(kv)) /\ Board(Whole(kv))

\* Each write of the journal is yet to be done, or done.
TodoInv ==
    /\ pc \in {"replay", "tickReplay", "boot", "apply"} =>
          /\ Writes(todo) /\ DOMAIN todo \subseteq DOMAIN Journal(kv)
          /\ \A key \in DOMAIN Journal(kv) :
                (IF key \in DOMAIN todo THEN todo ELSE kv)[key] = Journal(kv)[key]
    /\ pc \in {"idle", "change", "tick", "replay", "tickReplay"} /\ ~store.pending => Journal(kv) = Nothing
    /\ pc \in {"write", "tickWrite"} => Journal(kv) = Nothing

\* Rows are undone to what they were only if they are marked.
TableInv ==
    /\ table \in [rows : [Id -> Maybe(Value)], dirty : SUBSET Id, touched : SUBSET Id, undo : Seq(Entry)]
    /\ Len(table.undo) <= MaxUndo
    /\ \A k \in 1..Len(table.undo) : table.undo[k].id \in table.dirty

StateInv ==
    /\ sess \in [at : [Person -> Maybe(Sessions)], dirty : BOOLEAN, unsure : BOOLEAN]
    /\ meta \in Value
    /\ store \in [ids : SUBSET Id, sess : [Person -> Maybe(Sessions)], meta : Maybe(Value), pending : BOOLEAN]
    /\ pc \in {"idle", "change", "tick", "replay", "write", "tickReplay", "tickWrite",
               "apply", "boot", "down"}

\* The store knows what is on flash, and what is not marked is there.
StoreInv ==
    LET f == Whole(kv)
    IN  /\ pc \notin {"down", "boot", "apply"} =>
              /\ store.ids = f[<<"index">>] /\ store.sess = SessionsOn(f) /\ store.meta = f[<<"meta">>]
              /\ \A id \in Id \ table.dirty : RowsOn(f)[id] = table.rows[id]
              /\ ~SessionsDirty => SessionsOn(f) = sess.at
        /\ pc = "apply" =>
              /\ f[<<"index">>] = Present(table.rows)
              /\ RowsOn(f) = table.rows /\ SessionsOn(f) = sess.at /\ f[<<"meta">>] = meta
              /\ ~SessionsDirty => store.sess = sess.at

\* There is an entry since the savepoint for each row touched since.
Covered(t, at) == \A id \in t.touched : \E k \in (at + 1)..Len(t.undo) : t.undo[k].id = id

\* A savepoint knows whether its sessions are on flash.
PointInv ==
    Changing =>
        /\ point \in [at : 0..Len(table.undo), meta : Value, sess : [Person -> Maybe(Sessions)], sessDirty : BOOLEAN]
        /\ ~point.sessDirty => point.sess = SessionsOn(Whole(kv))
        /\ Covered(table, point.at)

IInv == FlashInv /\ TodoInv /\ TableInv /\ StateInv /\ StoreInv /\ PointInv

-----------------------------------------------------------------------------
(* The undo log. *)

\* A set of numbers has a least one.
LEMMA LeastNumber ==
    ASSUME NEW S \in SUBSET Nat, S # {}
    PROVE  \E x \in S : \A y \in S : x <= y
<1> DEFINE Below == {0..(n - 1) : n \in S}
<1>1. Below \subseteq FiniteSubsetsOf(Nat) /\ Below # {}
  <2>1. \A n \in S : 0..(n - 1) \subseteq Nat /\ IsFiniteSet(0..(n - 1))
    BY FS_Interval
  <2> QED BY <2>1 DEF FiniteSubsetsOf
<1>2. PICK B \in Below : \A C \in Below : ~(<<C, B>> \in StrictSubsetOrdering(Nat))
  BY <1>1, FS_StrictSubsetOrderingWellFounded, WFMin, Zenon
<1>3. PICK x \in S : B = 0..(x - 1)
  OBVIOUS
<1>4. ASSUME NEW y \in S, y < x PROVE FALSE
  <2>1. 0..(y - 1) \subseteq B /\ 0..(y - 1) # B
    BY <1>3, <1>4
  <2>2. <<0..(y - 1), B>> \in StrictSubsetOrdering(Nat)
    BY <2>1, <1>1, <1>3 DEF StrictSubsetOrdering, FiniteSubsetsOf
  <2> QED BY <1>2, <2>2
<1> QED BY <1>4

\* What undoing one entry after the other means.
Steps(back, rows, undo) ==
    back = [n \in 0..Len(undo) |->
               IF n = 0 THEN rows ELSE Undone(back[n - 1], undo[Len(undo) + 1 - n])]

\* Entries can be undone one after the other, however many there are.
LEMMA UnwoundSteps ==
    ASSUME NEW rows, NEW undo, Len(undo) \in Nat
    PROVE  Steps(Unwound(rows, undo), rows, undo)
<1> DEFINE N == Len(undo)
           Next_(f, n) == IF n = 0 THEN rows ELSE Undone(f[n - 1], undo[N + 1 - n])
           Upto(f, m) == f = [n \in 0..m |-> Next_(f, n)]
           Bad == {m \in 0..N : \A f : ~Upto(f, m)}
<1> HIDE DEF Upto
<1>1. ASSUME NEW m \in Bad, \A l \in Bad : m <= l PROVE FALSE
  <2>1. CASE m = 0
    <3> DEFINE g == [n \in 0..0 |-> rows]
    <3>1. Upto(g, 0)
      BY DEF Upto
    <3> QED BY <3>1, <2>1
  <2>2. CASE m # 0
    <3>1. m - 1 \in 0..N /\ m - 1 \notin Bad
      BY <1>1, <2>2
    <3>2. PICK f : Upto(f, m - 1)
      BY <3>1
    <3> DEFINE g == [n \in 0..m |-> IF n = m THEN Next_(f, m) ELSE f[n]]
    <3>3. \A n \in 0..(m - 1) : g[n] = f[n] /\ f[n] = Next_(f, n)
      BY <3>2, <2>2 DEF Upto
    <3>4. \A n \in 0..m : Next_(g, n) = Next_(f, n)
      BY <3>3, <2>2
    <3>5. \A n \in 0..m : g[n] = Next_(f, n)
      <4>1. \A n \in 0..m : n # m => n \in 0..(m - 1)
        OBVIOUS
      <4> HIDE DEF Next_
      <4> QED BY <3>3, <4>1
    <3>6. Upto(g, m)
      <4>1. \A n \in 0..m : g[n] = Next_(g, n)
        <5> HIDE DEF Next_, g
        <5> QED BY <3>4, <3>5
      <4>2. g = [n \in 0..m |-> g[n]]
        OBVIOUS
      <4> HIDE DEF g
      <4> QED BY <4>1, <4>2 DEF Upto
    <3> QED BY <3>6
  <2> QED BY <2>1, <2>2
<1>2. Bad = {}
  <2>1. Bad \in SUBSET Nat
    OBVIOUS
  <2> QED BY <2>1, <1>1, LeastNumber
<1>3. \E f : Upto(f, N)
  BY <1>2
<1> QED BY <1>3 DEF Unwound, Steps, Upto

\* Undoing reads the log from its end, one entry at a time.
LEMMA UnwoundFrom ==
    ASSUME NEW rows, NEW undo, Len(undo) \in Nat
    PROVE  /\ Unwound(rows, undo)[0] = rows
           /\ \A n \in 1..Len(undo) :
                 Unwound(rows, undo)[n] = Undone(Unwound(rows, undo)[n - 1], undo[Len(undo) + 1 - n])
<1> DEFINE back == Unwound(rows, undo)
<1>1. Steps(back, rows, undo)
  BY UnwoundSteps
<1> HIDE DEF back
<1>2. \A n \in 0..Len(undo) :
         back[n] = IF n = 0 THEN rows ELSE Undone(back[n - 1], undo[Len(undo) + 1 - n])
  BY <1>1, Zenon DEF Steps
<1>3. back[0] = rows
  BY <1>2
<1>4. \A n \in 1..Len(undo) : back[n] = Undone(back[n - 1], undo[Len(undo) + 1 - n])
  BY <1>2
<1> QED BY <1>3, <1>4 DEF back

\* Undone rows are rows, and only rows that have an entry change.
LEMMA UnwoundType ==
    ASSUME NEW rows \in [Id -> Maybe(Value)], NEW undo \in Seq(Entry)
    PROVE  \A n \in 0..Len(undo) :
              /\ Unwound(rows, undo)[n] \in [Id -> Maybe(Value)]
              /\ \A id \in Id : (\A k \in 1..Len(undo) : undo[k].id # id) =>
                                   Unwound(rows, undo)[n][id] = rows[id]
<1> DEFINE N == Len(undo)
           back == Unwound(rows, undo)
           Quiet(id) == \A k \in 1..N : undo[k].id # id
           Good(n) == /\ back[n] \in [Id -> Maybe(Value)]
                      /\ \A id \in Id : Quiet(id) => back[n][id] = rows[id]
           Bad == {n \in 0..N : ~Good(n)}
<1>1. /\ N \in Nat /\ back[0] = rows
      /\ \A n \in 1..N : back[n] = Undone(back[n - 1], undo[N + 1 - n])
  BY UnwoundFrom
<1>2. \A k \in 1..N : undo[k] \in Entry
  OBVIOUS
<1>3. ASSUME NEW n \in 1..N, Good(n - 1) PROVE Good(n)
  <2> DEFINE e == undo[N + 1 - n]
             r == back[n - 1]
  <2>1. e \in Entry /\ N + 1 - n \in 1..N
    BY <1>1, <1>2
  <2>2. back[n] = Undone(r, e)
    BY <1>1
  <2>3. \A id \in Id : Quiet(id) => e.id # id
    BY <2>1
  <2>4. r \in [Id -> Maybe(Value)] /\ \A id \in Id : Quiet(id) => r[id] = rows[id]
    BY <1>3
  <2> HIDE DEF e, r, Quiet
  <2>5. Undone(r, e) \in [Id -> Maybe(Value)] /\ \A id \in Id : e.id # id => Undone(r, e)[id] = r[id]
    BY <2>1, <2>4 DEF Undone, Entry, Maybe
  <2> QED BY <2>2, <2>3, <2>4, <2>5
<1>4. Good(0)
  BY <1>1
<1> HIDE DEF Good, back
<1>5. ASSUME NEW n \in Bad, \A l \in Bad : n <= l PROVE FALSE
  <2>1. n # 0 /\ n \in 1..N /\ n - 1 \in 0..N /\ n - 1 \notin Bad
    BY <1>1, <1>4, <1>5
  <2> QED BY <2>1, <1>3
<1>6. Bad = {}
  <2>1. Bad \in SUBSET Nat
    BY <1>1
  <2> QED BY <2>1, <1>5, LeastNumber
<1> QED BY <1>6 DEF Good, back

\* Rows that are there and have an entry may differ: they are undone alike.
LEMMA UnwoundSame ==
    ASSUME NEW r \in [Id -> Maybe(Value)], NEW s \in [Id -> Maybe(Value)],
           NEW undo \in Seq(Entry), NEW at \in 0..Len(undo),
           \A id \in Id : \/ r[id] = s[id]
                          \/ /\ r[id] # None /\ s[id] # None
                             /\ \E k \in (at + 1)..Len(undo) : undo[k].id = id
    PROVE  Unwound(r, undo)[Len(undo) - at] = Unwound(s, undo)[Len(undo) - at]
<1> DEFINE N == Len(undo)
           f == Unwound(r, undo)
           g == Unwound(s, undo)
           Left(n, id) == \E k \in (at + 1)..(N - n) : undo[k].id = id
           Good(n) == \A id \in Id : \/ f[n][id] = g[n][id]
                                     \/ f[n][id] # None /\ g[n][id] # None /\ Left(n, id)
           Bad == {n \in 0..(N - at) : ~Good(n)}
<1>1. /\ N \in Nat /\ f[0] = r /\ g[0] = s
      /\ \A n \in 1..N : f[n] = Undone(f[n - 1], undo[N + 1 - n]) /\ g[n] = Undone(g[n - 1], undo[N + 1 - n])
  BY UnwoundFrom
<1>2. \A n \in 0..N : f[n] \in [Id -> Maybe(Value)] /\ g[n] \in [Id -> Maybe(Value)]
  BY UnwoundType
<1>3. \A k \in 1..N : undo[k] \in Entry
  OBVIOUS
<1>4. ASSUME NEW n \in 1..(N - at), Good(n - 1) PROVE Good(n)
  <2> DEFINE e == undo[N + 1 - n]
             a == f[n - 1]
             b == g[n - 1]
  <2>1. n \in 1..N /\ n - 1 \in 0..N /\ N + 1 - n \in 1..N
    BY <1>1
  <2>2. /\ e \in Entry
        /\ f[n] = Undone(a, e) /\ g[n] = Undone(b, e)
        /\ a \in [Id -> Maybe(Value)] /\ b \in [Id -> Maybe(Value)]
    BY <1>1, <1>2, <1>3, <2>1
  <2>3. \A id \in Id : Left(n - 1, id) => Left(n, id) \/ e.id = id
    <3>1. \A k \in (at + 1)..(N - (n - 1)) : k \in (at + 1)..(N - n) \/ k = N + 1 - n
      BY <1>1, <2>1
    <3> QED BY <3>1
  <2>4. \A id \in Id : \/ a[id] = b[id]
                       \/ a[id] # None /\ b[id] # None /\ (Left(n, id) \/ e.id = id)
    BY <1>4, <2>3
  <2> HIDE DEF e, a, b, Left, f, g, N
  <2>5. \A id \in Id : \/ Undone(a, e)[id] = Undone(b, e)[id]
                       \/ e.id # id /\ Undone(a, e)[id] = a[id] /\ Undone(b, e)[id] = b[id]
    BY <2>2, <2>4 DEF Undone, Entry, Maybe
  <2> QED BY <2>2, <2>4, <2>5
<1>5. Good(0)
  BY <1>1
<1> HIDE DEF Good, f, g
<1>6. ASSUME NEW n \in Bad, \A l \in Bad : n <= l PROVE FALSE
  <2>1. n \in 1..(N - at) /\ n - 1 \in 0..(N - at) /\ n - 1 \notin Bad
    BY <1>1, <1>5, <1>6
  <2> QED BY <2>1, <1>4
<1>7. Bad = {}
  <2>1. Bad \in SUBSET Nat
    BY <1>1
  <2> QED BY <2>1, <1>6, LeastNumber
<1>8. Good(N - at) /\ N - at \in 0..N
  BY <1>1, <1>7
<1>9. \A id \in Id : ~Left(N - at, id)
  BY <1>1
<1>10. \A id \in Id : f[N - at][id] = g[N - at][id]
  BY <1>8, <1>9 DEF Good
<1>11. f[N - at] \in [Id -> Maybe(Value)] /\ g[N - at] \in [Id -> Maybe(Value)]
  BY <1>2, <1>8
<1> QED BY <1>10, <1>11 DEF f, g

\* An entry that is added is undone first.
LEMMA UnwoundAppend ==
    ASSUME NEW rows, NEW undo \in Seq(Entry), NEW e \in Entry
    PROVE  \A n \in 0..Len(undo) : Unwound(rows, Append(undo, e))[n + 1] = Unwound(Undone(rows, e), undo)[n]
<1> DEFINE N == Len(undo)
           before == Undone(rows, e)
           more == Append(undo, e)
           f == Unwound(rows, more)
           g == Unwound(before, undo)
           Bad == {n \in 0..N : f[n + 1] # g[n]}
<1>1. /\ N \in Nat /\ Len(more) = N + 1 /\ more[N + 1] = e
      /\ \A k \in 1..N : more[k] = undo[k]
  OBVIOUS
<1>2. /\ f[0] = rows
      /\ \A n \in 1..(N + 1) : f[n] = Undone(f[n - 1], more[N + 2 - n])
  <2>1. Len(more) \in Nat
    BY <1>1
  <2>2. /\ f[0] = rows
        /\ \A n \in 1..Len(more) : f[n] = Undone(f[n - 1], more[Len(more) + 1 - n])
    <3> HIDE DEF more
    <3> QED BY <2>1, UnwoundFrom
  <2>3. \A n \in 1..(N + 1) : Len(more) + 1 - n = N + 2 - n
    BY <1>1
  <2> HIDE DEF f, more
  <2> QED BY <1>1, <2>2, <2>3
<1>3. /\ g[0] = before
      /\ \A n \in 1..N : g[n] = Undone(g[n - 1], undo[N + 1 - n])
  BY <1>1, UnwoundFrom
<1> HIDE DEF f, g, more, before
<1>4. f[1] = before
  <2>1. 1 \in 1..(N + 1) /\ N + 2 - 1 = N + 1 /\ 1 - 1 = 0
    BY <1>1
  <2> QED BY <1>1, <1>2, <2>1 DEF before
<1>5. ASSUME NEW n \in 1..N, f[n] = g[n - 1] PROVE f[n + 1] = g[n]
  <2>1. /\ n + 1 \in 1..(N + 1) /\ n + 1 - 1 = n /\ N + 2 - (n + 1) = N + 1 - n
        /\ N + 1 - n \in 1..N
    BY <1>1
  <2>2. f[n + 1] = Undone(f[n], more[N + 1 - n])
    BY <1>2, <2>1
  <2> QED BY <1>1, <1>3, <1>5, <2>1, <2>2
<1>6. ASSUME NEW n \in Bad, \A l \in Bad : n <= l PROVE FALSE
  <2>1. n \in 0..N /\ n # 0
    BY <1>3, <1>4
  <2>2. n \in 1..N /\ n - 1 \in 0..N /\ n - 1 \notin Bad /\ n - 1 + 1 = n
    BY <1>1, <1>6, <2>1
  <2> QED BY <2>2, <1>5
<1>7. Bad = {}
  <2>1. Bad \in SUBSET Nat
    BY <1>1
  <2> QED BY <2>1, <1>6, LeastNumber
<1> QED BY <1>7 DEF f, g, more, before

-----------------------------------------------------------------------------
(* Flash. *)

\* No two records share a key.
LEMMA KeysApart ==
    /\ \A id : RowKey(id)[1] = "row" /\ RowKey(id)[2] = id
    /\ \A p : SessionKey(p)[1] = "s" /\ SessionKey(p)[2] = p
    /\ <<"index">>[1] = "index" /\ <<"is">>[1] = "is" /\ <<"meta">>[1] = "meta" /\ <<"tx">>[1] = "tx"
BY DEF RowKey, SessionKey

\* There is a key for each.
LEMMA KeysThere ==
    /\ \A id \in Id : RowKey(id) \in Key
    /\ \A p \in Person : SessionKey(p) \in Key
    /\ {<<"index">>, <<"is">>, <<"meta">>, <<"tx">>} \subseteq Key
BY DEF Key

\* What is read of flash is in the records of other keys than the journal's.
Alike(f, g) ==
    /\ \A id \in Id : f[RowKey(id)] = g[RowKey(id)]
    /\ \A p \in Person : f[SessionKey(p)] = g[SessionKey(p)]
    /\ f[<<"index">>] = g[<<"index">>] /\ f[<<"is">>] = g[<<"is">>] /\ f[<<"meta">>] = g[<<"meta">>]

\* Flashes that are alike are read alike.
LEMMA AlikeIsRead ==
    ASSUME NEW f, NEW g, Alike(f, g)
    PROVE  /\ RowsOn(f) = RowsOn(g) /\ SessionsOn(f) = SessionsOn(g) /\ Load(f) = Load(g)
           /\ Board(g) => Board(f)
BY DEF Alike, RowsOn, SessionsOn, Load, Board

\* Applying one write of a journal that is still there changes nothing for a boot.
LEMMA ReplayKeeps ==
    ASSUME FlashInv, Writes(todo), DOMAIN todo \subseteq DOMAIN Journal(kv), todo # Nothing,
           \A key \in DOMAIN Journal(kv) :
              (IF key \in DOMAIN todo THEN todo ELSE kv)[key] = Journal(kv)[key],
           kv' = Put(kv, todo, NextKey(todo)), todo' = Without(todo, NextKey(todo))
    PROVE  /\ FlashInv' /\ Whole(kv') = Whole(kv) /\ Journal(kv') = Journal(kv)
           /\ Writes(todo') /\ DOMAIN todo' \subseteq DOMAIN Journal(kv')
           /\ \A key \in DOMAIN Journal(kv') :
                 (IF key \in DOMAIN todo' THEN todo' ELSE kv')[key] = Journal(kv')[key]
<1> DEFINE k == NextKey(todo)
<1>1. k \in DOMAIN todo
  BY DEF Writes, Nothing, NextKey
<1>2. k \in Key /\ k # <<"tx">> /\ k \in DOMAIN Journal(kv) /\ todo[k] = Journal(kv)[k]
  BY <1>1 DEF Writes
<1> HIDE DEF k
<1>3. kv' = [kv EXCEPT ![k] = todo[k]]
  BY DEF Put, k
<1>4. DOMAIN kv' = Key /\ Journal(kv') = Journal(kv) /\ \A key \in Key \ {k} : kv'[key] = kv[key]
  BY <1>2, <1>3, KeysThere DEF Journal, FlashInv
<1>5. kv'[k] = Journal(kv)[k]
  BY <1>2, <1>3 DEF FlashInv
<1>6. Whole(kv') = Whole(kv)
  BY <1>2, <1>4 DEF Whole, PutAll, FlashInv
<1>7. DOMAIN todo' = DOMAIN todo \ {k} /\ \A key \in DOMAIN todo' : todo'[key] = todo[key]
  BY DEF Without, k
<1>8. Writes(todo')
  BY <1>7 DEF Writes, Without
<1>9. \A key \in DOMAIN Journal(kv') :
         (IF key \in DOMAIN todo' THEN todo' ELSE kv')[key] = Journal(kv')[key]
  BY <1>2, <1>4, <1>5, <1>7 DEF FlashInv, Writes
<1> QED BY <1>4, <1>6, <1>7, <1>8, <1>9 DEF FlashInv

\* A journal that was applied can go.
LEMMA JournalGoes ==
    ASSUME FlashInv, todo = Nothing,
           \A key \in DOMAIN Journal(kv) :
              (IF key \in DOMAIN todo THEN todo ELSE kv)[key] = Journal(kv)[key],
           kv' = [kv EXCEPT ![<<"tx">>] = Nothing]
    PROVE  FlashInv' /\ Journal(kv') = Nothing /\ Alike(Whole(kv'), Whole(kv)) /\ Alike(kv, Whole(kv))
<1>1. DOMAIN kv' = Key /\ Journal(kv') = Nothing /\ \A key \in Key : key # <<"tx">> => kv'[key] = kv[key]
  BY KeysThere DEF Journal, FlashInv
<1>2. \A key \in DOMAIN Journal(kv) : kv[key] = Journal(kv)[key]
  BY DEF Nothing
<1>3. \A key \in Key : key # <<"tx">> => Whole(kv')[key] = kv[key] /\ Whole(kv)[key] = kv[key]
  BY <1>1, <1>2 DEF Whole, PutAll, FlashInv, Nothing
<1>4. Alike(Whole(kv'), Whole(kv)) /\ Alike(kv, Whole(kv))
  BY <1>3, KeysThere, KeysApart DEF Alike
<1>5. Writes(Journal(kv')) /\ Board(Whole(kv'))
  BY <1>1, <1>4, AlikeIsRead DEF Writes, Nothing, FlashInv
<1> QED BY <1>1, <1>4, <1>5 DEF FlashInv

-----------------------------------------------------------------------------
(* What a commit writes. *)

\* The records that are written, and what with.
LEMMA ChangesAre ==
    ASSUME TableInv
    PROVE
    /\ Writes(Changes)
    /\ \A id \in Id :
          RowKey(id) \in DOMAIN Changes <=> id \in table.dirty /\ id \in Present(table.rows) \cup store.ids
    /\ \A p \in Person :
          SessionKey(p) \in DOMAIN Changes <=> SessionsDirty /\ sess.at[p] # store.sess[p]
    /\ <<"index">> \in DOMAIN Changes <=> Present(table.rows) # store.ids
    /\ <<"is">> \in DOMAIN Changes <=> SessionsDirty /\ Present(sess.at) # Present(store.sess)
    /\ <<"meta">> \in DOMAIN Changes <=> meta # store.meta
    /\ \A key \in DOMAIN Changes : Changes[key] = Content(key)
<1> DEFINE D == TableWrites \cup SessionWrites \cup {m \in {<<"meta">>} : meta # store.meta}
<1>1. DOMAIN Changes = D /\ \A key \in D : Changes[key] = Content(key)
  BY DEF Changes
<1>2. \A id \in Id :
         RowKey(id) \in D <=> id \in table.dirty /\ id \in Present(table.rows) \cup store.ids
  BY KeysApart DEF TableWrites, SessionWrites
<1>3. \A p \in Person : SessionKey(p) \in D <=> SessionsDirty /\ sess.at[p] # store.sess[p]
  BY KeysApart DEF TableWrites, SessionWrites
<1>4. /\ <<"index">> \in D <=> Present(table.rows) # store.ids
      /\ <<"is">> \in D <=> SessionsDirty /\ Present(sess.at) # Present(store.sess)
      /\ <<"meta">> \in D <=> meta # store.meta
  BY KeysApart DEF TableWrites, SessionWrites
<1>5. D \subseteq Key \ {<<"tx">>}
  BY KeysApart, KeysThere DEF TableWrites, SessionWrites, TableInv
<1>6. Changes = [key \in DOMAIN Changes |-> Changes[key]]
  BY DEF Changes
<1> HIDE DEF D
<1> QED BY <1>1, <1>2, <1>3, <1>4, <1>5, <1>6 DEF Writes

\* Records that were changed and those that were not are the state: with the
\* changes in place flash is the board in RAM.
LEMMA ChangesLand ==
    ASSUME RecordStoreAssumption, IInv, pc \notin {"down", "boot", "apply"},
           NEW g, \A key \in Key \ {<<"tx">>} :
                     g[key] = IF key \in DOMAIN Changes THEN Changes[key] ELSE Whole(kv)[key]
    PROVE  /\ Board(g)
           /\ g[<<"index">>] = Present(table.rows) /\ g[<<"meta">>] = meta
           /\ RowsOn(g) = table.rows /\ SessionsOn(g) = sess.at
<1> DEFINE f == Whole(kv)
<1>1. /\ table.rows \in [Id -> Maybe(Value)] /\ table.dirty \subseteq Id
      /\ sess.at \in [Person -> Maybe(Sessions)] /\ meta \in Value
      /\ Board(f)
      /\ store.ids = f[<<"index">>] /\ store.sess = SessionsOn(f) /\ store.meta = f[<<"meta">>]
      /\ \A id \in Id \ table.dirty : RowsOn(f)[id] = table.rows[id]
      /\ ~SessionsDirty => SessionsOn(f) = sess.at
  BY DEF IInv, FlashInv, TableInv, StateInv, StoreInv
<1>2. /\ \A id \in Id : RowKey(id) # <<"tx">> /\ RowKey(id) \in Key
      /\ \A p \in Person : SessionKey(p) # <<"tx">> /\ SessionKey(p) \in Key
      /\ \A key \in {<<"index">>, <<"is">>, <<"meta">>} : key \in Key /\ key # <<"tx">>
  BY KeysThere, KeysApart
<1> HIDE DEF f
<1>3. \A key \in Key \ {<<"tx">>} : g[key] = IF key \in DOMAIN Changes THEN Content(key) ELSE f[key]
  BY ChangesAre DEF f, IInv
<1>4. /\ \A id \in Id : Content(RowKey(id)) = table.rows[id]
      /\ \A p \in Person : Content(SessionKey(p)) = sess.at[p]
      /\ Content(<<"index">>) = Present(table.rows) /\ Content(<<"is">>) = Present(sess.at)
      /\ Content(<<"meta">>) = meta
  BY KeysApart DEF Content
<1>5. g[<<"index">>] = Present(table.rows) /\ g[<<"meta">>] = meta
  BY <1>1, <1>2, <1>3, <1>4, ChangesAre DEF IInv
<1>6. None \notin Value \cup Sessions
  BY DEF RecordStoreAssumption
<1>7. Present(SessionsOn(f)) = f[<<"is">>]
  BY <1>1, <1>6 DEF Present, SessionsOn, Board
<1>8. g[<<"is">>] = Present(sess.at)
  BY <1>1, <1>2, <1>3, <1>4, <1>7, ChangesAre DEF IInv
<1>9. \A id \in Present(table.rows) : g[RowKey(id)] = table.rows[id]
  <2>1. ASSUME NEW id \in Present(table.rows) PROVE g[RowKey(id)] = table.rows[id]
    <3>1. id \in Id /\ table.rows[id] # None
      BY <1>1 DEF Present
    <3>2. CASE id \in table.dirty
      BY <1>2, <1>3, <1>4, <3>1, <3>2, ChangesAre DEF IInv
    <3>3. CASE id \notin table.dirty
      <4>1. RowsOn(f)[id] = table.rows[id] /\ RowKey(id) \notin DOMAIN Changes
        BY <1>1, <3>1, <3>3, ChangesAre DEF IInv
      <4>2. f[RowKey(id)] = table.rows[id]
        BY <4>1, <3>1 DEF RowsOn
      <4> QED BY <1>2, <1>3, <3>1, <4>1, <4>2
    <3> QED BY <3>2, <3>3
  <2> QED BY <2>1
<1>10. \A p \in Present(sess.at) : g[SessionKey(p)] = sess.at[p]
  <2>1. ASSUME NEW p \in Present(sess.at) PROVE g[SessionKey(p)] = sess.at[p]
    <3>1. p \in Person /\ sess.at[p] # None
      BY <1>1 DEF Present
    <3>2. CASE SessionKey(p) \in DOMAIN Changes
      BY <1>2, <1>3, <1>4, <3>1, <3>2
    <3>3. CASE SessionKey(p) \notin DOMAIN Changes
      <4>1. SessionsOn(f)[p] = sess.at[p]
        BY <1>1, <3>1, <3>3, ChangesAre DEF IInv
      <4>2. f[SessionKey(p)] = sess.at[p]
        BY <4>1, <3>1 DEF SessionsOn
      <4> QED BY <1>2, <1>3, <3>1, <3>3, <4>2
    <3> QED BY <3>2, <3>3
  <2> QED BY <2>1
<1>11. RowsOn(g) = table.rows
  BY <1>1, <1>5, <1>9 DEF RowsOn, Present
<1>12. SessionsOn(g) = sess.at
  BY <1>1, <1>8, <1>10 DEF SessionsOn, Present
<1>13. Board(g)
  BY <1>1, <1>5, <1>6, <1>8, <1>9, <1>10 DEF Board, Present, Maybe
<1> QED BY <1>5, <1>11, <1>12, <1>13

-----------------------------------------------------------------------------
(* Edits and their rollback. *)

\* What an edit of a row leaves to a rollback.
EditOK(t, u) ==
    /\ t.dirty \subseteq u.dirty
    /\ \A x \in Id \ u.dirty : u.rows[x] = t.rows[x]
    /\ \A at \in 0..Len(t.undo) :
          Covered(t, at) => /\ at \in 0..Len(u.undo) /\ Covered(u, at)
                            /\ TableRollback(u, at).rows = TableRollback(t, at).rows

TableType == [rows : [Id -> Maybe(Value)], dirty : SUBSET Id, touched : SUBSET Id, undo : Seq(Entry)]

\* An edit that is logged: the entry undoes it.
LEMMA LoggedEdit ==
    ASSUME NEW t \in TableType, NEW u \in TableType, NEW e \in Entry,
           u.undo = Append(t.undo, e), Undone(u.rows, e) = t.rows,
           e.id \in u.dirty, t.dirty \subseteq u.dirty, u.touched \subseteq t.touched \cup {e.id},
           \A x \in Id : x # e.id => u.rows[x] = t.rows[x]
    PROVE  EditOK(t, u)
<1> DEFINE N == Len(t.undo)
<1>1. t.undo \in Seq(Entry) /\ N \in Nat /\ Len(u.undo) = N + 1
  BY DEF TableType
<1>2. u.undo[N + 1] = e /\ \A k \in 1..N : u.undo[k] = t.undo[k]
  BY <1>1
<1>3. ASSUME NEW at \in 0..N, Covered(t, at) PROVE Covered(u, at)
  <2>1. ASSUME NEW x \in u.touched PROVE \E k \in (at + 1)..(N + 1) : u.undo[k].id = x
    <3>1. CASE x = e.id
      BY <1>1, <1>2, <3>1
    <3>2. CASE x # e.id
      <4>1. PICK k \in (at + 1)..N : t.undo[k].id = x
        BY <1>3, <3>2 DEF Covered
      <4> QED BY <1>1, <1>2, <4>1
    <3> QED BY <3>1, <3>2
  <2> QED BY <1>1, <2>1 DEF Covered
<1>4. ASSUME NEW at \in 0..N PROVE TableRollback(u, at).rows = TableRollback(t, at).rows
  <2>1. N - at \in 0..N /\ N + 1 - at = (N - at) + 1
    BY <1>1
  <2>2. Unwound(u.rows, Append(t.undo, e))[(N - at) + 1] = Unwound(t.rows, t.undo)[N - at]
    <3>1. \A n \in 0..Len(t.undo) : Unwound(u.rows, Append(t.undo, e))[n + 1] = Unwound(t.rows, t.undo)[n]
      <4>1. \A n \in 0..Len(t.undo) :
               Unwound(u.rows, Append(t.undo, e))[n + 1] = Unwound(Undone(u.rows, e), t.undo)[n]
        BY <1>1, UnwoundAppend
      <4> QED BY <4>1
    <3> QED BY <2>1, <3>1
  <2> HIDE DEF N
  <2>3. Unwound(u.rows, u.undo)[Len(u.undo) - at] = Unwound(t.rows, t.undo)[N - at]
    BY <1>1, <2>1, <2>2
  <2> QED BY <2>3 DEF TableRollback, TableType, N
<1> QED BY <1>1, <1>3, <1>4 DEF EditOK

\* A row that was copied before is changed without another entry.
LEMMA SilentEdit ==
    ASSUME NEW t \in TableType, NEW u \in TableType, NEW id \in t.touched,
           u.undo = t.undo, u.touched = t.touched, id \in u.dirty, t.dirty \subseteq u.dirty,
           t.rows[id] # None, u.rows[id] # None, \A x \in Id : x # id => u.rows[x] = t.rows[x]
    PROVE  EditOK(t, u)
<1> DEFINE N == Len(t.undo)
<1>1. /\ t.undo \in Seq(Entry) /\ N \in Nat
      /\ t.rows \in [Id -> Maybe(Value)] /\ u.rows \in [Id -> Maybe(Value)]
  BY DEF TableType
<1>2. ASSUME NEW at \in 0..N, Covered(t, at)
      PROVE  TableRollback(u, at).rows = TableRollback(t, at).rows
  <2>1. \E k \in (at + 1)..N : t.undo[k].id = id
    BY <1>2 DEF Covered
  <2>2. Unwound(u.rows, t.undo)[N - at] = Unwound(t.rows, t.undo)[N - at]
    <3>1. \A x \in Id : \/ u.rows[x] = t.rows[x]
                          \/ /\ u.rows[x] # None /\ t.rows[x] # None
                             /\ \E k \in (at + 1)..Len(t.undo) : t.undo[k].id = x
      BY <2>1
    <3> QED BY <1>1, <3>1, UnwoundSame
  <2> QED BY <2>2 DEF TableRollback, TableType
<1> QED BY <1>2 DEF EditOK, Covered

\* Every edit of a row is one of the two.
LEMMA EditRowStep ==
    ASSUME RecordStoreAssumption, TableInv, StateInv, NEW id \in Id, EditRow(id)
    PROVE  TableInv' /\ EditOK(table, table') /\ meta' \in Value /\ UNCHANGED sess
<1>1. table \in TableType /\ Len(table.undo) \in Nat /\ None \notin Value
  BY DEF TableInv, TableType, RecordStoreAssumption
<1>2. meta' \in Value /\ UNCHANGED sess /\ Len(table.undo) < MaxUndo
  BY DEF EditRow, HasRoom, StateInv
<1>3. ASSUME NEW e \in Entry, e.id = id, table' \in TableType, table'.undo = Append(table.undo, e),
             Undone(table'.rows, e) = table.rows, table'.dirty = table.dirty \cup {id},
             table'.touched \subseteq table.touched \cup {id},
             \A x \in Id : x # id => table'.rows[x] = table.rows[x]
      PROVE  TableInv' /\ EditOK(table, table')
  <2>1. EditOK(table, table')
    BY <1>1, <1>3, LoggedEdit
  <2>2. Len(table'.undo) <= MaxUndo /\ \A k \in 1..Len(table'.undo) : table'.undo[k].id \in table'.dirty
    BY <1>1, <1>2, <1>3 DEF TableInv, TableType, RecordStoreAssumption
  <2> QED BY <1>3, <2>1, <2>2 DEF TableInv, TableType
<1>4. CASE \E v \in Value : table.rows[id] = None /\ table' = PushRow(table, id, v)
  <2> DEFINE e == [op |-> "added", id |-> id, row |-> None]
  <2>1. PICK v \in Value : table.rows[id] = None /\ table' = PushRow(table, id, v)
    BY <1>4
  <2>2. e \in Entry
    BY DEF Entry, Maybe
  <2>3. table' \in TableType /\ table'.undo = Append(table.undo, e)
    BY <1>1, <2>1, <2>2 DEF PushRow, TableType, Maybe
  <2>4. /\ Undone(table'.rows, e) = table.rows /\ table'.dirty = table.dirty \cup {id}
        /\ table'.touched \subseteq table.touched \cup {id}
        /\ \A x \in Id : x # id => table'.rows[x] = table.rows[x]
    BY <1>1, <2>1 DEF PushRow, TableType, Undone
  <2> QED BY <1>2, <1>3, <2>2, <2>3, <2>4
<1>5. CASE table.rows[id] # None /\ table' = RemoveRow(table, id)
  <2> DEFINE e == [op |-> "removed", id |-> id, row |-> table.rows[id]]
  <2>1. e \in Entry
    BY <1>1 DEF Entry, TableType
  <2>2. table' \in TableType /\ table'.undo = Append(table.undo, e)
    <3>1. Append(table.undo, e) \in Seq(Entry) /\ [table.rows EXCEPT ![id] = None] \in [Id -> Maybe(Value)]
      BY <1>1, <2>1 DEF TableType, Maybe
    <3>2. table' = [rows |-> [table.rows EXCEPT ![id] = None], dirty |-> table.dirty \cup {id},
                    touched |-> table.touched, undo |-> Append(table.undo, e)]
      BY <1>1, <1>5 DEF RemoveRow, TableType
    <3> HIDE DEF e
    <3> QED BY <1>1, <3>1, <3>2 DEF TableType
  <2>3. /\ Undone(table'.rows, e) = table.rows /\ table'.dirty = table.dirty \cup {id}
        /\ table'.touched \subseteq table.touched \cup {id}
        /\ \A x \in Id : x # id => table'.rows[x] = table.rows[x]
    BY <1>1, <1>5 DEF RemoveRow, TableType, Undone
  <2> QED BY <1>2, <1>3, <2>1, <2>2, <2>3
<1>6. CASE \E v \in Value : table.rows[id] # None /\ table' = ChangeRow(table, id, v)
  <2>1. PICK v \in Value : table.rows[id] # None /\ table' = ChangeRow(table, id, v)
    BY <1>6
  <2>2. /\ table'.rows = [table.rows EXCEPT ![id] = v] /\ table'.dirty = table.dirty \cup {id}
        /\ table'.touched = table.touched \cup {id}
    BY <1>1, <2>1 DEF ChangeRow, Touch, TableType
  <2>3. CASE id \in table.touched
    <3>1. table'.undo = table.undo /\ table' \in TableType
      BY <1>1, <2>1, <2>3 DEF ChangeRow, Touch, TableType, Maybe
    <3>2. table'.touched = table.touched /\ table'.rows[id] # None
      BY <1>1, <2>1, <2>2, <2>3 DEF TableType
    <3>3. EditOK(table, table')
      BY <1>1, <2>1, <2>2, <2>3, <3>1, <3>2, SilentEdit DEF TableType
    <3> QED BY <1>2, <2>2, <3>1, <3>3 DEF TableInv, TableType
  <2>4. CASE id \notin table.touched
    <3> DEFINE e == [op |-> "changed", id |-> id, row |-> table.rows[id]]
    <3>1. e \in Entry
      BY <1>1 DEF Entry, TableType
    <3>2. table' \in TableType /\ table'.undo = Append(table.undo, e)
      <4>1. Append(table.undo, e) \in Seq(Entry) /\ [table.rows EXCEPT ![id] = v] \in [Id -> Maybe(Value)]
        BY <1>1, <3>1 DEF TableType, Maybe
      <4>2. table' = [rows |-> [table.rows EXCEPT ![id] = v], dirty |-> table.dirty \cup {id},
                      touched |-> table.touched \cup {id}, undo |-> Append(table.undo, e)]
        BY <1>1, <2>1, <2>4 DEF ChangeRow, Touch, TableType
      <4> HIDE DEF e
      <4> QED BY <1>1, <4>1, <4>2 DEF TableType
    <3>3. Undone(table'.rows, e) = table.rows
      BY <1>1, <2>1, <2>2 DEF TableType, Undone
    <3> QED BY <1>1, <1>2, <1>3, <2>2, <3>1, <3>2, <3>3 DEF TableType
  <2> QED BY <2>3, <2>4
<1> QED BY <1>2, <1>4, <1>5, <1>6 DEF EditRow

-----------------------------------------------------------------------------
(* The steps keep the invariant. *)

\* A savepoint is taken.
LEMMA BeginStep ==
    ASSUME IInv, Begin
    PROVE  IInv'
<1>1. /\ table \in TableType /\ sess \in [at : [Person -> Maybe(Sessions)], dirty : BOOLEAN, unsure : BOOLEAN]
      /\ pc = "idle" /\ Len(table.undo) \in Nat
  BY DEF IInv, TableInv, StateInv, TableType, Begin, Free
<1>2. table' = [rows |-> table.rows, dirty |-> table.dirty, touched |-> {}, undo |-> table.undo]
  BY <1>1 DEF Begin, TableSavepoint, TableType
<1>3. TableInv' /\ table'.touched = {} /\ table'.rows = table.rows
      /\ table'.dirty = table.dirty /\ table'.undo = table.undo
  BY <1>1, <1>2 DEF IInv, TableInv, TableType
<1>4. FlashInv' /\ TodoInv' /\ StateInv'
  BY <1>1 DEF Begin, IInv, FlashInv, TodoInv, StateInv
<1>5. StoreInv'
  BY <1>1, <1>3 DEF Begin, IInv, StoreInv, SessionsDirty
<1>6. PointInv'
  BY <1>1, <1>3 DEF Begin, IInv, StateInv, StoreInv, PointInv, Covered, Savepoint, SessionsDirty
<1> QED BY <1>3, <1>4, <1>5, <1>6 DEF IInv

\* Rows and sessions are edited, in a request or by housekeeping.
LEMMA EditStep ==
    ASSUME RecordStoreAssumption, IInv, Edit \/ Tick
    PROVE  IInv'
<1>1. /\ pc \in {"idle", "change", "tick"} /\ pc' \in {"change", "tick"} /\ (pc' = "change" <=> pc = "change")
      /\ UNCHANGED <<kv, store, point, todo>>
  BY DEF Edit, Tick, Free
<1>2. FlashInv' /\ TodoInv'
  BY <1>1 DEF IInv, FlashInv, TodoInv
<1>3. CASE \E id \in Id : EditRow(id)
  <2>1. /\ TableInv' /\ EditOK(table, table') /\ meta' \in Value /\ UNCHANGED sess
    BY <1>3, EditRowStep DEF IInv
  <2>2. StateInv'
    BY <1>1, <2>1 DEF IInv, StateInv
  <2>3. StoreInv'
    BY <1>1, <2>1 DEF IInv, StoreInv, EditOK, SessionsDirty
  <2>4. PointInv'
    BY <1>1, <2>1 DEF IInv, PointInv, EditOK, Changing
  <2> QED BY <1>2, <2>1, <2>2, <2>3, <2>4 DEF IInv
<1>4. CASE \E p \in Person : EditSessions(p)
  <2>1. PICK p \in Person, v \in Maybe(Sessions) : sess' = [sess EXCEPT !.at[p] = v, !.dirty = TRUE]
    BY <1>4 DEF EditSessions
  <2>2. UNCHANGED <<table, meta>>
    BY <1>4 DEF EditSessions
  <2>3. StateInv' /\ SessionsDirty'
    BY <1>1, <2>1, <2>2 DEF IInv, StateInv, SessionsDirty
  <2>4. TableInv' /\ StoreInv' /\ PointInv'
    BY <1>1, <2>2, <2>3 DEF IInv, TableInv, StoreInv, PointInv, Changing
  <2> QED BY <1>2, <2>3, <2>4 DEF IInv
<1> QED BY <1>3, <1>4 DEF Edit, Tick

\* A session is dated without a commit.
LEMMA TouchSessionStep ==
    ASSUME IInv, TouchSession
    PROVE  IInv'
<1>1. PICK p \in Person, v \in Sessions : sess' = [sess EXCEPT !.at[p] = v, !.dirty = TRUE]
  BY DEF TouchSession
<1>2. StateInv' /\ SessionsDirty'
  BY <1>1 DEF TouchSession, IInv, StateInv, SessionsDirty, Maybe
<1>3. FlashInv' /\ TodoInv' /\ TableInv' /\ StoreInv' /\ PointInv'
  BY <1>2 DEF TouchSession, Free, IInv, FlashInv, TodoInv, TableInv, StoreInv, PointInv, Changing
<1> QED BY <1>2, <1>3 DEF IInv

\* A request that fails goes back to its savepoint.  Rows that were never marked
\* stay as they are on flash, and sessions that were saved when it began are.
LEMMA FailsStep ==
    ASSUME RecordStoreAssumption, IInv, Changing, Fails
    PROVE  IInv'
<1> DEFINE N == Len(table.undo)
<1>1. /\ table \in TableType /\ N \in Nat /\ point.at \in 0..N
      /\ sess \in [at : [Person -> Maybe(Sessions)], dirty : BOOLEAN, unsure : BOOLEAN]
      /\ point.sess \in [Person -> Maybe(Sessions)] /\ point.meta \in Value /\ point.sessDirty \in BOOLEAN
      /\ pc' = "idle" /\ UNCHANGED <<kv, store>>
  BY DEF IInv, TableInv, StateInv, PointInv, TableType, Fails, Ended
<1>2. /\ table'.rows = Unwound(table.rows, table.undo)[N - point.at]
      /\ table'.dirty = table.dirty /\ table'.touched = {}
      /\ table'.undo = SubSeq(table.undo, 1, point.at)
      /\ table' = [rows |-> table'.rows, dirty |-> table'.dirty, touched |-> table'.touched, undo |-> table'.undo]
  BY <1>1 DEF Fails, Rollback, TableRollback, TableType
<1>3. /\ table'.rows \in [Id -> Maybe(Value)]
      /\ \A id \in Id : (\A k \in 1..N : table.undo[k].id # id) => table'.rows[id] = table.rows[id]
  <2>1. N - point.at \in 0..N /\ table.rows \in [Id -> Maybe(Value)] /\ table.undo \in Seq(Entry)
    BY <1>1 DEF TableType
  <2>2. \A n \in 0..Len(table.undo) :
          /\ Unwound(table.rows, table.undo)[n] \in [Id -> Maybe(Value)]
          /\ \A id \in Id : (\A k \in 1..Len(table.undo) : table.undo[k].id # id) =>
                               Unwound(table.rows, table.undo)[n][id] = table.rows[id]
    BY <2>1, UnwoundType
  <2> QED BY <1>2, <2>1, <2>2
<1>4. /\ table'.undo \in Seq(Entry) /\ Len(table'.undo) = point.at
      /\ \A k \in 1..point.at : table'.undo[k] = table.undo[k]
  BY <1>1, <1>2 DEF TableType
<1>5. TableInv'
  <2>1. Len(table'.undo) <= MaxUndo
    BY <1>1, <1>4 DEF IInv, TableInv, RecordStoreAssumption
  <2>2. \A k \in 1..Len(table'.undo) : table'.undo[k].id \in table'.dirty
    <3>1. \A k \in 1..point.at : k \in 1..N
      BY <1>1
    <3> QED BY <1>2, <1>4, <3>1 DEF IInv, TableInv
  <2>3. table' \in TableType
    BY <1>1, <1>2, <1>3, <1>4 DEF TableType
  <2> QED BY <2>1, <2>2, <2>3 DEF TableInv, TableType
<1>6. \A id \in Id \ table.dirty : table'.rows[id] = table.rows[id]
  BY <1>1, <1>3 DEF IInv, TableInv
<1>7. StateInv'
  BY <1>1 DEF Fails, Rollback, SessionsBack, IInv, StateInv
<1>8. SessionsDirty' = IF sess.at = point.sess THEN SessionsDirty ELSE sess.unsure \/ point.sessDirty
  BY <1>1 DEF Fails, Rollback, SessionsBack, SessionsDirty
<1>9. sess'.at = point.sess
  BY <1>1 DEF Fails, Rollback, SessionsBack
<1>10. StoreInv'
  BY <1>1, <1>2, <1>6, <1>8, <1>9 DEF IInv, StoreInv, PointInv, Changing
<1>11. FlashInv' /\ TodoInv' /\ PointInv'
  BY <1>1 DEF IInv, FlashInv, TodoInv, PointInv, Changing, Fails, Ended
<1> QED BY <1>5, <1>7, <1>10, <1>11 DEF IInv

\* The lock is given up, or the changes are about to be written.
LEMMA QuietStep ==
    ASSUME IInv, \/ NothingToWrite \/ StartWrite
                 \/ pc \in {"tickReplay", "tickWrite"} /\ FlashRefuses
    PROVE  IInv'
<1>1. /\ UNCHANGED <<kv, table, sess, meta, store>>
      /\ pc \notin {"down", "boot", "apply"} /\ pc' \notin {"down", "boot", "apply"}
  BY DEF NothingToWrite, StartWrite, FlashRefuses, Ended, Changing
<1>2. FlashInv' /\ TableInv' /\ StateInv' /\ StoreInv'
  BY <1>1 DEF IInv, FlashInv, TableInv, StateInv, StoreInv, SessionsDirty,
              NothingToWrite, StartWrite, FlashRefuses, Ended
<1>3. TodoInv'
  BY <1>1 DEF IInv, FlashInv, TodoInv, NothingToWrite, StartWrite, FlashRefuses, Ended
<1>4. PointInv'
  BY <1>1 DEF IInv, PointInv, Changing, NothingToWrite, StartWrite, FlashRefuses, Ended
<1> QED BY <1>2, <1>3, <1>4 DEF IInv

\* One record of a journal reaches its place.
LEMMA WriteStep ==
    ASSUME IInv, ReplayOne \/ ApplyOne
    PROVE  IInv' /\ Whole(kv') = Whole(kv)
<1>1. /\ pc \in {"replay", "tickReplay", "boot", "apply"} /\ todo # Nothing
      /\ kv' = Put(kv, todo, NextKey(todo)) /\ todo' = Without(todo, NextKey(todo))
      /\ UNCHANGED <<table, sess, meta, store, point, pc>>
  BY DEF ReplayOne, ApplyOne
<1>2. /\ Writes(todo) /\ DOMAIN todo \subseteq DOMAIN Journal(kv)
      /\ \A key \in DOMAIN Journal(kv) :
            (IF key \in DOMAIN todo THEN todo ELSE kv)[key] = Journal(kv)[key]
  BY <1>1 DEF IInv, TodoInv
<1>3. /\ FlashInv' /\ Whole(kv') = Whole(kv) /\ Journal(kv') = Journal(kv)
      /\ Writes(todo') /\ DOMAIN todo' \subseteq DOMAIN Journal(kv')
      /\ \A key \in DOMAIN Journal(kv') :
            (IF key \in DOMAIN todo' THEN todo' ELSE kv')[key] = Journal(kv')[key]
  BY <1>1, <1>2, ReplayKeeps DEF IInv
<1>4. TodoInv'
  BY <1>1, <1>3 DEF IInv, TodoInv
<1>5. TableInv' /\ StateInv' /\ StoreInv' /\ PointInv'
  BY <1>1, <1>3 DEF IInv, TableInv, StateInv, StoreInv, PointInv, SessionsDirty, Changing
<1> QED BY <1>3, <1>4, <1>5 DEF IInv

\* The journal a failed commit left is applied; the write it held up can begin.
LEMMA ReplayDoneStep ==
    ASSUME IInv, ReplayDone
    PROVE  IInv' /\ Load(Whole(kv')) = Load(Whole(kv))
<1>1. /\ pc \in {"replay", "tickReplay"} /\ todo = Nothing
      /\ kv' = [kv EXCEPT ![<<"tx">>] = Nothing]
      /\ store' = [store EXCEPT !.pending = FALSE]
      /\ pc' \in {"write", "tickWrite"} /\ (pc' = "write" <=> pc = "replay")
      /\ UNCHANGED <<table, sess, meta, point, todo>>
  BY DEF ReplayDone
<1>2. FlashInv' /\ Journal(kv') = Nothing /\ Alike(Whole(kv'), Whole(kv))
  <2>1. \A key \in DOMAIN Journal(kv) :
           (IF key \in DOMAIN todo THEN todo ELSE kv)[key] = Journal(kv)[key]
    BY <1>1 DEF IInv, TodoInv
  <2> QED BY <1>1, <2>1, JournalGoes DEF IInv
<1>3. RowsOn(Whole(kv')) = RowsOn(Whole(kv)) /\ SessionsOn(Whole(kv')) = SessionsOn(Whole(kv))
      /\ Load(Whole(kv')) = Load(Whole(kv))
  BY <1>2, AlikeIsRead
<1>4. StateInv' /\ store'.ids = store.ids /\ store'.sess = store.sess /\ store'.meta = store.meta
  BY <1>1 DEF IInv, StateInv
<1>5. TodoInv' /\ TableInv'
  BY <1>1, <1>2 DEF IInv, TodoInv, TableInv
<1>6. StoreInv'
  BY <1>1, <1>2, <1>3, <1>4 DEF IInv, StoreInv, SessionsDirty, Alike
<1>7. PointInv'
  BY <1>1, <1>3 DEF IInv, PointInv, Changing
<1> QED BY <1>2, <1>3, <1>4, <1>5, <1>6, <1>7 DEF IInv

\* What the store believes after a commit is so.
LEMMA CommittedStep ==
    ASSUME RecordStoreAssumption, IInv, NEW pending \in BOOLEAN, Committed(pending), FlashInv',
           Whole(kv')[<<"index">>] = Present(table.rows), Whole(kv')[<<"meta">>] = meta,
           RowsOn(Whole(kv')) = table.rows, SessionsOn(Whole(kv')) = sess.at,
           ~SessionsDirty => store.sess = sess.at,
           ~pending => Journal(kv') = Nothing
    PROVE  IInv'
<1>1. /\ table \in TableType /\ pc' = "idle" /\ meta' = meta
      /\ table' = [rows |-> table.rows, dirty |-> {}, touched |-> {}, undo |-> <<>>]
      /\ sess' = [sess EXCEPT !.dirty = FALSE, !.unsure = FALSE]
      /\ store' = Believes(pending)
  BY DEF IInv, TableInv, TableType, Committed, Saved, CleanTable, Ended
<1>2. store'.sess = sess.at /\ store'.ids = Present(table.rows) /\ store'.meta = meta /\ store'.pending = pending
  BY <1>1 DEF Believes
<1>3. TableInv'
  BY <1>1 DEF TableInv, TableType, RecordStoreAssumption
<1>4. StateInv'
  BY <1>1, <1>2 DEF IInv, StateInv, Believes, TableType, Present, Maybe
<1>5. sess'.at = sess.at /\ table'.rows = table.rows
  BY <1>1 DEF IInv, StateInv
<1>6. StoreInv'
  BY <1>1, <1>2, <1>5 DEF StoreInv
<1>7. TodoInv' /\ PointInv'
  BY <1>1, <1>2 DEF TodoInv, PointInv, Changing
<1> QED BY <1>3, <1>4, <1>6, <1>7 DEF IInv

\* The changes are written in one piece: one record, or a journal.
LEMMA CommitStep ==
    ASSUME RecordStoreAssumption, IInv, WriteOne \/ WriteJournal
    PROVE  IInv' /\ Load(Whole(kv')) = Live
<1> DEFINE g == [key \in Key |-> IF key \in DOMAIN Changes THEN Changes[key] ELSE Whole(kv)[key]]
           h == Whole(kv')
<1>1. /\ pc \in {"write", "tickWrite"} /\ Journal(kv) = Nothing /\ DOMAIN kv = Key
      /\ Writes(Changes)
  BY ChangesAre DEF WriteOne, WriteJournal, IInv, TodoInv, FlashInv
<1>2. \A key \in Key : Whole(kv)[key] = kv[key]
  BY <1>1 DEF Whole, PutAll, Nothing
<1>3. DOMAIN kv' = Key /\ Writes(Journal(kv')) /\ \A key \in Key \ {<<"tx">>} : h[key] = g[key]
  <2>1. CASE WriteOne
    <3>1. kv' = [key \in Key |-> IF key \in DOMAIN Changes THEN Changes[key] ELSE kv[key]]
      BY <1>1, <2>1 DEF WriteOne, PutAll
    <3>2. Journal(kv') = Nothing
      BY <1>1, <3>1, KeysThere DEF Writes, Journal
    <3> QED BY <1>2, <3>1, <3>2 DEF Whole, PutAll, Nothing, Writes
  <2>2. CASE WriteJournal
    <3>1. kv' = [kv EXCEPT ![<<"tx">>] = Changes]
      BY <2>2 DEF WriteJournal
    <3>2. Journal(kv') = Changes /\ DOMAIN kv' = Key /\ \A key \in Key \ {<<"tx">>} : kv'[key] = kv[key]
      BY <1>1, <3>1, KeysThere DEF Journal
    <3> QED BY <1>1, <1>2, <3>2 DEF Whole, PutAll, Writes
  <2> QED BY <2>1, <2>2 DEF WriteOne, WriteJournal
<1>4. /\ Board(g) /\ g[<<"index">>] = Present(table.rows) /\ g[<<"meta">>] = meta
      /\ RowsOn(g) = table.rows /\ SessionsOn(g) = sess.at
  BY <1>1, ChangesLand
<1>5. Alike(h, g)
  BY <1>3, KeysThere, KeysApart DEF Alike
<1> HIDE DEF g
<1>6. /\ Board(h) /\ h[<<"index">>] = Present(table.rows) /\ h[<<"meta">>] = meta
      /\ RowsOn(h) = table.rows /\ SessionsOn(h) = sess.at
  BY <1>4, <1>5, AlikeIsRead DEF Alike
<1>7. Load(h) = Live
  BY <1>6 DEF Load, Live, IInv, StateInv, RecordStoreAssumption
<1>8. FlashInv'
  BY <1>3, <1>6 DEF FlashInv
<1>9. ~SessionsDirty => store.sess = sess.at
  BY <1>1 DEF IInv, StoreInv
<1>10. CASE WriteOne
  <2>1. Journal(kv') = Nothing
    BY <1>1, <1>10, KeysThere DEF WriteOne, PutAll, Writes, Journal
  <2> QED BY <1>6, <1>7, <1>8, <1>9, <1>10, <2>1, CommittedStep DEF WriteOne
<1>11. CASE WriteJournal
  <2>1. /\ UNCHANGED <<table, sess, meta, store, point>> /\ pc' = "apply" /\ todo' = Changes
        /\ Journal(kv') = Changes
    BY <1>1, <1>11, KeysThere DEF WriteJournal, Journal
  <2>2. TodoInv'
    BY <1>1, <2>1 DEF TodoInv
  <2>3. TableInv' /\ StateInv' /\ PointInv'
    BY <2>1 DEF IInv, TableInv, StateInv, PointInv, Changing
  <2>4. StoreInv'
    BY <1>6, <1>9, <2>1 DEF StoreInv, SessionsDirty
  <2> QED BY <1>7, <1>8, <2>2, <2>3, <2>4 DEF IInv
<1> QED BY <1>10, <1>11

\* The journal is in place and goes, or stays for the next commit to apply.
LEMMA AppliedStep ==
    ASSUME RecordStoreAssumption, IInv, JournalApplied \/ ApplyFails
    PROVE  IInv' /\ Load(Whole(kv')) = Load(Whole(kv))
<1>1. /\ pc = "apply"
      /\ Whole(kv)[<<"index">>] = Present(table.rows) /\ Whole(kv)[<<"meta">>] = meta
      /\ RowsOn(Whole(kv)) = table.rows /\ SessionsOn(Whole(kv)) = sess.at
      /\ ~SessionsDirty => store.sess = sess.at
  BY DEF JournalApplied, ApplyFails, IInv, StoreInv
<1>2. CASE JournalApplied
  <2>1. FlashInv' /\ Journal(kv') = Nothing /\ Alike(Whole(kv'), Whole(kv))
    <3>1. /\ todo = Nothing /\ kv' = [kv EXCEPT ![<<"tx">>] = Nothing]
          /\ \A key \in DOMAIN Journal(kv) :
                (IF key \in DOMAIN todo THEN todo ELSE kv)[key] = Journal(kv)[key]
      BY <1>1, <1>2 DEF JournalApplied, IInv, TodoInv
    <3> QED BY <3>1, JournalGoes DEF IInv
  <2>2. /\ RowsOn(Whole(kv')) = RowsOn(Whole(kv)) /\ SessionsOn(Whole(kv')) = SessionsOn(Whole(kv))
        /\ Load(Whole(kv')) = Load(Whole(kv))
    BY <2>1, AlikeIsRead
  <2>3. IInv'
    BY <1>1, <1>2, <2>1, <2>2, CommittedStep DEF JournalApplied, Alike
  <2> QED BY <2>2, <2>3
<1>3. CASE ApplyFails
  <2>1. kv' = kv /\ Committed(TRUE) /\ FlashInv'
    BY <1>3 DEF ApplyFails, IInv, FlashInv
  <2>2. IInv'
    BY <1>1, <2>1, CommittedStep
  <2> QED BY <2>1, <2>2
<1> QED BY <1>2, <1>3

\* A board just opened has nothing to save and nothing to undo.
LEMMA FromPartsIs ==
    ASSUME RecordStoreAssumption, NEW load, FromParts(load), load.rows \in [Id -> Maybe(Value)],
           load.sess \in [Person -> Maybe(Sessions)]
    PROVE  TableInv' /\ sess'.at = load.sess /\ ~SessionsDirty' /\ table'.rows = load.rows
           /\ sess' \in [at : [Person -> Maybe(Sessions)], dirty : BOOLEAN, unsure : BOOLEAN]
BY DEF FromParts, CleanTable, TableInv, SessionsDirty, RecordStoreAssumption

\* RAM is lost, flash is not.
LEMMA PowerCutStep ==
    ASSUME RecordStoreAssumption, IInv, PowerCut
    PROVE  IInv'
<1>1. NoRows \in [Id -> Maybe(Value)] /\ NoSessions \in [Person -> Maybe(Sessions)]
  BY DEF NoRows, NoSessions, Maybe
<1>2. TableInv' /\ sess' \in [at : [Person -> Maybe(Sessions)], dirty : BOOLEAN, unsure : BOOLEAN]
  BY <1>1, FromPartsIs DEF PowerCut, RamEmpty
<1>3. StateInv'
  BY <1>1, <1>2 DEF PowerCut, RamEmpty, FromParts, StateInv, NoStore, Maybe, RecordStoreAssumption
<1>4. FlashInv' /\ TodoInv' /\ StoreInv' /\ PointInv'
  BY DEF PowerCut, IInv, FlashInv, TodoInv, StoreInv, PointInv, Changing
<1> QED BY <1>2, <1>3, <1>4 DEF IInv

\* A boot starts with the journal it finds.
LEMMA StartBootStep ==
    ASSUME IInv, StartBoot
    PROVE  IInv'
<1>1. FlashInv' /\ TableInv' /\ StateInv' /\ StoreInv' /\ PointInv'
  BY DEF StartBoot, IInv, FlashInv, TableInv, StateInv, StoreInv, PointInv, Changing
<1>2. TodoInv'
  BY DEF StartBoot, IInv, FlashInv, TodoInv
<1> QED BY <1>1, <1>2 DEF IInv

\* What flash says is what RAM and the store hold.
LEMMA BootedStep ==
    ASSUME RecordStoreAssumption, IInv, Booted
    PROVE  IInv' /\ Load(Whole(kv')) = Load(Whole(kv)) /\ Live' = Load(Whole(kv))
<1>1. /\ pc = "boot" /\ todo = Nothing /\ pc' = "idle"
      /\ kv' = [kv EXCEPT ![<<"tx">>] = Nothing]
      /\ FromParts(Load(kv))
      /\ store' = [ids |-> IF kv[<<"meta">>] = None THEN {} ELSE kv[<<"index">>],
                   sess |-> Load(kv).sess, meta |-> kv[<<"meta">>], pending |-> FALSE]
  BY DEF Booted
<1>2. FlashInv' /\ Journal(kv') = Nothing /\ Alike(Whole(kv'), Whole(kv)) /\ Alike(kv, Whole(kv))
  <2>1. \A key \in DOMAIN Journal(kv) :
           (IF key \in DOMAIN todo THEN todo ELSE kv)[key] = Journal(kv)[key]
    BY <1>1 DEF IInv, TodoInv
  <2> QED BY <1>1, <2>1, JournalGoes DEF IInv
<1> DEFINE f == Whole(kv)
           h == Whole(kv')
<1>3. /\ RowsOn(h) = RowsOn(f) /\ SessionsOn(h) = SessionsOn(f) /\ Load(h) = Load(f)
      /\ Load(kv) = Load(f) /\ Board(h)
      /\ \A key \in {<<"index">>, <<"is">>, <<"meta">>} : h[key] = f[key] /\ kv[key] = f[key]
  BY <1>2, AlikeIsRead DEF Alike, FlashInv
<1> HIDE DEF f, h
<1>4. /\ Load(f).rows = RowsOn(h) /\ Load(f).sess = SessionsOn(h)
      /\ RowsOn(h) \in [Id -> Maybe(Value)] /\ SessionsOn(h) \in [Person -> Maybe(Sessions)]
      /\ Load(f).meta \in Value
      /\ h[<<"meta">>] \in Maybe(Value) /\ h[<<"index">>] \subseteq Id
      /\ h[<<"meta">>] = None => h[<<"index">>] = {}
  BY <1>3 DEF Load, RowsOn, SessionsOn, NoRows, NoSessions, Board, Maybe, RecordStoreAssumption
<1>5. /\ TableInv' /\ sess'.at = SessionsOn(h) /\ ~SessionsDirty' /\ table'.rows = RowsOn(h)
      /\ sess' \in [at : [Person -> Maybe(Sessions)], dirty : BOOLEAN, unsure : BOOLEAN]
  BY <1>1, <1>3, <1>4, FromPartsIs
<1>6. store'.ids = h[<<"index">>] /\ store'.sess = SessionsOn(h) /\ store'.meta = h[<<"meta">>] /\ ~store'.pending
  BY <1>1, <1>3, <1>4
<1>7. meta' = Load(f).meta
  BY <1>1, <1>3 DEF FromParts
<1>8. StateInv'
  BY <1>1, <1>3, <1>4, <1>5, <1>7 DEF StateInv
<1>9. StoreInv'
  BY <1>1, <1>5, <1>6 DEF StoreInv, h
<1>10. TodoInv' /\ PointInv'
  BY <1>1, <1>2 DEF TodoInv, PointInv, Changing
<1>11. Live' = Load(f)
  BY <1>4, <1>5, <1>7 DEF Live, Load
<1> QED BY <1>2, <1>3, <1>5, <1>8, <1>9, <1>10, <1>11 DEF IInv, f, h

-----------------------------------------------------------------------------
(* Theorems. *)

\* An empty flash is a board.
LEMMA Start ==
    ASSUME RecordStoreAssumption, Init
    PROVE  IInv
<1>1. /\ DOMAIN kv = Key /\ kv[<<"index">>] = {} /\ kv[<<"is">>] = {} /\ kv[<<"meta">>] = None
      /\ Journal(kv) = Nothing
  BY KeysThere, KeysApart DEF Init, Journal
<1>2. \A key \in Key : Whole(kv)[key] = kv[key]
  BY <1>1 DEF Whole, PutAll, Nothing
<1>3. FlashInv
  BY <1>1, <1>2, KeysThere DEF FlashInv, Writes, Board, Nothing, Maybe
<1>4. RowsOn(Whole(kv)) = NoRows /\ SessionsOn(Whole(kv)) = NoSessions
  BY <1>1, <1>2, KeysThere DEF RowsOn, SessionsOn, NoRows, NoSessions
<1>5. TableInv
  BY DEF Init, CleanTable, NoRows, TableInv, Maybe, RecordStoreAssumption
<1>6. StateInv
  BY DEF Init, NoSessions, NoStore, StateInv, Maybe, RecordStoreAssumption
<1>7. StoreInv
  BY <1>1, <1>2, <1>4, KeysThere DEF Init, CleanTable, NoStore, StoreInv
<1>8. TodoInv /\ PointInv
  BY <1>1 DEF Init, TodoInv, PointInv, Changing
<1> QED BY <1>3, <1>5, <1>6, <1>7, <1>8 DEF IInv

\* The invariant is inductive.
LEMMA Invariance ==
    ASSUME RecordStoreAssumption, IInv, [Next]_storeVars
    PROVE  IInv'
<1>1. CASE Begin
  BY <1>1, BeginStep
<1>2. CASE Edit \/ Tick
  BY <1>2, EditStep
<1>3. CASE TouchSession
  BY <1>3, TouchSessionStep
<1>4. CASE HandlerFails \/ FlashRefuses
  <2>1. CASE Changing /\ Fails
    BY <2>1, FailsStep
  <2>2. CASE pc \in {"tickReplay", "tickWrite"} /\ FlashRefuses
    BY <2>2, QuietStep
  <2> QED BY <1>4, <2>1, <2>2 DEF HandlerFails, FlashRefuses, Changing
<1>5. CASE NothingToWrite \/ StartWrite
  BY <1>5, QuietStep
<1>6. CASE ReplayOne \/ ApplyOne
  BY <1>6, WriteStep
<1>7. CASE ReplayDone
  BY <1>7, ReplayDoneStep
<1>8. CASE WriteOne \/ WriteJournal
  BY <1>8, CommitStep
<1>9. CASE JournalApplied \/ ApplyFails
  BY <1>9, AppliedStep
<1>10. CASE PowerCut
  BY <1>10, PowerCutStep
<1>11. CASE StartBoot
  BY <1>11, StartBootStep
<1>12. CASE Booted
  BY <1>12, BootedStep
<1>13. CASE UNCHANGED storeVars
  BY <1>13 DEF storeVars, IInv, FlashInv, TodoInv, TableInv, StateInv, StoreInv, PointInv,
               SessionsDirty, Changing
<1> QED BY <1>1, <1>2, <1>3, <1>4, <1>5, <1>6, <1>7, <1>8, <1>9, <1>10, <1>11, <1>12, <1>13 DEF Next

\* Every reachable state satisfies the invariant.
LEMMA Inductive ==
    ASSUME RecordStoreAssumption
    PROVE  Spec => []IInv
<1>1. Init => IInv
  BY Start
<1>2. IInv /\ [Next]_storeVars => IInv'
  BY Invariance
<1> QED BY <1>1, <1>2, PTL DEF Spec

\* What RAM holds is always a board: rows, sessions and meta of their kinds, the
\* marks and the undo log of rows there can be.
THEOREM TypeCorrect ==
    ASSUME RecordStoreAssumption
    PROVE  Spec => []TypeOK
<1>1. IInv => TypeOK
  BY DEF IInv, TableInv, StateInv, TypeOK, Live, Tables
<1> QED BY <1>1, Inductive, PTL

\* A row that is not marked and sessions that are not dirty are on flash as they
\* are in RAM: a commit that skips them loses nothing, however requests failed
\* and commits were interrupted before it.
THEOREM CleanIsSaved ==
    ASSUME RecordStoreAssumption
    PROVE  Spec => []CleanMeansSaved
<1>1. ASSUME IInv, Free PROVE CleanMeansSaved
  <2> DEFINE f == Whole(kv)
  <2>1. /\ Board(f) /\ store.meta = f[<<"meta">>]
        /\ \A id \in Id \ table.dirty : RowsOn(f)[id] = table.rows[id]
        /\ ~SessionsDirty => SessionsOn(f) = sess.at
    BY <1>1 DEF IInv, FlashInv, StoreInv, Free
  <2>2. /\ Load(f).rows = RowsOn(f) /\ Load(f).sess = SessionsOn(f)
        /\ f[<<"meta">>] # None => Load(f).meta = f[<<"meta">>]
    BY <2>1 DEF Load, RowsOn, SessionsOn, NoRows, NoSessions, Board
  <2> HIDE DEF f
  <2>3. Recovered(kv) = Load(f)
    BY DEF Recovered, f
  <2> QED BY <2>1, <2>2, <2>3 DEF CleanMeansSaved
<1>2. IInv => CleanMeansSaved
  BY <1>1 DEF CleanMeansSaved
<1> QED BY <1>2, Inductive, PTL

\* What an edit may do is no business of a rollback: it goes back to the same.
LEMMA EditKeeps ==
    ASSUME RecordStoreAssumption, IInv, Edit
    PROVE  Kept' = Kept
<1>1. pc = "change" /\ UNCHANGED <<kv, store, point, todo, pc>>
  BY DEF Edit
<1>2. point.at \in 0..Len(table.undo) /\ Covered(table, point.at)
  BY <1>1 DEF IInv, PointInv, Changing
<1>3. CASE \E id \in Id : EditRow(id)
  <2>1. EditOK(table, table')
    BY <1>3, EditRowStep DEF IInv
  <2>2. TableRollback(table', point.at).rows = TableRollback(table, point.at).rows
    BY <1>2, <2>1 DEF EditOK
  <2> QED BY <1>1, <2>2 DEF Kept
<1>4. CASE \E p \in Person : EditSessions(p)
  BY <1>1, <1>4 DEF EditSessions, Kept
<1> QED BY <1>3, <1>4 DEF Edit

\* A request that fails leaves what its savepoint kept.
LEMMA FailsBack ==
    ASSUME IInv, Fails
    PROVE  Live' = Kept
<1>1. table'.rows = TableRollback(table, point.at).rows
  BY DEF Fails, Rollback
<1>2. sess'.at = point.sess /\ meta' = point.meta
  BY DEF Fails, Rollback, SessionsBack
<1> QED BY <1>1, <1>2 DEF Live, Kept

\* A savepoint keeps what requests see.
LEMMA BeginKeeps ==
    ASSUME IInv, Begin
    PROVE  Live' = Live /\ Kept' = Live
<1>1. table \in TableType /\ Len(table.undo) \in Nat
  BY DEF IInv, TableInv, TableType
<1>2. table' = [rows |-> table.rows, dirty |-> table.dirty, touched |-> {}, undo |-> table.undo]
  BY <1>1 DEF Begin, TableSavepoint, TableType
<1>3. point' = Savepoint /\ UNCHANGED <<sess, meta>>
  BY DEF Begin
<1>4. table'.rows = table.rows /\ table'.undo = table.undo /\ point'.at = Len(table.undo)
  BY <1>2, <1>3 DEF Savepoint
<1>5. TableRollback(table', point'.at).rows = Unwound(table.rows, table.undo)[0]
  BY <1>1, <1>2, <1>4 DEF TableRollback
<1>6. TableRollback(table', point'.at).rows = table.rows
  BY <1>1, <1>5, UnwoundFrom
<1> QED BY <1>3, <1>4, <1>6 DEF Live, Kept, Savepoint

\* With nothing to write, flash is what requests see.
LEMMA NothingMissing ==
    ASSUME RecordStoreAssumption, IInv, NothingToWrite
    PROVE  Load(Whole(kv)) = Live
<1> DEFINE f == Whole(kv)
<1>1. pc \notin {"down", "boot", "apply"} /\ DOMAIN Changes = {}
  BY DEF NothingToWrite, Nothing
<1>2. /\ Board(f) /\ f[<<"index">>] = Present(table.rows) /\ f[<<"meta">>] = meta
      /\ RowsOn(f) = table.rows /\ SessionsOn(f) = sess.at
  <2>1. \A key \in Key \ {<<"tx">>} : f[key] = IF key \in DOMAIN Changes THEN Changes[key] ELSE Whole(kv)[key]
    BY <1>1
  <2> QED BY <1>1, <2>1, ChangesLand
<1> HIDE DEF f
<1>3. Load(f) = Live
  BY <1>2 DEF Load, Live, IInv, StateInv, RecordStoreAssumption
<1> QED BY <1>3 DEF f

\* A state that was saved is the same state.
LEMMA SavedLive ==
    ASSUME IInv, Saved, UNCHANGED meta
    PROVE  Live' = Live
<1>1. table'.rows = table.rows
  BY DEF Saved, CleanTable
<1>2. sess'.at = sess.at
  BY DEF Saved, IInv, StateInv
<1> QED BY <1>1, <1>2 DEF Live

\* What requests see is a board.
LEMMA LiveIsBoard ==
    ASSUME IInv
    PROVE  Live \in Tables
BY DEF IInv, TableInv, StateInv, Live, Tables

\* Each step is the promised one, or none: a commit happens at the one write that
\* puts it on flash, whatever comes before and after.
LEMMA Implements ==
    ASSUME RecordStoreAssumption, IInv, [Next]_storeVars
    PROVE  AtomicStep
<1> USE DEF AtomicStep
<1> DEFINE durable == Load(Whole(kv))
           saved == IF Changing THEN Kept ELSE Live
           running == pc \notin {"down", "boot"}
           Same == /\ durable' = durable /\ Changing' = Changing /\ running' = running
                   /\ Live' = Live /\ saved' = saved
<1>1. ASSUME Same PROVE AtomicStep
  BY <1>1 DEF Atomic!vars, Recovered
<1>2. Live \in Tables /\ Live' \in Tables
  BY Invariance, LiveIsBoard DEF Live, Tables, IInv, TableInv, StateInv
<1>3. CASE Begin
  <2>1. Live' = Live /\ Kept' = Live
    BY <1>3, BeginKeeps
  <2>2. running /\ ~Changing /\ running' /\ Changing' /\ kv' = kv
    BY <1>3 DEF Begin, Free, Changing
  <2>3. Atomic!Begin
    BY <2>1, <2>2 DEF Atomic!Begin, Recovered
  <2> QED BY <2>3 DEF Atomic!Next
<1>4. CASE Edit
  <2>1. Kept' = Kept
    BY <1>4, EditKeeps
  <2>2. running /\ Changing /\ running' /\ Changing' /\ kv' = kv
    BY <1>4 DEF Edit, Changing
  <2>3. Atomic!Edit
    BY <1>2, <2>1, <2>2 DEF Atomic!Edit, Recovered
  <2> QED BY <2>3 DEF Atomic!Next
<1>5. CASE Tick \/ TouchSession
  <2>1. running /\ running' /\ ~Changing /\ ~Changing' /\ kv' = kv
    BY <1>5 DEF Tick, TouchSession, Free, Changing
  <2>2. Changing' = Changing
    BY <2>1 DEF Changing
  <2>3. Atomic!Housekeep
    BY <1>2, <2>1, <2>2 DEF Atomic!Housekeep, Recovered
  <2> QED BY <2>3 DEF Atomic!Next
<1>6. CASE HandlerFails \/ (FlashRefuses /\ pc \in {"replay", "write"})
  <2>1. Fails /\ Changing /\ running /\ running' /\ ~Changing' /\ kv' = kv
    BY <1>6 DEF HandlerFails, FlashRefuses, Fails, Ended, Changing
  <2>2. Live' = Kept
    BY <2>1, FailsBack
  <2>3. Atomic!Undo
    BY <2>1, <2>2 DEF Atomic!Undo, Recovered
  <2> QED BY <2>3 DEF Atomic!Next
<1>7. CASE FlashRefuses /\ pc \in {"tickReplay", "tickWrite"}
  <2>1. Same
    BY <1>7 DEF FlashRefuses, Ended, Changing, Live
  <2> QED BY <1>1, <2>1
<1>8. CASE NothingToWrite
  <2>1. /\ running /\ running' /\ ~Changing' /\ kv' = kv /\ Live' = Live
    BY <1>8 DEF NothingToWrite, Ended, Changing, Live
  <2>2. durable' = Live
    BY <1>8, <2>1, NothingMissing
  <2>3. Atomic!Commit
    BY <2>1, <2>2 DEF Atomic!Commit, Recovered
  <2> QED BY <2>3 DEF Atomic!Next
<1>9. CASE StartWrite
  <2>1. /\ UNCHANGED <<kv, table, sess, meta, store, point>> /\ running /\ running' /\ Changing' = Changing
    BY <1>9 DEF StartWrite, Changing
  <2>2. Same
    BY <2>1 DEF Live, Kept
  <2> QED BY <1>1, <2>2
<1>10. CASE ReplayOne \/ ApplyOne
  <2>1. durable' = durable
    BY <1>10, WriteStep
  <2>2. UNCHANGED <<table, sess, meta, store, point, pc>>
    BY <1>10 DEF ReplayOne, ApplyOne
  <2>3. Same
    BY <2>1, <2>2 DEF Live, Kept, Changing
  <2> QED BY <1>1, <2>3
<1>11. CASE ReplayDone
  <2>1. durable' = durable
    BY <1>11, ReplayDoneStep
  <2>2. UNCHANGED <<table, sess, meta, point>> /\ running /\ running' /\ Changing' = Changing
    BY <1>11 DEF ReplayDone, Changing
  <2>3. Same
    BY <2>1, <2>2 DEF Live, Kept
  <2> QED BY <1>1, <2>3
<1>12. CASE WriteOne \/ WriteJournal
  <2>1. durable' = Live
    BY <1>12, CommitStep
  <2>2. running /\ running' /\ ~Changing'
    BY <1>12 DEF WriteOne, WriteJournal, Committed, Ended, Changing
  <2>3. Live' = Live
    <3>1. CASE WriteOne
      BY <3>1, SavedLive DEF WriteOne, Committed
    <3>2. CASE WriteJournal
      BY <3>2 DEF WriteJournal, Live
    <3> QED BY <1>12, <3>1, <3>2
  <2>4. Atomic!Commit
    BY <2>1, <2>2, <2>3 DEF Atomic!Commit, Recovered
  <2> QED BY <2>4 DEF Atomic!Next
<1>13. CASE JournalApplied \/ ApplyFails
  <2>1. durable' = durable
    BY <1>13, AppliedStep
  <2>2. running /\ running' /\ ~Changing /\ ~Changing'
    BY <1>13 DEF JournalApplied, ApplyFails, Committed, Ended, Changing
  <2>3. Live' = Live
    BY <1>13, SavedLive DEF JournalApplied, ApplyFails, Committed
  <2>4. Same
    BY <2>1, <2>2, <2>3 DEF Changing
  <2> QED BY <1>1, <2>4
<1>14. CASE PowerCut
  <2>1. ~running' /\ ~Changing' /\ kv' = kv
    BY <1>14 DEF PowerCut, Changing
  <2>2. Atomic!PowerCut
    BY <2>1 DEF Atomic!PowerCut, Recovered
  <2> QED BY <2>2 DEF Atomic!Next
<1>15. CASE StartBoot
  <2>1. /\ UNCHANGED <<kv, table, sess, meta, point>>
        /\ running = FALSE /\ running' = FALSE /\ Changing = FALSE /\ Changing' = FALSE
    BY <1>15 DEF StartBoot, Changing
  <2>2. Same
    BY <2>1 DEF Live
  <2> QED BY <1>1, <2>2
<1>16. CASE Booted
  <2>1. durable' = durable /\ Live' = durable
    BY <1>16, BootedStep
  <2>2. ~running /\ running' /\ ~Changing'
    BY <1>16 DEF Booted, Changing
  <2>3. Atomic!Boot
    BY <2>1, <2>2 DEF Atomic!Boot, Recovered
  <2> QED BY <2>3 DEF Atomic!Next
<1>17. CASE UNCHANGED storeVars
  <2>1. Same
    BY <1>17 DEF storeVars, Live, Kept, Changing
  <2> QED BY <1>1, <2>1
<1> QED BY <1>3, <1>4, <1>5, <1>6, <1>7, <1>8, <1>9, <1>10, <1>11, <1>12, <1>13, <1>14, <1>15,
           <1>16, <1>17 DEF Next, FlashRefuses

\* The board keeps AtomicStore's promise: the state on flash becomes the state
\* requests see all at once or not at all, a request that fails leaves the state as
\* it was before it, and a boot finds the last commit.
THEOREM AtomicImplemented ==
    ASSUME RecordStoreAssumption
    PROVE  Spec => ImplementsAtomic
<1>1. Init => Atomic!Init
  <2> SUFFICES ASSUME Init PROVE Atomic!Init
    OBVIOUS
  <2>1. IInv
    BY Start
  <2>2. /\ kv[<<"index">>] = {} /\ kv[<<"is">>] = {} /\ kv[<<"meta">>] = None /\ Journal(kv) = Nothing
        /\ DOMAIN kv = Key
    BY KeysThere, KeysApart DEF Init, Journal
  <2>3. Whole(kv)[<<"meta">>] = None
    BY <2>2, KeysThere DEF Whole, PutAll, Nothing
  <2>4. Recovered(kv) = Live
    BY <2>3 DEF Init, Recovered, Load, Live, CleanTable
  <2>5. ~Changing /\ pc = "idle"
    BY DEF Init, Changing
  <2> QED BY <2>1, <2>4, <2>5, LiveIsBoard DEF Atomic!Init
<1>2. IInv /\ [Next]_storeVars => [Atomic!Next]_(Atomic!vars)
  BY Implements DEF AtomicStep
<1> QED BY <1>1, <1>2, Inductive, PTL DEF Spec, ImplementsAtomic, Atomic!Spec
=============================================================================
