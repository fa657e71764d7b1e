------------------------------ MODULE BoardStore ------------------------------
(* How the board-game board keeps its state: once as a snapshot in two slots  *)
(* (gamematcher/api/src/store.rs), now as one record per row with a journal   *)
(* (records.rs, table.rs, state.rs), and the first boot that moves the one    *)
(* to the other.  A state is its rows; a write of one key happens or does     *)
(* not, and the power may go between any two.                                 *)
EXTENDS Naturals, FiniteSets

CONSTANTS Row, Value, None, Empty, Torn,             \* Empty, Torn: a slot
          MaxGeneration, MaxCommits                  \* bounds
NoRows == [r \in Row |-> None]
State == [Row -> Value \cup {None}]

VARIABLES slots,      \* 0..1 -> Empty, Torn or a snapshot [generation, rows]
          kv,         \* the records: [rows, idx, meta, tx]
          store,      \* RecordStore / SlotStore in RAM: [idx, meta, pending, current]
          ram, dirty, \* State: its rows, and which of them changed
          point,      \* Savepoint
          todo,       \* keys still to be written by a migration or a journal
          pc, old,    \* where the board is; whether it runs the schema-1 firmware
          done, commits
vars == <<slots, kv, store, ram, dirty, point, todo, pc, old, done, commits>>

NoStore == [idx |-> {}, meta |-> FALSE, pending |-> FALSE, current |-> None]
There(rows) == {r \in Row : rows[r] # None}
Init == /\ slots = [i \in 0..1 |-> Empty]
        /\ kv = [rows |-> NoRows, idx |-> {}, meta |-> FALSE, tx |-> None]
        /\ store = NoStore /\ ram = NoRows /\ dirty = {} /\ point = NoRows /\ todo = {}
        /\ pc = "down" /\ old = TRUE /\ done = NoRows /\ commits = 0

-----------------------------------------------------------------------------
(* The two slots.                                                            *)
Valid == {i \in 0..1 : slots[i] \notin {Empty, Torn}}
Newest == CHOOSE i \in Valid : \A j \in Valid : slots[j].generation <= slots[i].generation
Corrupt == Valid = {} /\ \E i \in 0..1 : slots[i] = Torn
Snapshot == IF Valid = {} THEN NoRows ELSE slots[Newest].rows

OldBoot == /\ pc = "down" /\ old /\ ~Corrupt
           /\ store' = [NoStore EXCEPT !.current = IF Valid = {} THEN None ELSE Newest]
           /\ ram' = Snapshot /\ pc' = "serving"
           /\ UNCHANGED <<slots, kv, dirty, point, todo, old, done, commits>>

NextSlot == IF store.current = None THEN 0 ELSE 1 - store.current
Generation == IF Valid = {} THEN 0 ELSE slots[Newest].generation
OldCommitStarts == \E s \in State :
    /\ pc = "serving" /\ old /\ s # ram /\ Generation < MaxGeneration
    /\ ram' = s /\ pc' = "snapshot"
    /\ todo' = {Generation + 1}
    /\ slots' = [slots EXCEPT ![NextSlot] = Torn]
    /\ UNCHANGED <<kv, store, dirty, point, old, done, commits>>
OldCommitEnds == /\ pc = "snapshot" /\ pc' = "serving" /\ todo' = {}
                 /\ \E g \in todo : slots' = [slots EXCEPT ![NextSlot] = [generation |-> g, rows |-> ram]]
                 /\ store' = [store EXCEPT !.current = NextSlot] /\ done' = ram
                 /\ UNCHANGED <<kv, ram, dirty, point, old, commits>>

-----------------------------------------------------------------------------
(* A boot of this firmware: a left journal first, then meta, else migrate.   *)
Put(k) == CASE k = "idx" -> [kv EXCEPT !.idx = kv.tx.idx]
            [] k = "meta" -> [kv EXCEPT !.meta = TRUE]
            [] OTHER -> [kv EXCEPT !.rows[k] = kv.tx.rows[k]]
Steps(tx) == tx.keys \cup {k \in {"idx", "meta"} : IF k = "idx" THEN tx.idx # tx.was ELSE ~tx.had}

Boot == /\ pc = "down" /\ ~old
        /\ IF kv.tx # None THEN pc' = "replay" /\ todo' = Steps(kv.tx)
                           ELSE pc' = "open" /\ todo' = {}
        /\ UNCHANGED <<slots, kv, store, ram, dirty, point, old, done, commits>>
replay_tx == /\ pc \in {"replay", "again"}
             /\ \/ \E k \in todo : kv' = Put(k) /\ todo' = todo \ {k} /\ UNCHANGED <<pc, store>>
                \/ /\ todo = {} /\ kv' = [kv EXCEPT !.tx = None]
                   /\ store' = [store EXCEPT !.pending = FALSE]
                   /\ pc' = (IF pc = "replay" THEN "open" ELSE "commit") /\ UNCHANGED todo
             /\ UNCHANGED <<slots, ram, dirty, point, old, done, commits>>

open == /\ pc = "open" /\ kv.meta /\ pc' = "serving"
        /\ ram' = [r \in Row |-> IF r \in kv.idx THEN kv.rows[r] ELSE None]
        /\ dirty' = {} /\ store' = [NoStore EXCEPT !.idx = kv.idx, !.meta = TRUE]
        /\ UNCHANGED <<slots, kv, point, todo, old, done, commits>>

\* No meta and no snapshot: an empty board.  Else every row, marked changed, is
\* written without a journal and meta last; all of it again after a crash.
Fresh == /\ pc = "open" /\ ~kv.meta /\ Valid = {} /\ ~Corrupt
         /\ pc' = "serving" /\ ram' = NoRows /\ dirty' = {} /\ store' = NoStore
         /\ UNCHANGED <<slots, kv, point, todo, old, done, commits>>
mark_all(rows) == There(rows)
Migrate == /\ pc = "open" /\ ~kv.meta /\ Valid # {}
           /\ pc' = "migrate" /\ ram' = Snapshot /\ dirty' = mark_all(Snapshot)
           /\ store' = NoStore /\ todo' = mark_all(Snapshot) \cup {"idx", "meta"}
           /\ UNCHANGED <<slots, kv, point, old, done, commits>>
Ready(k) == k = "meta" => todo = {"meta"}
MigrateOne == \E k \in todo :
    /\ pc = "migrate" /\ Ready(k) /\ todo' = todo \ {k}
    /\ kv' = CASE k = "idx" -> [kv EXCEPT !.idx = There(ram)]
               [] k = "meta" -> [kv EXCEPT !.meta = TRUE]
               [] OTHER -> [kv EXCEPT !.rows[k] = ram[k]]
    /\ UNCHANGED <<slots, store, ram, dirty, point, pc, old, done, commits>>
adopt == [NoStore EXCEPT !.idx = There(ram), !.meta = TRUE]
Migrated == /\ pc = "migrate" /\ todo = {} /\ pc' = "serving" /\ dirty' = {} /\ store' = adopt
            /\ UNCHANGED <<slots, kv, ram, point, todo, old, done, commits>>

-----------------------------------------------------------------------------
(* A change: savepoint, edits, commit through the journal or back.           *)
savepoint == /\ pc = "serving" /\ ~old /\ commits < MaxCommits /\ pc' = "change"
             /\ point' = ram /\ commits' = commits + 1
             /\ UNCHANGED <<slots, kv, store, ram, dirty, todo, old, done>>
Edit == \E r \in Row, v \in Value \cup {None} :
    /\ pc = "change" /\ v # ram[r] /\ ram' = [ram EXCEPT ![r] = v] /\ dirty' = dirty \cup {r}
    /\ UNCHANGED <<slots, kv, store, point, todo, pc, old, done, commits>>
\* A rollback puts the rows back; they stay marked, and are written once more.
rollback == /\ pc \in {"change", "again", "commit"} /\ pc' = "serving" /\ ram' = point /\ todo' = {}
            /\ UNCHANGED <<slots, kv, store, dirty, point, old, done, commits>>

changes == [keys |-> {r \in dirty : r \in There(ram) \cup store.idx}, rows |-> ram,
            idx |-> There(ram), was |-> store.idx, had |-> store.meta]
write == /\ pc = "change"
         /\ IF store.pending THEN pc' = "again" /\ todo' = (IF kv.tx = None THEN {} ELSE Steps(kv.tx))
                             ELSE pc' = "commit" /\ UNCHANGED todo
         /\ UNCHANGED <<slots, kv, store, ram, dirty, point, old, done, commits>>
Committed == /\ done' = ram /\ dirty' = {}
             /\ UNCHANGED <<slots, ram, point, old, commits>>
\* One key needs no journal.
Alone == store.meta /\ Cardinality(Steps(changes)) <= 1
WriteOne == /\ pc = "commit" /\ Alone /\ pc' = "serving"
            /\ kv' = [kv EXCEPT !.rows = [r \in Row |-> IF r \in changes.keys THEN ram[r] ELSE @[r]],
                                !.idx = changes.idx]
            /\ store' = adopt /\ Committed /\ UNCHANGED todo
WriteTx == /\ pc = "commit" /\ ~Alone /\ pc' = "apply" /\ todo' = Steps(changes)
           /\ kv' = [kv EXCEPT !.tx = changes]
           /\ store' = [adopt EXCEPT !.pending = TRUE] /\ Committed
ApplyOne == \E k \in todo : /\ pc = "apply" /\ kv' = Put(k) /\ todo' = todo \ {k}
                            /\ UNCHANGED <<slots, store, ram, dirty, point, pc, old, done, commits>>
Applied == /\ pc = "apply" /\ pc' = "serving" /\ todo' = {}
           /\ \/ todo = {} /\ kv' = [kv EXCEPT !.tx = None] /\ store' = adopt
              \/ UNCHANGED <<kv, store>>                       \* a write failed: tried again later
           /\ UNCHANGED <<slots, ram, dirty, point, old, done, commits>>

PowerCut == /\ pc # "down" /\ pc' = "down" /\ ram' = NoRows /\ dirty' = {} /\ todo' = {}
            /\ store' = NoStore /\ point' = NoRows
            /\ UNCHANGED <<slots, kv, old, done, commits>>
Upgrade == /\ pc = "down" /\ old /\ old' = FALSE
           /\ UNCHANGED <<slots, kv, store, ram, dirty, point, todo, pc, done, commits>>

Next == \/ OldBoot \/ OldCommitStarts \/ OldCommitEnds \/ Upgrade
        \/ Boot \/ replay_tx \/ open \/ Fresh \/ Migrate \/ MigrateOne \/ Migrated
        \/ savepoint \/ Edit \/ rollback \/ write \/ WriteOne \/ WriteTx \/ ApplyOne \/ Applied
        \/ PowerCut
Spec == Init /\ [][Next]_vars

-----------------------------------------------------------------------------
TypeOK == /\ ram \in State /\ kv.rows \in State /\ point \in State /\ dirty \subseteq Row
          /\ pc \in {"down", "serving", "snapshot", "replay", "again", "open", "migrate",
                     "change", "commit", "apply"}

\* store.rs, records.rs: what a boot serves is the last state whose commit
\* ended, through torn snapshots, a migration cut short and run again, and
\* journals applied halfway; and a change that failed is taken back.
ServesTheLast == pc = "serving" => ram = done
=============================================================================
