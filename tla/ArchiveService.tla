---------------------------- MODULE ArchiveService ----------------------------
(* The service around the earlier Rust household (archive/nanacoin_rs:          *)
(* journal.rs, journal/checkpoint.rs, journal/file.rs): events are appended to  *)
(* a log before they are applied, the log is retired into a checkpoint when it  *)
(* is long, retries are recognised by receipts and by the generation their keys *)
(* name.  The process may be killed, power may fail and any write may return an *)
(* error.  The household itself is the sequence of operations applied to it     *)
(* (ArchiveLedger models what they do); checksums and row formats are left out. *)
EXTENDS Integers, Sequences, FiniteSets, SequencesExt

CONSTANTS Op,              \* the clients' operations, each with its own key
          MAX_RECORDS,     \* length of a log and of the ring of receipts
          CHECKPOINT_AFTER,\* records after which the log is retired
          Fault,           \* which of "kill", "power", "error" happen
          MaxGeneration, MaxFaults    \* bounds
Bank == 0..1

VARIABLES head, head_synced,      \* the generation the head names: in the file, on the disk
          logs, synced,           \* bank -> operations written; how many are on the disk
          snapshots,              \* bank -> NoSnapshot or [state, durable]
          up, state, generation, records, storage_failed,   \* the running service
          at, job,                \* the step it is at, and for whom
          key,                    \* operation -> the generation in its key
          acked,                  \* operations whose client was told they are done
          reviewed,               \* what Nana saw before she asked for a reset
          faults
disk == <<head, head_synced, logs, synced, snapshots>>
ram == <<up, state, generation, records, storage_failed, at, job>>
vars == <<disk, ram, key, acked, reviewed, faults>>

None == -1
Fresh(g) == [applied |-> <<>>, keyed |-> <<>>, born |-> g]
NoSnapshot == [state |-> Fresh(None), durable |-> FALSE]
NotReviewed == [generation |-> None, sequence |-> None, applied |-> <<>>]
Init == /\ head = 0 /\ head_synced = 0 /\ logs = [b \in Bank |-> <<>>] /\ synced = [b \in Bank |-> 0]
        /\ snapshots = [b \in Bank |-> NoSnapshot]
        /\ up = TRUE /\ state = Fresh(0) /\ generation = 0 /\ records = 0 /\ storage_failed = FALSE
        /\ at = "idle" /\ job = "none"
        /\ key = [o \in Op |-> None] /\ acked = {} /\ reviewed = NotReviewed /\ faults = 0

bank == generation % 2
next == 1 - bank
Ready == up /\ at = "idle" /\ ~storage_failed
\* An event applied, its receipt in the ring.
Receipts(keyed, o) == LET k == IF Len(keyed) = MAX_RECORDS THEN Tail(keyed) ELSE keyed IN Append(k, o)
apply(s, o) == [s EXCEPT !.applied = Append(@, o), !.keyed = Receipts(@, o)]
replay(s, log) == FoldSeq(LAMBDA o, acc : apply(acc, o), s, log)

-----------------------------------------------------------------------------
(* Requests.                                                                 *)
\* A client captures the generation when it creates an operation.
Create(o) == /\ up /\ key[o] = None /\ key' = [key EXCEPT ![o] = generation]
             /\ UNCHANGED <<disk, ram, acked, reviewed, faults>>
OfThisGeneration(o) == key[o] = generation
execute_keyed(o) ==
    /\ Ready /\ key[o] # None
    /\ IF o \in ToSet(state.keyed)
       THEN acked' = acked \cup {o} /\ UNCHANGED <<at, job>>
       ELSE /\ OfThisGeneration(o) /\ records < MAX_RECORDS
            /\ at' = (IF records >= CHECKPOINT_AFTER THEN "begin" ELSE "append")
            /\ job' = o /\ UNCHANGED acked
    /\ UNCHANGED <<disk, up, state, generation, records, storage_failed, key, reviewed, faults>>
checkpoint == /\ Ready /\ at' = "begin" /\ job' = "checkpoint"
              /\ UNCHANGED <<disk, up, state, generation, records, storage_failed, key, acked, reviewed, faults>>
Review == /\ up /\ at = "idle"
          /\ reviewed' = [generation |-> generation, sequence |-> Len(state.applied), applied |-> state.applied]
          /\ reviewed # reviewed'
          /\ UNCHANGED <<disk, ram, key, acked, faults>>
AsReviewed == /\ reviewed # NotReviewed /\ reviewed.generation = generation
              /\ reviewed.sequence = Len(state.applied)
reset_economy == /\ Ready /\ AsReviewed /\ at' = "begin" /\ job' = "reset"
                 /\ UNCHANGED <<disk, up, state, generation, records, storage_failed, key, acked, reviewed, faults>>

-----------------------------------------------------------------------------
(* rotate: the checkpoint into the other bank, the head, the old bank cleared. *)
Step(from, to) == /\ up /\ at = from /\ at' = to
                  /\ UNCHANGED <<up, storage_failed, job, key, acked, reviewed, faults>>
begin_checkpoint ==
    /\ Step("begin", "rows") /\ generation < MaxGeneration
    /\ logs' = [logs EXCEPT ![next] = <<>>] /\ synced' = [synced EXCEPT ![next] = 0]
    /\ snapshots' = [snapshots EXCEPT ![next] = NoSnapshot]
    /\ UNCHANGED <<head, head_synced, state, generation, records>>
save == /\ Step("rows", "publish")
        /\ snapshots' = [snapshots EXCEPT ![next] =
               [state |-> IF job = "reset" THEN Fresh(generation + 1) ELSE state, durable |-> FALSE]]
        /\ UNCHANGED <<head, head_synced, logs, synced, state, generation, records>>
SnapshotSynced == [snapshots EXCEPT ![next].durable = TRUE]
publish == /\ Step("publish", "directory")
           /\ snapshots' = SnapshotSynced /\ head' = generation + 1
           /\ UNCHANGED <<head_synced, logs, synced, state, generation, records>>
\* The directory is flushed, then the old bank is cleared.
commit_checkpoint ==
    /\ Step("directory", IF job \in Op THEN "append" ELSE "idle")
    /\ head_synced' = head /\ generation' = head /\ records' = 0
    /\ logs' = [logs EXCEPT ![bank] = <<>>] /\ synced' = [synced EXCEPT ![bank] = 0]
    /\ snapshots' = [snapshots EXCEPT ![bank] = NoSnapshot]
    /\ state' = IF job = "reset" THEN Fresh(head) ELSE state
    /\ UNCHANGED head
\* commit: the frame is written, then flushed, then applied and acknowledged.
append == /\ Step("append", "sync")
          /\ logs' = [logs EXCEPT ![bank] = Append(@, job)]
          /\ UNCHANGED <<head, head_synced, synced, snapshots, state, generation, records>>
Flushed == [synced EXCEPT ![bank] = Len(logs[bank])]
commit == /\ up /\ at = "sync" /\ at' = "idle"
          /\ synced' = Flushed
          /\ state' = apply(state, job) /\ records' = records + 1 /\ acked' = acked \cup {job}
          /\ UNCHANGED <<head, head_synced, logs, snapshots, up, generation, storage_failed, job, key,
                         reviewed, faults>>

-----------------------------------------------------------------------------
(* Faults.                                                                   *)
Faulty(kind) == kind \in Fault /\ faults < MaxFaults /\ faults' = faults + 1
Fail == /\ Faulty("error") /\ up /\ at # "idle"
        /\ storage_failed' = TRUE /\ at' = "idle"
        \* the directory may have been written before its flush failed
        /\ UNCHANGED <<disk, up, state, generation, records, job, key, acked, reviewed>>
Down == /\ up' = FALSE /\ at' = "idle" /\ job' = "none" /\ state' = Fresh(0) /\ generation' = 0 /\ records' = 0
        /\ storage_failed' = FALSE /\ reviewed' = NotReviewed
        /\ UNCHANGED <<key, acked>>
Kill == Faulty("kill") /\ up /\ Down /\ UNCHANGED disk
\* What was not flushed is lost, in part or whole; half a frame is cut at the next start.
PowerLoss ==
    /\ Faulty("power") /\ Down
    /\ head' \in {head, head_synced} /\ head_synced' = head'
    /\ \E n \in [Bank -> 0..Len(logs[0]) + Len(logs[1])] :
         /\ \A b \in Bank : synced[b] <= n[b] /\ n[b] <= Len(logs[b])
         /\ logs' = [b \in Bank |-> SubSeq(logs[b], 1, n[b])]
         /\ synced' = n
    /\ snapshots' = [b \in Bank |-> IF snapshots[b].durable THEN snapshots[b] ELSE NoSnapshot]
Opened == LET b == head % 2 IN replay(IF head = 0 THEN Fresh(0) ELSE snapshots[b].state, logs[b])
Opens == head > 0 => snapshots[head % 2] # NoSnapshot
open == /\ ~up /\ Opens /\ up' = TRUE
        /\ generation' = head /\ state' = Opened /\ records' = Len(logs[head % 2])
        /\ UNCHANGED <<disk, storage_failed, at, job, key, acked, reviewed, faults>>

Next == \/ \E o \in Op : Create(o) \/ execute_keyed(o)
        \/ checkpoint \/ Review \/ reset_economy
        \/ begin_checkpoint \/ save \/ publish \/ commit_checkpoint \/ append \/ commit
        \/ Fail \/ Kill \/ PowerLoss \/ open
Spec == Init /\ [][Next]_vars

-----------------------------------------------------------------------------
(* Type invariant.                                                           *)
TypeOK == /\ head \in 0..MaxGeneration /\ head_synced \in {head, head - 1} /\ generation \in 0..head
          /\ \A b \in Bank : Len(logs[b]) <= MAX_RECORDS /\ synced[b] \in 0..Len(logs[b])
          /\ records \in 0..MAX_RECORDS /\ Len(state.keyed) <= MAX_RECORDS
          /\ up \/ at = "idle"

(* No operation is applied twice, however often its client sends it again,      *)
(* and none of a generation before a reset is applied after it: receipts and    *)
(* generations together remember every key ("preventing eviction of a           *)
(* current-generation receipt", archive/nanacoin_rs/RETENTION.md:97).           *)
AtMostOnce == /\ IsInjective(state.applied)
              /\ \A i \in DOMAIN state.applied : key[state.applied[i]] >= state.born

(* The service can always be opened again: whichever head the disk shows after  *)
(* a fault, the checkpoint it names is there (publish and commit_checkpoint).   *)
AlwaysOpens == /\ Opens
               /\ head_synced > 0 => snapshots[head_synced % 2].durable

(* What a client was told is done is in the household whenever it answers,      *)
(* unless the household has been reset since (commit, rotate and open).         *)
AckedSurvives == up => \A o \in acked : o \in ToSet(state.applied) \/ key[o] < state.born

(* The service goes on from what the disk says: what it has in memory is what   *)
(* it would have after a restart now, unless a write has failed.                *)
MemoryIsDisk == Ready => state = Opened /\ records = Len(logs[bank])

(* A reset erases what Nana reviewed and nothing that came after (the           *)
(* expected generation and sequence in api.rs).                                 *)
ResetAsReviewed ==
    at = "idle" /\ at' = "begin" /\ job' = "reset"
      => reviewed.applied = state.applied

(* README.md says "Validated events append durably before state changes".  A    *)
(* frame that was written and not flushed when the process was killed is        *)
(* replayed, and acknowledged to the retry, without being flushed.              *)
AckedIsDurable == up => \A o \in acked : \/ key[o] < state.born
    \/ \E b \in Bank : \/ o \in ToSet(SubSeq(logs[b], 1, synced[b]))
                       \/ snapshots[b].durable /\ o \in ToSet(snapshots[b].state.applied)
=============================================================================
