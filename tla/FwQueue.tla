------------------------------- MODULE FwQueue -------------------------------
(* The job queue of miniframework (queue.rs): a fixed number of slots that an  *)
(* entry keeps from submission until its result is forgotten or its lifetime   *)
(* ends, a few workers, and a sequence number that is rebased before it wraps. *)
(* A job id is the submission's number; payloads and results are left out.     *)
EXTENDS Naturals, Sequences, FiniteSets, SequencesExt

CONSTANTS Owner, Slots, Workers, PerOwner, Lifetime,   \* Limits
          MaxSequence,                                 \* u64::MAX
          MaxSubmits, MaxNow                           \* bounds
SequenceAssumption == Slots < MaxSequence   \* a rebase leaves numbers to give
VARIABLES entries,     \* slot -> [id, owner, expires, sequence, status]
          sequence, now,
          claimed,     \* jobs workers hold: id -> expires
          submits, order
vars == <<entries, sequence, now, claimed, submits, order>>

Free == "free"
NoEntry == [id |-> 0, owner |-> CHOOSE o \in Owner : TRUE, expires |-> 0, sequence |-> 0, status |-> Free]
Init == /\ entries = [i \in 1..Slots |-> NoEntry] /\ sequence = 0 /\ now = 0
        /\ claimed = {} /\ submits = 0 /\ order = <<>>

Clear(e) == [e EXCEPT !.status = Free]
\* Mutant of Reaped
ReapedAll(t) == [i \in 1..Slots |-> IF entries[i].status # Free /\ entries[i].expires <= t
                                    THEN Clear(entries[i]) ELSE entries[i]]
\* reap: what has expired goes, except a job that is still being worked on.
Reaped(t) == [i \in 1..Slots |-> IF /\ entries[i].status \notin {Free, "running"}
                                    /\ entries[i].expires <= t
                                 THEN Clear(entries[i]) ELSE entries[i]]
With(es, s) == {i \in 1..Slots : es[i].status = s}
Pending(es) == {es[i].id : i \in With(es, "pending")}
Least(S) == CHOOSE x \in S : \A y \in S : x <= y

-----------------------------------------------------------------------------
\* Mutant of Rebased
Renumbered(es) == [i \in 1..Slots |-> [es[i] EXCEPT !.sequence = i - 1]]
\* Only pending order matters: the entries, free ones too, are numbered again.
Rebased(es) == LET s == SortSeq(es, LAMBDA a, b : a.sequence < b.sequence)
               IN  [i \in 1..Slots |-> [s[i] EXCEPT !.sequence = i - 1]]
Numbered(es) == IF sequence = MaxSequence THEN [entries |-> Rebased(es), next |-> Slots]
                ELSE [entries |-> es, next |-> sequence]
submit(o) ==
    LET es == Reaped(now)
        n == Numbered(es)
    IN  /\ submits < MaxSubmits
        /\ Cardinality({i \in 1..Slots : es[i].status # Free /\ es[i].owner = o}) < PerOwner
        /\ With(es, Free) # {}
        /\ entries' = [n.entries EXCEPT ![Least(With(n.entries, Free))] =
                          [id |-> submits + 1, owner |-> o, expires |-> now + Lifetime,
                           sequence |-> n.next, status |-> "pending"]]
        /\ sequence' = n.next + 1 /\ submits' = submits + 1
        /\ order' = Append(order, submits + 1)
        /\ UNCHANGED <<now, claimed>>

claim == LET es == Reaped(now)
         IN  /\ Cardinality(With(es, "running")) < Workers /\ With(es, "pending") # {}
             /\ \E i \in With(es, "pending") :
                   /\ \A j \in With(es, "pending") : es[i].sequence <= es[j].sequence
                   /\ entries' = [es EXCEPT ![i].status = "running"]
                   /\ claimed' = claimed \cup {es[i].id}
                   /\ order' = SelectSeq(order, LAMBDA x : x # es[i].id)
             /\ UNCHANGED <<sequence, now, submits>>

\* poll and stats: they reap; an owner reads its own unexpired entry.
poll == /\ entries' = Reaped(now) /\ entries' # entries
        /\ UNCHANGED <<sequence, now, claimed, submits, order>>

\* Job::finish, Job::fail, and a claim that is dropped: a late result is lost
\* with its entry, a result that is too long is a failure.
complete(id) ==
    /\ id \in claimed /\ claimed' = claimed \ {id}
    /\ \E i \in With(entries, "running") :
          /\ entries[i].id = id
          /\ \E s \in {"done", "failed"} :
                entries' = [entries EXCEPT ![i] = IF @.expires <= now THEN Clear(@)
                                                  ELSE [@ EXCEPT !.status = s]]
    /\ UNCHANGED <<sequence, now, submits, order>>

forget == \E i \in 1..Slots : /\ entries[i].status \in {"done", "failed"}
                              /\ entries' = [entries EXCEPT ![i] = Clear(@)]
                              /\ UNCHANGED <<sequence, now, claimed, submits, order>>
Clock == /\ now < MaxNow /\ now' = now + 1
         /\ UNCHANGED <<entries, sequence, claimed, submits, order>>

Next == \/ \E o \in Owner : submit(o)
        \/ claim \/ poll \/ (\E id \in claimed : complete(id)) \/ forget \/ Clock
Spec == Init /\ [][Next]_vars /\ WF_vars(claim) /\ WF_vars(Clock)
             /\ WF_vars(\E id \in claimed : complete(id))

-----------------------------------------------------------------------------
TypeOK == /\ \A i \in 1..Slots : entries[i].status \in {Free, "pending", "running", "done", "failed"}
          /\ sequence <= MaxSequence /\ Cardinality(claimed) <= Workers

\* "Dropping a claim ... releases the worker budget"; "an expired running job
\* holds its slot": a worker's job has its running entry until it is released,
\* so no entry is run twice and no slot is reused under a worker.
ClaimsAreRunning == claimed = {entries[i].id : i \in With(entries, "running")}

\* "FIFO claim": of the jobs still waiting, the one submitted first is taken,
\* whatever was renumbered, forgotten or expired in between.
FirstComeFirst ==
    \A id \in claimed' \ claimed :
        \A i \in DOMAIN order : order[i] \in Pending(Reaped(now)) => order[i] >= id

\* A job that is accepted does not wait for ever: it is run, or its time is up.
Waits(id) == id \in Pending(Reaped(now))
NoneWaitsForEver == \A id \in 1..MaxSubmits : Waits(id) ~> ~Waits(id)
=============================================================================
