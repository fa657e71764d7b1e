---------------------------- MODULE EventSourced ----------------------------
(***************************************************************************)
(* How internal/core keeps its RAM model behind a journal: an event is     *)
(* appended first and applied to the RAM model second (commit.go), and     *)
(* service.New replays every record with the same applyEvent.              *)
(*                                                                         *)
(* The journal is represented by what replaying it yields, so the          *)
(* histories that lead to one state are one state here.  What an append    *)
(* promises is the contract DurableLog: the record of a failed append may  *)
(* still be found by the next replay, as long as no later record was       *)
(* written over it.                                                        *)
(***************************************************************************)
CONSTANT
    Apply(_, _)  \* applyEvent: the state and whether it returned nil

VARIABLES
    live,  \* the RAM model of the running service
    disk,  \* what replaying the journal yields, and whether it succeeds
    up     \* New has returned a service

Replayed(d, e) ==
    IF d.ok THEN Apply(d.state, e) ELSE d

\* The process ends and New replays the journal; a replay that meets a record
\* applyEvent refuses returns no service, now and at every later boot.
Boot(d) ==
    /\ disk' = d
    /\ live' = d.state
    /\ up' = d.ok

Reboot == Boot(disk)

\* commitEvent, with the RAM model at s when it is called: the append is
\* acknowledged, and the caller sees the error of applyEvent, if any.
Commit(s, e) ==
    /\ disk' = Replayed(disk, e)
    /\ live' = Apply(s, e).state
    /\ UNCHANGED up

\* commitEvent, and the append fails: nothing is applied.
CommitFails(s) ==
    /\ live' = s
    /\ UNCHANGED <<disk, up>>

\* commitEvent, and the append reports a failure although the record is whole,
\* and the process ends before another append: the next replay finds it.
\* Nothing reaches the journal in between, so that boot is part of this step.
FoundAtBoot(e) == Boot(Replayed(disk, e))

=============================================================================
