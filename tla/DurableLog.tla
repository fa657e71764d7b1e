----------------------------- MODULE DurableLog -----------------------------
(***************************************************************************)
(* The contract of storage.Journal (internal/storage/journal.go) as its    *)
(* one caller, core.Service, relies on it: an append that returned nil is  *)
(* part of every later replay, in order, and an append that returned an    *)
(* error leaves the caller's history alone.  A replay may also deliver     *)
(* records whose append was interrupted or reported as failed: the         *)
(* contract does not rule that out, and no implementation could.           *)
(***************************************************************************)
EXTENDS Integers, Sequences

CONSTANT Entry

VARIABLES
    log,    \* the entries promised to survive
    view,   \* what the running caller has replayed and appended
    up      \* Replay has returned nil and the process lives

vars == <<log, view, up>>

Init == log = <<>> /\ view = <<>> /\ up = FALSE

StartsWith(s, r) == Len(r) <= Len(s) /\ \A i \in 1..Len(r) : s[i] = r[i]

\* Replay returned nil: the caller has all of log, and maybe more.
Boot ==
    /\ ~up
    /\ up' = TRUE
    /\ view' \in Seq(Entry)
    /\ StartsWith(view', log)
    /\ UNCHANGED log

\* Append returned nil: the entry, and all the caller had before it, stays.
Ack ==
    /\ up
    /\ view' \in Seq(Entry)
    /\ Len(view') = Len(view) + 1
    /\ StartsWith(view', view)
    /\ log' = view'
    /\ UNCHANGED up

\* The process or the power stops.
Stop ==
    /\ up
    /\ up' = FALSE
    /\ view' = <<>>
    /\ UNCHANGED log

Next == Boot \/ Ack \/ Stop

Spec == Init /\ [][Next]_vars

=============================================================================
