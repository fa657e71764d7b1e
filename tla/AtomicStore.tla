---------------------------- MODULE AtomicStore -----------------------------
(***************************************************************************)
(* What a party board promises about its state (party/api/src/api.rs:      *)
(* "Every change is committed to flash before the response is sent [...];  *)
(* if it fails, the change is rolled back and the client gets 500").       *)
(* There is the state requests see and the state the next boot finds: the  *)
(* second only ever becomes the first, all at once, and a change that      *)
(* fails leaves neither trace.                                             *)
(***************************************************************************)
CONSTANT State

VARIABLES
    live,      \* what requests see
    saved,     \* the state a change that fails returns to
    durable,   \* what the next boot finds
    changing,  \* a request's change is in progress
    running    \* the board is up

vars == <<live, saved, durable, changing, running>>

Init ==
    /\ live \in State
    /\ saved = live
    /\ durable = live
    /\ changing = FALSE
    /\ running = TRUE

Begin ==
    /\ running /\ ~changing
    /\ changing' = TRUE
    /\ UNCHANGED <<live, saved, durable, running>>

Edit ==
    /\ running /\ changing
    /\ live' \in State
    /\ UNCHANGED <<saved, durable, changing, running>>

\* The board's own changes, which no request takes back.
Housekeep ==
    /\ running /\ ~changing
    /\ live' \in State
    /\ saved' = live'
    /\ UNCHANGED <<durable, changing, running>>

Undo ==
    /\ running /\ changing
    /\ live' = saved
    /\ changing' = FALSE
    /\ UNCHANGED <<saved, durable, running>>

Commit ==
    /\ running
    /\ durable' = live
    /\ saved' = live
    /\ changing' = FALSE
    /\ UNCHANGED <<live, running>>

\* What requests saw is gone.
PowerCut ==
    /\ running' = FALSE
    /\ changing' = FALSE
    /\ UNCHANGED durable

Boot ==
    /\ ~running
    /\ live' = durable
    /\ saved' = durable
    /\ changing' = FALSE
    /\ running' = TRUE
    /\ UNCHANGED durable

Next == Begin \/ Edit \/ Housekeep \/ Undo \/ Commit \/ PowerCut \/ Boot

Spec == Init /\ [][Next]_vars
=============================================================================
