------------------------------ MODULE FwWorkers ------------------------------
(* The watch over the board's two loops (miniframework incidents.rs): each      *)
(* loop leaves the time of its turn, a sampler on another task compares it with *)
(* a clock it read earlier and tells of stalls, Wi-Fi and low memory.  Times    *)
(* are kept modulo W (2^32 ms in the code), so a beat can look older or newer   *)
(* than it is.  Every step is one load or store that another task can see.      *)
EXTENDS Naturals, FiniteSets, TLC

CONSTANTS Worker, W, STALL, PERIOD, HEAP_LOW,
          Start, MaxNow                     \* the clock's first and last value
WidthAssumption == STALL < W \div 2 /\ MaxNow \in Start..(Start + W \div 2 - 1)
VARIABLES now,
          beats, active,          \* Recorder's atomics
          turn,                   \* where a worker is in beat
          beaten,                 \* when a worker last beat, whole; 0 before its first
          look,                   \* the sampler: its clock, and the gaps it has read
          sampled, wifi, stalled, heap_low,    \* State
          alarms                  \* kinds the sampler recorded in its last sample
vars == <<now, beats, active, turn, beaten, look, sampled, wifi, stalled, heap_low, alarms>>
workers == <<beats, active, turn, beaten>>
state == <<sampled, wifi, stalled, heap_low, alarms>>

None == 0
Idle == [step |-> "idle", old |-> 0, at |-> 0]
NoLook == [step |-> "idle", at |-> 0, gap |-> <<>>]
Init == /\ now = Start /\ beats = [w \in Worker |-> 0] /\ active = [w \in Worker |-> FALSE]
        /\ turn = [w \in Worker |-> Idle] /\ beaten = [w \in Worker |-> 0] /\ look = NoLook
        /\ sampled = None /\ wifi = "unknown" /\ stalled = {} /\ heap_low = HEAP_LOW /\ alarms = {}

Since(at, then) == ((at % W) + W - then) % W      \* wrapping_sub
\* gap > i32::MAX: a beat newer than the clock it is compared with.
Newer(gap) == gap >= W \div 2

-----------------------------------------------------------------------------
\* beat: the clock is read, the time stored, and then the worker is active.
Turn(w) == /\ turn[w].step = "idle" /\ turn' = [turn EXCEPT ![w] = [step |-> "store", old |-> 0, at |-> now]]
           /\ UNCHANGED <<now, beats, active, beaten, look, state>>
StoreBeat(w) ==
    /\ turn[w].step = "store" /\ beats' = [beats EXCEPT ![w] = turn[w].at % W]
    /\ turn' = [turn EXCEPT ![w].step = "active", ![w].old = beats[w]]
    /\ beaten' = [beaten EXCEPT ![w] = turn[w].at]
    /\ UNCHANGED <<now, active, look, sampled, wifi, stalled, heap_low, alarms>>
\* The turn came too late: WorkerRecovered is recorded.
Recovers(w) == active[w] /\ Since(turn[w].at, turn[w].old) >= STALL
SetActive(w) == /\ turn[w].step = "active" /\ active' = [active EXCEPT ![w] = TRUE]
                /\ turn' = [turn EXCEPT ![w] = Idle]
                /\ alarms' = IF Recovers(w) THEN {"recovered"} ELSE alarms
                /\ UNCHANGED <<now, beats, beaten, look, sampled, wifi, stalled, heap_low>>

-----------------------------------------------------------------------------
\* sample: a clock, then the two gaps, then the state under its lock.
Look == /\ look.step = "idle" /\ look' = [NoLook EXCEPT !.step = "gaps", !.at = now]
        /\ UNCHANGED <<now, workers, state>>
Gap(w, at) == IF ~active[w] \/ Newer(Since(at, beats[w])) THEN 0 ELSE Since(at, beats[w])
ReadGap(w) == /\ look.step = "gaps" /\ w \notin DOMAIN look.gap
              /\ look' = [look EXCEPT !.gap = (w :> Gap(w, look.at)) @@ look.gap]
              /\ UNCHANGED <<now, workers, state>>
Stalls == {w \in Worker : look.gap[w] >= STALL}
Commit == /\ look.step = "gaps" /\ DOMAIN look.gap = Worker /\ look' = NoLook
          /\ \/ /\ sampled # None /\ look.at < sampled + PERIOD /\ UNCHANGED state
             \/ /\ sampled = None \/ look.at >= sampled + PERIOD
                /\ sampled' = look.at /\ stalled' = Stalls
                /\ \E up \in {"up", "down"}, low \in 0..HEAP_LOW :
                     /\ wifi' = up /\ heap_low' = IF low < heap_low THEN low ELSE heap_low
                     /\ alarms' = (Stalls \ stalled) \cup (IF up # wifi THEN {"wifi"} ELSE {})
                                  \cup (IF low < heap_low THEN {"heap"} ELSE {})
          /\ UNCHANGED <<now, workers>>
\* workers_healthy, asked by the status light.
Beaten(w, at) == active[w] /\ (Since(at, beats[w]) < STALL \/ Newer(Since(at, beats[w])))
workers_healthy(at) == \A w \in Worker : Beaten(w, at)

Tick == now < MaxNow /\ now' = now + 1 /\ UNCHANGED <<workers, look, state>>
Next == Tick \/ Look \/ Commit \/ \E w \in Worker : Turn(w) \/ StoreBeat(w) \/ SetActive(w) \/ ReadGap(w)
Spec == Init /\ [][Next]_vars

-----------------------------------------------------------------------------
TypeOK == /\ stalled \subseteq Worker /\ \A w \in Worker : beats[w] \in 0..(W - 1)
          /\ \A w \in Worker : active[w] => beaten[w] > 0

\* "A worker can beat after the sampler captured now": a stall is told only of
\* a worker that has had no turn for STALL by the sampler's clock, also when the
\* clock wraps, in a worker's first turn, or when a beat overtakes the sampler.
NoFalseAlarm ==
    \A w \in Worker :
        w \in DOMAIN look'.gap \ DOMAIN look.gap /\ look'.gap[w] >= STALL
            => beaten[w] > 0 /\ look.at >= beaten[w] + STALL

\* "Tolerates a beat newer than the caller's clock": the status light calls the
\* board healthy exactly when each worker has had its turn within STALL.
HealthIsTrue == look.step # "idle" =>
    (workers_healthy(look.at) <=> \A w \in Worker : active[w] /\ look.at < beaten[w] + STALL)
=============================================================================
