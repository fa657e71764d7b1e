----------------------------- MODULE FwIncidents -----------------------------
(* The board's error log (miniframework incidents.rs).  Tasks record without   *)
(* waiting: a counter per kind, a ring of EVENTS entries that coalesces         *)
(* repeats, and a mirror of the newest RING entries and of the counters in      *)
(* memory that outlives a reset, written word by word while other tasks run.    *)
(* Counter wrap-around, durations and byte sizes are left out; samples are in   *)
(* FwWorkers.                                                                   *)
EXTENDS Naturals, FiniteSets, FiniteSetsExt

CONSTANTS Task, Kind, CountOnly,     \* Kind::count_only
          EVENTS, RING, COALESCE,
          MaxNow, MaxRecords, MaxBoots       \* bounds, of the records over all boots
RingAssumption == RING \in 1..EVENTS /\ EVENTS % RING = 0
Slot == 0..(EVENTS - 1)
Cell == 0..(RING - 1)
VARIABLES events, event_next, event_len, overwritten, dropped, counts,
          lock,          \* the task that holds the state's mutex, or none
          at,            \* where each task is in record
          magic, cells, mirrored,   \* Retained: the mirror's mark, slots and counters
          previous,      \* what this boot recovered, "none" if nothing
          stored,        \* the entries this boot has begun to mirror
          now, records, boots
vars == <<events, event_next, event_len, overwritten, dropped, counts, lock, at, magic, cells,
          mirrored, previous, stored, now, records, boots>>
fixed == <<now, records, boots, previous>>

None == "none"
Blank == [kind |-> None, first |-> 0, last |-> 0, count |-> 0]
\* A mirrored entry: two groups of words and the checksum over both.
NoCell == [time |-> <<0, 0>>, what |-> <<None, 0>>, check |-> Blank]
Idle == [step |-> "idle"]
Zeros == [k \in Kind |-> 0]
Fresh == /\ events' = [s \in Slot |-> Blank] /\ event_next' = 0 /\ event_len' = 0
         /\ overwritten' = 0 /\ dropped' = 0 /\ counts' = Zeros /\ lock' = None
         /\ at' = [t \in Task |-> Idle] /\ now' = 0 /\ stored' = {}
Init == /\ events = [s \in Slot |-> Blank] /\ event_next = 0 /\ event_len = 0
        /\ overwritten = 0 /\ dropped = 0 /\ counts = Zeros /\ lock = None
        /\ at = [t \in Task |-> Idle] /\ now = 0 /\ records = 0 /\ stored = {}
        /\ magic = TRUE /\ cells = [c \in Cell |-> NoCell] /\ mirrored = Zeros
        /\ previous = None /\ boots = 1

-----------------------------------------------------------------------------
(* record, step by step.                                                     *)
Count(t) == \E k \in Kind :
    /\ at[t].step = "idle" /\ records < MaxRecords /\ records' = records + 1
    /\ counts' = [counts EXCEPT ![k] = @ + 1]
    /\ at' = [at EXCEPT ![t] = [step |-> "counted", kind |-> k, count |-> counts[k] + 1]]
    /\ UNCHANGED <<events, event_next, event_len, overwritten, dropped, lock, magic, cells,
                   mirrored, previous, stored, now, boots>>
MirrorCount(t) ==
    /\ at[t].step = "counted"
    /\ mirrored' = [mirrored EXCEPT ![at[t].kind] = at[t].count]
    /\ at' = [at EXCEPT ![t] = IF at[t].kind \in CountOnly THEN Idle
                               ELSE [step |-> "enter", kind |-> at[t].kind, now |-> now]]
    /\ UNCHANGED <<events, event_next, event_len, overwritten, dropped, counts, lock, magic, cells,
                   stored, fixed>>

\* The entry a repeat is added to, and whether the mirror still holds it.
Repeats(s, k, when) == events[s].kind = k /\ when <= events[s].last + COALESCE
Mirrored(s) == (event_next + EVENTS - s - 1) % EVENTS < RING
Lost == dropped + 1
Writing(s) == [step |-> "write", cell |-> s % RING, entry |-> events'[s], word |-> 0]
Enter(t) ==
    /\ at[t].step = "enter"
    /\ \/ /\ lock # None /\ dropped' = Lost /\ at' = [at EXCEPT ![t] = Idle]
          /\ UNCHANGED <<events, event_next, event_len, overwritten, lock, stored>>
       \/ /\ lock = None /\ UNCHANGED dropped
          /\ LET k == at[t].kind
                 when == at[t].now
                 repeats == {s \in Slot : Repeats(s, k, when)}
                 s == IF repeats = {} THEN event_next ELSE Min(repeats)
             IN  IF repeats # {}
                 THEN /\ events' = [events EXCEPT ![s].last = when, ![s].count = @ + 1]
                      /\ UNCHANGED <<event_next, event_len, overwritten>>
                      /\ IF Mirrored(s)
                         THEN /\ at' = [at EXCEPT ![t] = Writing(s)] /\ lock' = t
                              /\ stored' = stored \cup {events'[s]}
                         ELSE at' = [at EXCEPT ![t] = Idle] /\ UNCHANGED <<lock, stored>>
                 ELSE /\ events' = [events EXCEPT ![s] = [kind |-> k, first |-> when,
                                                          last |-> when, count |-> 1]]
                      /\ at' = [at EXCEPT ![t] = Writing(s)] /\ lock' = t
                      /\ event_next' = (s + 1) % EVENTS
                      /\ overwritten' = IF event_len = EVENTS THEN overwritten + 1 ELSE overwritten
                      /\ event_len' = IF event_len = EVENTS THEN EVENTS ELSE event_len + 1
                      /\ stored' = stored \cup {events'[s]}
    /\ UNCHANGED <<counts, magic, cells, mirrored, fixed>>
\* event: the checksum is cleared, the words are written, the checksum is set.
Written(c, e, word) ==
    CASE word = 0 -> [c EXCEPT !.check = Blank]
      [] word = 1 -> [c EXCEPT !.time = <<e.first, e.last>>]
      [] word = 2 -> [c EXCEPT !.what = <<e.kind, e.count>>]
      [] word = 3 -> [c EXCEPT !.check = e]
Write(t) ==
    /\ at[t].step = "write"
    /\ cells' = [cells EXCEPT ![at[t].cell] = Written(@, at[t].entry, at[t].word)]
    /\ at' = [at EXCEPT ![t] = IF at[t].word = 3 THEN Idle ELSE [at[t] EXCEPT !.word = @ + 1]]
    /\ lock' = IF at[t].word = 3 THEN None ELSE lock
    /\ UNCHANGED <<events, event_next, event_len, overwritten, dropped, counts, magic, mirrored,
                   stored, fixed>>

-----------------------------------------------------------------------------
\* recover: the slots whose checksum fits what they hold.
Held(c) == [kind |-> c.what[1], first |-> c.time[1], last |-> c.time[2], count |-> c.what[2]]
Valid(c) == c.what[2] > 0 /\ c.check = Held(c)
recover == IF magic THEN [events |-> {Held(cells[c]) : c \in {x \in Cell : Valid(cells[x])}},
                          counts |-> mirrored]
           ELSE None
\* A reset at any step, and the next boot: the mirror is read and then cleared,
\* mark first, so that a reset in the middle leaves nothing to be read.
Reset == /\ boots < MaxBoots /\ boots' = boots + 1 /\ Fresh /\ UNCHANGED records
         /\ \/ /\ magic' = TRUE /\ cells' = [c \in Cell |-> NoCell] /\ mirrored' = Zeros
               /\ previous' = recover
            \/ /\ magic' = FALSE /\ previous' = recover
               /\ \E cleared \in SUBSET Cell :
                    cells' = [c \in Cell |-> IF c \in cleared THEN NoCell ELSE cells[c]]
               /\ UNCHANGED mirrored
Marked == /\ ~magic /\ magic' = TRUE /\ cells' = [c \in Cell |-> NoCell] /\ mirrored' = Zeros
          /\ UNCHANGED <<events, event_next, event_len, overwritten, dropped, counts, lock, at,
                         stored, fixed>>
Tick == /\ now < MaxNow /\ now' = now + 1
        /\ UNCHANGED <<events, event_next, event_len, overwritten, dropped, counts, lock, at, magic,
                       cells, mirrored, previous, stored, records, boots>>

Next == \/ Reset \/ Marked
        \/ magic /\ (Tick \/ \E t \in Task : Count(t) \/ MirrorCount(t) \/ Enter(t) \/ Write(t))
Spec == Init /\ [][Next]_vars

-----------------------------------------------------------------------------
TypeOK == /\ event_next \in Slot /\ event_len <= EVENTS
          /\ Cardinality({s \in Slot : events[s].count > 0}) = event_len
          /\ \A t \in Task : at[t].step = "write" <=> lock = t

\* "its newest incidents (up to 16)": whenever no task is writing, the mirror
\* holds the newest RING entries, each as it is now, repeats included.
Newest(n) == (event_next + EVENTS - 1 - n) % EVENTS
NewestAreMirrored == magic /\ lock = None =>
    \A n \in Cell : n < event_len =>
        LET s == Newest(n) IN Valid(cells[s % RING]) /\ Held(cells[s % RING]) = events[s]

\* "a reset in the middle of a write loses that slot, not the history": what a
\* boot takes over are entries the boot before it recorded, none half written,
\* and at most the slot that was being written is missing.
RecoveredIsTrue ==
    Reset /\ magic =>
        /\ previous'.events \subseteq stored
        /\ Cardinality(previous'.events) + 1 >= Cardinality({n \in Cell : n < event_len})

\* Every recorded incident is in the history, was pushed out of it or was
\* dropped, and each of these is counted.
NoneUncounted == LET sum(f, S) == FoldSet(LAMBDA x, n : n + f[x], 0, S)
                     pending == Cardinality({t \in Task : at[t].step \in {"counted", "enter"}
                                                            /\ at[t].kind \notin CountOnly})
                 IN  overwritten = 0 =>
                       sum(counts, Kind \ CountOnly)
                         = sum([s \in Slot |-> events[s].count], Slot) + dropped + pending

\* "On the board the counters ... are mirrored": with no task recording, the
\* mirror's counters are the board's.  What the code does: the count is taken
\* and stored in two steps, so two tasks can store theirs in the wrong order.
CountersAreMirrored == (\A t \in Task : at[t] = Idle) /\ magic => mirrored = counts
=============================================================================
