----------------------------- MODULE PartySeries ----------------------------
(***************************************************************************)
(* The events of a party board over time: a recurring series that keeps a  *)
(* window of occurrences ahead (party/api/src/series.rs), the life of an   *)
(* event from scheduled to done or cancelled, reminders, the ring of past  *)
(* events (events.rs), and the housekeeping of api.rs that drives them.    *)
(*                                                                         *)
(* A unit of time is half a day, and an occurrence is a day after the one  *)
(* before, at the same time of the day.  A request is undone as a whole    *)
(* when it fails; housekeeping is not.                                     *)
(***************************************************************************)
EXTENDS Integers, Sequences, FiniteSets, TLC, SequencesExt, FiniteSetsExt

CONSTANTS
    MaxNow,          \* bound on the half days that pass
    Starts,          \* the starts hosts choose, of the half days from 2
    MaxEvents,       \* bound on the events ever made
    MaxMade,         \* bound on the occurrences counted
    UpcomingLimit,   \* Limits::upcoming_events
    PastLimit,       \* Limits::past_events
    Windows,         \* the windows a host may ask for, within 1..8
    Counts,          \* the numbers of occurrences a host may ask for; 0 for no end
    MaxTurns,        \* the 64 turns of materialize
    Lead,            \* reminder_secs
    None

VARIABLES
    now,
    events,          \* State.events: from ids to events
    series,          \* State.series: one, or None
    next,            \* State.next_event
    ever             \* history: the occurrences that were made into events

seriesVars == <<now, events, series, next, ever>>

Scheduled == "scheduled"
Cancelled == "cancelled"
Done == "done"

\* occurrence: 0 for an event of its own, otherwise one more than its number.
Event == [start : Nat, status : {Scheduled, Cancelled, Done}, reminded : BOOLEAN,
          occurrence : 0..MaxMade]

Ids == DOMAIN events
ActiveIds(evs) == {id \in DOMAIN evs : evs[id].status = Scheduled}
UpcomingCount(evs) == Cardinality(ActiveIds(evs))
Without(evs, ids) == [id \in DOMAIN evs \ ids |-> evs[id]]

\* effective_end: half a day after the start.
EffectiveEnd(e) == e.start + 1

-----------------------------------------------------------------------------
(* The rule. *)

\* occurrence: the start of occurrence n (0 the first), or None past the end.
Occurrence(s, n) == IF s.count > 0 /\ n >= s.count THEN None ELSE s.first + 2 * n

\* The occurrences of the series that are still ahead.
Ahead(evs) == {id \in ActiveIds(evs) : evs[id].occurrence > 0 /\ evs[id].start > now}

\* Occurrence n becomes an event, and is counted.
Made(st, n, start) ==
    [st EXCEPT !.series.made = n + 1,
               !.events = (st.next :> [start |-> start, status |-> Scheduled, reminded |-> FALSE,
                                       occurrence |-> n + 1]) @@ @,
               !.next = @ + 1,
               !.ever = @ \cup {n}]

\* Mutant of Turn: an occurrence missed while the board was off is made late.
TurnLate(st) ==
    LET n == st.series.made
        start == Occurrence(st.series, n)
    IN  IF \/ st.stop \/ st.series.status # "active" \/ start = None
           \/ Cardinality(Ahead(st.events)) >= st.series.window
           \/ UpcomingCount(st.events) >= UpcomingLimit
        THEN [st EXCEPT !.stop = TRUE] ELSE Made(st, n, start)

\* One turn of the loop of materialize: a past occurrence is counted and skipped,
\* and one that the board has no room for is counted before that is known.
Turn(st) ==
    LET n == st.series.made
        start == Occurrence(st.series, n)
    IN  IF st.stop \/ st.series.status # "active" \/ Cardinality(Ahead(st.events)) >= st.series.window
        THEN [st EXCEPT !.stop = TRUE]
        ELSE IF start = None THEN [st EXCEPT !.series.status = "ended", !.stop = TRUE]
        ELSE IF start <= now THEN [st EXCEPT !.series.made = n + 1]
        ELSE IF UpcomingCount(st.events) >= UpcomingLimit
        THEN [st EXCEPT !.series.made = n + 1, !.stop = TRUE, !.failed = TRUE]
        ELSE Made(st, n, start)

\* materialize
Materialize(evs, s) ==
    FoldLeft(LAMBDA st, turn : Turn(st),
             [events |-> evs, series |-> s, next |-> next, ever |-> ever, stop |-> FALSE, failed |-> FALSE],
             [turn \in 1..MaxTurns |-> turn])

Becomes(st) ==
    /\ st.next <= MaxEvents + 1 /\ st.series.made <= MaxMade
    /\ events' = st.events
    /\ series' = st.series
    /\ next' = st.next
    /\ ever' = st.ever

-----------------------------------------------------------------------------
(* Hosts. *)

\* create_event
CreateEvent(start) ==
    /\ UpcomingCount(events) < UpcomingLimit
    /\ start > now
    /\ next <= MaxEvents
    /\ events' = (next :> [start |-> start, status |-> Scheduled, reminded |-> FALSE, occurrence |-> 0])
                 @@ events
    /\ next' = next + 1
    /\ UNCHANGED <<now, series, ever>>

\* create_series: with its first occurrences, or not at all.
CreateSeries(first, window, count) ==
    /\ series = None
    /\ first > now
    /\ LET st == Materialize(events, [status |-> "active", first |-> first, made |-> 0,
                                      window |-> window, count |-> count])
       IN  ~st.failed /\ Becomes(st)
    /\ UNCHANGED now

\* update_series: an ended series starts again when its rule leaves something to make.
UpdateSeries(window, count) ==
    /\ series # None
    /\ LET s == [series EXCEPT !.window = window, !.count = count,
                               !.status = IF count = 0 \/ series.made < count THEN "active" ELSE @]
           st == Materialize(events, s)
       IN  s # series /\ ~st.failed /\ Becomes(st)
    /\ UNCHANGED now

\* cancel_event, of those listed.
CancelAll(ids) ==
    [id \in Ids |-> IF id \in ids /\ events[id].status = Scheduled
                    THEN [events[id] EXCEPT !.status = Cancelled] ELSE events[id]]

\* end_series
EndSeries(cancelFuture) ==
    /\ series # None
    /\ series' = [series EXCEPT !.status = "ended"]
    /\ events' = IF cancelFuture THEN CancelAll(Ahead(events)) ELSE events
    /\ UNCHANGED <<now, next, ever>>

CancelEvent(id) ==
    /\ events[id].status = Scheduled
    /\ events' = CancelAll({id})
    /\ UNCHANGED <<now, series, next, ever>>

DeleteEvent(id) ==
    /\ events' = Without(events, {id})
    /\ UNCHANGED <<now, series, next, ever>>

\* update_following: the series moves to another time of the day, with this
\* occurrence and the later ones that are still on.
UpdateFollowing(id, time) ==
    /\ series # None
    /\ events[id].status = Scheduled
    /\ events[id].occurrence > 0
    /\ series' = [series EXCEPT !.first = 2 * (@ \div 2) + time]
    /\ LET later == {o \in ActiveIds(events) : events[o].occurrence >= events[id].occurrence}
           start(o) == Occurrence(series', events[o].occurrence - 1)
       IN  events' = [o \in Ids |-> IF o \in later /\ start(o) # None
                                    THEN [events[o] EXCEPT !.start = start(o)] ELSE events[o]]
    /\ UNCHANGED <<now, next, ever>>

-----------------------------------------------------------------------------
(* Housekeeping. *)

\* advance_events: those that are over are done, and of the past the oldest go.
Advanced ==
    LET finished == [id \in Ids |-> IF events[id].status = Scheduled /\ now >= EffectiveEnd(events[id])
                                    THEN [events[id] EXCEPT !.status = Done] ELSE events[id]]
        past == Ids \ ActiveIds(finished)
        Older(i, j) == \/ EffectiveEnd(events[i]) < EffectiveEnd(events[j])
                       \/ EffectiveEnd(events[i]) = EffectiveEnd(events[j]) /\ i < j
        kept == {i \in past : Cardinality({j \in past : Older(i, j)}) < PastLimit}
    IN  Without(finished, past \ kept)

DueReminders(evs) ==
    {id \in ActiveIds(evs) : ~evs[id].reminded /\ evs[id].start > now /\ now + Lead >= evs[id].start}

\* send_reminders
Reminded(evs) ==
    [id \in DOMAIN evs |-> IF id \in DueReminders(evs) THEN [evs[id] EXCEPT !.reminded = TRUE] ELSE evs[id]]

\* tick: what materialize did before it failed stays.
Tick ==
    /\ LET evs == Reminded(Advanced)
       IN  IF series = None
           THEN events' = evs /\ UNCHANGED <<series, next, ever>>
           ELSE Becomes(Materialize(evs, series))
    /\ UNCHANGED now

\* The board may be off for any time.
TimePasses ==
    /\ now < MaxNow
    /\ \E later \in (now + 1)..MaxNow : now' = later
    /\ UNCHANGED <<events, series, next, ever>>

Init ==
    /\ now = 0
    /\ events = [id \in {} |-> None]
    /\ series = None
    /\ next = 1
    /\ ever = {}

Next ==
    \/ \E start \in Starts : CreateEvent(start)
    \/ \E first \in Starts, window \in Windows, count \in Counts : CreateSeries(first, window, count)
    \/ \E window \in Windows, count \in Counts : UpdateSeries(window, count)
    \/ \E cancelFuture \in BOOLEAN : EndSeries(cancelFuture)
    \/ \E id \in Ids : CancelEvent(id) \/ DeleteEvent(id) \/ \E time \in {0, 1} : UpdateFollowing(id, time)
    \/ Tick \/ TimePasses

Spec == Init /\ [][Next]_seriesVars

-----------------------------------------------------------------------------
(* Properties. *)

TypeOK ==
    /\ \A id \in Ids : events[id] \in Event
    /\ Ids \subseteq 1..(next - 1)
    /\ UpcomingCount(events) <= UpcomingLimit
    /\ \A i, j \in Ids : events[i].occurrence = events[j].occurrence /\ events[i].occurrence > 0 => i = j

\* What is over stays over: a cancelled or finished event is not on again, a
\* reminder is sent once and before the start, and no request or housekeeping
\* makes an occurrence twice or late, whatever was cancelled, deleted, skipped
\* while the board was off, or moved.
OnceAndInTime ==
    /\ \A id \in DOMAIN events' \ Ids :
         events'[id].start > now /\ events'[id].occurrence - 1 \notin ever
    /\ \A id \in DOMAIN events' \cap Ids :
         /\ events[id].status # Scheduled => events'[id].status = events[id].status
         /\ events[id].reminded => events'[id].reminded
         /\ events'[id].reminded /\ ~events[id].reminded => now < events[id].start

\* What series.rs:7-8 says: each occurrence is made exactly once, `made` counts
\* them.  An occurrence that a step counts and that is still ahead became an event.
CountedIsMade ==
    [][series # None /\ series' # None =>
         \A n \in series.made..(series'.made - 1) :
             series'.first + 2 * n > now => n \in ever']_seriesVars
=============================================================================
