----------------------------- MODULE BoardPlans -----------------------------
(* The plans of the board-game board (gamematcher/api/src/plans.rs,        *)
(* recurring.rs) and the catalog they draw on (catalog.rs).  A host         *)
(* proposes games and times, everybody answers, the host locks one time in, *)
(* the clock closes the plan, the ring of past plans forgets the oldest.    *)
(*                                                                          *)
(* Every action is one API call inside App::mutate (RecordStore has the     *)
(* commit), so a refused call is no step.  Left out: texts, seats, ends of  *)
(* times (a time is its start), the notifications (BoardNews) and threads   *)
(* (BoardThreads).                                                          *)
EXTENDS Integers, FiniteSets, SequencesExt

CONSTANTS Person, Admin,      \* accounts, and those who are admins
          Fan,                \* the accounts whose interests are followed
          Overall,            \* the answers tried, of {"in", "maybe", "out"}
          Starts, MaxNow,     \* starts a caller may name; the clock's bound
          Week, Gap,          \* distance of occurrences; starts in a DST gap
          DoneAfter, RemindBefore,
          ActivePlans, PastPlans,        \* Limits
          MaxPlan, MaxTimeId, MaxGame    \* bounds of the id counters

VARIABLES plans,      \* id -> plan, ids ascending as in the table
          nextPlan,
          catalog,    \* game id -> archived
          nextGame,
          interests,  \* person -> games
          now
vars == <<plans, nextPlan, catalog, nextGame, interests, now>>

OPEN == "open"
ON == "on"
DONE == "done"
CANCELLED == "cancelled"

Answer == [overall : Overall,
           times : SUBSET (1..MaxTimeId), games : SUBSET (1..MaxGame)]
NoAnswer == [overall |-> "none", times |-> {}, games |-> {}]

Plan == [host : Person, status : {OPEN, ON, DONE, CANCELLED},
         times : Seq([id : 1..MaxTimeId, start : Starts]), nextTime : 0..MaxTimeId,
         games : SUBSET (1..MaxGame), chosen : 0..MaxTimeId,
         chosenGames : SUBSET (1..MaxGame), reminded : BOOLEAN,
         answers : [Person -> Answer \cup {NoAnswer}], updated : 0..MaxNow,
         report : SUBSET [game : 1..MaxGame, winners : SUBSET Person],
         series : 0..MaxPlan]

active(p) == p.status \in {OPEN, ON}
ActiveIds == {i \in DOMAIN plans : active(plans[i])}
TimeIds(p) == {p.times[k].id : k \in DOMAIN p.times}
ChosenStarts(p) == {p.times[k].start : k \in {j \in DOMAIN p.times : p.times[j].id = p.chosen}}
can_manage(who, p) == p.host = who \/ who \in Admin

Init == /\ plans = <<>> /\ nextPlan = 1
        /\ catalog = (1 :> FALSE) /\ nextGame = 2
        /\ interests = [p \in Fan |-> {}] /\ now = 0

-----------------------------------------------------------------------------
(* apply_plan: games and times of a plan, answers kept to what is left.     *)
OnlyGames(p) == [p EXCEPT !.answers =
    [w \in Person |-> [p.answers[w] EXCEPT !.games = @ \cap p.games]]]
OnlyTimes(p) == [p EXCEPT !.answers =
    [w \in Person |-> [p.answers[w] EXCEPT !.times = @ \cap TimeIds(p)]]]

WithGames(p, G) == OnlyGames([p EXCEPT !.games = G])

\* A listed time keeps its id only when nothing about it changed.
Kept(p, t) == \E k \in DOMAIN p.times : p.times[k] = t
FreshBefore(p, T, k) == Cardinality({j \in 1..k : ~Kept(p, T[j])})
NewTimes(p, T) == [k \in DOMAIN T |-> IF Kept(p, T[k]) THEN T[k]
                   ELSE [id |-> p.nextTime + FreshBefore(p, T, k), start |-> T[k].start]]
ByStart(T) == SortSeq(T, LAMBDA x, y : x.start < y.start)
WithTimes(p, T) == OnlyTimes([p EXCEPT !.times = ByStart(NewTimes(p, T)),
                                       !.nextTime = @ + FreshBefore(p, T, Len(T))])

\* What a caller may list: new times (id 0) and the plan's own, changed or
\* not, a time named twice included.
TimesInput(p) == LET one == [id : {0} \cup TimeIds(p), start : Starts]
                 IN {<<>>} \cup {<<t>> : t \in one} \cup {<<t, u>> : t, u \in one}

NewPlan(who) == [host |-> who, status |-> OPEN, times |-> <<>>, nextTime |-> 0,
    games |-> {}, chosen |-> 0, chosenGames |-> {}, reminded |-> FALSE,
    answers |-> [w \in Person |-> NoAnswer], updated |-> now, report |-> {}, series |-> 0]
create_plan(who, G, T) == WithTimes(WithGames(NewPlan(who), G), T)

GamesInput == SUBSET (DOMAIN catalog) \ {{}}

CreatePlan(who) == \E G \in GamesInput, T \in TimesInput(NewPlan(who)) :
    /\ Cardinality(ActiveIds) < ActivePlans /\ nextPlan <= MaxPlan
    /\ Len(T) <= MaxTimeId
    /\ plans' = plans @@ (nextPlan :> create_plan(who, G, T))
    /\ nextPlan' = nextPlan + 1
    /\ UNCHANGED <<catalog, nextGame, interests, now>>

\* recurring.rs: the n-th date of a series; 0 stands for the refusal of a
\* wall time that the change of clocks skips.
Occurrence(s, n) == IF s + n * Week \in Gap THEN 0 ELSE s + n * Week

CreateSeries(who) == \E G \in GamesInput, s \in Starts, count \in 2..3 :
    LET ids == nextPlan..(nextPlan + count - 1)
        dates == [i \in ids |-> Occurrence(s, i - nextPlan)]
    IN /\ Cardinality(ActiveIds) + count <= ActivePlans /\ s > now
       /\ nextPlan + count - 1 <= MaxPlan
       /\ \A i \in ids : dates[i] \in Starts
       /\ plans' = plans @@ [i \in ids |->
             [create_plan(who, G, <<[id |-> 0, start |-> dates[i]]>>)
                EXCEPT !.series = nextPlan]]
       /\ nextPlan' = nextPlan + count
       /\ UNCHANGED <<catalog, nextGame, interests, now>>

-----------------------------------------------------------------------------
SetPlan(i, p) == /\ plans' = [plans EXCEPT ![i] = p]
                 /\ UNCHANGED <<nextPlan, catalog, nextGame, interests, now>>

Managed(who, i) == i \in DOMAIN plans /\ can_manage(who, plans[i])

EditGames(who, i) == \E G \in GamesInput :
    /\ Managed(who, i) /\ plans[i].status = OPEN
    /\ SetPlan(i, [WithGames(plans[i], G) EXCEPT !.updated = now])

EditTimes(who, i) == \E T \in TimesInput(plans[i]) :
    /\ Managed(who, i) /\ plans[i].status = OPEN
    /\ plans[i].nextTime + FreshBefore(plans[i], T, Len(T)) <= MaxTimeId
    /\ SetPlan(i, [WithTimes(plans[i], T) EXCEPT !.updated = now])

\* A locked-in time moves under a new id: nobody has answered the new one.
Rescheduled(p, s) ==
    LET k == CHOOSE j \in DOMAIN p.times : p.times[j].id = p.chosen /\
                 \A h \in 1..(j - 1) : p.times[h].id # p.chosen
        moved == [p EXCEPT !.nextTime = @ + 1, !.chosen = p.nextTime + 1,
                  !.times[k] = [id |-> p.nextTime + 1, start |-> s], !.reminded = FALSE]
    IN IF p.times[k].start = s THEN p
       ELSE [OnlyTimes(moved) EXCEPT !.times = ByStart(@)]

Reschedule(who, i) == \E s \in Starts :
    /\ Managed(who, i) /\ plans[i].status = ON /\ s > now
    /\ plans[i].chosen \in TimeIds(plans[i]) /\ plans[i].nextTime < MaxTimeId
    /\ SetPlan(i, [Rescheduled(plans[i], s) EXCEPT !.updated = now])

respond(who, i) == \E a \in Answer :
    /\ i \in DOMAIN plans /\ active(plans[i])
    /\ a.times \subseteq TimeIds(plans[i]) /\ a.games \subseteq plans[i].games
    /\ SetPlan(i, [plans[i] EXCEPT !.answers[who] = a, !.updated = now])

lock_plan(who, i) == \E t \in TimeIds(plans[i]), G \in SUBSET plans[i].games :
    /\ Managed(who, i) /\ active(plans[i])
    /\ SetPlan(i, [plans[i] EXCEPT !.status = ON, !.chosen = t, !.chosenGames = G,
                    !.updated = now, !.reminded = @ /\ plans[i].chosen = t])

reopen_plan(who, i) ==
    /\ Managed(who, i) /\ plans[i].status = ON
    /\ SetPlan(i, [plans[i] EXCEPT !.status = OPEN, !.chosen = 0, !.chosenGames = {},
                    !.updated = now, !.reminded = FALSE])

hand_over(who, i) == \E to \in Person :
    /\ Managed(who, i) /\ active(plans[i])
    /\ SetPlan(i, [plans[i] EXCEPT !.host = to, !.updated = now])

-----------------------------------------------------------------------------
(* finish: keep the choice and who was in, forget the oldest past plan.     *)
Finished(p) == [p EXCEPT !.updated = now,
    !.times = SelectSeq(@, LAMBDA t : t.id = p.chosen),
    !.answers = [w \in Person |-> IF p.answers[w].overall = "in"
                  THEN [overall |-> "in", times |-> {}, games |-> {}] ELSE NoAnswer]]
Past(ps) == {i \in DOMAIN ps : ~active(ps[i])}
Oldest(ps) == CHOOSE i \in Past(ps) : \A j \in Past(ps) :
    ps[i].updated < ps[j].updated \/ (ps[i].updated = ps[j].updated /\ i <= j)
Without(f, S) == [i \in DOMAIN f \ S |-> f[i]]
finish(ps, i) == LET q == [ps EXCEPT ![i] = Finished(@)] IN
    IF Cardinality(Past(q)) > PastPlans THEN Without(q, {Oldest(q)}) ELSE q

Close(ps, i, status) == finish([ps EXCEPT ![i].status = status], i)

cancel_plan(who, i) ==
    /\ Managed(who, i) /\ active(plans[i])
    /\ plans' = Close(plans, i, CANCELLED)
    /\ UNCHANGED <<nextPlan, catalog, nextGame, interests, now>>

Attended(p) == {p.host} \cup {w \in Person : p.answers[w].overall = "in"}

report_plan(who, i) == \E g \in plans[i].games, W \in SUBSET Attended(plans[i]) :
    LET q == [plans EXCEPT ![i].report = {[game |-> g, winners |-> W]}, ![i].updated = now]
    IN /\ Managed(who, i)
       /\ \/ plans[i].status = DONE
          \/ plans[i].status = ON /\ \E s \in ChosenStarts(plans[i]) : s <= now
       /\ plans' = IF plans[i].status = ON THEN Close(q, i, DONE) ELSE q
       /\ UNCHANGED <<nextPlan, catalog, nextGame, interests, now>>

-----------------------------------------------------------------------------
(* App::tick: close what is over, then remind of what is about to start.    *)
Over(p) == p.status = ON /\ \E s \in ChosenStarts(p) : now >= s + DoneAfter
advance_plans == FoldLeft(LAMBDA ps, i : Close(ps, i, DONE), plans,
    SetToSortSeq({i \in DOMAIN plans : Over(plans[i])}, <))
DueReminder(p) == /\ p.status = ON /\ ~p.reminded
                  /\ \E s \in ChosenStarts(p) : s > now /\ s - now <= RemindBefore
send_reminders(ps) == [i \in DOMAIN ps |->
    IF DueReminder(ps[i]) THEN [ps[i] EXCEPT !.reminded = TRUE] ELSE ps[i]]

Tick == /\ plans' = send_reminders(advance_plans) /\ plans' # plans
        /\ UNCHANGED <<nextPlan, catalog, nextGame, interests, now>>

Clock == /\ now < MaxNow /\ now' = now + 1
         /\ UNCHANGED <<plans, nextPlan, catalog, nextGame, interests>>

-----------------------------------------------------------------------------
(* catalog.rs: titles are distinct by construction of the ids here.         *)
add_game == /\ nextGame <= MaxGame
            /\ catalog' = catalog @@ (nextGame :> FALSE) /\ nextGame' = nextGame + 1
            /\ UNCHANGED <<plans, nextPlan, interests, now>>

set_interest(who) == \E g \in DOMAIN catalog, on \in BOOLEAN :
    /\ interests' = [interests EXCEPT ![who] = IF on THEN @ \cup {g} ELSE @ \ {g}]
    /\ UNCHANGED <<plans, nextPlan, catalog, nextGame, now>>

game_in_plans(g) == \E i \in DOMAIN plans : g \in plans[i].games
delete_game == \E g \in DOMAIN catalog :
    /\ IF game_in_plans(g)
       THEN catalog' = [catalog EXCEPT ![g] = TRUE] /\ UNCHANGED interests
       ELSE /\ catalog' = Without(catalog, {g})
            /\ interests' = [w \in Fan |-> interests[w] \ {g}]
    /\ UNCHANGED <<plans, nextPlan, nextGame, now>>

Swap(from, into, S) == IF from \in S THEN (S \ {from}) \cup {into} ELSE S
Merged(p, from, into) == [p EXCEPT !.games = Swap(from, into, @),
    !.chosenGames = Swap(from, into, @),
    !.answers = [w \in Person |-> [p.answers[w] EXCEPT !.games = Swap(from, into, @)]]]
merge_games == \E from, into \in DOMAIN catalog :
    /\ from # into
    /\ plans' = [i \in DOMAIN plans |-> Merged(plans[i], from, into)]
    /\ interests' = [w \in Fan |-> Swap(from, into, interests[w])]
    /\ catalog' = Without(catalog, {from})
    /\ UNCHANGED <<nextPlan, nextGame, now>>

CatalogRoute == add_game \/ delete_game \/ merge_games \/ \E w \in Fan : set_interest(w)
PlanRoute(who) == \/ CreatePlan(who) \/ CreateSeries(who)
    \/ \E i \in DOMAIN plans :
          \/ EditGames(who, i) \/ EditTimes(who, i) \/ Reschedule(who, i)
          \/ respond(who, i) \/ lock_plan(who, i) \/ reopen_plan(who, i)
          \/ cancel_plan(who, i) \/ report_plan(who, i) \/ hand_over(who, i)
Next == Tick \/ Clock \/ CatalogRoute \/ \E who \in Person : PlanRoute(who)

\* The main loop calls tick forever and time passes by itself.
Spec == Init /\ [][Next]_vars /\ WF_vars(Tick) /\ WF_vars(Clock)

-----------------------------------------------------------------------------
TypeOK == /\ DOMAIN plans \subseteq 1..(nextPlan - 1)
          /\ \A i \in DOMAIN plans : plans[i] \in Plan
          /\ DOMAIN catalog \subseteq 1..(nextGame - 1)
          /\ interests \in [Fan -> SUBSET (1..MaxGame)] /\ now \in 0..MaxNow

\* Nothing a plan shows points at something that is gone: every answer is to
\* a time and a game of its plan, a locked-in plan has its time and plays a
\* part of its games, and every game and interest is in the catalog
\* (apply_plan, finish, delete_game and merge_games each keep their part).
NothingDangles ==
    /\ \A i \in DOMAIN plans : LET p == plans[i] IN
          /\ \A w \in Person : p.answers[w].times \subseteq TimeIds(p)
          /\ active(p) => \A w \in Person : p.answers[w].games \subseteq p.games
          /\ (p.chosen # 0) = (p.status = ON \/ (p.status # OPEN /\ p.times # <<>>))
          /\ p.chosen # 0 => p.chosen \in TimeIds(p)
          /\ p.chosenGames \subseteq p.games
          /\ p.games # {} /\ p.games \subseteq DOMAIN catalog
    /\ \A w \in Fan : interests[w] \subseteq DOMAIN catalog

\* The table never holds more than the limits the snapshot was sized for,
\* whatever mix of cancelling, reporting and closing filled the ring.
RoomIsKept == /\ Cardinality(ActiveIds) <= ActivePlans
              /\ Cardinality(Past(plans)) <= PastPlans

\* An answer is never moved to a date its author did not see: as long as an
\* answer to a time stands, that time id means the same start
\* (edited and rescheduled times get new ids, ids are not handed out twice).
NoAnswerMoves ==
    \A i \in DOMAIN plans \cap DOMAIN plans' : \A w \in Person :
        \A k \in DOMAIN plans[i].times, h \in DOMAIN plans'[i].times :
           (/\ plans'[i].answers[w] = plans[i].answers[w]
            /\ plans[i].times[k].id = plans'[i].times[h].id
            /\ plans[i].times[k].id \in plans[i].answers[w].times)
           => plans[i].times[k].start = plans'[i].times[h].start

\* A locked-in plan whose time is long over does not stay on the board.
Overdue(i) == i \in DOMAIN plans /\ Over(plans[i])
OverIsClosed == \A i \in 1..MaxPlan : Overdue(i) ~> ~Overdue(i)

\* "Admin merge of a duplicate: interests, plans and ticks move to `into`":
\* what a report says was played is a game of the catalog.
ReportsNameGames == \A i \in DOMAIN plans : \A r \in plans[i].report :
    r.game \in DOMAIN catalog
=============================================================================
