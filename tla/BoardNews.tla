------------------------------ MODULE BoardNews ------------------------------
(* The notifications of the board-game board (gamematcher/api/src/notify.rs) *)
(* and the mail they cause, with the commit they ride on (api.rs).  Each      *)
(* account has a short list, newest first; an unread entry of the same kind   *)
(* and plan is bumped to the front under its old id instead of doubled.       *)
(* State lives in RAM and is copied to flash by a commit that may fail;       *)
(* mail waiting in RAM is queued once the commit is over.                     *)
EXTENDS Naturals, FiniteSets, Sequences, SequencesExt

CONSTANTS Person, Plan,
          Kinds,             \* the kinds tried, of those below
          Engaged,           \* whom an event of a plan is told to
          Limit, MaxId, MaxCount

NEW_PLAN == "new_plan"
RESPONSES == "responses"
LOCKED == "locked"
COMMENTS == "comments"
CHANGED == "changed"
REMINDER == "reminder"
Board == "board"             \* actor 0
CANCELLED == "cancelled"
HOST == "host"
EMAILED == {NEW_PLAN, LOCKED, CANCELLED, CHANGED, REMINDER, HOST}

VARIABLES lists, nextId, reminded, mail,   \* State in RAM
          disk,                            \* what the last commit wrote
          seen,     \* the highest id a client was shown
          sent      \* mail handed to the outbox so far: [kind, saved]
vars == <<lists, nextId, reminded, mail, disk, seen, sent>>

Notice == [id : 1..MaxId, kind : Kinds, plan : Plan, count : 1..MaxCount,
           actor : Person \cup {Board}, read : BOOLEAN]

Init == /\ lists = [p \in Person |-> <<>>] /\ nextId = 1 /\ reminded = {} /\ mail = <<>>
        /\ disk = [lists |-> lists, nextId |-> 1, reminded |-> {}]
        /\ seen = [p \in Person |-> 0] /\ sent = {}

-----------------------------------------------------------------------------
Told == [lists |-> lists, nextId |-> nextId, mail |-> mail]

Same(list, kind, plan) == {i \in DOMAIN list : ~list[i].read
    /\ list[i].kind = kind /\ list[i].plan = plan /\ kind \notin {REMINDER, CHANGED}}
Truncated(list) == SubSeq(list, 1, IF Len(list) < Limit THEN Len(list) ELSE Limit)

notify(s, to, kind, plan, actor) ==
    LET list == s.lists[to]
        old == Same(list, kind, plan)
        fresh == [id |-> s.nextId, kind |-> kind, plan |-> plan, count |-> 1,
                  actor |-> actor, read |-> FALSE]
    IN IF to = actor THEN s
       ELSE IF old # {} THEN LET i == CHOOSE j \in old : \A k \in old : j <= k IN
            [s EXCEPT !.lists[to] = <<[list[i] EXCEPT !.count = @ + 1, !.actor = actor]>>
                                      \o RemoveAt(list, i)]
       ELSE [s EXCEPT !.lists[to] = Truncated(<<fresh>> \o list), !.nextId = @ + 1,
             !.mail = IF kind \in {REMINDER, CHANGED} \cup EMAILED
                      THEN Append(@, [to |-> to, id |-> s.nextId, kind |-> kind]) ELSE @]

notify_all(s, to, kind, plan, actor) ==
    FoldLeft(LAMBDA acc, p : notify(acc, p, kind, plan, actor), s, SetToSeq(to))

Fits(s) == /\ s.nextId <= MaxId + 1
           /\ \A p \in Person, i \in 1..Limit :
                 i \in DOMAIN s.lists[p] => s.lists[p][i].count <= MaxCount

-----------------------------------------------------------------------------
\* flush_mail: the queue goes to the outbox, with what flash knows of it.
KnownTo(d, m) == \E i \in DOMAIN d.lists[m.to] : d.lists[m.to][i].id = m.id
Flushed(q, d) == sent \cup {[kind |-> q[i].kind, saved |-> KnownTo(d, q[i])] : i \in DOMAIN q}

Now(s, r) == [lists |-> s.lists, nextId |-> s.nextId, reminded |-> r]

\* State::rollback: the mail of the undone change is cut off again.
MailBack(before, after) == before
\* A call inside App::mutate: committed and mailed, or rolled back whole.
Event(actor) == \E plan \in Plan, kind \in Kinds \ {REMINDER} :
    LET s == notify_all(Told, Engaged, kind, plan, actor) IN
    /\ Fits(s)
    /\ \/ /\ lists' = s.lists /\ nextId' = s.nextId /\ mail' = <<>>
          /\ disk' = Now(s, reminded)
          /\ sent' = Flushed(s.mail, disk')
       \/ mail' = <<>> /\ sent' = Flushed(MailBack(mail, s.mail), disk) /\ UNCHANGED <<lists, nextId, disk>>
    /\ UNCHANGED <<reminded, seen>>

\* App::tick: reminders; a failed commit leaves RAM as it is and mails anyway.
send_reminders == \E plan \in Plan \ reminded :
    LET s == notify_all(Told, Engaged, REMINDER, plan, Board) IN
    /\ REMINDER \in Kinds /\ Fits(s)
    /\ lists' = s.lists /\ nextId' = s.nextId /\ mail' = <<>>
    /\ reminded' = reminded \cup {plan}
    /\ disk' \in {disk, Now(s, reminded')}
    /\ sent' = Flushed(s.mail, disk') /\ UNCHANGED seen

\* GET /notifications, and the mark a client sends for what it was shown.
Look(p) == /\ lists[p] # <<>>
           /\ seen' = [seen EXCEPT ![p] = CHOOSE n \in {lists[p][i].id : i \in DOMAIN lists[p]} :
                          \A i \in DOMAIN lists[p] : lists[p][i].id <= n]
           /\ UNCHANGED <<lists, nextId, reminded, mail, disk, sent>>

Marked(list, upTo) == [i \in DOMAIN list |->
    IF upTo = 0 \/ list[i].id <= upTo THEN [list[i] EXCEPT !.read = TRUE] ELSE list[i]]
\* The flags are set before the savepoint of the commit that saves them.
mark_read(p) == \E upTo \in {0, seen[p]} :
    /\ lists[p] # Marked(lists[p], upTo)
    /\ lists' = [lists EXCEPT ![p] = Marked(@, upTo)]
    /\ disk' \in {disk, [disk EXCEPT !.lists = lists', !.nextId = nextId, !.reminded = reminded]}
    /\ UNCHANGED <<nextId, reminded, mail, seen, sent>>

Reboot == /\ lists' = disk.lists /\ nextId' = disk.nextId /\ reminded' = disk.reminded
          /\ mail' = <<>> /\ UNCHANGED <<disk, seen, sent>>

Next == \/ send_reminders \/ Reboot
        \/ \E p \in Person : Event(p) \/ Look(p) \/ mark_read(p)
Spec == Init /\ [][Next]_vars

unread(p) == Cardinality({i \in DOMAIN lists[p] : ~lists[p][i].read})
-----------------------------------------------------------------------------
TypeOK == /\ \A p \in Person : lists[p] \in Seq(Notice) /\ Len(lists[p]) <= Limit
          /\ nextId \in 1..(MaxId + 1) /\ reminded \subseteq Plan /\ mail = <<>>
          /\ seen \in [Person -> 0..MaxId]

\* "the same event never produces more than one unread notification" (spec
\* 03-domain): one unread entry per kind and plan, reminders and changes
\* excepted, none about one's own doing, no id twice; in RAM and on flash,
\* after any mix of bumps, truncation, marks, failed commits and reboots.
Clean(ls) == \A p \in Person : \A i, j \in DOMAIN ls[p] :
    /\ ls[p][i].actor # p
    /\ i # j => /\ ls[p][i].id # ls[p][j].id
                /\ (/\ ~ls[p][i].read /\ ~ls[p][j].read
                    /\ ls[p][i].kind = ls[p][j].kind /\ ls[p][i].plan = ls[p][j].plan)
                   => ls[p][i].kind \in {REMINDER, CHANGED}
OneUnread == Clean(lists) /\ Clean(disk.lists)

\* "a rolled-back change mails nothing" (state.rs): only a reminder, which a
\* failed housekeeping commit does not take back, leaves without being saved.
MailIsSaved == \A m \in sent : m.saved \/ m.kind = REMINDER
=============================================================================
