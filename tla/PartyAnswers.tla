---------------------------- MODULE PartyAnswers ----------------------------
(***************************************************************************)
(* The answers to one event of a party board (party/api/src/rsvps.rs) and  *)
(* what its hosts do to it meanwhile (events.rs): capacity in heads, a     *)
(* waiting list in order of arrival, items of a bring list or shifts that  *)
(* only so many may claim, a poll of times that is locked in.              *)
(*                                                                         *)
(* Time is where the event is in its life: answers open, closed (deadline  *)
(* or start passed), over.  Whether the answer was made against the        *)
(* current rev is an input.  Bring lists and shifts follow one rule and    *)
(* are one list of slots.  r.queued is the place in `queue`.  A request    *)
(* runs under the board's lock and is rolled back as a whole when it       *)
(* fails (RecordStore), so a refused request is no step.                   *)
(***************************************************************************)
EXTENDS Integers, Sequences, FiniteSets, SequencesExt, FiniteSetsExt

CONSTANTS
    Person,
    Host,          \* those who may edit the event, a subset of Person
    Household,     \* sets of people who answer for one another
    Slot,          \* items of the bring list, shifts
    Option,        \* times of the poll that answers are followed for
    Capacities,    \* the capacities a host may set; 0 for none
    MaxCount,      \* bound on how many may claim a slot
    MaxPlus,       \* MAX_GUESTS
    MaxAnswers,    \* Limits::rsvps_per_event
    None

VARIABLES
    event,         \* StoredEvent, or None
    answer,        \* StoredRsvp of each person, or None
    queue,         \* who waits, by StoredRsvp.queued
    able,          \* who is a member or invited, and not disabled
    phase          \* now, against the event's deadline, start and end

answerVars == <<event, answer, queue, able, phase>>

Draft == "draft"
Scheduled == "scheduled"
Cancelled == "cancelled"
Done == "done"

Going == "going"
Maybe == "maybe"
No == "no"
Waitlist == "waitlist"

StoredEvent == [status : {Draft, Scheduled, Cancelled, Done}, poll : BOOLEAN, capacity : Capacities,
                plusMax : 0..MaxPlus, slots : [Slot -> 0..MaxCount]]

StoredRsvp == [status : {Going, Maybe, No, Waitlist}, plus : 0..MaxPlus,
               claims : SUBSET Slot, votes : SUBSET Option]

Active(e) == e.status \in {Draft, Scheduled}

\* locked: answers are closed to all but the hosts.
Locked == event.status # Scheduled \/ phase # "open"

-----------------------------------------------------------------------------
(* Who may do what: event_access, eligible, answerable_by. *)

Edits(p) == event # None /\ p \in able \cap Host

Eligible(p) == p \in able /\ event.status = Scheduled

AnswerableBy(actor) ==
    IF Edits(actor) THEN {p \in Person : Eligible(p)}
    ELSE {p \in {actor} \cup UNION {h \in Household : actor \in h} : Eligible(p)}

-----------------------------------------------------------------------------
(* Heads, claims and the waiting list. *)

Answered(ans) == {p \in Person : ans[p] # None}
WithStatus(ans, status) == {p \in Answered(ans) : ans[p].status = status}
Heads(r) == 1 + r.plus
GoingHeads(ans) == MapThenSumSet(LAMBDA p : Heads(ans[p]), WithStatus(ans, Going))

\* Others' claims on a slot; those who are not coming have none.
ClaimsOn(ans, slot) == {p \in Answered(ans) : ans[p].status # No /\ slot \in ans[p].claims}

Fits(capacity, ans, p, r) ==
    capacity = 0 \/ GoingHeads([ans EXCEPT ![p] = None]) + Heads(r) <= capacity

\* waiting_ahead
WaitingAhead(p) == p \in Range(queue) /\ Head(queue) # p

\* The mutant of LetIn: the answer is let in whether it fits or not.
LetInAnyway(e, st, p) ==
    [answer |-> [st.answer EXCEPT ![p].status = Going], queue |-> Remove(st.queue, p)]

\* promote_waitlist, for one who waits.
LetIn(e, st, p) ==
    IF Fits(e.capacity, st.answer, p, st.answer[p])
    THEN [answer |-> [st.answer EXCEPT ![p].status = Going], queue |-> Remove(st.queue, p)]
    ELSE st

\* promote_waitlist: oldest first, while they fit.
PromoteWaitlist(e, st) ==
    IF e.status # Scheduled THEN st
    ELSE FoldLeft(LAMBDA acc, p : LetIn(e, acc, p), st, st.queue)

Queued(q, p) == IF p \in Range(q) THEN q ELSE Append(q, p)

NewRsvp == [status |-> Maybe, plus |-> 0, claims |-> {}, votes |-> {}]

\* put_rsvp refuses a new answer past the limit.
RoomFor(ans, p) == ans[p] # None \/ Cardinality(Answered(ans)) < MaxAnswers

\* set_going, for a poll's winners and a series' regulars: it asks for room but
\* not whether somebody is waiting, and an answer there is no room for is dropped.
SetGoing(e, st, p) ==
    LET r == IF st.answer[p] = None THEN NewRsvp ELSE st.answer[p]
        fits == Fits(e.capacity, st.answer, p, r)
    IN  IF r.status = Going \/ ~RoomFor(st.answer, p) THEN st
        ELSE [answer |-> [st.answer EXCEPT ![p] = [r EXCEPT !.status = IF fits THEN Going ELSE Waitlist]],
              queue |-> IF fits THEN Remove(st.queue, p) ELSE Queued(st.queue, p)]

Stands == [answer |-> answer, queue |-> queue]

Becomes(st) ==
    /\ answer' = st.answer
    /\ queue' = st.queue

-----------------------------------------------------------------------------
(* Answering. *)

Had(p) == IF answer[p] = None THEN NewRsvp ELSE answer[p]

\* Lists that refer to the event's items need a current view of them.
Fresh(p, input) ==
    input.fresh \/ (input.claims = Had(p).claims /\ input.votes = Had(p).votes)

\* Keeping a count the rules no longer allow is allowed.
GuestsAllowed(p, plus) ==
    plus <= event.plusMax \/ (answer[p] # None /\ plus <= answer[p].plus)

\* The mutant of SlotsAllowed: whether others cover the slot is not asked.
SlotsAllowedAll(p, claims) ==
    claims = Had(p).claims \/ \A s \in claims : event.slots[s] > 0

\* A slot is on the list, and not covered by others unless already claimed; a
\* list that is not given stays as it was.
SlotsAllowed(p, claims) ==
    \/ claims = Had(p).claims
    \/ \A s \in claims :
         /\ event.slots[s] > 0
         /\ \/ s \in Had(p).claims
            \/ Cardinality(ClaimsOn(answer, s) \ {p}) < event.slots[s]

VotesAllowed(p, votes) == votes = Had(p).votes \/ event.poll

\* Capacity in heads: a going answer that does not fit waits, as does one that
\* was waiting behind others.
MustWait(p, r) ==
    /\ r.status = Going
    /\ event.capacity > 0
    /\ \/ ~Fits(event.capacity, answer, p, r)
       \/ answer[p] # None /\ answer[p].status = Waitlist /\ WaitingAhead(p)

\* The answer as it will be stored; not coming gives back what was claimed.
NextRsvp(p, input) ==
    LET r == [status |-> input.status, plus |-> input.plus, votes |-> input.votes,
              claims |-> IF input.status = No THEN {} ELSE input.claims]
    IN  IF MustWait(p, r) THEN [r EXCEPT !.status = Waitlist] ELSE r

AnswerInput == [status : {Going, Maybe, No}, plus : 0..MaxPlus, claims : SUBSET Slot,
                votes : SUBSET Option, fresh : BOOLEAN]

\* The mutant of Answer: nobody is let in afterwards.
AnswerOnly(actor, p, input) ==
    /\ event # None
    /\ actor \in able
    /\ event.status = Scheduled
    /\ p \in AnswerableBy(actor)
    /\ Locked => Edits(actor)
    /\ Fresh(p, input) /\ GuestsAllowed(p, input.plus)
    /\ SlotsAllowed(p, input.claims) /\ VotesAllowed(p, input.votes)
    /\ LET r == NextRsvp(p, input)
       IN  /\ RoomFor(answer, p)
           /\ Becomes([answer |-> [answer EXCEPT ![p] = r],
                       queue |-> IF r.status = Waitlist THEN Queued(queue, p) ELSE Remove(queue, p)])
    /\ UNCHANGED <<event, able, phase>>

\* answer
Answer(actor, p, input) ==
    /\ event # None
    /\ actor \in able
    /\ event.status = Scheduled
    /\ p \in AnswerableBy(actor)
    /\ Locked => Edits(actor)
    /\ Fresh(p, input) /\ GuestsAllowed(p, input.plus)
    /\ SlotsAllowed(p, input.claims) /\ VotesAllowed(p, input.votes)
    /\ LET r == NextRsvp(p, input)
       IN  /\ RoomFor(answer, p)
           /\ IF r = answer[p] THEN Becomes(Stands)
              ELSE Becomes(PromoteWaitlist(event,
                     [answer |-> [answer EXCEPT ![p] = r],
                      queue |-> IF r.status = Waitlist THEN Queued(queue, p) ELSE Remove(queue, p)]))
    /\ UNCHANGED <<event, able, phase>>

-----------------------------------------------------------------------------
(* The hosts. *)

\* apply_event_input: a scheduled event does not go back to draft.
Edited(status, input) ==
    [event EXCEPT !.status = status, !.poll = input.poll, !.capacity = input.capacity,
                  !.plusMax = input.plusMax, !.slots = input.slots]

\* update_event: answers stay as they are, and room that came lets people in.
\* A start or a deadline that moves may reopen the answers or close them.
UpdateEvent(actor, status, input, now) ==
    /\ Edits(actor)
    /\ Active(event)
    /\ event.status = Scheduled => status = Scheduled
    /\ Edited(status, input) # event \/ now # phase
    /\ event' = Edited(status, input)
    /\ phase' = now
    /\ Becomes(PromoteWaitlist(event', Stands))
    /\ UNCHANGED able

\* lock_in: the poll gets its time, those who said it works are going.  The
\* winners come in the order of their answers, which is any order.
LockIn(actor, option) ==
    /\ Edits(actor)
    /\ event.poll /\ Active(event)
    /\ event' = [event EXCEPT !.poll = FALSE]
    /\ \E now \in {"open", "closed"} : phase' = now
    /\ \E winners \in SetToSeqs({p \in Answered(answer) : option \in answer[p].votes
                                                          /\ answer[p].status # No}) :
         Becomes(FoldLeft(LAMBDA acc, p : SetGoing(event', acc, p),
                          PromoteWaitlist(event', Stands), winners))
    /\ UNCHANGED able

CancelEvent(actor) ==
    /\ Edits(actor)
    /\ Active(event)
    /\ event' = [event EXCEPT !.status = Cancelled]
    /\ UNCHANGED <<answer, queue, able, phase>>

\* delete_event, and the ring of past events: the answers go with the event.
DropEvent ==
    /\ event # None
    /\ (\E actor \in Person : Edits(actor)) \/ ~Active(event)
    /\ event' = None
    /\ answer' = [p \in Person |-> None]
    /\ queue' = <<>>
    /\ UNCHANGED <<able, phase>>

\* create_event, and an occurrence of a series.
CreateEvent(e) ==
    /\ event = None
    /\ e.status \in {Draft, Scheduled}
    /\ event' = e
    /\ phase' = "open"
    /\ UNCHANGED <<answer, queue, able>>

-----------------------------------------------------------------------------
(* Regulars, housekeeping, and people. *)

\* set_regular: a standing going for an occurrence not yet answered.
SetRegular(p) ==
    /\ event # None /\ ~Locked
    /\ Eligible(p)
    /\ answer[p] = None
    /\ Becomes(SetGoing(event, Stands, p))
    /\ UNCHANGED <<event, able, phase>>

TimePasses ==
    /\ event # None
    /\ phase' = IF phase = "open" THEN "closed" ELSE "over"
    /\ phase' # phase
    /\ UNCHANGED <<event, answer, queue, able>>

\* advance_events
AdvanceEvents ==
    /\ event # None
    /\ event.status = Scheduled /\ ~event.poll /\ phase = "over"
    /\ event' = [event EXCEPT !.status = Done]
    /\ UNCHANGED <<answer, queue, able, phase>>

\* Someone joins or is invited, or leaves, or is disabled: answers stay.
ComeAndGo(p) ==
    /\ able' = IF p \in able THEN able \ {p} ELSE able \cup {p}
    /\ UNCHANGED <<event, answer, queue, phase>>

FirstEvents ==
    {e \in StoredEvent : /\ e.status = Scheduled
                         /\ e.plusMax = MaxPlus
                         /\ \A s \in Slot : e.slots[s] = 1}

Init ==
    /\ event = None
    /\ answer = [p \in Person |-> None]
    /\ queue = <<>>
    /\ able = Person
    /\ phase = "open"

HostInput == [poll : BOOLEAN, capacity : Capacities, plusMax : 0..MaxPlus, slots : [Slot -> 0..MaxCount]]

Next ==
    \/ /\ event # None
       /\ \E actor \in able : \E p \in AnswerableBy(actor), input \in AnswerInput :
            Answer(actor, p, input)
    \/ \E actor \in Host, status \in {Draft, Scheduled}, input \in HostInput, now \in {"open", "closed"} :
         UpdateEvent(actor, status, input, now)
    \/ \E actor \in Person, option \in Option : LockIn(actor, option)
    \/ \E actor \in Person : CancelEvent(actor)
    \/ \E e \in FirstEvents : CreateEvent(e)
    \/ \E p \in Person : SetRegular(p) \/ ComeAndGo(p)
    \/ DropEvent \/ TimePasses \/ AdvanceEvents

Spec == Init /\ [][Next]_answerVars

-----------------------------------------------------------------------------
(* Properties. *)

TypeOK ==
    /\ event \in StoredEvent \cup {None}
    /\ \A p \in Person : answer[p] \in StoredRsvp \cup {None}
    /\ able \subseteq Person
    /\ phase \in {"open", "closed", "over"}
    /\ Len(queue) = Cardinality(Range(queue))
    /\ Range(queue) = WithStatus(answer, Waitlist)

\* While an event is on, nobody waits whose party would fit: whatever makes room
\* (someone drops or brings fewer, the capacity grows, a poll is locked in), the
\* waiting list is let in before the request is answered.
NobodyWaitsForRoom ==
    event # None /\ event.status = Scheduled =>
        \A p \in Range(queue) : ~Fits(event.capacity, answer, p, answer[p])

\* No request that makes the number of heads grow takes it past the capacity,
\* and none that makes the claims on a slot grow takes them past its count,
\* though a host may lower either below what is already taken.
NothingOverfilled ==
    event' # None /\ answer' # answer =>
      /\ GoingHeads(answer') > GoingHeads(answer) =>
             event'.capacity = 0 \/ GoingHeads(answer') <= event'.capacity
      /\ \A s \in Slot :
             LET claims(ans) == Cardinality(ClaimsOn(ans, s))
             IN  claims(answer') > claims(answer) => claims(answer') <= event'.slots[s]

\* What rsvps.rs:143 and spec/03-domain.md say: setting the same answer again
\* changes nothing.
SameAnswerChangesNothing ==
    [][\A p \in able :
         answer[p] # None /\ answer[p].status # Waitlist
         /\ Answer(p, p, [status |-> answer[p].status, plus |-> answer[p].plus,
                          claims |-> answer[p].claims, votes |-> answer[p].votes, fresh |-> TRUE])
         => UNCHANGED <<answer, queue>>]_answerVars
=============================================================================
