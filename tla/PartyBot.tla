------------------------------ MODULE PartyBot ------------------------------
(***************************************************************************)
(* The Mastodon bot of a party board as a queue of commands: the worker    *)
(* fetches a batch of mentions (party/api/src/work.rs, poll_bot), and      *)
(* take_mentions (bot.rs) runs the new ones in order, queues the replies   *)
(* and advances the cursor, all in one commit, which may fail.             *)
(*                                                                         *)
(* Mentions have the ids 1..n in the order they were sent.  Of the         *)
(* commands the model has those that answer an event, their undo, and one  *)
(* that changes nothing; a person's answer may change at the site as well. *)
(***************************************************************************)
EXTENDS Integers, FiniteSets, Sequences, SequencesExt

CONSTANTS
    Person,
    Mentions,   \* the mentions ever sent: who sent them (None: nobody here), whether they
                \* are direct, and their lines
    MaxLines,   \* MAX_LINES
    Batch,      \* mentions of one poll
    Token,      \* the bot's accounts
    MaxSetups, MaxWebAnswers,   \* how often an admin sets it up, and people answer at the site
    None

VARIABLES
    sent,       \* the mentions sent so far
    bot,        \* None, or its token and cursor: 0 for "0", -1 for ""
    flight,     \* the batch the worker has fetched, and the token it used
    state,      \* answers, and State.undo
    replied,    \* the mentions whose reply was queued
    from,       \* where the commands of this bot begin
    setups, webAnswers

botVars == <<sent, bot, flight, state, replied, from, setups, webAnswers>>

Answers == {"going", "no"}
NoCursor == -1

-----------------------------------------------------------------------------
(* Commands. *)

\* The answer a person had before, for undo; none is undone as "no".
Before(answer) == IF answer = None THEN "no" ELSE answer

\* run_command, of those who are known here.
RunCommand(st, p, cmd) ==
    IF p = None THEN st
    ELSE IF cmd \in Answers THEN
        IF st.answer[p] = cmd THEN st
        ELSE [st EXCEPT !.answer[p] = cmd, !.undo[p] = Before(st.answer[p])]
    ELSE IF cmd = "undo" /\ st.undo[p] # None THEN
        [st EXCEPT !.answer[p] = IF st.undo[p] = "late" THEN @ ELSE st.undo[p], !.undo[p] = None]
    ELSE st

\* handle_mention: a public mention runs nothing; a direct one its first lines.
HandleMention(st, m) ==
    LET mention == Mentions[m]
        lines == IF Len(mention.lines) > MaxLines THEN SubSeq(mention.lines, 1, MaxLines) ELSE mention.lines
        ran == [st EXCEPT !.ran[m] = @ + 1]
    IN  IF mention.direct THEN FoldLeft(LAMBDA s, cmd : RunCommand(s, mention.sender, cmd), ran, lines)
        ELSE ran

\* newer: those past the cursor, in order.
NewMentions(batch) == SetToSortSeq({m \in batch : m > bot.cursor}, LAMBDA a, b : a < b)

-----------------------------------------------------------------------------
(* The worker. *)

\* poll_bot, up to the answer: the first poll asks for the newest mention, a later one
\* for the next ones after the cursor.
PollBot ==
    /\ bot # None /\ flight = None
    /\ LET all == 1..sent
           page == IF bot.cursor = NoCursor THEN {m \in all : m = sent}
                   ELSE {m \in all : m > bot.cursor /\ m <= bot.cursor + Batch}
       IN  flight' = [batch |-> page, token |-> bot.token]
    /\ UNCHANGED <<sent, bot, state, replied, from, setups, webAnswers>>

Newest(batch) == IF batch = {} THEN IF bot.cursor = NoCursor THEN 0 ELSE bot.cursor
                 ELSE LET newest == CHOOSE m \in batch : \A k \in batch : k <= m
                      IN  IF newest > bot.cursor THEN newest ELSE bot.cursor

\* take_mentions, in a commit that succeeds.
TakeMentions ==
    /\ flight # None
    /\ flight' = None
    /\ IF bot = None \/ bot.token # flight.token
       THEN UNCHANGED <<bot, state, replied, from>>
       ELSE LET new == IF bot.cursor = NoCursor THEN <<>> ELSE NewMentions(flight.batch)
            IN  /\ state' = FoldLeft(HandleMention, state, new)
                /\ replied' = replied \cup ToSet(new)
                /\ bot' = [bot EXCEPT !.cursor = Newest(flight.batch)]
                /\ from' = IF bot.cursor = NoCursor THEN Newest(flight.batch) ELSE from
    /\ UNCHANGED <<sent, setups, webAnswers>>

\* take_mentions, in a commit the flash refuses: the tables are rolled back, State.undo
\* is no table.
TakeMentionsFails ==
    /\ flight # None /\ bot # None /\ bot.token = flight.token
    /\ bot.cursor # NoCursor
    /\ flight' = None
    /\ state' = [state EXCEPT !.undo = FoldLeft(HandleMention, state, NewMentions(flight.batch)).undo]
    /\ UNCHANGED <<sent, bot, replied, from, setups, webAnswers>>

\* The poll fails, or the power does: what is only in memory is gone.
PowerFails ==
    /\ flight # None
    /\ flight' = None
    /\ state' = [state EXCEPT !.undo = [p \in Person |-> None]]
    /\ UNCHANGED <<sent, bot, replied, from, setups, webAnswers>>

-----------------------------------------------------------------------------
(* Around it. *)

MentionSent ==
    /\ sent < Len(Mentions)
    /\ sent' = sent + 1
    /\ UNCHANGED <<bot, flight, state, replied, from, setups, webAnswers>>

\* PUT admin/bot: another account starts afresh.
SetUp(token) ==
    /\ setups < MaxSetups
    /\ setups' = setups + 1
    /\ IF bot # None /\ bot.token = token THEN UNCHANGED <<bot, from>>
       ELSE /\ bot' = [token |-> token, cursor |-> NoCursor]
            /\ from' = None
    /\ UNCHANGED <<sent, flight, state, replied, webAnswers>>

RemoveBot ==
    /\ bot # None
    /\ bot' = None /\ from' = None
    /\ UNCHANGED <<sent, flight, state, replied, setups, webAnswers>>

AnswerAtSite(p, answer) ==
    /\ webAnswers < MaxWebAnswers
    /\ state.answer[p] # answer
    /\ state' = [state EXCEPT !.answer[p] = answer]
    /\ webAnswers' = webAnswers + 1
    /\ UNCHANGED <<sent, bot, flight, replied, from, setups>>

\* An hour after a change its undo is too late.
HourPasses(p) ==
    /\ state.undo[p] \notin {None, "late"}
    /\ state' = [state EXCEPT !.undo[p] = "late"]
    /\ UNCHANGED <<sent, bot, flight, replied, from, setups, webAnswers>>

Init ==
    /\ sent = 0
    /\ bot = None
    /\ flight = None
    /\ state = [answer |-> [p \in Person |-> None], undo |-> [p \in Person |-> None],
                ran |-> [m \in DOMAIN Mentions |-> 0]]
    /\ replied = {}
    /\ from = None
    /\ setups = 0 /\ webAnswers = 0

Next ==
    \/ PollBot \/ TakeMentions \/ TakeMentionsFails \/ PowerFails \/ MentionSent \/ RemoveBot
    \/ \E token \in Token : SetUp(token)
    \/ \E p \in Person : HourPasses(p) \/ \E answer \in Answers : AnswerAtSite(p, answer)

\* The worker runs; neither the flash nor the power fails for ever.
Fairness == WF_botVars(PollBot) /\ SF_botVars(TakeMentions)

Spec == Init /\ [][Next]_botVars /\ Fairness

-----------------------------------------------------------------------------
(* Properties. *)

\* A mention runs at most once, and once it ran its reply is queued and stays so:
\* between where this bot began and its cursor none was left out, whatever failed
\* between two steps (spec/04-channels.md: "a crash replays nothing twice and loses no
\* replies").
RunOnce ==
    /\ \A m \in DOMAIN Mentions : state.ran[m] <= 1 /\ (state.ran[m] = 1 <=> m \in replied)
    /\ from # None => \A m \in DOMAIN Mentions : from < m /\ m <= bot.cursor => state.ran[m] = 1

\* A command sent to a bot that listens runs in the end (spec/04-channels.md: "commands
\* wait there while the board is off, and are processed in order when it comes back").
Unread(m) == from # None /\ from < m /\ m <= sent /\ state.ran[m] = 0
EveryMentionRuns == \A m \in DOMAIN Mentions : Unread(m) ~> ~Unread(m)

\* A commit that fails leaves what people may undo as it was (api.rs: "any error leaves
\* the state as it was").
FailureChangesNothing == [][TakeMentionsFails => state' = state]_botVars
=============================================================================
