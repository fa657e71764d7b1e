---------------------------- MODULE PartyChannels ---------------------------
(***************************************************************************)
(* What a party board sends: the queue of emails and direct messages       *)
(* (party/api/src/outbound.rs), the worker that empties it (work.rs) and   *)
(* the two channels an admin sets up (api_more.rs).                        *)
(*                                                                         *)
(* The worker reads what it needs under the lock, talks to the network     *)
(* without it, and records the result under the lock again: the queue, the *)
(* settings and the power may have changed meanwhile, and what was sent    *)
(* may have arrived although no answer came.  The result of a record is    *)
(* saved or, when the flash refuses it, undone (RecordStore).              *)
(*                                                                         *)
(* Of the clock a job keeps whether its time has come and whether it is    *)
(* more than a day old; of the texts, nothing.                             *)
(***************************************************************************)
EXTENDS Integers, FiniteSets

CONSTANTS
    Ids,            \* the jobs ever queued, 1..n
    Kinds,          \* the channels exercised, of "mail" and "dm"
    Priorities,     \* 0 for a reply, 1 for an invitation, 2 for a notification
    MaxJobs,        \* limits.jobs
    MaxAttempts,    \* 12
    MailPerDay,     \* limits.mail_per_day
    MaxRetries,     \* how often the admin retries
    Token, Instance,    \* of the bot
    ValidAt,        \* the tokens an instance accepts
    None

ChannelAssumption == ValidAt \in [Instance -> SUBSET Token]

VARIABLES
    jobs,       \* State.jobs, by id
    nextJob,
    mail,       \* the mail channel: "off", "checking", "ready", "failed"
    sent,       \* StoredMail.sent, as far as it is today's
    bot,        \* StoredBot
    flight,     \* what the worker has on the network
    arrived,    \* the jobs that reached the other side
    retries

channelVars == <<jobs, nextJob, mail, sent, bot, flight, arrived, retries>>

Queued == "queued"
Sent == "sent"
Failed == "failed"
Off == "off"
Checking == "checking"
Ready == "ready"

Job == [kind : Kinds, priority : Priorities, state : {Queued, Sent, Failed},
        attempts : 0..MaxAttempts, due : BOOLEAN, old : BOOLEAN]
Bot == [state : {Checking, Ready, Failed}, token : Token, instance : Instance, verified : Instance \cup {None}]
NoBot == [state |-> Off]
Nothing == [what |-> Off]

InQueue == {j \in Ids : jobs[j] # None}
Waiting == {j \in InQueue : jobs[j].state = Queued}
Finished == InQueue \ Waiting

-----------------------------------------------------------------------------
(* The queue. *)

\* The finished jobs: the one finished first makes room, and the worker finishes them
\* in an order of its own.
Replaceable == Finished

\* enqueue: when the queue is full a finished job makes room; else a notification is
\* dropped, and anything more important goes in all the same.
Enqueue(kind, priority) ==
    /\ nextJob \in Ids
    /\ LET Add(queue) == /\ jobs' = [queue EXCEPT ![nextJob] =
                               [kind |-> kind, priority |-> priority, state |-> Queued,
                                attempts |-> 0, due |-> TRUE, old |-> FALSE]]
                         /\ nextJob' = nextJob + 1
       IN  IF Cardinality(InQueue) < MaxJobs THEN Add(jobs)
           ELSE IF Replaceable # {} THEN \E done \in Replaceable : Add([jobs EXCEPT ![done] = None])
           ELSE IF priority >= 2 THEN UNCHANGED <<jobs, nextJob>>
           ELSE Add(jobs)
    /\ UNCHANGED <<mail, sent, bot, flight, arrived, retries>>

MailReady == mail = Ready
BotReady == bot.state = Ready
ChannelReady(kind) == IF kind = "mail" THEN MailReady ELSE BotReady

\* next_job: the most important one, then the oldest, that can be sent now.
Sendable == {j \in Waiting : jobs[j].due /\ ChannelReady(jobs[j].kind)}
Before(j, k) == \/ jobs[j].priority < jobs[k].priority
                \/ jobs[j].priority = jobs[k].priority /\ j <= k
NextJob == CHOOSE j \in Sendable : \A k \in Sendable : Before(j, k)

\* mail_budget_left
MailBudgetLeft == sent < MailPerDay

\* Mutant of Tried: the attempts are not counted, so a job is never given up.
TriedForEver(job, ok) ==
    IF ok THEN [job EXCEPT !.state = Sent] ELSE [job EXCEPT !.due = FALSE]

\* job_done, for the job: sent, to be retried later, or given up after a day.
Tried(job, ok) ==
    IF ok THEN [job EXCEPT !.attempts = @ + 1, !.state = Sent]
    ELSE IF job.old \/ job.attempts + 1 >= MaxAttempts
         THEN [job EXCEPT !.attempts = @ + 1, !.state = Failed]
         ELSE [job EXCEPT !.attempts = @ + 1, !.due = FALSE]

\* retry_job, by an admin.
RetryJob(j) ==
    /\ retries < MaxRetries
    /\ j \in InQueue /\ jobs[j].state = Failed
    /\ jobs' = [jobs EXCEPT ![j] = [@ EXCEPT !.state = Queued, !.due = TRUE, !.attempts = 0, !.old = FALSE]]
    /\ retries' = retries + 1
    /\ UNCHANGED <<nextJob, mail, sent, bot, flight, arrived>>

-----------------------------------------------------------------------------
(* The channels. *)

\* PUT admin/mail: a key to be checked, which is the one that the worker is checking
\* at this moment or another.
PutMail(same) ==
    /\ "mail" \in Kinds
    /\ mail' = Checking
    /\ sent' = 0
    /\ flight' = IF flight.what = "mail" THEN [flight EXCEPT !.same = same] ELSE flight
    /\ UNCHANGED <<jobs, nextJob, bot, arrived, retries>>

RemoveMail ==
    /\ mail' = Off
    /\ sent' = 0
    /\ mail # Off
    /\ UNCHANGED <<jobs, nextJob, bot, flight, arrived, retries>>

\* PUT admin/bot: the same account stays verified, another starts afresh.
PutBot(token, instance) ==
    LET same == bot # NoBot /\ bot.token = token /\ bot.instance = instance
    IN  /\ "dm" \in Kinds
        /\ bot' = [state |-> IF same /\ bot.state = Ready THEN Ready ELSE Checking,
                   token |-> token, instance |-> instance,
                   verified |-> IF same THEN bot.verified ELSE None]
        /\ UNCHANGED <<jobs, nextJob, mail, sent, flight, arrived, retries>>

RemoveBot ==
    /\ bot # NoBot
    /\ bot' = NoBot
    /\ UNCHANGED <<jobs, nextJob, mail, sent, flight, arrived, retries>>

-----------------------------------------------------------------------------
(* The worker: what it takes on, most urgent first, and what it records. *)

Take(what) ==
    /\ flight = Nothing
    /\ flight' = what
    /\ UNCHANGED <<jobs, nextJob, mail, sent, bot, arrived, retries>>

\* check_mail, up to the request.
CheckMail == mail = Checking /\ Take([what |-> "mail", same |-> TRUE])

\* check_bot, up to the request.
CheckBot ==
    /\ mail # Checking
    /\ bot.state = Checking
    /\ Take([what |-> "bot", seen |-> bot])

\* deliver_one, up to the request: a mail over the day's budget holds up what is behind it.
Deliver ==
    /\ mail # Checking /\ bot.state # Checking
    /\ Sendable # {}
    /\ jobs[NextJob].kind = "mail" => MailBudgetLeft
    /\ Take([what |-> "job", job |-> NextJob, seen |-> bot])

\* The outcome of check_mail, for a channel that has the key still.
MailChecked(ok) ==
    /\ flight.what = "mail"
    /\ flight' = Nothing
    /\ mail' = IF mail = Off \/ ~flight.same THEN mail ELSE IF ok THEN Ready ELSE Failed
    /\ UNCHANGED <<jobs, nextJob, sent, bot, arrived, retries>>

\* The outcome of check_bot, for a bot that has the token still.
BotChecked ==
    /\ flight.what = "bot"
    /\ flight' = Nothing
    /\ LET ok == flight.seen.token \in ValidAt[flight.seen.instance]
       IN  bot' = IF bot # NoBot /\ bot.token = flight.seen.token
                  THEN [bot EXCEPT !.state = IF ok THEN Ready ELSE Failed,
                                   !.verified = IF ok THEN flight.seen.instance ELSE @]
                  ELSE bot
    /\ UNCHANGED <<jobs, nextJob, mail, sent, arrived, retries>>

\* The request of a delivery arrives, or does not.
Arrives ==
    /\ flight.what = "job"
    /\ arrived' = arrived \cup {flight.job}
    /\ UNCHANGED <<jobs, nextJob, mail, sent, bot, flight, retries>>

\* job_done: an answer says it arrived, no answer says nothing.
Delivered(ok) ==
    /\ flight.what = "job"
    /\ ok => flight.job \in arrived
    /\ flight' = Nothing
    /\ IF jobs[flight.job] = None THEN UNCHANGED <<jobs, sent>>
       ELSE /\ jobs' = [jobs EXCEPT ![flight.job] = Tried(@, ok)]
            /\ sent' = IF jobs[flight.job].kind = "mail" /\ mail # Off /\ sent < MailPerDay
                       THEN sent + 1 ELSE sent
    /\ UNCHANGED <<nextJob, mail, bot, arrived, retries>>

\* The power fails, or the flash refuses what the worker records.
FlightLost ==
    /\ flight # Nothing
    /\ flight' = Nothing
    /\ UNCHANGED <<jobs, nextJob, mail, sent, bot, arrived, retries>>

-----------------------------------------------------------------------------
(* Time. *)

RetryTimeComes(j) ==
    /\ j \in Waiting /\ ~jobs[j].due
    /\ jobs' = [jobs EXCEPT ![j].due = TRUE]
    /\ UNCHANGED <<nextJob, mail, sent, bot, flight, arrived, retries>>

\* Another day: the mail budget is whole again, and what waits is old.
DayPasses ==
    /\ sent > 0 \/ \E j \in Waiting : ~jobs[j].old
    /\ sent' = 0
    /\ jobs' = [j \in Ids |-> IF j \in Waiting THEN [jobs[j] EXCEPT !.old = TRUE] ELSE jobs[j]]
    /\ UNCHANGED <<nextJob, mail, bot, flight, arrived, retries>>

Init ==
    /\ jobs = [j \in Ids |-> None]
    /\ nextJob = 1
    /\ mail = Off
    /\ sent = 0
    /\ bot = NoBot
    /\ flight = Nothing
    /\ arrived = {}
    /\ retries = 0

Worker ==
    \/ CheckMail \/ CheckBot \/ Deliver
    \/ \E ok \in BOOLEAN : MailChecked(ok) \/ Delivered(ok)
    \/ BotChecked

Next ==
    \/ \E kind \in Kinds, priority \in Priorities : Enqueue(kind, priority)
    \/ \E j \in Ids : RetryJob(j) \/ RetryTimeComes(j)
    \/ RemoveMail \/ RemoveBot \/ \E same \in BOOLEAN : PutMail(same)
    \/ \E t \in Token, i \in Instance : PutBot(t, i)
    \/ Worker \/ Arrives \/ FlightLost \/ DayPasses

\* The worker's thread runs, time passes, and the power does not fail for ever.
Fairness ==
    /\ WF_channelVars(CheckMail) /\ WF_channelVars(CheckBot) /\ WF_channelVars(Deliver)
    /\ WF_channelVars(\E ok \in BOOLEAN : MailChecked(ok)) /\ WF_channelVars(BotChecked)
    /\ SF_channelVars(\E ok \in BOOLEAN : Delivered(ok))
    /\ \A j \in Ids : WF_channelVars(RetryTimeComes(j))
    /\ WF_channelVars(DayPasses)

Spec == Init /\ [][Next]_channelVars /\ Fairness

-----------------------------------------------------------------------------
(* Properties. *)

TypeOK ==
    /\ \A j \in Ids : jobs[j] \in Job \cup {None}
    /\ mail \in {Off, Checking, Ready, Failed}
    /\ sent \in 0..MailPerDay
    /\ bot \in Bot \cup {NoBot}
    /\ flight.what \in {Off, "mail", "bot", "job"}
    /\ arrived \subseteq Ids

\* What was queued leaves the queue only after it was sent or given up, whatever the
\* queue's size, the settings and the power did, and what counts as sent arrived
\* (outbound.rs: "survive a reboot").
NothingVanishes ==
    /\ \A j \in Waiting : jobs'[j] # None
    /\ \A j \in Ids : jobs'[j] # None /\ jobs'[j].state = Sent => j \in arrived

\* While its channel stays ready, a queued message is sent or given up in the end
\* (outbound.rs: "give up after a day"), also behind mail over the day's budget.
Unsettled(j) == j \in Waiting /\ MailReady /\ BotReady
EveryJobSettles == \A j \in Ids : Unsettled(j) ~> ~Unsettled(j)

\* A bot that is ready was verified where it is (spec/04-channels.md: "The board
\* verifies it (verify_credentials) and shows the handle").
ReadyIsVerified == bot # NoBot /\ bot.state = Ready => bot.token \in ValidAt[bot.instance]
=============================================================================
