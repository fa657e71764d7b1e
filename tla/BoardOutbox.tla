----------------------------- MODULE BoardOutbox -----------------------------
(* The outbound side of the board-game board (gamematcher/api/src/           *)
(* outbound.rs): one queue of posts, direct messages and emails, the set-up  *)
(* of the bot and of the mail account, and the one worker thread (run_once)  *)
(* that does the network calls with the lock released.  What it brings back  *)
(* is applied to a state the admin may have changed meanwhile.  Settings and *)
(* queue are three keys of the Kv, written in order by save, whose failure   *)
(* is only logged.                                                           *)
EXTENDS Naturals, Sequences, FiniteSets, SequencesExt

CONSTANTS Bots,          \* accounts a set-up can end in
          Kinds,         \* subset of {"post", "email"}; "dm" is a "post" here
          QUEUE, MaxAttempts, DAILY_LIMIT,
          Landed,        \* how many of save's three writes may succeed
          MaxJob, MaxSetups, MaxRetries, MaxBoots     \* bounds

None == "none"
NoJob == [id |-> 0]

VARIABLES bot, setup, generation, botRuns,     \* the bot, a set-up waiting, one at work
          mail, mailSetup, mailBusy, mailDue, mailRuns, sentToday,
          jobs, nextId, links,
          flight,        \* the worker's copy of the job it sends
          disk,          \* the keys bot, outbox, mail of the Kv
          asked,         \* ghost: accounts set up since the last removal
          lost,          \* ghost: some save did not land whole
          setups, retries, boots
vars == <<bot, setup, generation, botRuns, mail, mailSetup, mailBusy, mailDue, mailRuns, sentToday,
          jobs, nextId, links, flight, disk, asked, lost, setups, retries, boots>>
botVars == <<bot, setup, generation, botRuns>>
mailVars == <<mail, mailSetup, mailBusy, mailDue, mailRuns, sentToday>>
queueVars == <<jobs, nextId, links>>
bounds == <<setups, retries, boots>>

StoredJob == [id : 1..MaxJob, kind : Kinds, state : {"queued", "sent", "failed"},
              attempts : 0..MaxAttempts, waits : BOOLEAN]

Init == /\ bot = None /\ setup = None /\ generation = 0 /\ botRuns = <<>>
        /\ mail = FALSE /\ mailSetup = FALSE /\ mailBusy = FALSE /\ mailDue = TRUE /\ mailRuns = FALSE
        /\ sentToday = 0
        /\ jobs = <<>> /\ nextId = 1 /\ links = {} /\ flight = NoJob
        /\ disk = [bot |-> None, jobs |-> <<>>, nextId |-> 1, links |-> {}, mail |-> FALSE]
        /\ asked = {} /\ lost = FALSE /\ setups = 0 /\ retries = 0 /\ boots = 0

\* The writes bot, outbox, mail, in this order, the first n of them landing.
save == \E n \in Landed :
    /\ disk' = [bot |-> IF n > 0 THEN bot' ELSE disk.bot,
                jobs |-> IF n > 1 THEN jobs' ELSE disk.jobs,
                nextId |-> IF n > 1 THEN nextId' ELSE disk.nextId,
                links |-> IF n > 1 THEN links' ELSE disk.links,
                mail |-> IF n > 2 THEN mail' ELSE disk.mail]
    /\ lost' = (lost \/ n < 3)
NoSave == UNCHANGED <<disk, lost>>

-----------------------------------------------------------------------------
(* The admin's calls and the news of plans.                                  *)
\* Busy is the state "working", which a removal clears although the worker is
\* still at the old set-up.
Working == setup # None \/ (botRuns # <<>> /\ botRuns[2] = generation)
begin_setup == /\ ~Working /\ setups < MaxSetups /\ setups' = setups + 1
               /\ \E b \in Bots : setup' = b /\ asked' = asked \cup {b}
               /\ generation' = generation + 1
               /\ UNCHANGED <<bot, botRuns, mailVars, queueVars, flight, retries, boots>>
               /\ NoSave

Sends(kind, j) == j.kind = kind /\ j.state = "queued"
remove == /\ generation' = generation + 1 /\ setup' = None /\ bot' = None
          /\ jobs' = SelectSeq(jobs, LAMBDA j : ~Sends("post", j)) /\ links' = {}
          /\ asked' = {} /\ generation < 2 * MaxSetups
          /\ UNCHANGED <<botRuns, mailVars, nextId, flight, bounds>> /\ save

begin_mail_setup == /\ ~mailSetup /\ ~mailBusy /\ setups < MaxSetups
                    /\ mailSetup' = TRUE /\ mailBusy' = TRUE /\ setups' = setups + 1
                    /\ UNCHANGED <<botVars, mail, mailDue, mailRuns, sentToday, queueVars,
                                   flight, asked, retries, boots>> /\ NoSave

\* A set-up of the mail that waits or is at work is left alone.
remove_mail == /\ mail' = FALSE /\ mailBusy' = FALSE
               /\ jobs' = SelectSeq(jobs, LAMBDA j : ~Sends("email", j))
               /\ UNCHANGED <<botVars, mailSetup, mailDue, mailRuns, sentToday, nextId, links,
                              flight, asked, bounds>> /\ save

Queued == {i \in DOMAIN jobs : jobs[i].state = "queued"}
\* Mutant of Room: how many jobs wait is not asked.
RoomAlways == jobs

\* Room is made of the oldest finished entries, never of a queued one.
Room == IF Len(jobs) < QUEUE THEN jobs
        ELSE LET i == CHOOSE k \in DOMAIN jobs \ Queued : \A h \in DOMAIN jobs \ Queued : k <= h
             IN RemoveAt(jobs, i)
Full == Len(jobs) >= QUEUE /\ Cardinality(Queued) = Len(jobs)
NewJob(kind) == [id |-> nextId, kind |-> kind, state |-> "queued", attempts |-> 0, waits |-> FALSE]

push(kind) == /\ nextId <= MaxJob /\ nextId' = nextId + 1
              /\ IF Full THEN jobs' = jobs ELSE jobs' = Append(Room, NewJob(kind))

enqueue == /\ "post" \in Kinds /\ bot # None /\ push("post")
           /\ UNCHANGED <<botVars, mailVars, links, flight, asked, bounds>>
           /\ IF Full THEN NoSave ELSE save

email == /\ "email" \in Kinds /\ mail /\ sentToday < DAILY_LIMIT /\ push("email")
         /\ sentToday' = IF Full THEN sentToday ELSE sentToday + 1
         /\ UNCHANGED <<botVars, mail, mailSetup, mailBusy, mailDue, mailRuns, links, flight, asked, bounds>>
         /\ save

NewDay == /\ sentToday > 0 /\ sentToday' = 0
          /\ UNCHANGED <<botVars, mail, mailSetup, mailBusy, mailDue, mailRuns, queueVars, flight, asked,
                         bounds>> /\ NoSave

retry == \E i \in DOMAIN jobs :
    /\ flight.id # jobs[i].id /\ retries < MaxRetries /\ retries' = retries + 1
    /\ jobs[i].state # "sent" /\ ~(jobs[i].state = "queued" /\ jobs[i].attempts = 0)
    /\ jobs' = [jobs EXCEPT ![i].state = "queued", ![i].waits = FALSE, ![i].attempts = 0]
    /\ UNCHANGED <<botVars, mailVars, nextId, links, flight, asked, setups, boots>> /\ save

-----------------------------------------------------------------------------
(* run_once, the worker: take something, do it unlocked, apply the outcome.  *)
Idle == botRuns = <<>> /\ ~mailRuns /\ flight = NoJob

TakeSetup == /\ Idle /\ setup # None /\ botRuns' = <<setup, generation>> /\ setup' = None
             /\ UNCHANGED <<bot, generation, mailVars, queueVars, flight, asked, bounds>> /\ NoSave

Current(g) == g = generation
SetupDone == LET b == botRuns[1] IN
    /\ botRuns # <<>> /\ botRuns' = <<>>
    /\ UNCHANGED <<setup, generation, mailVars, nextId, flight, asked, bounds>>
    /\ \/ /\ ~Current(botRuns[2]) /\ UNCHANGED <<bot, jobs, links>> /\ NoSave
       \/ /\ Current(botRuns[2]) /\ UNCHANGED <<bot, jobs, links>> /\ save        \* refused
       \/ /\ Current(botRuns[2]) /\ bot' = b
          /\ IF bot \notin {None, b}
             THEN jobs' = SelectSeq(jobs, LAMBDA j : j.kind = "email") /\ links' = {}
             ELSE UNCHANGED <<jobs, links>>
          /\ save

TakeMailSetup == /\ Idle /\ setup = None /\ mailSetup /\ mailDue
                 /\ mailSetup' = FALSE /\ mailRuns' = TRUE
                 /\ UNCHANGED <<botVars, mail, mailBusy, mailDue, sentToday, queueVars, flight, asked, bounds>>
                 /\ NoSave

\* Accepted, refused, or not reached: then it is tried again 30 s later.
MailSetupDone == /\ mailRuns /\ mailRuns' = FALSE
                 /\ \/ mail' = TRUE /\ mailBusy' = FALSE /\ UNCHANGED <<mailSetup, mailDue>>
                    \/ mailBusy' = FALSE /\ UNCHANGED <<mail, mailSetup, mailDue>>
                    \/ mailSetup' = TRUE /\ mailDue' = FALSE /\ UNCHANGED <<mail, mailBusy>>
                 /\ UNCHANGED <<botVars, sentToday, queueVars, flight, asked, bounds>> /\ save

Ready(j) == /\ j.state = "queued" /\ ~j.waits
            /\ IF j.kind = "email" THEN mail ELSE bot # None
TakeJob == /\ Idle /\ setup = None /\ ~(mailSetup /\ mailDue)
           /\ \E i \in DOMAIN jobs :
                /\ Ready(jobs[i]) /\ \A k \in 1..(i - 1) : ~Ready(jobs[k])
                /\ flight' = [id |-> jobs[i].id, kind |-> jobs[i].kind, bot |-> bot]
           /\ UNCHANGED <<botVars, mailVars, queueVars, asked, bounds>> /\ NoSave

Attempted(j, ok) == [j EXCEPT !.attempts = @ + 1,
    !.state = IF ok THEN "sent" ELSE IF j.attempts + 1 >= MaxAttempts THEN "failed" ELSE @,
    !.waits = ~ok]
\* The entry is looked up again by its id: it may have gone meanwhile.
JobDone == \E ok \in BOOLEAN :
    /\ flight # NoJob /\ flight' = NoJob
    /\ jobs' = [i \in DOMAIN jobs |->
                  IF jobs[i].id = flight.id THEN Attempted(jobs[i], ok) ELSE jobs[i]]
    /\ links' = IF ok /\ flight.kind = "post" THEN links \cup {flight.bot} ELSE links
    /\ UNCHANGED <<botVars, mailVars, nextId, asked, bounds>> /\ save

\* Backoffs and the 30 s of the mail set-up run out.
Clock == /\ jobs' = [i \in DOMAIN jobs |-> [jobs[i] EXCEPT !.waits = FALSE]]
         /\ mailDue' = TRUE /\ <<jobs, mailDue>> # <<jobs', mailDue'>>
         /\ UNCHANGED <<botVars, mail, mailSetup, mailBusy, mailRuns, sentToday, nextId, links, flight,
                        asked, bounds>> /\ NoSave

Reboot == /\ boots < MaxBoots /\ boots' = boots + 1
          /\ bot' = disk.bot /\ mail' = disk.mail /\ jobs' = disk.jobs
          /\ nextId' = disk.nextId /\ links' = disk.links
          /\ setup' = None /\ botRuns' = <<>> /\ generation' = 0
          /\ mailSetup' = FALSE /\ mailBusy' = FALSE /\ mailDue' = TRUE /\ mailRuns' = FALSE
          /\ flight' = NoJob
          /\ UNCHANGED <<sentToday, disk, asked, lost, setups, retries>>

AdminRoute == begin_setup \/ remove \/ begin_mail_setup
              \/ remove_mail \/ retry
run_once == TakeSetup \/ SetupDone \/ TakeMailSetup \/ MailSetupDone \/ TakeJob \/ JobDone
Next == AdminRoute \/ enqueue \/ email \/ NewDay \/ run_once \/ Clock \/ Reboot

\* The worker thread calls run_once back to back, hence strong fairness for
\* taking a job between two tries of a mail set-up that cannot be reached.
Spec == /\ Init /\ [][Next]_vars
        /\ WF_vars(TakeSetup) /\ WF_vars(SetupDone) /\ WF_vars(TakeMailSetup)
        /\ WF_vars(MailSetupDone) /\ SF_vars(TakeJob) /\ WF_vars(JobDone) /\ WF_vars(Clock)

-----------------------------------------------------------------------------
TypeOK == /\ bot \in Bots \cup {None} /\ setup \in Bots \cup {None}
          /\ \A i \in DOMAIN jobs : jobs[i] \in StoredJob
          /\ Len(jobs) <= QUEUE /\ sentToday \in 0..DAILY_LIMIT

\* A queued delivery leaves the queue only by being sent or given up: room is
\* made of finished entries, and only removing (or replacing) the account it
\* was for, or a restart, takes it away.
QueuedIsKept ==
    \A i \in DOMAIN jobs : jobs[i].state = "queued" =>
        \/ \E k \in DOMAIN jobs' : jobs'[k].id = jobs[i].id
        \/ boots' # boots
        \/ jobs[i].kind = "post" /\ (bot' # bot \/ bot' = None)
        \/ jobs[i].kind = "email" /\ ~mail'

\* A bot that was removed does not come back by itself: the account in use
\* was set up after the last removal, although a set-up may have been at work
\* when it was removed (the generation), and, as long as every save landed,
\* after restarts.
RemovedStaysRemoved == ~lost => bot \in asked \cup {None}

\* A delivery whose account stays set up is sent or given up in the end,
\* whatever the instance answers and however often the mail set-up fails.
Unsettled(n) == /\ bot # None /\ mail
                /\ \E i \in DOMAIN jobs : jobs[i].id = n /\ jobs[i].state = "queued"
EveryJobSettles == \A n \in 1..MaxJob : Unsettled(n) ~> ~Unsettled(n)

=============================================================================
