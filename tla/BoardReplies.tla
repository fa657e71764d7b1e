---------------------------- MODULE BoardReplies ----------------------------
(* Answers by reply: mentions of the bot become responses to plans          *)
(* (gamematcher/api/src/outbound.rs poll_replies, api.rs receive_replies,   *)
(* replies.rs).  The worker pages forward through the mentions into a        *)
(* durable inbox; the main loop applies them, commits the state, then takes  *)
(* them off the inbox.  Any write may fail, and the power may go between     *)
(* any two of them.                                                          *)
EXTENDS Naturals, FiniteSets, Sequences, SequencesExt

CONSTANTS Person,        \* linked accounts native to the instance
          Stranger,      \* senders that are not
          Page,          \* mentions per poll
          MaxId, MaxSite, MaxBoots    \* bounds

VARIABLES server,        \* the mentions, by id: [who, cmd]
          bot, replies,  \* a bot is set up; it reads replies
          inbox, stored, \* [cursor, pending, initialized] in RAM and in the Kv
          poll,          \* the worker's copy of the cursor, <<>> when idle
          state, disk,   \* [answer, last] per person, RAM and committed
          open,          \* the plan takes answers
          acking,        \* committed, not yet taken off the inbox
          applied,       \* ghost: mention -> how often it was applied
          settled,       \* ghost: mentions decided, or dropped with the bot
          siteAnswers, boots
vars == <<server, bot, replies, inbox, stored, poll, state, disk, open, acking, applied,
          settled, siteAnswers, boots>>

Command == {"in", "out", "junk"}
NoInbox == [cursor |-> 0, pending |-> <<>>, initialized |-> FALSE]
Answers == [answer : {"none", "in", "out"}, last : 0..MaxId]

Init == /\ server = <<>> /\ bot = TRUE /\ replies = TRUE
        /\ inbox = NoInbox /\ stored = NoInbox /\ poll = <<>>
        /\ state = [p \in Person |-> [answer |-> "none", last |-> 0]] /\ disk = state
        /\ open = TRUE /\ acking = 0 /\ applied = <<>> /\ settled = {}
        /\ siteAnswers = 0 /\ boots = 0

ids == DOMAIN server
Arrives == \E who \in Person \cup Stranger, cmd \in Command :
    /\ Len(server) < MaxId
    /\ server' = Append(server, [who |-> who, cmd |-> cmd])
    /\ applied' = Append(applied, 0)
    /\ UNCHANGED <<bot, replies, inbox, stored, poll, state, disk, open, acking, settled,
                   siteAnswers, boots>>

-----------------------------------------------------------------------------
(* poll_replies, on the worker.                                              *)
PollTakes == /\ bot /\ replies /\ poll = <<>> /\ inbox.pending = <<>>
             /\ poll' = <<inbox.cursor, inbox.initialized>>
             /\ UNCHANGED <<server, bot, replies, inbox, stored, state, disk, open, acking,
                            applied, settled, siteAnswers, boots>>

newer(a, b) == a > b
\* Mutant of PageAfter
NewestAfter(cursor) == LET later == SelectSeq([i \in ids |-> i], LAMBDA i : newer(i, cursor))
                       IN SubSeq(later, IF Len(later) < Page THEN 1 ELSE Len(later) - Page + 1,
                                 Len(later))

\* min_id pages forward from the cursor: the oldest ones first.
PageAfter(cursor) == LET later == SelectSeq([i \in ids |-> i], LAMBDA i : newer(i, cursor))
                     IN SubSeq(later, 1, IF Len(later) < Page THEN Len(later) ELSE Page)
\* The first poll only finds out where the newest mention is.
Polled(cursor, initialized) ==
    IF ~initialized THEN [cursor |-> Len(server), pending |-> <<>>, initialized |-> TRUE]
    ELSE [cursor |-> IF PageAfter(cursor) = <<>> THEN cursor ELSE Last(PageAfter(cursor)),
          pending |-> PageAfter(cursor), initialized |-> TRUE]
\* The inbox is written first; RAM follows only when that worked.
PollDone == LET next == Polled(poll[1], poll[2]) IN
    /\ poll # <<>> /\ poll' = <<>>
    /\ IF bot /\ replies
       THEN \/ stored' = next /\ inbox' = next
               /\ settled' = settled \cup IF poll[2] THEN {} ELSE ids
            \/ UNCHANGED <<stored, inbox, settled>>
       ELSE UNCHANGED <<stored, inbox, settled>>
    /\ UNCHANGED <<server, bot, replies, state, disk, open, acking, applied, siteAnswers, boots>>

-----------------------------------------------------------------------------
(* receive_replies, on the main loop: the first pending mention.             *)
Takes(m) == /\ server[m].who \in Person /\ server[m].cmd # "junk"
            /\ newer(m, state[server[m].who].last) /\ open
Receive == LET m == Head(inbox.pending) IN
    /\ bot /\ replies /\ inbox.pending # <<>> /\ acking = 0
    /\ IF Takes(m)
       THEN /\ state' = [state EXCEPT ![server[m].who] = [answer |-> server[m].cmd, last |-> m]]
            /\ disk' = state'
            /\ applied' = [applied EXCEPT ![m] = @ + 1]
       ELSE UNCHANGED <<state, disk, applied>>
    /\ acking' = m /\ settled' = settled \cup {m}
    /\ UNCHANGED <<server, bot, replies, inbox, stored, poll, open, siteAnswers, boots>>

\* A commit that fails breaks the loop and leaves the mention pending: no step.

Acknowledged(box) == [box EXCEPT !.pending = SelectSeq(@, LAMBDA m : m # acking)]
acknowledge_reply == /\ acking # 0 /\ acking' = 0 /\ inbox' = Acknowledged(inbox)
                     /\ stored' \in {stored, inbox'}
                     /\ UNCHANGED <<server, bot, replies, poll, state, disk, open, applied,
                                    settled, siteAnswers, boots>>

-----------------------------------------------------------------------------
reply_settings == /\ bot /\ replies' = ~replies
                  /\ UNCHANGED <<server, bot, inbox, stored, poll, state, disk, open, acking,
                                 applied, settled, siteAnswers, boots>>
\* Removing the bot, or replacing it by another, empties the inbox; a new bot
\* starts at its newest mention and without reading replies.
remove == /\ bot /\ bot' = FALSE /\ inbox' = NoInbox /\ stored' = NoInbox
          /\ settled' = settled \cup ids
          /\ UNCHANGED <<server, replies, poll, state, disk, open, acking, applied, siteAnswers,
                         boots>>
SetUp == /\ ~bot /\ poll = <<>> /\ bot' = TRUE /\ replies' = FALSE
         /\ UNCHANGED <<server, inbox, stored, poll, state, disk, open, acking, applied,
                        settled, siteAnswers, boots>>

respond == \E p \in Person, a \in {"in", "out"} :
    /\ open /\ siteAnswers < MaxSite /\ siteAnswers' = siteAnswers + 1
    /\ state' = [state EXCEPT ![p].answer = a] /\ disk' = state'
    /\ UNCHANGED <<server, bot, replies, inbox, stored, poll, open, acking, applied, settled,
                   boots>>
Plan == /\ open' = ~open /\ siteAnswers < MaxSite /\ siteAnswers' = siteAnswers + 1
        /\ UNCHANGED <<server, bot, replies, inbox, stored, poll, state, disk, acking, applied,
                       settled, boots>>

Reboot == /\ boots < MaxBoots /\ boots' = boots + 1
          /\ inbox' = stored /\ state' = disk /\ poll' = <<>> /\ acking' = 0
          /\ UNCHANGED <<server, bot, replies, stored, disk, open, applied, settled, siteAnswers>>

Next == Arrives \/ PollTakes \/ PollDone \/ Receive \/ acknowledge_reply \/ reply_settings
        \/ remove \/ SetUp \/ respond \/ Plan \/ Reboot
Spec == Init /\ [][Next]_vars

-----------------------------------------------------------------------------
TypeOK == /\ state \in [Person -> Answers] /\ disk \in [Person -> Answers]
          /\ inbox.cursor \in 0..MaxId /\ Len(inbox.pending) <= Page

\* "Replay after a crash is harmless because the account's last processed id
\* is durable": no mention is applied twice, whatever fails or restarts
\* between the commit and the acknowledgement.
AppliedOnce == \A m \in ids : applied[m] <= 1

\* Nor does an older reply undo a newer one: the id an account has reached
\* never goes back, in RAM or on flash.
NoOldCommandWins ==
    \A p \in Person : /\ state'[p].last >= state[p].last
                      /\ disk'[p].last >= disk[p].last

\* No reply is skipped: one that the cursor has passed waits in the inbox or
\* was decided (or came before the bot began to read).
NoneSkipped == \A m \in ids :
    (bot /\ inbox.initialized /\ m <= inbox.cursor) =>
        m \in settled \/ \E i \in DOMAIN inbox.pending : inbox.pending[i] = m
=============================================================================
