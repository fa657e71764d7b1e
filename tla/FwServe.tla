------------------------------- MODULE FwServe -------------------------------
(* The connection loop of miniframework (mux.rs over http.rs): one task gives  *)
(* every established connection a turn that reads, answers a complete request  *)
(* and writes what the socket takes.  A request is one or two chunks and has a *)
(* number; a response is so many units.  Timers are ages, saturating at Old.   *)
(* HTTP/2 connections and bodies that are streamed to a handler are left out.  *)
EXTENDS Naturals, Sequences, FiniteSets, SequencesExt, FiniteSetsExt

CONSTANTS Conn, Clients,                 \* connections; Limits.*_clients
          Budget, Unit,                  \* response_budget; sizes of a response
          Idle, Deadline, Stall, Linger, \* idle, request_deadline, WRITE_STALL_TIMEOUT, LINGER
          Old,                           \* ages stop here, past every limit
          MaxRequests                    \* bound on a connection's requests
None == 99
Gone == "gone"
VARIABLES state,       \* "new", "open", "closed"
          wire,        \* chunks the peer sent and the board has not read
          eof,         \* the peer closed its side
          reads,       \* the peer reads what it is sent
          input,       \* Client: chunks read
          response,    \* [left, size, id, close] or size 0
          quiet, waiting, stalled, draining, sent,        \* the last request the peer has sent a chunk of, and its whole
          answered     \* requests whose response went out whole
vars == <<state, wire, eof, reads, input, response, quiet, waiting, stalled, draining, sent, answered>>

NoResponse == [left |-> 0, size |-> 0, id |-> 0, close |-> FALSE]
Init == /\ state = [c \in Conn |-> "new"] /\ wire = [c \in Conn |-> <<>>]
        /\ eof = [c \in Conn |-> FALSE] /\ reads = [c \in Conn |-> TRUE]
        /\ input = [c \in Conn |-> <<>>] /\ response = [c \in Conn |-> NoResponse]
        /\ quiet = [c \in Conn |-> 0] /\ waiting = [c \in Conn |-> None]
        /\ stalled = [c \in Conn |-> 0] /\ draining = [c \in Conn |-> None]
        /\ sent = [c \in Conn |-> 0]
        /\ answered = [c \in Conn |-> 0]

Open == {c \in Conn : state[c] = "open"}
Busy(c) == response[c].size > 0
retained_bytes == FoldSet(LAMBDA c, n : n + response[c].size, 0, Open)
\* Mutant of may_dispatch
may_dispatch_full == retained_bytes <= Budget
may_dispatch == retained_bytes < Budget
evictable(c) == /\ ~Busy(c) /\ input[c] = <<>> /\ draining[c] = None /\ quiet[c] > 0

-----------------------------------------------------------------------------
(* Peers.                                                                    *)
Chunk == [id : 1..MaxRequests, kind : {"part", "whole", "bad"}]
PartSent(c) == wire[c] \o input[c]
Half(c) == LET t == input[c] \o wire[c] IN t # <<>> /\ t[Len(t)].kind = "part"
Send(c) == \E kind \in {"part", "whole", "bad"} :
    LET id == IF Half(c) THEN sent[c] ELSE sent[c] + 1
    IN  /\ state[c] = "open" /\ ~eof[c] /\ id <= MaxRequests /\ (kind = "part" => ~Half(c))
        /\ wire' = [wire EXCEPT ![c] = Append(@, [id |-> id, kind |-> kind])]
        /\ sent' = [sent EXCEPT ![c] = id]
        /\ UNCHANGED <<state, eof, reads, input, response, quiet, waiting, stalled, draining,
                       answered>>
HangUp(c) == /\ state[c] = "open" /\ ~eof[c] /\ eof' = [eof EXCEPT ![c] = TRUE]
             /\ UNCHANGED <<state, wire, reads, input, response, quiet, waiting, stalled, draining, sent, answered>>
StopReading(c) == /\ state[c] = "open" /\ reads[c] /\ reads' = [reads EXCEPT ![c] = FALSE]
                  /\ UNCHANGED <<state, wire, eof, input, response, quiet, waiting, stalled,
                                 draining, sent, answered>>

-----------------------------------------------------------------------------
Forget(c, other) ==     \* c is dropped; other, if there is one, takes its slot
    /\ state' = [x \in Conn |-> IF x = c THEN "closed" ELSE IF x = other THEN "open" ELSE state[x]]
    /\ wire' = [wire EXCEPT ![c] = <<>>] /\ input' = [input EXCEPT ![c] = <<>>]
    /\ response' = [response EXCEPT ![c] = NoResponse]
    /\ waiting' = [waiting EXCEPT ![c] = None] /\ draining' = [draining EXCEPT ![c] = None]
    /\ UNCHANGED <<eof, reads, sent, answered>>
Drop(c) == Forget(c, c) /\ UNCHANGED <<quiet, stalled>>
\* add: a free slot, or the one that has been idle longest, or it is refused.
Idlest(c) == evictable(c) /\ \A d \in Open : evictable(d) => quiet[d] <= quiet[c]
add(c) == /\ state[c] = "new" /\ quiet' = [quiet EXCEPT ![c] = 0] /\ UNCHANGED stalled
          /\ \/ /\ Cardinality(Open) < Clients /\ state' = [state EXCEPT ![c] = "open"]
                /\ UNCHANGED <<wire, eof, reads, input, response, waiting, draining, sent,
                               answered>>
             \/ Cardinality(Open) >= Clients /\ \E d \in Open : Idlest(d) /\ Forget(d, c)
             \/ /\ Cardinality(Open) >= Clients /\ \A d \in Open : ~evictable(d) /\ Forget(c, c)

drain(c) == /\ draining[c] # None
            /\ \/ (draining[c] >= Linger \/ eof[c]) /\ Drop(c)
               \/ /\ draining[c] < Linger /\ ~eof[c] /\ wire' = [wire EXCEPT ![c] = <<>>]
                  /\ UNCHANGED <<state, eof, reads, input, response, quiet, waiting, stalled,
                                 draining, sent, answered>>

\* parse: the place of the chunk that ends the first request, 0 if none does.
Complete(in) == IF in = <<>> THEN 0
                ELSE IF in[1].kind # "part" THEN 1
                ELSE IF Len(in) > 1 THEN 2 ELSE 0
Expired(c) == \/ ~Busy(c) /\ quiet[c] > Idle
              \/ waiting[c] # None /\ waiting[c] > Deadline

read(c) == IF Complete(input[c]) > 0 THEN input[c] ELSE input[c] \o wire[c]
Rest(in) == SubSeq(in, Complete(in) + 1, Len(in))
\* send: what the socket takes; a body that is not taken for too long is given up.
Taken(c, left) == IF reads[c] THEN 0..left ELSE {0}
Send_(c, r, first) == \E n \in Taken(c, r.left) :
    /\ stalled' = [stalled EXCEPT ![c] = IF first \/ n > 0 THEN 0 ELSE @]
    /\ quiet' = [quiet EXCEPT ![c] = 0]
    /\ IF n < r.left
       THEN /\ response' = [response EXCEPT ![c] = [r EXCEPT !.left = r.left - n]]
            /\ UNCHANGED <<state, answered, draining>>
       ELSE /\ response' = [response EXCEPT ![c] = NoResponse]
            /\ answered' = [answered EXCEPT ![c] = r.id]
            /\ draining' = [draining EXCEPT ![c] = IF r.close THEN 0 ELSE None]
            /\ UNCHANGED state

Answer(c) == LET in == read(c)
                 k == Complete(in)
             IN  /\ ~Busy(c) /\ may_dispatch /\ k > 0
                 /\ \E size \in Unit : Send_(c, [left |-> size, size |-> size, id |-> in[k].id,
                                                 close |-> in[k].kind = "bad"], TRUE)
                 /\ input' = [input EXCEPT ![c] = IF in[k].kind = "bad" THEN <<>> ELSE Rest(in)]
                 /\ wire' = [wire EXCEPT ![c] = IF Complete(input[c]) > 0 THEN @ ELSE <<>>]
                 /\ waiting' = [waiting EXCEPT ![c] = None]
                 /\ UNCHANGED <<eof, reads, sent>>
ReadSome(c) == /\ ~Busy(c) /\ may_dispatch /\ Complete(read(c)) = 0 /\ read(c) # <<>>
               /\ input' = [input EXCEPT ![c] = read(c)] /\ wire' = [wire EXCEPT ![c] = <<>>]
               /\ quiet' = [quiet EXCEPT ![c] = IF wire[c] = <<>> THEN @ ELSE 0]
               /\ waiting' = [waiting EXCEPT ![c] = IF @ = None THEN 0 ELSE @]
               /\ UNCHANGED <<state, eof, reads, response, stalled, draining, sent, answered>>
Ended(c) == ~Busy(c) /\ may_dispatch /\ Complete(input[c]) = 0 /\ wire[c] = <<>> /\ eof[c] /\ Drop(c)
Continue(c) == /\ Busy(c)
               /\ \/ stalled[c] >= Stall /\ Drop(c)
                  \/ stalled[c] < Stall /\ Send_(c, response[c], FALSE)
                     /\ UNCHANGED <<wire, eof, reads, input, waiting, sent>>
poll(c) == /\ state[c] = "open"
           /\ \/ drain(c)
              \/ draining[c] = None /\ Expired(c) /\ Drop(c)
              \/ /\ draining[c] = None /\ ~Expired(c)
                 /\ Answer(c) \/ ReadSome(c) \/ Ended(c) \/ Continue(c)
\* Before a planned restart: what is idle is closed, what is in flight stays.
close_idle == LET kept(c) == state[c] = "open" /\ ~evictable(c)
              IN  /\ \E c \in Open : evictable(c)
                  /\ state' = [c \in Conn |-> IF state[c] = "new" \/ kept(c) THEN state[c] ELSE "closed"]
                  /\ wire' = [c \in Conn |-> IF kept(c) THEN wire[c] ELSE <<>>]
                  /\ input' = [c \in Conn |-> IF kept(c) THEN input[c] ELSE <<>>]
                  /\ waiting' = [c \in Conn |-> IF kept(c) THEN waiting[c] ELSE None]
                  /\ UNCHANGED <<eof, reads, response, quiet, stalled, draining, sent, answered>>

Age(f) == [c \in Conn |-> IF state[c] = "open" /\ f[c] < Old THEN f[c] + 1 ELSE f[c]]
Tick == /\ quiet' = Age(quiet) /\ waiting' = Age(waiting) /\ stalled' = Age(stalled)
        /\ draining' = Age(draining)
        /\ UNCHANGED <<state, wire, eof, reads, input, response, sent, answered>>

Next == Tick \/ close_idle \/ \E c \in Conn : add(c) \/ poll(c) \/ Send(c) \/ HangUp(c) \/ StopReading(c)
Spec == Init /\ [][Next]_vars /\ WF_vars(Tick) /\ \A c \in Conn : WF_vars(poll(c))

-----------------------------------------------------------------------------
TypeOK == /\ Cardinality(Open) <= Clients
          /\ \A c \in Conn : /\ input[c] \in Seq(Chunk) /\ answered[c] <= sent[c]
                             /\ Busy(c) => draining[c] = None

\* "Stop answering new requests while unsent responses hold this much": what
\* is held goes over the budget by less than one response, however turns mix.
BudgetHolds == \A u \in Unit : (\A v \in Unit : v <= u) => retained_bytes < Budget + u

\* "Never evicts a request or response in flight": a connection that makes
\* room for another, or is closed for a restart, had nothing left to write.
EvictedIsIdle ==
    \A c, d \in Conn :
        state[d] = "open" /\ state'[d] = "closed" /\ (close_idle \/ (state[c] = "new" /\ state'[c] = "open"))
            => input[d] = <<>> /\ ~Busy(d)

\* "A slow client never blocks another": a request that has arrived, whoever
\* else stops reading, is answered or its connection is given up.
Waits(c) == state[c] = "open" /\ Complete(input[c] \o wire[c]) > 0
NobodyHangs == \A c \in Conn : Waits(c) ~> ~Waits(c)
=============================================================================
