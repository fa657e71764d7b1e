-------------------------------- MODULE FwH2 --------------------------------
(* One HTTP/2 connection of the board (miniframework h2.rs), turn by turn: the  *)
(* frames that have come are handled one by one, complete requests are          *)
(* answered, response data is framed within the peer's windows and what the     *)
(* socket takes is written.  The peer keeps to our windows and stream order but *)
(* may end, reset or break off at any point.  Header contents, padding sizes,   *)
(* PING and SETTINGS other than the initial window are left out; data is        *)
(* counted in units.                                                            *)
EXTENDS Naturals, Integers, Sequences, FiniteSets, SequencesExt, FiniteSetsExt

CONSTANTS max_streams, QUEUED_STREAMS,
          RECV_WINDOW, DEFAULT_WINDOW,      \* windows we grant: a stream, the connection
          PeerWindow,                       \* initial windows the peer may set
          Response,                         \* sizes of a response body
          Upload,                           \* lengths of a streamed upload
          MaxStream, MaxFrames              \* bounds: streams and frames of the peer
Id == 1..MaxStream      \* stream 2n-1 of the protocol is n here
VARIABLES streams,      \* id -> [complete, upload, streamed, body, taken, left, window]
          last_stream, send_window, peer_initial_window, continuation, closing,
          step,         \* where poll is: [at, id]
          input, out,   \* frames read and not handled; frames not written
          open,         \* the connection stands
          sent,         \* frames the peer has sent
          credit, room, \* what the peer may still send: by stream, in all
          ended         \* streams the peer has ended
vars == <<streams, last_stream, send_window, peer_initial_window, continuation, closing, step, input,
          out, open, sent, credit, room, ended>>
peer == <<sent, credit, room, ended>>
server == <<streams, last_stream, send_window, peer_initial_window, continuation, closing>>

No == -1
At(s) == [at |-> s, id |-> 0]
F(kind, id, n, end) == [kind |-> kind, id |-> id, n |-> n, end |-> end]
Live == DOMAIN streams
Init == /\ streams = <<>> /\ last_stream = 0 /\ send_window = DEFAULT_WINDOW /\ peer_initial_window = Max(PeerWindow)
        /\ continuation = 0 /\ closing = FALSE /\ step = At("read") /\ input = <<>> /\ out = <<>>
        /\ open = TRUE /\ sent = 0 /\ credit = [i \in Id |-> RECV_WINDOW] /\ room = DEFAULT_WINDOW
        /\ ended = {}

-----------------------------------------------------------------------------
(* The peer.                                                                 *)
Begun == Max({0} \cup {f.id : f \in {g \in ToSet(input) : g.kind = "headers"}} \cup {last_stream})
Frame == {F("headers", i, n, end) : i \in {Begun + 1} \cap Id, n \in {0} \cup Upload, end \in BOOLEAN}
    \cup {F("part", i, 0, TRUE) : i \in {Begun + 1} \cap Id}
    \cup {F("continuation", 0, 0, TRUE)}
    \cup {F("data", i, 1, end) : i \in {x \in 1..Begun \ ended : credit[x] > 0 /\ room > 0}, end \in BOOLEAN}
    \cup {F("trailers", i, 0, TRUE) : i \in 1..Begun \ ended}
    \cup {F("rst", i, 0, TRUE) : i \in 1..Begun}
    \cup {F("window", i, 1, FALSE) : i \in 0..Begun}
    \cup {F("settings", 0, n, FALSE) : n \in PeerWindow}
    \cup {F("goaway", 0, 0, FALSE), F("bad", 0, 0, FALSE)}
Legal(f) == /\ f.kind = "headers" /\ f.end => f.n = 0
            /\ f.kind = "window" => (IF f.id = 0 THEN send_window <= 0
                                     ELSE f.id \in Live /\ streams[f.id].window <= 0)
            /\ f.kind = "settings" => f.n # peer_initial_window
Send == /\ open /\ sent < MaxFrames /\ sent' = sent + 1
        /\ \E f \in Frame :
             /\ Legal(f) /\ input' = Append(input, f)
             /\ credit' = IF f.kind = "data" THEN [credit EXCEPT ![f.id] = @ - 1] ELSE credit
             /\ room' = IF f.kind = "data" THEN room - 1 ELSE room
             /\ ended' = IF f.end /\ f.id \in Id THEN ended \cup {f.id} ELSE ended
        /\ UNCHANGED <<server, step, out, open>>

-----------------------------------------------------------------------------
(* frame_in.                                                                 *)
Without(i) == [j \in Live \ {i} |-> streams[j]]
Reply(frames) == out' = out \o frames
Fatal == /\ closing' = TRUE /\ Reply(<<F("goaway", 0, 0, TRUE)>>)
         /\ UNCHANGED <<streams, last_stream, send_window, peer_initial_window, continuation>>
reset(i) == /\ streams' = Without(i) /\ Reply(<<F("rst", i, 0, TRUE)>>)
            /\ UNCHANGED <<send_window, peer_initial_window, continuation, closing>>
\* header_block: opens the stream or refuses it.
Full(end) == Cardinality(Live) >= IF end THEN max_streams + QUEUED_STREAMS ELSE max_streams
header_block(i, n, end) ==
    /\ last_stream' = i
    /\ IF closing THEN UNCHANGED <<streams, out, send_window, peer_initial_window, closing>>
       ELSE IF Full(end)
       THEN reset(i)
       ELSE /\ streams' = [j \in Live \cup {i} |->
                   IF j = i THEN [complete |-> end, upload |-> n > 0, streamed |-> n, body |-> 0, taken |-> FALSE,
                                  left |-> No, window |-> peer_initial_window]
                   ELSE streams[j]]
            /\ UNCHANGED <<out, send_window, peer_initial_window, closing>>
\* Data: the connection's window is given back at once; an upload's as it is read.
GivenBack(i) == IF i \in Live /\ ~streams[i].upload
                THEN <<F("window", 0, 1, FALSE), F("window", i, 1, FALSE)>>
                ELSE <<F("window", 0, 1, FALSE)>>
Data(f) ==
    /\ UNCHANGED <<last_stream, send_window, peer_initial_window, continuation, closing>>
    /\ IF f.id \notin Live \/ streams[f.id].complete
       THEN UNCHANGED streams /\ Reply(<<F("window", 0, 1, FALSE)>>)
       ELSE LET s == streams[f.id]
            IN  IF s.upload /\ s.body + 1 > s.streamed
                THEN streams' = Without(f.id)
                     /\ Reply(<<F("window", 0, 1, FALSE), F("rst", f.id, 0, TRUE)>>)
                ELSE /\ streams' = [streams EXCEPT ![f.id].complete = f.end,
                                        ![f.id].body = IF s.upload THEN @ + 1 ELSE @]
                     /\ Reply(IF f.end THEN <<F("window", 0, 1, FALSE)>> ELSE GivenBack(f.id))
Completed(i) == IF i \in Live THEN [streams EXCEPT ![i].complete = TRUE] ELSE streams
frame_in(f) ==
    IF continuation > 0 /\ f.kind # "continuation" THEN Fatal
    ELSE CASE f.kind = "headers" -> header_block(f.id, f.n, f.end) /\ UNCHANGED continuation
           [] f.kind = "part" -> /\ continuation' = f.id
                                 /\ UNCHANGED <<streams, last_stream, send_window, peer_initial_window,
                                                closing, out>>
           [] f.kind = "continuation" /\ continuation = 0 -> Fatal
           [] f.kind = "continuation" /\ continuation > 0 ->
                 header_block(continuation, 0, TRUE) /\ continuation' = 0
           [] f.kind = "data" -> Data(f)
           [] f.kind = "trailers" ->
                 /\ streams' = Completed(f.id)
                 /\ UNCHANGED <<last_stream, send_window, peer_initial_window, continuation, closing, out>>
           [] f.kind = "rst" ->
                 /\ streams' = Without(f.id)
                 /\ UNCHANGED <<last_stream, send_window, peer_initial_window, continuation, closing, out>>
           [] f.kind = "window" ->
                 /\ send_window' = IF f.id = 0 THEN send_window + 1 ELSE send_window
                 /\ streams' = IF f.id \in Live THEN [streams EXCEPT ![f.id].window = @ + 1] ELSE streams
                 /\ UNCHANGED <<last_stream, peer_initial_window, continuation, closing, out>>
           [] f.kind = "settings" ->
                 /\ peer_initial_window' = f.n
                 /\ streams' = [i \in Live |-> [streams[i] EXCEPT
                                                   !.window = @ + f.n - peer_initial_window]]
                 /\ Reply(<<F("ack", 0, 0, FALSE)>>)
                 /\ UNCHANGED <<last_stream, send_window, continuation, closing>>
           [] f.kind = "goaway" ->
                 /\ closing' = TRUE
                 /\ UNCHANGED <<streams, last_stream, send_window, peer_initial_window, continuation, out>>
           [] f.kind = "bad" -> Fatal

-----------------------------------------------------------------------------
(* poll.                                                                     *)
frames == /\ open /\ step.at = "read" /\ UNCHANGED <<open, peer>>
          /\ \/ /\ input # <<>> /\ input' = Tail(input) /\ frame_in(Head(input)) /\ UNCHANGED step
             \/ /\ input = <<>> /\ step' = At("answer") /\ UNCHANGED <<input, out, server>>
\* dispatch: requests in order, as many answers at once as max_streams.
Taken == {i \in Live : streams[i].taken}
Ready == {i \in Live : /\ ~streams[i].taken /\ (streams[i].complete \/ streams[i].upload)
                       /\ Cardinality(Taken) < max_streams}
\* respond, with a body of n units or with no body at all.
respond(i, n) == IF n = 0
                 THEN /\ streams' = Without(i) /\ Reply(<<F("headers", i, 0, TRUE)>>)
                 ELSE /\ streams' = [streams EXCEPT ![i].taken = TRUE, ![i].left = n]
                      /\ Reply(<<F("headers", i, 0, FALSE)>>)
dispatch ==
    /\ open /\ step.at = "answer" /\ UNCHANGED <<open, peer, input, last_stream, send_window,
                                                 peer_initial_window, continuation, closing>>
    /\ \/ /\ ~closing /\ Ready # {}
          /\ LET i == Min(Ready)
             IN  \/ ~streams[i].upload /\ (\E n \in Response : respond(i, n)) /\ UNCHANGED step
                 \/ /\ ~streams[i].upload      \* malformed
                    /\ streams' = Without(i) /\ Reply(<<F("rst", i, 0, TRUE)>>) /\ UNCHANGED step
                 \/ /\ streams[i].upload
                    /\ streams' = [streams EXCEPT ![i].taken = TRUE] /\ UNCHANGED out
                    /\ step' = [at |-> "upload", id |-> i]
       \/ step' = At("produce") /\ UNCHANGED <<streams, out>>      \* also when the budget is spent
\* The handler reads the upload; meanwhile frames are handled here.
ReadUpload == LET i == step.id
                  s == streams[i]
              IN  /\ i \in Live /\ s.body > 0
                  /\ streams' = [streams EXCEPT ![i].body = 0, ![i].streamed = @ - s.body]
                  /\ Reply(IF s.complete THEN <<>> ELSE <<F("window", i, s.body, FALSE)>>)
                  /\ UNCHANGED <<step, input, last_stream, send_window, peer_initial_window,
                                 continuation, closing>>
AwaitUpload == LET i == step.id
               IN  /\ i \in Live /\ streams[i].body = 0 /\ streams[i].streamed > 0
                   /\ ~streams[i].complete /\ ~closing
                   /\ input # <<>> /\ input' = Tail(input) /\ frame_in(Head(input)) /\ UNCHANGED step
\* Read whole, broken off, or no progress for STREAM_STALL: the stream is answered.
EndUpload == LET i == step.id
             IN  /\ i \in Live => streams[i].body = 0
                 /\ IF i \in Live THEN \E n \in Response : respond(i, n) ELSE UNCHANGED <<streams, out>>
                 /\ step' = At("answer")
                 /\ UNCHANGED <<input, last_stream, send_window, peer_initial_window, continuation,
                                closing>>
upload == open /\ step.at = "upload" /\ (ReadUpload \/ AwaitUpload \/ EndUpload) /\ UNCHANGED <<open, peer>>
\* produce: round-robin, within both windows.
Least(a, b) == IF a < b THEN a ELSE b
Room(i) == Least(Least(streams[i].window, send_window), streams[i].left)
produce ==
    /\ open /\ step.at = "produce"
    /\ \/ \E i \in Live : LET n == Room(i) IN
             /\ streams[i].left > 0 /\ n > 0
             /\ streams' = IF n = streams[i].left THEN Without(i)
                           ELSE [streams EXCEPT ![i].left = @ - n, ![i].window = @ - n]
             /\ send_window' = send_window - n
             /\ Reply(<<F("data", i, n, n = streams[i].left)>>) /\ UNCHANGED step
       \/ step' = At("flush") /\ UNCHANGED <<streams, send_window, out>>
    /\ UNCHANGED <<open, peer, input, last_stream, peer_initial_window, continuation, closing>>
\* flush: the peer gets what the socket takes and its windows grow.
Returned(i) == FoldSeq(LAMBDA f, n : IF f.kind = "window" /\ f.id = i THEN n + f.n ELSE n, 0, out)
flush ==
    /\ open /\ step.at = "flush" /\ UNCHANGED <<server, input, sent, ended>>
    /\ \/ /\ out' = <<>> /\ room' = room + Returned(0)
          /\ credit' = [i \in Id |-> credit[i] + Returned(i)]
          /\ open' = ~(closing /\ \A i \in Live : streams[i].left <= 0)
       \/ out # <<>> /\ UNCHANGED <<out, room, credit, open>>
    /\ step' = At("read")
HangUp == open /\ step.at = "read" /\ open' = FALSE /\ UNCHANGED <<server, step, input, out, peer>>
poll == frames \/ dispatch \/ upload \/ produce \/ flush

Next == Send \/ HangUp \/ poll
Spec == Init /\ [][Next]_vars

-----------------------------------------------------------------------------
TypeOK == /\ Cardinality(Live) <= max_streams + QUEUED_STREAMS /\ Live \subseteq 1..last_stream
          /\ \A i \in Live : streams[i].window <= Max(PeerWindow) + MaxFrames
          /\ step.at = "upload" => step.id \in Id

\* "Answers are still produced at most max_streams at a time": also when the
\* peer opens more before it has seen our settings, or while an upload is read.
AnswersBounded == Cardinality(Taken) <= max_streams

\* "Each stream may get at most 16 KiB ahead of the handler", and no credit is
\* lost: what the peer may send, what is on the way, what is held for a handler
\* and what is being given back are always the window we granted.
Waiting(i) == Cardinality({k \in DOMAIN input : input[k].kind = "data" /\ (i = 0 \/ input[k].id = i)})
CreditIsKept == open /\ ~closing =>
    /\ room + Waiting(0) + Returned(0) = DEFAULT_WINDOW
    /\ \A i \in Live : ~streams[i].complete /\ i \notin ended =>
          credit[i] + Waiting(i) + Returned(i) + streams[i].body = RECV_WINDOW

\* The server never sends a stream more than the peer's window for it: a window
\* goes below zero only when the peer itself lowers what it grants.
WithinWindow ==
    \A i \in Live \cap DOMAIN streams' :
        streams'[i].window < 0 => streams[i].window < 0 \/ peer_initial_window' < peer_initial_window

\* "GOAWAY sent or received: finish what is open, then close": a connection
\* that the board closes leaves no complete request without an answer.  What the
\* code does: once closing is set no request is dispatched any more.
OpenIsFinished == [][open /\ ~open' /\ closing /\ step.at = "flush" =>
    \A i \in Live : ~streams[i].complete]_vars
=============================================================================
