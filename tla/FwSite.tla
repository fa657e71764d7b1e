------------------------------- MODULE FwSite -------------------------------
(* The request pipeline around an app (miniframework site.rs and web.rs): one   *)
(* request at a time comes in from a browser that keeps what it may, is         *)
(* answered by a built-in page, a bundled file, a built-in route or the app's   *)
(* handler through Reply, and goes out with the site's headers.  A body is the  *)
(* value it tells and how it is coded; names, texts and timings are left out.   *)
EXTENDS Integers, FiniteSets, TLC

CONSTANTS MaxData,     \* versions 0..MaxData of what the app's route answers
          Large,       \* versions too large for response_limit
          GzipOnly,    \* bundled files have no identity copy
          Validated,   \* kinds of body the app's handler revalidates
          Path, Method, Fmt, Origin,     \* the requests considered
          MaxCalls     \* bound: calls a handler makes on its Reply

VARIABLES data,      \* the version the app would answer now
          release,   \* the version of the bundled files
          https,     \* Service::https_required
          cache,     \* what the browser keeps: path -> [etag, of]
          req, reply, calls,
          answer     \* the last answer, as the browser sees it
vars == <<data, release, https, cache, req, reply, calls, answer>>

Nothing == -1    \* no body
Failure == -2    \* an ErrorBody
Board == -3      \* what the board says of itself
Garbled == -4    \* a body its headers do not describe
Body == [of : Failure - 1..MaxData, as : {"none", "json", "cbor", "raw"}, gz : BOOLEAN]
B(v, f) == [of |-> v, as |-> f, gz |-> FALSE]
Empty == B(Nothing, "none")
NoTag == [of |-> Garbled, as |-> "none", gz |-> FALSE]
NoReply == [status |-> 0, body |-> Empty, owned |-> Nothing, stream |-> Nothing,
            raw_len |-> FALSE, format |-> "none", etag |-> NoTag, meant |-> Nothing]
NoRequest == [path |-> "none"]
NoAnswer == [path |-> "none", origin |-> "none", status |-> 0, shown |-> Nothing, meant |-> Nothing,
             cors |-> "none", by |-> "none", locked |-> FALSE]
Init == /\ data = 0 /\ release = 0 /\ https = FALSE
        /\ cache = [p \in {"app", "page"} |-> [etag |-> NoTag, of |-> Nothing]]
        /\ req = NoRequest /\ reply = NoReply /\ calls = 0 /\ answer = NoAnswer

-----------------------------------------------------------------------------
(* Reply.                                                                    *)
reset_body(r) ==
    [r EXCEPT !.body = Empty, !.owned = Nothing, !.stream = Nothing, !.raw_len = FALSE, !.format = "none"]
encode_as(r, f, status, v) ==
    IF v \in Large
    THEN [reset_body(r) EXCEPT !.status = 507, !.body = B(Failure, f), !.format = f, !.meant = Failure]
    ELSE [reset_body(r) EXCEPT !.status = status, !.body = B(v, f), !.format = f, !.meant = v]
gzipped(r) == [r EXCEPT !.body.gz = TRUE, !.raw_len = TRUE]
\* wire_status: the replies it may leave; the compressor may have no room to run.
wire_status(r, q, status, v) ==
    IF q.fmt = "odd" THEN {encode_as(r, "json", 406, Failure)}
    ELSE LET e == encode_as(r, q.fmt, status, v)
         IN  IF e.status >= 500 \/ e.status = 413 \/ ~q.gz \/ ~q.accepts_gzip THEN {e} ELSE {e, gzipped(e)}
fail(r, q, status) == wire_status(r, q, status, Failure)
bytes(r, status, v) == [reset_body(r) EXCEPT !.status = status, !.body = B(v, "raw"), !.meant = v]
fill(r, status, v) == bytes(r, status, v)
stream(r, status, v) == [reset_body(r) EXCEPT !.status = status, !.stream = v, !.meant = v]
owned(r, status, v) == [reset_body(r) EXCEPT !.status = status, !.owned = v, !.meant = v]
empty(r) == [reset_body(r) EXCEPT !.status = 204, !.meant = Nothing]
etag_matches(mine, etag) == mine = etag
revalidate(r, q) ==
    IF r.status # 200 THEN r
    ELSE IF etag_matches(q.if_none_match, r.body)
         THEN [r EXCEPT !.status = 304, !.body = Empty, !.etag = r.body]
         ELSE [r EXCEPT !.etag = r.body]

-----------------------------------------------------------------------------
(* The request and its answer.                                               *)
is_api(p) == p \in {"app", "public", "own", "sys", "metrics", "setup"}
cors(p) == CASE p = "public" -> "Public" [] p = "own" -> "None" [] OTHER -> "Allowlist"
origin_allowed(o) == o \in {"", "listed"}
Reads(q) == q.method \in {"GET", "HEAD"}
\* A field is varied only where the answer looks at it.
Request == {q \in [path : Path, method : Method, secure : BOOLEAN, origin : Origin, fmt : Fmt,
                   gz : BOOLEAN, accepts_gzip : BOOLEAN, identity : BOOLEAN] :
              /\ q.path \in {"app", "sys"} \/ (q.fmt = "json" /\ ~q.gz)
              /\ q.path \in {"page", "lost"} \/ (q.identity /\ (q.gz \/ q.accepts_gzip))
              /\ is_api(q.path) \/ q.origin = ""}
\* builtin_page: the certificate and how to trust it, also at / while HTTPS is required.
builtin_page(q, locked) ==
    IF q.path = "trust" \/ (q.path = "page" /\ locked)
    THEN {[status |-> IF Reads(q) THEN 200 ELSE 405, of |-> Board]} ELSE {}
\* web::route: a bundled file in a coding the client takes.
route(q, tag) ==
    IF ~Reads(q) THEN [status |-> 405, of |-> Failure]
    ELSE IF q.path = "lost" THEN [status |-> 404, of |-> Failure]
    ELSE IF ~q.accepts_gzip /\ (GzipOnly \/ ~q.identity) THEN [status |-> 406, of |-> Failure]
    ELSE IF etag_matches(tag, B(release, "raw")) THEN [status |-> 304, of |-> Nothing]
    ELSE [status |-> 200, of |-> release]

\* What a body says to a client that goes by the headers.
Read_(r) ==
    IF r.stream # Nothing THEN r.stream
    ELSE IF r.owned # Nothing THEN r.owned
    ELSE IF r.body.gz = r.raw_len /\ (r.format = "none" \/ r.format = r.body.as) THEN r.body.of ELSE Garbled
\* The browser keeps a tagged 200 and shows what it kept for a 304.
Answered(q, status, of, etag, meant, allow, by) ==
    LET key == q.path
        keeps == key \in DOMAIN cache /\ q.method = "GET" /\ status = 200 /\ etag # NoTag
    IN  /\ cache' = IF keeps THEN [cache EXCEPT ![key] = [etag |-> etag, of |-> of]] ELSE cache
        /\ answer' = [path |-> q.path, origin |-> q.origin, status |-> status, meant |-> meant,
                      shown |-> IF status = 304 THEN cache[key].of ELSE of,
                      cors |-> allow, by |-> by, locked |-> https /\ ~q.secure]
        /\ req' = NoRequest /\ reply' = NoReply /\ calls' = 0
Allow(q) == CASE cors(q.path) = "Allowlist" /\ origin_allowed(q.origin) /\ q.origin # "" -> q.origin
              [] cors(q.path) = "Public" -> "*"
              [] OTHER -> "none"
\* The site's headers and the body; 503 when its copy finds no memory.
Sent(q, r, by) ==
    \/ Answered(q, r.status, Read_(r), r.etag, r.meant, Allow(q), by)
    \/ /\ r.stream = Nothing /\ r.owned = Nothing /\ r.body # Empty
       /\ Answered(q, 503, Failure, NoTag, Failure, "none", by)

\* builtin_api: what the site answers before the app is asked.
builtin_api(q) ==
    IF ~Reads(q) THEN {}
    ELSE CASE q.path = "sys" -> wire_status(NoReply, q, 200, Board)
           [] q.path = "metrics" -> {bytes(NoReply, 200, Board)}
           [] OTHER -> {}
Locked(q) == https /\ ~q.secure /\ q.path # "setup" /\ ~(q.path = "metrics" /\ Reads(q))

\* respond_with, up to the app's handler.
Idle == req = NoRequest /\ answer = NoAnswer
Respond ==
    /\ Idle
    /\ \E q0 \in Request :
        LET q == q0 @@ [if_none_match |-> IF q0.path \in DOMAIN cache /\ Reads(q0) THEN cache[q0.path].etag ELSE NoTag]
            page == builtin_page(q, Locked(q))
            refused == ~(cors(q.path) # "Allowlist" \/ origin_allowed(q.origin))
        IN  IF Locked(q)
            THEN LET p == page \cup (IF page = {} THEN {[status |-> 403, of |-> Failure]} ELSE {})
                 IN \E a \in p : Answered(q, a.status, a.of, NoTag, a.of, "none", "page")
            ELSE IF ~is_api(q.path) /\ page # {}
            THEN \E a \in page : Answered(q, a.status, a.of, NoTag, a.of, "none", "page")
            ELSE IF ~is_api(q.path)
            THEN LET a == route(q, q.if_none_match)
                 IN  Answered(q, a.status, a.of, B(release, "raw"), IF a.status = 304 THEN release ELSE a.of,
                              "none", "file")
            ELSE IF refused
            THEN \E r \in fail(NoReply, q, 403) : Sent(q, r, "site")
            ELSE IF q.method = "OPTIONS" /\ cors(q.path) = "Allowlist"
            THEN Sent(q, empty(NoReply), "site")
            ELSE IF q.path # "setup" /\ builtin_api(q) # {}
            THEN \E r \in builtin_api(q) : Sent(q, r, "site")
            ELSE /\ req' = q /\ reply' = NoReply /\ calls' = 0 /\ answer' = NoAnswer
                 /\ UNCHANGED cache
    /\ UNCHANGED <<data, release, https>>

\* The app's handler: calls on its Reply, the last one what it means to say.
Call == /\ req # NoRequest /\ calls < MaxCalls /\ calls' = calls + 1
        /\ reply.etag = NoTag       \* revalidate comes last
        /\ \/ reply' \in wire_status(reply, req, 200, data)
           \/ reply' \in fail(reply, req, 400)
           \/ reply' = bytes(reply, 200, data)
           \/ reply' = stream(reply, 200, data)
           \/ reply' = owned(reply, 200, data)
           \/ reply' = empty(reply)
        /\ UNCHANGED <<data, release, https, cache, req, answer>>
Kind(r) == CASE r.stream # Nothing -> "stream" [] r.owned # Nothing -> "owned" [] OTHER -> "body"
Revalidate == /\ req # NoRequest /\ reply.etag = NoTag /\ req.path = "app" /\ Reads(req)
              /\ Kind(reply) \in Validated
              /\ reply' = revalidate(reply, req) /\ reply' # reply
              /\ UNCHANGED <<data, release, https, cache, req, calls, answer>>
\* respond_with, after the handler.
Finish ==
    /\ req # NoRequest
    /\ IF reply.status # 0 THEN Sent(req, reply, "app")
       ELSE IF req.method = "OPTIONS" /\ cors(req.path) = "Public" THEN Sent(req, empty(reply), "app")
       ELSE \E r \in fail(reply, req, 404) : Sent(req, r, "app")
    /\ UNCHANGED <<data, release, https>>
\* A head the HTTP layer refused: no handler runs.
refuse == /\ Idle
          /\ \E q \in Request : Answered(q, 413, Failure, NoTag, Failure, Allow(q), "page")
          /\ UNCHANGED <<data, release, https>>

\* What changes between requests: the app's data, the firmware, the HTTPS switch.
Changed == /\ Idle
           /\ \/ data' \in 0..MaxData /\ UNCHANGED <<release, https>>
              \/ release' \in 0..1 /\ UNCHANGED <<data, https>>
              \/ https' = ~https /\ UNCHANGED <<data, release>>
           /\ UNCHANGED <<cache, req, reply, calls, answer>>
Seen == /\ answer # NoAnswer /\ answer' = NoAnswer
        /\ UNCHANGED <<data, release, https, cache, req, reply, calls>>
Next == Respond \/ Call \/ Revalidate \/ Finish \/ refuse \/ Changed \/ Seen
Spec == Init /\ [][Next]_vars

-----------------------------------------------------------------------------
(* Type invariant.                                                           *)
TypeOK == /\ data \in 0..MaxData /\ release \in 0..1 /\ https \in BOOLEAN /\ calls \in 0..MaxCalls
          /\ reply.status \in {0, 200, 204, 304, 400, 404, 406, 507}
          /\ answer.status \in {0, 200, 204, 304, 400, 403, 404, 405, 406, 413, 503, 507}

(* A browser that goes by the headers shows exactly what was last meant: the    *)
(* coding headers describe the body that is sent whatever the handler called    *)
(* before, and a 304 is given only for what the browser has (reset_body and     *)
(* revalidate in site.rs, etag_matches in web.rs).                              *)
ShownIsMeant == answer.status \in {200, 304} => answer.shown = answer.meant

(* While HTTPS is required nothing the app or the bundle says leaves in the     *)
(* clear, and the pages a device is set up from still do (respond_with).        *)
ClearIsPublic == answer.locked => \/ answer.by = "page"
                                  \/ answer.path \in {"metrics", "setup"}

(* An origin that may not call the app is not told that it may, and the app's   *)
(* handler never ran for it (Cors::Allowlist in site.rs).                       *)
OriginsHold == cors(answer.path) = "Allowlist" /\ answer.origin = "other"
                  => answer.cors = "none" /\ answer.by # "app"

(* site.rs says of Cors::Public: "every answer, refusals included, carries      *)
(* Access-Control-Allow-Origin: *".  The answer for want of memory does not,    *)
(* nor does the refusal of plain HTTP.                                          *)
PublicIsReadable == answer.path = "public" /\ answer.status # 0 => answer.cors = "*"
=============================================================================
