---------------------------------- MODULE FwWire ----------------------------------
(* One message, five encodings (wire/mod.rs, proto.rs, cbor.rs, msgpack.rs,      *)
(* json.rs).  A message writes itself by calls of the Writer trait, one per      *)
(* step; the finished bytes are read back by calls of the Reader trait.  Bytes   *)
(* are numbers; a JSON word, number or string is one token.  A string is its     *)
(* length and a float one of six values.  Numbers stay below 2^28, so the        *)
(* eight-byte heads of CBOR and MessagePack and varints past four bytes are left *)
(* out, and so is what only other encoders write (indefinite lengths, tags).     *)
EXTENDS Integers, Sequences, SequencesExt, TLC

CONSTANTS Format, MAX_DEPTH, Limit,
          Message, Value,         \* a message type, and the values of it that are sent
          Older                   \* tags an earlier version of the type did not have

VARIABLES value, format,          \* what is sent, and how
          calls, w                \* Writer calls to come, and the writer
vars == <<value, format, calls, w>>

\* Types: a message has fields, a list and an option have one element type.
Ty(kind) == [kind |-> kind, of |-> <<>>, fields |-> <<>>]
List(t) == [kind |-> "list", of |-> <<t>>, fields |-> <<>>]
Opt(t) == [kind |-> "opt", of |-> <<t>>, fields |-> <<>>]
Msg(fields) == [kind |-> "msg", of |-> <<>>, fields |-> fields]
PACKED(t) == t.kind \notin {"str", "list", "opt", "msg"}
\* f64: 0, -0, one that f32 holds, one it does not, NaN, and infinity.
MinusZero == 1
Wide == 3
NaN == 4
Infinity == 5
is_default(t, v) == CASE t.kind = "msg" -> FALSE [] t.kind \in {"list", "opt"} -> v = <<>> [] OTHER -> v = 0
RECURSIVE Default(_)
Default(t) == IF t.kind = "msg" THEN [i \in DOMAIN t.fields |-> Default(t.fields[i].ty)] ELSE IF t.kind \in {"list", "opt"} THEN <<>> ELSE 0

-----------------------------------------------------------------------------
(* What a message calls (the message! macro and the Field impls).            *)
C(op, n, packed) == [op |-> op, n |-> n, packed |-> packed]
RECURSIVE write(_, _, _)
encode(t, v, skip) ==
    <<C("begin", Len(t.fields), FALSE)>>
    \o FlattenSeq([i \in DOMAIN t.fields |->
           IF skip /\ is_default(t.fields[i].ty, v[i]) THEN <<>>
           ELSE <<C("key", t.fields[i].tag, FALSE)>> \o write(t.fields[i].ty, v[i], skip)])
    \o <<C("end", 0, FALSE)>>
write(t, v, skip) ==
    CASE t.kind = "msg" -> encode(t, v, skip)
      [] t.kind = "list" -> <<C("list", Len(v), PACKED(t.of[1]))>>
                            \o FlattenSeq([i \in DOMAIN v |-> write(t.of[1], v[i], skip)])
                            \o <<C("end_list", 0, FALSE)>>
      [] t.kind = "opt" -> IF v = <<>> THEN <<C("null", 0, FALSE)>> ELSE write(t.of[1], v[1], skip)
      [] OTHER -> <<C(t.kind, v, FALSE)>>

-----------------------------------------------------------------------------
(* Writers: the bytes so far, and what each format keeps beside them.        *)
Writer(room) == [limit |-> room, out |-> <<>>, pending |-> 0, stack |-> <<>>, comma |-> FALSE, err |-> ""]
Fail(x, why) == [x EXCEPT !.err = why]
extend(x, bytes) == IF x.err # "" THEN x
                    ELSE IF Len(x.out) + Len(bytes) > x.limit THEN Fail(x, "Overflow")
                    ELSE [x EXCEPT !.out = @ \o bytes]
be(n, v) == [i \in 1..n |-> (v \div 256^(n - i)) % 256]
Zeros(n) == [i \in 1..n |-> 0]
FloatBytes(n, v) == Append(Zeros(n - 1), v)
StrBytes(n) == [i \in 1..n |-> 120]

\* Protocol Buffers.
VARINT == 0
FIXED64 == 1
LEN == 2
FIXED32 == 5
PACKED_RUN == 255
NONE == 0
VarLen(v) == CHOOSE n \in 1..4 : v < 128^n /\ (n = 1 \/ v >= 128^(n - 1))
varint(v) == [i \in 1..VarLen(v) |-> ((v \div 128^(i - 1)) % 128) + (IF i < VarLen(v) THEN 128 ELSE 0)]
Zigzag(v) == IF v >= 0 THEN 2 * v ELSE -2 * v - 1
proto_key_for(x, wt) ==
    IF x.pending # 0 THEN extend([x EXCEPT !.pending = 0], varint(8 * x.pending + wt))
    ELSE IF x.stack = <<>> \/ ~Last(x.stack).list THEN Fail(x, "Invalid")
    ELSE IF Last(x.stack).packed THEN x ELSE extend(x, varint(8 * Last(x.stack).tag + wt))
proto_push(x, frame) == IF Len(x.stack) >= MAX_DEPTH THEN Fail(x, "Depth") ELSE [x EXCEPT !.stack = Append(@, frame)]
Frame(list, tag, packed, len_at) == [list |-> list, tag |-> tag, packed |-> packed, len_at |-> len_at]
Placed(x, list, tag) == proto_push(extend(x, <<0>>), Frame(list, tag, list, Len(x.out) + 1))
\* The one byte kept for the length becomes the length; the body moves right.
\* Mutant of insert_zeros
insert_zeros_free(x, at, count) ==
    [x EXCEPT !.out = SubSeq(@, 1, at - 1) \o Zeros(count) \o SubSeq(@, at, Len(@))]
insert_zeros(x, at, count) ==
    IF Len(x.out) + count > x.limit THEN Fail(x, "Overflow")
    ELSE [x EXCEPT !.out = SubSeq(@, 1, at - 1) \o Zeros(count) \o SubSeq(@, at, Len(@))]
Shifted(x, at, size) == IF size > 1 THEN insert_zeros(x, at + 1, size - 1) ELSE x
patch(x, at) ==
    IF at = NONE \/ x.err # "" THEN x
    ELSE LET len == varint(Len(x.out) - at)
             moved == Shifted(x, at, Len(len))
         IN  IF moved.err # "" THEN moved
             ELSE [moved EXCEPT !.out = [i \in DOMAIN @ |-> IF i \in at..at + Len(len) - 1 THEN len[i - at + 1] ELSE @[i]]]
Closed(x) == patch([x EXCEPT !.stack = Front(@)], Last(x.stack).len_at)
proto(x, c) ==
    CASE c.op = "begin" -> IF x.stack = <<>> /\ x.pending = 0 THEN proto_push(x, Frame(FALSE, 0, FALSE, NONE))
                           ELSE LET y == proto_key_for(x, LEN) IN Placed(y, FALSE, 0)
      [] c.op \in {"end", "end_list"} -> Closed(x)
      [] c.op = "key" -> [x EXCEPT !.pending = c.n]
      [] c.op = "list" -> LET y == [x EXCEPT !.pending = 0] IN
                          IF c.packed /\ c.n > 0 THEN Placed(extend(y, varint(8 * x.pending + LEN)), TRUE, x.pending)
                          ELSE proto_push(y, Frame(TRUE, x.pending, FALSE, NONE))
      [] c.op \in {"u64", "bool"} -> extend(proto_key_for(x, VARINT), varint(c.n))
      [] c.op = "i64" -> extend(proto_key_for(x, VARINT), varint(Zigzag(c.n)))
      [] c.op = "f64" -> extend(proto_key_for(x, FIXED64), FloatBytes(8, c.n))
      [] c.op = "str" -> extend(extend(proto_key_for(x, LEN), varint(c.n)), StrBytes(c.n))
      [] c.op = "null" -> [x EXCEPT !.pending = 0]

\* CBOR, keyed by name or by tag.
Name(tag) == <<96 + tag>>
cbor_head(major, v) == IF v < 24 THEN <<32 * major + v>>
                       ELSE IF v <= 255 THEN <<32 * major + 24, v>>
                       ELSE IF v <= 65535 THEN <<32 * major + 25>> \o be(2, v)
                       ELSE <<32 * major + 26>> \o be(4, v)
cbor(x, c) == extend(x,
    CASE c.op = "begin" -> cbor_head(5, c.n) [] c.op = "list" -> cbor_head(4, c.n)
      [] c.op \in {"end", "end_list"} -> <<>>
      [] c.op = "key" -> IF format = "cbor-int" THEN cbor_head(0, c.n) ELSE cbor_head(3, 1) \o Name(c.n)
      [] c.op = "u64" -> cbor_head(0, c.n)
      [] c.op = "i64" -> IF c.n >= 0 THEN cbor_head(0, c.n) ELSE cbor_head(1, -1 - c.n)
      [] c.op = "f64" -> IF c.n # Wide THEN <<250>> \o FloatBytes(4, c.n) ELSE <<251>> \o FloatBytes(8, c.n)
      [] c.op = "bool" -> <<244 + c.n>>
      [] c.op = "str" -> cbor_head(3, c.n) \o StrBytes(c.n)
      [] c.op = "null" -> <<246>>)

\* MessagePack, keyed by name.
header(n, fix, fix_max, m16, m32) == IF n <= fix_max THEN <<fix + n>>
                                     ELSE IF n <= 65535 THEN <<m16>> \o be(2, n) ELSE <<m32>> \o be(4, n)
mp_u64(v) == IF v < 128 THEN <<v>> ELSE IF v <= 255 THEN <<204, v>>
             ELSE IF v <= 65535 THEN <<205>> \o be(2, v) ELSE <<206>> \o be(4, v)
\* -32 to -1 in the byte itself, then in 1, 2 or 4 bytes of two's complement.
mp_i64(v) == IF v >= 0 THEN mp_u64(v) ELSE IF v >= -32 THEN <<256 + v>> ELSE IF v >= -128 THEN <<208, 256 + v>>
             ELSE IF v >= -32768 THEN <<209>> \o be(2, 65536 + v)
             ELSE <<210, 255>> \o be(3, 256^3 + v)
mp_str(n) == (IF n < 32 THEN <<160 + n>> ELSE IF n <= 255 THEN <<217, n>> ELSE header(n, 0, 0, 218, 219)) \o StrBytes(n)
msgpack(x, c) == extend(x,
    CASE c.op = "begin" -> header(c.n, 128, 15, 222, 223) [] c.op = "list" -> header(c.n, 144, 15, 220, 221)
      [] c.op \in {"end", "end_list"} -> <<>>
      [] c.op = "key" -> <<161>> \o Name(c.n)
      [] c.op = "u64" -> mp_u64(c.n) [] c.op = "i64" -> mp_i64(c.n)
      [] c.op = "f64" -> IF c.n # Wide THEN <<202>> \o FloatBytes(4, c.n) ELSE <<203>> \o FloatBytes(8, c.n)
      [] c.op = "bool" -> <<194 + c.n>>
      [] c.op = "str" -> mp_str(c.n)
      [] c.op = "null" -> <<192>>)

\* JSON: a comma before every item but the first of its level.
Closing(x, token) == [extend(x, <<token>>) EXCEPT !.comma = TRUE]
sep(x) == [(IF x.comma THEN extend(x, <<",">>) ELSE x) EXCEPT !.comma = TRUE]
Opened(x, token) == extend([sep(x) EXCEPT !.comma = FALSE], <<token>>)
Text(n) == ToString(<<n>>)
json(x, c) ==
    CASE c.op = "begin" -> Opened(x, "{") [] c.op = "list" -> Opened(x, "[")
      [] c.op = "end" -> Closing(x, "}") [] c.op = "end_list" -> Closing(x, "]")
      [] c.op = "key" -> [extend(extend(sep(x), <<Text(c.n)>>), <<":">>) EXCEPT !.comma = FALSE]
      [] c.op = "f64" -> extend(sep(x), <<IF c.n \in {NaN, Infinity} THEN "null" ELSE ToString(c.n)>>)
      [] c.op = "bool" -> extend(sep(x), <<IF c.n = 1 THEN "true" ELSE "false">>)
      [] c.op = "null" -> extend(sep(x), <<"null">>)
      [] c.op = "str" -> extend(sep(x), <<Text(c.n)>>)
      [] OTHER -> extend(sep(x), <<ToString(c.n)>>)

skips_defaults(f) == f = "protobuf"
Written(x, c) == CASE format = "protobuf" -> proto(x, c)
                   [] format \in {"cbor", "cbor-int"} -> cbor(x, c)
                   [] format = "msgpack" -> msgpack(x, c)
                   [] format = "json" -> json(x, c)
Init == /\ value \in Value /\ format \in Format
        /\ calls = encode(Message, value, skips_defaults(format))
        /\ \E room \in Limit : w = Writer(room)
Call == /\ calls # <<>> /\ w.err = "" /\ calls' = Tail(calls) /\ w' = Written(w, Head(calls))
        /\ UNCHANGED <<value, format>>
Next == Call
Spec == Init /\ [][Next]_vars

-----------------------------------------------------------------------------
(* Readers: how far they are, and what each format keeps of the open levels:  *)
(* where a protobuf message ends, how many CBOR and MessagePack entries are    *)
(* left, whether a JSON level has had an item.                                 *)
Reader == [s |-> w.out, pos |-> 0, open |-> <<>>, started |-> FALSE, wt |-> VARINT, err |-> ""]
R(r, v) == [r |-> r, v |-> v]
Bad(r) == R(Fail(r, "Invalid"), 0)
\* A call that fails is the last (the ? of the code); its result is computed once.
Then(x, Op(_)) == CHOOSE z \in {IF y.r.err # "" THEN y ELSE Op(y) : y \in {x}} : TRUE
Ends(r) == IF format = "protobuf" /\ r.open # <<>> THEN Last(r.open) ELSE Len(r.s)
take(r, n) == IF r.pos + n > Ends(r) THEN R(Fail(r, "Eof"), 0)
              ELSE R([r EXCEPT !.pos = @ + n], SubSeq(r.s, r.pos + 1, r.pos + n))
byte(r) == Then(take(r, 1), LAMBDA x : R(x.r, x.v[1]))
peek(r) == IF r.pos < Len(r.s) THEN r.s[r.pos + 1] ELSE IF format = "json" THEN "" ELSE 256
uint(r, n) == Then(take(r, n), LAMBDA x : R(x.r, FoldLeft(LAMBDA acc, b : (acc % 2^20) * 256 + b, 0, x.v)))
str(n) == Then(take(n.r, n.v), LAMBDA x : R(x.r, n.v))
push(r, x) == IF Len(r.open) >= MAX_DEPTH THEN Fail(r, "Depth") ELSE [r EXCEPT !.open = Append(@, x)]
Push(n) == R(push(n.r, n.v), 0)
pop(r) == [r EXCEPT !.open = Front(@)]
Times(Once(_), n, r) == FoldLeft(LAMBDA acc, i : Then(acc, LAMBDA x : Once(x.r)), R(r, 0), [i \in 1..n |-> i])

read_varint(r) ==
    LET ends == {n \in 1..4 : r.pos + n <= Ends(r) /\ r.s[r.pos + n] < 128 /\ \A k \in 1..n - 1 : r.s[r.pos + k] >= 128}
    IN  IF ends = {} THEN Bad(r)
        ELSE LET n == CHOOSE k \in ends : TRUE
             IN  R([r EXCEPT !.pos = @ + n],
                   FoldLeft(LAMBDA acc, i : acc + (r.s[r.pos + i] % 128) * 128^(i - 1), 0, [i \in 1..n |-> i]))
proto_len(r) == IF r.wt # LEN THEN Bad(r) ELSE read_varint(r)
proto_begin(r) ==
    IF ~r.started THEN R(push([r EXCEPT !.started = TRUE], Len(r.s)), 0)
    ELSE Then(proto_len(r), LAMBDA n :
              IF n.r.pos + n.v > Ends(r) THEN R(Fail(r, "Eof"), 0) ELSE R(push(n.r, n.r.pos + n.v), 0))
proto_next_key(r) == IF r.pos >= Last(r.open) THEN R(pop(r), 0)
                     ELSE Then(read_varint(r), LAMBDA k : R([k.r EXCEPT !.wt = k.v % 8], k.v \div 8))
varint_field(r) == IF r.wt \in {VARINT, PACKED_RUN} THEN read_varint(r) ELSE Bad(r)
Unzigzag(v) == IF v % 2 = 0 THEN v \div 2 ELSE -((v + 1) \div 2)
proto_skip(r) == CASE r.wt = VARINT -> read_varint(r) [] r.wt = FIXED64 -> take(r, 8) [] r.wt = FIXED32 -> take(r, 4)
                   [] r.wt = LEN -> Then(proto_len(r), str)
                   [] OTHER -> Bad(r)
proto_scalar(r, kind) ==
    CASE kind \in {"u64", "bool"} -> varint_field(r)
      [] kind = "i64" -> Then(varint_field(r), LAMBDA x : R(x.r, Unzigzag(x.v)))
      [] kind = "f64" -> IF r.wt \in {FIXED64, PACKED_RUN} THEN uint(r, 8) ELSE Bad(r)
      [] kind = "str" -> Then(proto_len(r), str)

cbor_read_head(r) == Then(byte(r), LAMBDA b :
    Then(CASE b.v % 32 < 24 -> R(b.r, b.v % 32) [] b.v % 32 = 24 -> uint(b.r, 1) [] b.v % 32 = 25 -> uint(b.r, 2)
           [] b.v % 32 = 26 -> uint(b.r, 4) [] OTHER -> Bad(b.r),
         LAMBDA n : [r |-> n.r, major |-> b.v \div 32, v |-> n.v]))
Expect(r, major) == Then(cbor_read_head(r), LAMBDA h : IF h.major = major THEN h ELSE Bad(r))
cbor_int(r) == Then(cbor_read_head(r), LAMBDA h :
    IF h.major = 0 THEN h ELSE IF h.major = 1 THEN R(h.r, -1 - h.v) ELSE Bad(r))
KeyName(n) == IF n.v # 1 THEN Bad(n.r) ELSE Then(byte(n.r), LAMBDA b : R(b.r, b.v - 96))
cbor_key(r) == IF peek(r) \div 32 = 0 THEN cbor_int(r) ELSE Then(Expect(r, 3), KeyName)
Unsigned(x) == IF x.v >= 0 THEN x ELSE Bad(x.r)
\* One byte for false or true; one for the width of a float.
Bool(r, false) == Then(byte(r), LAMBDA b : IF b.v \in {false, false + 1} THEN R(b.r, b.v - false) ELSE Bad(r))
Float(r, f32) == Then(byte(r), LAMBDA b :
    IF b.v = f32 THEN uint(b.r, 4) ELSE IF b.v = f32 + 1 THEN uint(b.r, 8) ELSE Bad(r))
cbor_scalar(r, kind) ==
    CASE kind = "u64" -> Then(cbor_int(r), Unsigned) [] kind = "i64" -> cbor_int(r)
      [] kind = "bool" -> Bool(r, 244) [] kind = "f64" -> Float(r, 250)
      [] kind = "str" -> Then(Expect(r, 3), str)
RECURSIVE cbor_skip(_)
cbor_skip(r) ==
    IF peek(r) \div 32 = 7 THEN take(r, CASE peek(r) = 250 -> 5 [] peek(r) = 251 -> 9 [] OTHER -> 1)
    ELSE Then(cbor_read_head(r), LAMBDA h :
              CASE h.major \in {0, 1} -> h [] h.major \in {2, 3} -> str(h)
                [] h.major = 4 -> Times(cbor_skip, h.v, h.r) [] h.major = 5 -> Times(cbor_skip, 2 * h.v, h.r)
                [] OTHER -> Bad(r))

\* A length in the byte b, or in the 1, 2 or 4 that follow.
Long(b, fix, room, codes) ==
    IF b.v \in fix..fix + room THEN R(b.r, b.v - fix)
    ELSE IF b.v \in DOMAIN codes THEN uint(b.r, codes[b.v]) ELSE Bad(b.r)
map_len(r) == Then(byte(r), LAMBDA b : Long(b, 128, 15, 222 :> 2 @@ 223 :> 4))
array_len(r) == Then(byte(r), LAMBDA b : Long(b, 144, 15, 220 :> 2 @@ 221 :> 4))
str_len(r) == Then(byte(r), LAMBDA b : Long(b, 160, 31, 217 :> 1 @@ 218 :> 2 @@ 219 :> 4))
Signed(r, n) == Then(uint(r, n), LAMBDA x : R(x.r, IF x.v >= 2^(8 * n - 1) THEN x.v - 256^n ELSE x.v))
mp_int(r) == Then(byte(r), LAMBDA b :
    CASE b.v < 128 -> b [] b.v \in 224..255 -> R(b.r, b.v - 256)
      [] b.v = 204 -> uint(b.r, 1) [] b.v = 205 -> uint(b.r, 2) [] b.v = 206 -> uint(b.r, 4)
      [] b.v = 208 -> Signed(b.r, 1) [] b.v = 209 -> Signed(b.r, 2)
      [] b.v = 210 -> Then(uint(b.r, 4), LAMBDA x : R(x.r, x.v - 2^28))
      [] OTHER -> Bad(r))
mp_key(r) == IF peek(r) < 128 \/ peek(r) \in 204..207 THEN mp_int(r) ELSE Then(str_len(r), KeyName)
mp_scalar(r, kind) ==
    CASE kind = "u64" -> Then(mp_int(r), Unsigned) [] kind = "i64" -> mp_int(r)
      [] kind = "bool" -> Bool(r, 194) [] kind = "f64" -> Float(r, 202)
      [] kind = "str" -> Then(str_len(r), str)
RECURSIVE mp_skip(_)
mp_skip(r) ==
    LET b == peek(r)
    IN  CASE b \in 128..143 \cup {222, 223} -> Then(map_len(r), LAMBDA n : Times(mp_skip, 2 * n.v, n.r))
          [] b \in 144..159 \cup {220, 221} -> Then(array_len(r), LAMBDA n : Times(mp_skip, n.v, n.r))
          [] b \in 160..191 \cup 217..219 -> Then(str_len(r), str)
          [] b \in {192, 194, 195} -> take(r, 1) [] b = 202 -> take(r, 5) [] b = 203 -> take(r, 9)
          [] OTHER -> mp_int(r)

expect(r, token) == IF peek(r) = token THEN R([r EXCEPT !.pos = @ + 1], 0) ELSE Bad(r)
open(r, token) == Then(expect(r, token), LAMBDA x : Push(R(x.r, 1)))
more(r, close) ==
    LET n == Len(r.open)
    IN  IF peek(r) = close THEN R(pop([r EXCEPT !.pos = @ + 1]), 0)
        ELSE Then(IF r.open[n] = 1 THEN R(r, 0) ELSE expect(r, ","), LAMBDA x : R([x.r EXCEPT !.open[n] = 0], 1))
\* The number a token stands for: one of those that were sent.
Parsed(r, Shown(_)) ==
    LET sent == {n \in {c.n : c \in ToSet(encode(Message, value, FALSE))} : Shown(n) = peek(r)}
    IN  IF sent = {} THEN Bad(r) ELSE R([r EXCEPT !.pos = @ + 1], CHOOSE n \in sent : TRUE)
Quoted(r) == Parsed(r, Text)
json_key(r) == Then(more(r, "}"), LAMBDA m :
    IF m.v = 0 THEN m ELSE Then(Quoted(m.r), LAMBDA k : Then(expect(k.r, ":"), LAMBDA x : R(x.r, k.v))))
Literal(r, token, v) == Then(expect(r, token), LAMBDA x : R(x.r, v))
json_scalar(r, kind) ==
    CASE kind = "f64" /\ peek(r) = "null" -> Literal(r, "null", NaN)
      [] kind = "bool" -> IF peek(r) = "true" THEN Literal(r, "true", 1) ELSE Literal(r, "false", 0)
      [] kind = "str" -> Quoted(r)
      [] OTHER -> Parsed(r, ToString)
RECURSIVE json_skip(_)
RECURSIVE JsonRest(_, _)
JsonRest(r, close) ==
    Then(IF close = "}" THEN json_key(r) ELSE more(r, close), LAMBDA m :
         IF m.v = 0 THEN m ELSE Then(json_skip(m.r), LAMBDA x : JsonRest(x.r, close)))
json_skip(r) == CASE peek(r) = "{" -> Then(open(r, "{"), LAMBDA x : JsonRest(x.r, "}"))
                  [] peek(r) = "[" -> Then(open(r, "["), LAMBDA x : JsonRest(x.r, "]"))
                  [] OTHER -> take(r, 1)

-----------------------------------------------------------------------------
(* What a message reads (Reader, Message::decode and the Field impls).       *)
begin(r) == CASE format = "protobuf" -> proto_begin(r)
              [] format \in {"cbor", "cbor-int"} -> Then(Expect(r, 5), Push)
              [] format = "msgpack" -> Then(map_len(r), Push)
              [] format = "json" -> open(r, "{")
Counted(r, Key(_)) == LET n == Len(r.open) IN
                      IF r.open[n] = 0 THEN R(pop(r), 0) ELSE Key([r EXCEPT !.open[n] = @ - 1])
next_key(r) == CASE format = "protobuf" -> proto_next_key(r)
                 [] format \in {"cbor", "cbor-int"} -> Counted(r, cbor_key)
                 [] format = "msgpack" -> Counted(r, mp_key)
                 [] format = "json" -> json_key(r)
Null == CASE format = "json" -> "null" [] format = "msgpack" -> 192 [] OTHER -> 246
null(r) == format # "protobuf" /\ peek(r) = Null
scalar(r, kind) == CASE format = "protobuf" -> proto_scalar(r, kind)
                     [] format \in {"cbor", "cbor-int"} -> cbor_scalar(r, kind)
                     [] format = "msgpack" -> mp_scalar(r, kind)
                     [] format = "json" -> json_scalar(r, kind)
skip(r) == CASE format = "protobuf" -> proto_skip(r) [] format \in {"cbor", "cbor-int"} -> cbor_skip(r)
             [] format = "msgpack" -> mp_skip(r) [] format = "json" -> json_skip(r)
RECURSIVE read(_, _)
RECURSIVE Fields(_, _, _)
RECURSIVE Items(_, _, _, _)
\* Elements until what says there are no more: a count, the end of a packed run, a bracket.
Items(t, r, left, got) ==
    Then(IF format = "json" THEN more(r, "]") ELSE R(r, IF left = 0 THEN 0 ELSE 1), LAMBDA m :
         IF m.v = 0 THEN R(m.r, got)
         ELSE Then(read(t, m.r), LAMBDA x :
                   IF format # "protobuf" THEN Items(t, x.r, left - 1, Append(got, x.v))
                   ELSE IF x.r.pos - r.pos > left THEN Bad(r)
                   ELSE Items(t, x.r, left - (x.r.pos - r.pos), Append(got, x.v))))
Run(r) == Then(proto_len(r), LAMBDA n :
               IF n.r.pos + n.v > Ends(n.r) THEN Bad(r) ELSE R([n.r EXCEPT !.wt = PACKED_RUN], n.v))
Opening(r) == CASE format = "json" -> open(r, "[") [] format = "msgpack" -> array_len(r)
                [] format \in {"cbor", "cbor-int"} -> Expect(r, 4) [] format = "protobuf" -> Run(r)
merge(t, r, got) ==
    IF null(r) THEN R(take(r, 1).r, got)
    ELSE IF format # "protobuf" \/ (PACKED(t) /\ r.wt = LEN)
         THEN Then(Opening(r), LAMBDA n : Items(t, n.r, n.v, got))
         ELSE Then(read(t, r), LAMBDA x : R(x.r, Append(got, x.v)))
Field(t, k, got) ==
    LET i == CHOOSE j \in DOMAIN t.fields : t.fields[j].tag = k.v
        ty == t.fields[i].ty
    IN  Then(IF ty.kind = "list" THEN merge(ty.of[1], k.r, got[i]) ELSE read(ty, k.r), LAMBDA x :
             R(x.r, [got EXCEPT ![i] = x.v]))
Skipped(r, got) == Then(skip(r), LAMBDA x : R(x.r, got))
Fields(t, r, got) ==
    Then(next_key(r), LAMBDA k :
         IF k.v = 0 THEN R(k.r, got)
         ELSE Then(IF \E i \in DOMAIN t.fields : t.fields[i].tag = k.v THEN Field(t, k, got) ELSE Skipped(k.r, got),
                   LAMBDA x : Fields(t, x.r, x.v)))
read(t, r) ==
    CASE t.kind = "msg" -> Then(begin(r), LAMBDA b : Fields(t, b.r, Default(t)))
      [] t.kind = "list" -> merge(t.of[1], r, <<>>)
      [] t.kind = "opt" -> IF null(r) THEN R(take(r, 1).r, <<>>)
                           ELSE Then(read(t.of[1], r), LAMBDA x : R(x.r, <<x.v>>))
      [] OTHER -> scalar(r, t.kind)
decode(t) == Then(R(Reader, 0), LAMBDA start : Then(read(t, start.r), LAMBDA x : R(x.r, <<x.v>>)))
Decoded(t, v) == LET x == decode(t) IN x.r.err = "" /\ x.r.pos = Len(w.out) /\ x.v = <<v>>

-----------------------------------------------------------------------------
Finished == calls = <<>> /\ w.err = ""
TypeOK == /\ w.err \in {"", "Overflow", "Depth"} /\ Len(w.out) <= w.limit
          /\ Finished => w.stack = <<>> /\ w.pending = 0

(* What a message comes back as: JSON has no infinity, and its null is NaN or,  *)
(* in an optional field, no value.                                              *)
RECURSIVE Normal(_, _)
Normal(t, v) ==
    CASE t.kind = "msg" -> [i \in DOMAIN t.fields |-> Normal(t.fields[i].ty, v[i])]
      [] t.kind = "list" -> [i \in DOMAIN v |-> Normal(t.of[1], v[i])]
      [] t.kind = "opt" -> IF format = "json" /\ t.of[1].kind = "f64" /\ v \in {<<NaN>>, <<Infinity>>} THEN <<>>
                           ELSE [i \in DOMAIN v |-> Normal(t.of[1], v[i])]
      [] OTHER -> IF format = "json" /\ t.kind = "f64" /\ v = Infinity THEN NaN ELSE v

(* What is written in a format is read back in it, whatever moved when a length *)
(* turned out longer than the byte kept for it (patch), and at every width of a *)
(* number or a length (head, header).                                           *)
ReadsBack == Finished => Decoded(Message, Normal(Message, value))

(* A reader of an earlier version of the message skips the fields it does not   *)
(* know, whatever their shape, and gets the others (Message::decode, skip).     *)
RECURSIVE Earlier(_)
Earlier(t) == [t EXCEPT !.of = [i \in DOMAIN @ |-> Earlier(@[i])],
                        !.fields = [i \in DOMAIN SelectSeq(@, LAMBDA f : f.tag \notin Older) |->
                                       LET f == SelectSeq(@, LAMBDA g : g.tag \notin Older)[i]
                                       IN  [f EXCEPT !.ty = Earlier(f.ty)]]]
RECURSIVE Left(_, _)
Left(t, v) ==
    CASE t.kind = "msg" -> (LET kept == SelectSeq([i \in DOMAIN t.fields |-> i], LAMBDA i : t.fields[i].tag \notin Older)
                            IN  [i \in DOMAIN kept |-> Left(t.fields[kept[i]].ty, v[kept[i]])])
      [] t.kind \in {"list", "opt"} -> [i \in DOMAIN v |-> Left(t.of[1], v[i])]
      [] OTHER -> v
OldReadsNew == Finished =>
    Decoded(Earlier(Message), Left(Message, Normal(Message, value)))

(* An answer is refused for its size exactly when its whole encoding is longer  *)
(* than the room it has: the bytes moved for a length count once (insert_zeros, *)
(* Out).                                                                        *)
Whole == FoldLeft(Written, Writer(2^20), encode(Message, value, skips_defaults(format)))
LimitIsExact == calls = <<>> \/ w.err # "" => (w.err = "Overflow" <=> Len(Whole.out) > w.limit)
=============================================================================
