----------------------------- MODULE MetricsGorilla -----------------------------
(* One block of compressed points of HouseMetrics (apps/housemetrics:           *)
(* gorilla.rs): times as deltas of deltas in one of five sizes, values as the   *)
(* bits that differ from the value before.  The sizes are parameters: the code  *)
(* has W = 64, LEADING = 5, MEANINGFUL = 6 and 8, 12, 20 and 32 bits of time.   *)
(* A value is the sequence of its bits, the first the highest.                  *)
EXTENDS Integers, Sequences, SequencesExt, FiniteSets, FiniteSetsExt

CONSTANTS W, LEADING, MEANINGFUL, TIME,   \* TIME: the four sizes, in order
          Delta, MaxPoints                \* bounds: times between points; points
VARIABLES buf, enc,      \* the bits written, and the encoder's state
          written        \* the points appended, [t, v]
vars == <<buf, enc, written>>

Bit == {0, 1}
Value == [1..W -> Bit]
Zero == [i \in 1..W |-> 0]
Unset == W + 1         \* u8::MAX: no window of meaningful bits yet
Init == /\ buf = <<>> /\ written = <<>>
        /\ enc = [prev_t |-> 0, prev_delta |-> 0, prev_v |-> Zero, leading |-> Unset, trailing |-> 0, count |-> 0]
WORST_POINT_BITS == 4 + TIME[4] + 2 + LEADING + MEANINGFUL + W

-----------------------------------------------------------------------------
(* Writing.                                                                  *)
\* The low n bits of an integer, negative ones in two's complement.
put(value, n) == [i \in 1..n |-> ((value % 2^n) \div 2^(n - i)) % 2]
Fits(dod, n) == dod \in -(2^(n - 1))..2^(n - 1) - 1
Prefix == <<<<1, 0>>, <<1, 1, 0>>, <<1, 1, 1, 0>>, <<1, 1, 1, 1>>>>
TimeBits(dod) ==
    IF dod = 0 THEN <<0>>
    ELSE LET k == Min({i \in 1..4 : i = 4 \/ Fits(dod, TIME[i])}) IN Prefix[k] \o put(dod, TIME[k])
Xor(v, u) == [i \in 1..W |-> (v[i] + u[i]) % 2]
Ones(x) == {i \in 1..W : x[i] = 1}
leading_zeros(x) == Min({Min(Ones(x)) - 1, 2^LEADING - 1})
trailing_zeros(x) == W - Max(Ones(x))
Reuses(x) == /\ enc.leading # Unset /\ leading_zeros(x) >= enc.leading
             /\ trailing_zeros(x) >= enc.trailing
Window(x) == IF x = Zero \/ Reuses(x) THEN [leading |-> enc.leading, trailing |-> enc.trailing]
             ELSE [leading |-> leading_zeros(x), trailing |-> trailing_zeros(x)]
ValueBits(x) ==
    LET w == Window(x)
        meaningful == SubSeq(x, w.leading + 1, W - w.trailing)
    IN  IF x = Zero THEN <<0>>
        ELSE IF Reuses(x) THEN <<1, 0>> \o meaningful
        ELSE <<1, 1>> \o put(w.leading, LEADING) \o put(Len(meaningful), MEANINGFUL) \o meaningful
\* append: the first value whole, its time in the block's metadata.
append(t, v) ==
    LET first == enc.count = 0
        delta == IF first THEN 0 ELSE t - enc.prev_t
        x == Xor(v, enc.prev_v)
        w == Window(x)
    IN  /\ buf' = buf \o (IF first THEN v ELSE TimeBits(delta - enc.prev_delta) \o ValueBits(x))
        /\ enc' = [prev_t |-> t, prev_delta |-> delta, prev_v |-> v, count |-> enc.count + 1,
                   leading |-> IF first THEN Unset ELSE w.leading,
                   trailing |-> IF first THEN enc.trailing ELSE w.trailing]
        /\ written' = Append(written, [t |-> t, v |-> v])
fits_time(t) == enc.count > 0 => Fits(t - enc.prev_t - enc.prev_delta, TIME[4])

-----------------------------------------------------------------------------
(* Reading: the iterator Points, from a position in the bits.                *)
Unsigned(bits) == FoldLeft(LAMBDA acc, b : 2 * acc + b, 0, bits)
get(at, n) == Unsigned(SubSeq(buf, at, at + n - 1))
sign_extend(v, n) == IF v >= 2^(n - 1) THEN v - 2^n ELSE v
Shift(v, left) == [i \in 1..W |-> IF i + left <= W THEN v[i + left] ELSE 0]
\* Where the time's bits are, and what they say.
Time(at) == LET ones == Cardinality({i \in 0..3 : \A j \in 0..i : buf[at + j] = 1})
                from == at + Min({ones + 1, 4})
            IN  IF ones = 0 THEN [dod |-> 0, at |-> at + 1]
                ELSE [dod |-> sign_extend(get(from, TIME[ones]), TIME[ones]), at |-> from + TIME[ones]]
Read_(r, bits, leading, trailing, at) ==
    LET n == W - leading - trailing
        xor == [i \in 1..W |-> IF i \in leading + 1..leading + n THEN bits[at + i - leading - 1] ELSE 0]
    IN  [r EXCEPT !.v = Xor(r.v, xor), !.leading = leading, !.trailing = trailing, !.at = at + n]
Meaningful(n) == IF n = 0 THEN W ELSE n
next(r) ==
    LET time == Time(r.at)
        delta == r.delta + time.dod
        s == [r EXCEPT !.delta = delta, !.t = r.t + delta, !.at = time.at + 1]
        leading == get(s.at + 1, LEADING)
        trailing == W - leading - Meaningful(get(s.at + 1 + LEADING, MEANINGFUL))
        value == IF buf[time.at] = 0 THEN s
                 ELSE IF buf[s.at] = 0 THEN Read_(s, buf, r.leading, r.trailing, s.at + 1)
                 ELSE Read_(s, buf, leading, trailing, s.at + 1 + LEADING + MEANINGFUL)
    IN  [value EXCEPT !.out = Append(@, [t |-> value.t, v |-> value.v])]
points(first_t, count) ==
    LET v == SubSeq(buf, 1, W)
        first == [at |-> W + 1, t |-> first_t, delta |-> 0, v |-> v, leading |-> 0, trailing |-> 0,
                  out |-> <<[t |-> first_t, v |-> v]>>]
    IN  IF count = 0 THEN <<>> ELSE FoldLeft(LAMBDA r, i : next(r), first, [i \in 1..count - 1 |-> i]).out

-----------------------------------------------------------------------------
Start(v) == enc.count = 0 /\ append(0, v)
Add(delta, v) == /\ enc.count \in 1..MaxPoints - 1 /\ fits_time(enc.prev_t + delta)
                 /\ append(enc.prev_t + delta, v)
Next == \E v \in Value : Start(v) \/ \E delta \in Delta : Add(delta, v)
Spec == Init /\ [][Next]_vars

TypeOK == /\ \A i \in DOMAIN buf : buf[i] \in Bit
          /\ enc.prev_v \in Value /\ enc.count = Len(written) /\ enc.leading \in 0..2^LEADING - 1 \cup {Unset}

(* What is read is what was written, times and values to the bit, through every *)
(* size of time and every change of the window of bits (append and Points in    *)
(* gorilla.rs).                                                                 *)
ReadsBack == written # <<>> => points(written[1].t, enc.count) = written

(* No point needs more room than the caller leaves for it (WORST_POINT_BITS,    *)
(* "Bits one point can need at worst", gorilla.rs:22).                          *)
WithinWorst ==
    Len(buf') - Len(buf) <= WORST_POINT_BITS
=============================================================================
