------------------------------ MODULE MetricsStore ------------------------------
(* The store of HouseMetrics in memory (apps/housemetrics: tsdb.rs, with the    *)
(* writes of ingest.rs and the reads of api.rs and views.rs): every series has  *)
(* its newest raw points in blocks of one shared pool and a ring of rollups.    *)
(* When the pool is empty the block with the oldest points goes.  A block is    *)
(* the points it decodes to (MetricsGorilla has the bits): it decodes from its  *)
(* start, and what was there before shows unless the block was cleared.         *)
EXTENDS Integers, Sequences, FiniteSets, SequencesExt, FiniteSetsExt, TLC

CONSTANTS Key, MAX_SERIES, BLOCKS, BLOCK_BITS, WORST_POINT_BITS, MAX_DOD,
          ROLLUP, SLOTS,          \* rollup_secs, rollup_slots
          LIMIT, MAX_POINTS,      \* raw points in a page; in an answer that is not paged
          Value, From,            \* values written; times a client reads from
          MaxTime, MaxAccepted, MaxRemoved   \* bounds

VARIABLES series,                 \* slot -> a series, or None
          free, metas, arena,     \* blocks not in use; what is known of a block; its points
          accepted, removed,      \* counters
          history,                \* slot -> the points accepted since the series was made
          untold,                 \* series made that no writer was told of
          reader                  \* a client reading raw pages
store == <<series, free, metas, arena, accepted, removed, history, untold>>
vars == <<store, reader>>

Slot == 1..MAX_SERIES
Block == 1..BLOCKS
NaN == 0
Never == -1                       \* i64::MIN, before every time
NoEnc == [bits |-> 0, prev_t |-> 0, prev_delta |-> 0, prev_v |-> NaN, count |-> 0]
None == [key |-> "", blocks |-> <<>>, enc |-> NoEnc, rollups |-> <<>>, first_t |-> MaxTime + 1,
         last_t |-> Never, total |-> 0]
Idle == [id |-> 0, from |-> 0, next |-> 0, to |-> 0, got |-> <<>>, gone |-> FALSE]
Init == /\ series = [s \in Slot |-> None] /\ free = [i \in Block |-> BLOCKS + 1 - i]
        /\ metas = [b \in Block |-> [first_t |-> 0, last_t |-> 0, count |-> 0]]
        /\ arena = [b \in Block |-> <<>>]
        /\ accepted = 0 /\ removed = 0 /\ history = [s \in Slot |-> <<>>] /\ untold = 0 /\ reader = Idle
Live == {s \in Slot : series[s] # None}
P(t, v) == [t |-> t, v |-> v]

-----------------------------------------------------------------------------
(* Reads.                                                                    *)
decoded(b) == SubSeq(arena[b], 1, metas[b].count)
Within(points, from, to) == SelectSeq(points, LAMBDA p : p.t >= from /\ p.t < to)
raw(s, from, to) ==
    FlattenSeq([i \in DOMAIN series[s].blocks |->
        LET b == series[s].blocks[i]
        IN  IF metas[b].last_t >= from /\ metas[b].first_t < to THEN Within(decoded(b), from, to) ELSE <<>>])
InBlock(b, from, to) == IF metas[b].last_t < from \/ metas[b].first_t >= to THEN 0
                        ELSE IF metas[b].first_t >= from /\ metas[b].last_t < to THEN metas[b].count
                        ELSE Len(Within(decoded(b), from, to))
raw_count(s, from, to) == FoldSeq(LAMBDA b, acc : acc + InBlock(b, from, to), 0, series[s].blocks)
Empty(s) == series[s].blocks = <<>>
raw_start(s) == metas[Head(series[s].blocks)].first_t
raw_covers(s, from) == ~Empty(s) /\ raw_start(s) <= Max({from, series[s].first_t})
\* From cutoff on raw points answer, before it rollups.
cutoff(s) == IF Empty(s) THEN MaxTime + 1
             ELSE IF series[s].rollups # <<>> /\ Head(series[s].rollups).start <= raw_start(s)
                  THEN ((raw_start(s) + ROLLUP - 1) \div ROLLUP) * ROLLUP
                  ELSE raw_start(s)
Point(p) == [start |-> p.t, n |-> 1, sum |-> p.v, min |-> p.v, max |-> p.v]
Merge(a, b) == [start |-> a.start, n |-> a.n + b.n, sum |-> a.sum + b.sum,
                min |-> Min({a.min, b.min}), max |-> Max({a.max, b.max})]
Nothing(t) == [start |-> t, n |-> 0, sum |-> 0, min |-> MaxTime, max |-> 0]
Total(t, rows) == FoldSeq(LAMBDA r, acc : Merge(acc, r), Nothing(t), rows)
buckets(s, from, to, step) ==
    LET rolled == SelectSeq(series[s].rollups, LAMBDA r : r.start < cutoff(s) /\ r.start >= from /\ r.start < to)
        points == raw(s, Max({from, cutoff(s)}), to)
        rows == rolled \o [i \in DOMAIN points |-> Point(points[i])]
        In(i) == SelectSeq(rows, LAMBDA r : (r.start - from) \div step = i)
    IN  [i \in {j \in 0..(to - from + step - 1) \div step - 1 : In(j) # <<>>} |-> Total(from + i * step, In(i))]
\* A page of raw points, and where the next one starts: 0 when it is the last.
Taken(s, from, to) == LET all == raw(s, from, to) IN SubSeq(all, 1, Min({raw_count(s, from, to), LIMIT, Len(all)}))
After(s, from, to) == IF raw_count(s, from, to) <= LIMIT THEN 0
                      ELSE IF Len(Taken(s, from, to)) < LIMIT THEN to ELSE Last(Taken(s, from, to)).t + 1
\* What the answer says its length is, before the points are read again and written.
Answer(s, from, to) == [announced |-> Min({raw_count(s, from, to), LIMIT}), points |-> Taken(s, from, to),
                        next |-> After(s, from, to)]
AnswersRaw(s, from, to) == raw_covers(s, from) /\ raw_count(s, from, to) <= MAX_POINTS

-----------------------------------------------------------------------------
(* Writes.                                                                   *)
\* The series whose first block, of two or more, ends first gives it up.
Victims == {s \in Live : Len(series[s].blocks) >= 2}
Victim == CHOOSE s \in Victims : \A r \in Victims :
              LET Ends(x) == metas[Head(series[x].blocks)].last_t
              IN  Ends(s) < Ends(r) \/ (Ends(s) = Ends(r) /\ s <= r)
NeedsBlock(s, t) == LET e == series[s].enc IN
    Empty(s) \/ e.bits + WORST_POINT_BITS > BLOCK_BITS
             \/ (e.count > 0 /\ (t - e.prev_t) - e.prev_delta \notin -MAX_DOD..MAX_DOD)
Cost(e, v) == IF e.count > 0 /\ v = e.prev_v THEN 1 ELSE WORST_POINT_BITS
Encoded(e, t, v) == [bits |-> e.bits + Cost(e, v), prev_t |-> t, prev_delta |-> IF e.count = 0 THEN 0 ELSE t - e.prev_t,
                     prev_v |-> v, count |-> e.count + 1]
Rolled(rollups, t, v) ==
    LET start == (t \div ROLLUP) * ROLLUP
        row == [Point(P(t, v)) EXCEPT !.start = start]
        n == Len(rollups)
    IN  IF n > 0 /\ rollups[n].start = start THEN [rollups EXCEPT ![n] = Merge(@, row)]
        ELSE Append(IF n >= SLOTS THEN Tail(rollups) ELSE rollups, row)
\* The pool after a block is taken: which block, what is left, who lost it.
Cleared(b) == <<>>
CanAlloc == free # <<>> \/ Victims # {}
Alloc == IF free # <<>> THEN [block |-> Last(free), free |-> Front(free), series |-> series, arena |-> arena]
         ELSE LET b == Head(series[Victim].blocks)
              IN  [block |-> b, free |-> free, series |-> [series EXCEPT ![Victim].blocks = Tail(@)],
                   arena |-> [arena EXCEPT ![b] = Cleared(b)]]
\* The writer only sets bits: a point over another one is neither (push of gorilla.rs).
Over(old, p) == [p EXCEPT !.v = @ + old.v]
\* Into slot s of `all`, a point on block b of the memory `mem`.
Put(all, mem, s, b, e, t, v) ==
    /\ arena' = [mem EXCEPT ![b] = LET n == e.count + 1 IN
                     IF n > Len(@) THEN Append(@, P(t, v)) ELSE [@ EXCEPT ![n] = Over(@, P(t, v))]]
    /\ metas' = [metas EXCEPT ![b] = [first_t |-> IF e.count = 0 THEN t ELSE @.first_t, last_t |-> t,
                                      count |-> e.count + 1]]
    /\ series' = [all EXCEPT ![s].enc = Encoded(e, t, v), ![s].last_t = t, ![s].total = @ + 1,
                             ![s].first_t = Min({@, t}), ![s].rollups = Rolled(@, t, v),
                             ![s].blocks = IF e.count = 0 THEN Append(@, b) ELSE @]
    /\ history' = [history EXCEPT ![s] = Append(@, P(t, v))] /\ accepted' = accepted + 1
insert(s, t, v) ==
    IF ~NeedsBlock(s, t) THEN Put(series, arena, s, Last(series[s].blocks), series[s].enc, t, v) /\ UNCHANGED free
    ELSE Put(Alloc.series, Alloc.arena, s, Alloc.block, NoEnc, t, v) /\ free' = Alloc.free
Rejects(s, t, v) == v = NaN \/ t <= series[s].last_t \/ (NeedsBlock(s, t) /\ ~CanAlloc)
Refuse == UNCHANGED <<free, metas, arena, accepted, history>>

\* put: into the series of this key.
Write(k, t, v) ==
    \E s \in Live :
        /\ series[s].key = k /\ accepted < MaxAccepted
        /\ IF Rejects(s, t, v) THEN Refuse /\ UNCHANGED series ELSE insert(s, t, v)
        /\ UNCHANGED <<removed, untold, reader>>
\* put of a key never seen: the series is made first, in the first empty slot.
Create(k, t, v) ==
    /\ \A s \in Live : series[s].key # k
    /\ Live # Slot /\ accepted < MaxAccepted
    /\ LET s == Min(Slot \ Live)
           made == [None EXCEPT !.key = k]
       IN  IF v = NaN \/ ~CanAlloc
           THEN Refuse /\ series' = [series EXCEPT ![s] = made] /\ untold' = untold + 1
           ELSE /\ Put([Alloc.series EXCEPT ![s] = made], Alloc.arena, s, Alloc.block, NoEnc, t, v)
                /\ free' = Alloc.free /\ UNCHANGED untold
    /\ UNCHANGED <<removed, reader>>
Wiped(gone) == [b \in Block |-> IF b \in gone THEN <<>> ELSE arena[b]]
remove(s) ==
    /\ s \in Live /\ removed < MaxRemoved /\ removed' = removed + 1
    /\ series' = [series EXCEPT ![s] = None] /\ history' = [history EXCEPT ![s] = <<>>]
    /\ free' = free \o series[s].blocks
    /\ arena' = Wiped(ToSet(series[s].blocks))
    /\ reader' = [reader EXCEPT !.gone = @ \/ reader.id = s]
    /\ UNCHANGED <<metas, accepted, untold>>

\* query?raw=1: a client follows `next` from page to page.
Page(s, from, to) == /\ reader' = [reader EXCEPT !.next = Answer(s, from, to).next,
                                                   !.got = @ \o Answer(s, from, to).points]
                     /\ UNCHANGED store
Ask(s, from) == /\ s \in Live /\ reader = Idle
                /\ LET page == Answer(s, from, MaxTime + 1) IN
                   reader' = [id |-> s, from |-> from, next |-> page.next, to |-> MaxTime + 1,
                              got |-> page.points, gone |-> FALSE]
                /\ UNCHANGED store
Follow == /\ reader.id \in Live /\ reader.next # 0 /\ ~reader.gone
          /\ Page(reader.id, reader.next, reader.to)

Next == \/ \E k \in Key, t \in 1..MaxTime, v \in Value \cup {NaN} : Write(k, t, v) \/ Create(k, t, v)
        \/ \E s \in Slot : remove(s)
        \/ \E s \in Slot, from \in From : Ask(s, from)
        \/ Follow
Spec == Init /\ [][Next]_vars

-----------------------------------------------------------------------------
TypeOK == /\ \A s \in Slot : Len(series[s].rollups) <= SLOTS /\ ToSet(series[s].blocks) \subseteq Block
          /\ \A s \in Live : series[s].enc.bits <= BLOCK_BITS
          /\ \A s, r \in Live : series[s].key = series[r].key => s = r

(* Every block is free or is one series', once.                                *)
BlocksAccounted ==
    LET all == FlattenSeq([s \in Slot |-> series[s].blocks]) \o free
    IN  IsInjective(all) /\ ToSet(all) = Block

(* The raw points of a series are the newest ones accepted, none missing and    *)
(* none of another series that had the block before (alloc, insert, remove).    *)
RawIsRecent == \A s \in Live : IsSuffix(raw(s, 0, MaxTime + 1), history[s])

(* A point is refused for want of room only when there are as many series as    *)
(* blocks: with more blocks than series one can always be had (alloc).          *)
NeverFull == BLOCKS > MAX_SERIES => CanAlloc

(* A bucket of whole rollups, back to the oldest kept, has every point accepted *)
(* in its time once: none is counted from the raw points and again from the     *)
(* rollup, none is lost between them (buckets).                                 *)
CountedOnce == \A s \in Live : \A a, b \in 0..MaxTime \div ROLLUP + 1 :
    LET from == a * ROLLUP
        to == b * ROLLUP
        rows == Within(history[s], from, to)
    IN  a < b /\ series[s].rollups # <<>> /\ Head(series[s].rollups).start <= from
        => buckets(s, from, to, to - from) =
               IF rows = <<>> THEN << >>
               ELSE (0 :> Total(from, [i \in DOMAIN rows |-> Point(rows[i])]))

(* When raw points answer a query they are all the points there were, and the   *)
(* length an answer announces is the length it has (query, QueryView).          *)
AnswersAreWhole == \A s \in Live : \A from \in 1..MaxTime, to \in 2..MaxTime + 1 : from < to =>
    /\ Answer(s, from, to).announced = Len(Answer(s, from, to).points)
    /\ AnswersRaw(s, from, to) => raw(s, from, to) = Within(history[s], from, to)

(* A client that follows `next` gets every point still held, once and in order, *)
(* whatever was written and evicted between the pages.                          *)
PagesMeet == reader # Idle /\ ~reader.gone =>
    LET upto == IF reader.next = 0 THEN reader.from ELSE reader.next
    IN  /\ \A i, j \in DOMAIN reader.got : i < j => reader.got[i].t < reader.got[j].t
        /\ ToSet(raw(reader.id, reader.from, upto)) \subseteq ToSet(reader.got)

(* messages.rs says of the answer's `created`: "New series created by this      *)
(* write."  A series whose first point is refused is made and not counted.      *)
CreatedIsTold == untold = 0
=============================================================================
