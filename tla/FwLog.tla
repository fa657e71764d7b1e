-------------------------------- MODULE FwLog --------------------------------
(* The board's own log (miniframework's logbuf.rs) and its copy in memory that *)
(* survives a crash (retained_log.rs).  A line is its number since the boot    *)
(* and its length; the ring counts a header per line, the copy is cells, the   *)
(* last of a line its newline.                                                 *)
EXTENDS Naturals, Sequences, FiniteSets, SequencesExt

CONSTANTS Capacity, Header,      \* Ring.capacity, HEADER
          Cells,                 \* DATA_BYTES
          MaxSequence,           \* u32::MAX
          Length, Limit,         \* lengths of lines; limits of a page
          MaxLines               \* bound on the lines of one boot
VARIABLES records, next_seq, first_seq,     \* Ring
          lines,                            \* lengths of the lines pushed since boot
          after, seen, restarted,           \* a reader: its cursor, what it has
                                            \* accounted for, and a renumbering
          cell, pos, wrapped,               \* RetainedLog
          mirrored                          \* the lines copied since boot
vars == <<records, next_seq, first_seq, lines, after, seen, restarted, cell, pos, wrapped, mirrored>>
ringVars == <<records, next_seq, first_seq, lines>>
readerVars == <<after, seen, restarted>>
copyVars == <<cell, pos, wrapped, mirrored>>

Blank == [line |-> 0, at |-> 0, of |-> 0]
Init == /\ records = <<>> /\ next_seq = 1 /\ first_seq = 1 /\ lines = <<>>
        /\ after = 0 /\ seen = 0 /\ restarted = FALSE
        /\ cell = [i \in 1..Cells |-> Blank] /\ pos = 0 /\ wrapped = FALSE /\ mirrored = <<>>

Size(rs) == FoldSeq(LAMBDA r, n : n + Header + r.length, 0, rs)
-----------------------------------------------------------------------------
\* pop_oldest until there is room.
Fits(rs, need) == CHOOSE k \in 0..Len(rs) :
    /\ Size(SubSeq(rs, k + 1, Len(rs))) + need <= Capacity
    /\ \A j \in 0..(k - 1) : Size(SubSeq(rs, j + 1, Len(rs))) + need > Capacity
Popped(n) == first_seq + n
pushed(length) ==
    IF next_seq = MaxSequence
    THEN /\ records' = <<[seq |-> 1, line |-> Len(lines) + 1, length |-> length]>>
         /\ first_seq' = 1 /\ next_seq' = 2 /\ restarted' = TRUE
    ELSE LET k == Fits(records, Header + length)
         IN  /\ records' = Append(SubSeq(records, k + 1, Len(records)),
                                  [seq |-> next_seq, line |-> Len(lines) + 1, length |-> length])
             /\ first_seq' = Popped(k) /\ next_seq' = next_seq + 1 /\ UNCHANGED restarted

\* mirror: the cells of the line, then where the next goes and whether it wrapped.
Cell(p, n) == IF p >= pos THEN p - pos < n ELSE p + Cells - pos < n
AtOf(p) == IF p >= pos THEN p - pos ELSE p + Cells - pos
Wraps(n) == wrapped \/ pos + n >= Cells
mirror(line, n) ==
    /\ cell' = [i \in 1..Cells |-> IF Cell(i - 1, n) THEN [line |-> line, at |-> AtOf(i - 1) + 1, of |-> n]
                                   ELSE cell[i]]
    /\ pos' = (pos + n) % Cells /\ wrapped' = Wraps(n)
    /\ mirrored' = Append(mirrored, line)

\* push: the ring and the copy are each tried, and skipped if somebody has them.
push(length) == /\ Len(lines) < MaxLines /\ lines' = Append(lines, length)
                /\ IF Header + length > Capacity
                   THEN UNCHANGED <<records, next_seq, first_seq, restarted>>
                   ELSE pushed(length)
                /\ mirror(Len(lines) + 1, length) \/ UNCHANGED copyVars
                /\ UNCHANGED <<after, seen>>

\* page: the lines past the cursor, at most limit, and how many were pushed out.
Cursor == IF after >= next_seq THEN 0 ELSE after
Page(limit) == LET newer == SelectSeq(records, LAMBDA r : r.seq > Cursor)
               IN  SubSeq(newer, 1, IF Len(newer) < limit THEN Len(newer) ELSE limit)
Minus(a, b) == IF a > b THEN a - b ELSE 0
Dropped == Minus(first_seq, Cursor + 1)
Most(a, b) == IF a > b THEN a ELSE b
Next_(p) == IF p = <<>> THEN Most(Cursor, Minus(first_seq, 1)) ELSE p[Len(p)].seq
page(limit) == LET p == Page(limit)
               IN  /\ after' = Next_(p)
                   /\ seen' = IF p # <<>> THEN p[Len(p)].line
                              ELSE Len(lines)
                   /\ restarted' = FALSE
                   /\ UNCHANGED <<ringVars, copyVars>>

-----------------------------------------------------------------------------
\* recover: the cells from the oldest, the first line left out if it wrapped.
Text == [i \in 1..(IF wrapped THEN Cells ELSE pos) |->
            cell[1 + (IF wrapped THEN (pos + i - 1) % Cells ELSE i - 1)]]
Ends(t) == {i \in DOMAIN t : t[i].at = t[i].of}
Whole(t) == IF ~wrapped THEN t
            ELSE IF Ends(t) = {} THEN <<>>
            ELSE SubSeq(t, 1 + (CHOOSE i \in Ends(t) : \A j \in Ends(t) : i <= j), Len(t))
recover == Whole(Text)

\* A crash: the next boot serves what it recovers and starts both afresh; a reader
\* that keeps its cursor starts again too.
Boot == /\ lines # <<>>
        /\ records' = <<>> /\ next_seq' = 1 /\ first_seq' = 1 /\ lines' = <<>>
        /\ after' = 0 /\ seen' = 0 /\ restarted' = FALSE
        /\ pos' = 0 /\ wrapped' = FALSE /\ mirrored' = <<>>
        /\ cell' = [i \in 1..Cells |-> Blank]         \* not read before it is written again

Next == (\E n \in Length : push(n)) \/ (\E limit \in Limit : page(limit)) \/ Boot
Spec == Init /\ [][Next]_vars

-----------------------------------------------------------------------------
TypeOK == /\ Size(records) <= Capacity /\ next_seq <= MaxSequence
          /\ pos \in 0..(Cells - 1)
          /\ \A i \in 1..(Len(records) - 1) : records[i + 1].seq = records[i].seq + 1

\* "Pass as `after` to get only newer lines", "lines that were pushed out of the
\* ring before they could be read": between renumberings, a reader gets the
\* stored lines in order, none twice, and is told of exactly those it missed.
Stored(a, b) == {n \in (a + 1)..b : Header + lines[n] <= Capacity}
NoSilentGap == \A limit \in Limit :
    LET p == Page(limit)
        upto == IF p = <<>> THEN Len(lines) ELSE p[Len(p)].line
    IN  ~restarted => /\ Cardinality(Stored(seen, upto)) = Len(p) + Dropped
                      /\ \A i \in DOMAIN p : p[i].line \in Stored(seen, upto)

\* The last lines of a boot come back whole, in order, up to the very last,
\* however the copy has wrapped.
LastWords == LET t == recover
                 said == {t[i].line : i \in DOMAIN t}
                 n == Len(mirrored)
             IN  /\ \A i \in DOMAIN t : t[i].at = (IF i = 1 THEN 1
                                                   ELSE IF t[i - 1].at = t[i - 1].of THEN 1
                                                   ELSE t[i - 1].at + 1)
                 /\ \E k \in 0..n : said = {mirrored[j] : j \in (k + 1)..n}
                 /\ ~wrapped => said = {mirrored[j] : j \in 1..n}
=============================================================================
