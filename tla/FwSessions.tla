------------------------------ MODULE FwSessions ------------------------------
(* Browser sessions of miniframework (session.rs), with what its apps do      *)
(* around them: save the records when they are dirty, restore them at boot,   *)
(* and run without a clock until the network has given one.  Times are Unix   *)
(* seconds, 0 for an unset clock; a token is its number.                      *)
EXTENDS Naturals, Sequences, FiniteSets, SequencesExt

CONSTANTS Subject, Idle, Absolute, PerSubject, Capacity, Touch,   \* SessionConfig
          Start, MaxNow, MaxTokens                                \* bounds

VARIABLES records,     \* sequence of [token, subject, created, last_seen]
          dirty, saved,
          time, clock_set,
          tokens,
          used         \* token -> when it was made or last used, by the clock
vars == <<records, dirty, saved, time, clock_set, tokens, used>>

Init == /\ records = <<>> /\ dirty = FALSE /\ saved = <<>> /\ time = Start /\ clock_set = FALSE
        /\ tokens = 0 /\ used = [t \in 1..MaxTokens |-> 0]

now == IF clock_set THEN time ELSE 0
Minus(a, b) == IF a > b THEN a - b ELSE 0
\* An unset clock, or a session not dated yet, ends nothing.
expired(r) == /\ clock_set
              /\ \/ r.last_seen # 0 /\ Minus(now, r.last_seen) > Idle
                 \/ r.created # 0 /\ Minus(now, r.created) > Absolute

Without(rs, i) == SubSeq(rs, 1, i - 1) \o SubSeq(rs, i + 1, Len(rs))
\* min_by_key: the first of the least.
Least(S, Value(_)) == CHOOSE i \in S : \A j \in S : Value(i) < Value(j) \/ (Value(i) = Value(j) /\ i <= j)
pruned(rs) == SelectSeq(rs, LAMBDA r : ~expired(r))
Mine(rs, s) == {i \in DOMAIN rs : rs[i].subject = s}
RoomForSubject(rs, s) ==
    IF Cardinality(Mine(rs, s)) < PerSubject THEN rs
    ELSE LET Created(i) == rs[i].created IN Without(rs, Least(Mine(rs, s), Created))
Room(rs) == IF Len(rs) < Capacity THEN rs
            ELSE LET Seen(i) == rs[i].last_seen IN Without(rs, Least(DOMAIN rs, Seen))

-----------------------------------------------------------------------------
prune == /\ records' = pruned(records) /\ records' # records /\ dirty' = TRUE
         /\ UNCHANGED <<saved, time, clock_set, tokens, used>>
create(s) == /\ tokens < MaxTokens /\ tokens' = tokens + 1
             /\ records' = Append(Room(RoomForSubject(pruned(records), s)),
                   [token |-> tokens + 1, subject |-> s, created |-> now, last_seen |-> now])
             /\ used' = [used EXCEPT ![tokens + 1] = now]
             /\ dirty' = TRUE /\ UNCHANGED <<saved, time, clock_set>>

\* Dated on the first use with a clock; last_seen at most every Touch.
Touched(r) == [r EXCEPT !.created = IF @ = 0 THEN now ELSE @,
                        !.last_seen = IF Minus(now, @) >= Touch THEN now ELSE @]
check(i) ==
    /\ IF expired(records[i])
       THEN records' = Without(records, i) /\ dirty' = TRUE /\ UNCHANGED used
       ELSE /\ clock_set
            /\ records' = [records EXCEPT ![i] = Touched(@)]
            /\ dirty' = (dirty \/ Touched(records[i]).last_seen # records[i].last_seen)
            /\ used' = [used EXCEPT ![records[i].token] = now]
    /\ UNCHANGED <<saved, time, clock_set, tokens>>

revoke(i) == /\ records' = Without(records, i) /\ dirty' = TRUE
             /\ UNCHANGED <<saved, time, clock_set, tokens, used>>
revoke_subject(s) == /\ Mine(records, s) # {} /\ dirty' = TRUE
                     /\ records' = SelectSeq(records, LAMBDA r : r.subject # s)
                     /\ UNCHANGED <<saved, time, clock_set, tokens, used>>

\* The app's commit, and a boot from what it last wrote: no clock yet.
save == /\ dirty /\ saved' = records /\ dirty' = FALSE
        /\ UNCHANGED <<records, time, clock_set, tokens, used>>
restore == /\ records' = SubSeq(saved, 1, IF Len(saved) < Capacity THEN Len(saved) ELSE Capacity)
           /\ dirty' = FALSE /\ clock_set' = FALSE
           /\ used' = [t \in 1..MaxTokens |->
                 IF \E i \in DOMAIN saved : saved[i].token = t
                 THEN saved[CHOOSE i \in DOMAIN saved : saved[i].token = t].last_seen ELSE 0]
           /\ UNCHANGED <<saved, time, tokens>>
Clock == \/ time < MaxNow /\ time' = time + 1 /\ UNCHANGED <<records, dirty, saved, clock_set, tokens, used>>
         \/ ~clock_set /\ clock_set' = TRUE /\ UNCHANGED <<records, dirty, saved, time, tokens, used>>

Next == \/ prune \/ save \/ restore \/ Clock
        \/ \E s \in Subject : create(s) \/ revoke_subject(s)
        \/ \E i \in DOMAIN records : check(i) \/ revoke(i)
Spec == Init /\ [][Next]_vars

-----------------------------------------------------------------------------
TypeOK == /\ Len(records) <= Capacity
          /\ \A s \in Subject : Cardinality(Mine(records, s)) <= PerSubject
          /\ \A i, j \in DOMAIN records : records[i].token = records[j].token => i = j

\* What a record says of a session stays true through touches that are skipped
\* and boots without a clock: it was used within Touch of last_seen, and it is
\* dated at all only if both dates are set.
RecordsAreTrue == \A i \in DOMAIN records :
    LET r == records[i]
    IN  /\ r.created = 0 <=> r.last_seen = 0
        /\ r.created <= r.last_seen
        /\ r.last_seen <= used[r.token] /\ Minus(used[r.token], r.last_seen) < Touch
        /\ r.last_seen = 0 => used[r.token] = 0

\* "A session unused this long ends", "regardless of use": a session that is
\* served has been used within Idle and began within Absolute; and one that
\* expires had not been used for Idle, less a skipped touch, or was too old.
ExpiryIsFair == \A i \in DOMAIN records :
    LET r == records[i]
    IN  clock_set /\ used[r.token] # 0 =>
            /\ Minus(now, used[r.token]) > Idle \/ now - r.created > Absolute => expired(r)
            /\ expired(r) => \/ Minus(now, used[r.token]) + Touch > Idle + 1
                             \/ now - r.created > Absolute
=============================================================================
