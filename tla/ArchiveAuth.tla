------------------------------ MODULE ArchiveAuth ------------------------------
(* Logins of the earlier Rust household (archive/nanacoin_rs: auth.rs, and the  *)
(* handlers of api.rs and journal.rs that revoke): a password buys a code, a    *)
(* code one session; both live in memory, in tables of fixed size.  Hashes,     *)
(* PKCE and redirects are reduced to whether the redeemer is the one who asked. *)
EXTENDS Integers, Sequences, FiniteSets, SequencesExt, FiniteSetsExt

CONSTANTS Member, Stranger,            \* usernames: the members', and one of nobody
          MAX_SESSIONS, MAX_CODES, FAILURES, TRIES,
          SESSION_TTL, CODE_TTL, LOCKOUT,
          MaxClock, MaxChanges         \* bounds
Name == Member \cup {Stranger}

VARIABLES clock,                \* Auth::now, seconds since the start
          disabled,             \* the members who are
          credentials,          \* member -> changes of password, role or standing so far
          sessions, codes, failures,
          tried                 \* name -> times of the wrong passwords since a right one
vars == <<clock, disabled, credentials, sessions, codes, failures, tried>>

None == [name |-> Stranger, credentials |-> -1, expires |-> 0]
NoFailure == [name |-> "", count |-> 0, until |-> 0]
Init == /\ clock = 0 /\ disabled = {} /\ credentials = [m \in Member |-> 0]
        /\ sessions = [i \in 1..MAX_SESSIONS |-> None] /\ codes = [i \in 1..MAX_CODES |-> None]
        /\ failures = [i \in 1..FAILURES |-> NoFailure] /\ tried = [n \in Name |-> <<>>]

\* The first slot that is empty or has expired, 0 when there is none.
Slot(table) == SelectInSeq(table, LAMBDA x : clock >= x.expires)
Grant(m, ttl) == [name |-> m, credentials |-> credentials[m], expires |-> clock + ttl]

-----------------------------------------------------------------------------
(* authorize: a name and a password for a code.                              *)
Locked(n) == \E f \in ToSet(failures) : f.name = n /\ f.count >= TRIES /\ clock < f.until
\* The slot of this name, or the one that ends first, empty ones before all.
FailureSlot(n) == LET mine == {i \in DOMAIN failures : failures[i].name = n}
                      soonest == {i \in DOMAIN failures : \A j \in DOMAIN failures :
                                        failures[i].until <= failures[j].until}
                  IN  Min(IF mine # {} THEN mine ELSE soonest)
record_failure(n) ==
    LET i == FailureSlot(n)
        again == failures[i].name = n /\ clock < failures[i].until
    IN  failures' = [failures EXCEPT ![i] =
            [name |-> n, count |-> IF again THEN Min({failures[i].count + 1, TRIES}) ELSE 1,
             until |-> clock + LOCKOUT]]
Refused(n) == /\ record_failure(n) /\ tried' = [tried EXCEPT ![n] = Append(@, clock)]
              /\ UNCHANGED codes
Granted(n) ==
    /\ n \notin disabled
    /\ failures' = [i \in DOMAIN failures |-> IF failures[i].name = n THEN NoFailure ELSE failures[i]]
    /\ tried' = [tried EXCEPT ![n] = <<>>]
    /\ codes' = IF Slot(codes) = 0 THEN codes ELSE [codes EXCEPT ![Slot(codes)] = Grant(n, CODE_TTL)]
authorize(n, right) ==
    /\ ~Locked(n)
    /\ IF right /\ n \in Member THEN Granted(n) ELSE Refused(n)
    /\ UNCHANGED <<clock, disabled, credentials, sessions>>

-----------------------------------------------------------------------------
(* redeem: a code for a session; a wrong verifier spends the code as well.   *)
redeem(i, right) ==
    /\ codes[i] # None
    /\ codes' = [codes EXCEPT ![i] = None]
    /\ LET c == codes[i]
           s == Slot(sessions)
       IN  sessions' = IF right /\ clock < c.expires /\ c.name \notin disabled /\ s # 0
                       THEN [sessions EXCEPT ![s] = [c EXCEPT !.expires = clock + SESSION_TTL]]
                       ELSE sessions
    /\ UNCHANGED <<clock, disabled, credentials, failures, tried>>
lookup(s) == s # None /\ clock < s.expires /\ s.name \notin disabled
revoke(i) == /\ sessions[i] # None /\ sessions' = [sessions EXCEPT ![i] = None]
             /\ UNCHANGED <<clock, disabled, credentials, codes, failures, tried>>
Without(table, m) == [i \in DOMAIN table |-> IF table[i].name = m THEN None ELSE table[i]]
revoke_member(m) == sessions' = Without(sessions, m) /\ codes' = Without(codes, m)

-----------------------------------------------------------------------------
(* commit of UpdateMember: a new password or role, disabled or enabled again. *)
Changes(m) == /\ credentials[m] < MaxChanges
              /\ credentials' = [credentials EXCEPT ![m] = @ + 1]
UpdateMember(m) == /\ Changes(m) /\ revoke_member(m)
                   /\ UNCHANGED <<clock, disabled, failures, tried>>
Disable(m) == /\ m \notin disabled /\ disabled' = disabled \cup {m}
              /\ Changes(m) /\ revoke_member(m) /\ UNCHANGED <<clock, failures, tried>>
Enable(m) == /\ m \in disabled /\ disabled' = disabled \ {m}
             /\ UNCHANGED <<clock, credentials, sessions, codes, failures, tried>>
\* Auth::clear, of reset_economy and require_https; the locks go as well.
clear == /\ sessions' = [i \in DOMAIN sessions |-> None] /\ codes' = [i \in DOMAIN codes |-> None]
         /\ failures' = [i \in DOMAIN failures |-> NoFailure] /\ tried' = [n \in Name |-> <<>>]
\* The members a reset removes have the numbers of the ones who come after them.
reset_economy == /\ \A m \in Member : credentials[m] < MaxChanges
                 /\ credentials' = [m \in Member |-> credentials[m] + 1] /\ disabled' = {}
                 /\ clear /\ UNCHANGED clock
Tick == clock < MaxClock /\ clock' = clock + 1 /\ UNCHANGED <<disabled, credentials, sessions, codes, failures, tried>>

Next == \/ \E n \in Name, right \in BOOLEAN : authorize(n, right)
        \/ \E i \in 1..MAX_CODES, right \in BOOLEAN : redeem(i, right)
        \/ \E i \in 1..MAX_SESSIONS : revoke(i)
        \/ \E m \in Member : UpdateMember(m) \/ Disable(m) \/ Enable(m)
        \/ reset_economy \/ Tick
Spec == Init /\ [][Next]_vars

-----------------------------------------------------------------------------
TypeOK == /\ disabled \subseteq Member
          /\ \A s \in ToSet(sessions) \cup ToSet(codes) : s = None \/ s.name \in Member
          /\ \A f \in ToSet(failures) : f = NoFailure \/ f.count \in 1..TRIES

(* A code or a session never outlives the password, the role or the standing    *)
(* it was given for, a member disabled and enabled again included               *)
(* (revoke_member and clear; "Logout, password changes, role changes and        *)
(* disabling a member revoke the relevant sessions", README.md:34).             *)
NoGrantOutlives ==
    /\ \A s \in ToSet(sessions) : lookup(s) => s.credentials = credentials[s.name]
    /\ \A c \in ToSet(codes) : c # None => c.credentials = credentials[c.name]

(* No name has more than TRIES wrong passwords tried in LOCKOUT seconds         *)
(* ("Five failed password attempts lock the username for five minutes",         *)
(* README.md:34), as long as the table of failures has room for every name.     *)
LocksHold == \A n \in Name : LET t == tried[n] IN
    Len(t) > TRIES => t[Len(t)] - t[Len(t) - TRIES] >= LOCKOUT
=============================================================================
