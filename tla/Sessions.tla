------------------------------ MODULE Sessions ------------------------------
(***************************************************************************)
(* internal/auth: the bearer sessions, the authorization codes and the     *)
(* counters of failed logins, and the handlers of internal/api that use    *)
(* them.  Three tables of fixed size, in RAM, under one mutex.             *)
(*                                                                         *)
(* A login is several critical sections: the limiter is asked, the         *)
(* password verified with no mutex held, the outcome counted, a code       *)
(* issued; redeeming the code is a request of its own.  Whether a password *)
(* verifies is left open; a code stands for itself, and whether the        *)
(* verifier and the redirect match it is left open too.                    *)
(***************************************************************************)
EXTENDS Integers, TLAPS

CONSTANTS
    User,
    Name,           \* the names a login can be tried under, known or not
    None,
    Client,         \* logins in progress together
    SessionCapacity, CodeCapacity, FailureCapacity,
    TokenTTL, CodeTTL, LockoutFor, MaxFails,
    MaxLogins,      \* bound on the logins ever tried, and so on the codes
    MaxTime         \* bound on the clock

ASSUME SessionsAssumption ==
    /\ User \subseteq Name
    /\ None \notin Name
    /\ {SessionCapacity, CodeCapacity, FailureCapacity} \subseteq Nat \ {0}
    /\ {TokenTTL, CodeTTL, LockoutFor, MaxFails} \subseteq Nat \ {0}
    /\ {MaxLogins, MaxTime} \subseteq Nat

VARIABLES
    sessions,       \* for each slot, the user, when created, from which code
    codes,          \* for each slot, the code, its user and when it expires
    fails,          \* for each slot, the name, the count and until when it counts
    now,
    login,          \* the name each login is for, and whether it has been verified
    tried,          \* the logins tried so far
    issued,         \* the codes issued so far, 1..issued
    granted,        \* history: the sessions each code was good for
    revoked         \* history: the codes issued when a user was last revoked

vars == <<sessions, codes, fails, now, login, tried, issued, granted, revoked>>

SessionSlot == 1..SessionCapacity
CodeSlot == 1..CodeCapacity
FailureSlot == 1..FailureCapacity

NoSession == [user |-> None, created |-> 0, code |-> 0]
NoCode == [user |-> None, code |-> 0, expires |-> 0]
NoFailure == [name |-> None, until |-> 0, count |-> 0]
NoLogin == [name |-> None, verified |-> FALSE]

Init ==
    /\ sessions = [s \in SessionSlot |-> NoSession]
    /\ codes = [s \in CodeSlot |-> NoCode]
    /\ fails = [s \in FailureSlot |-> NoFailure]
    /\ now = 0
    /\ login = [c \in Client |-> NoLogin]
    /\ tried = 0
    /\ issued = 0
    /\ granted = [k \in 1..MaxLogins |-> 0]
    /\ revoked = [u \in User |-> 0]

\* The first of a set of slots, as the loops find it.
First(S) == {s \in S : \A t \in S : s <= t}

-----------------------------------------------------------------------------
(* The limiter. *)

Counters(n) == {s \in FailureSlot : fails[s].count > 0 /\ fails[s].name = n}
Locked(n) == \E s \in Counters(n) : fails[s].count >= MaxFails /\ now < fails[s].until

\* CheckRateLimit lets the attempt through.
CheckRateLimit(c, n) ==
    /\ login[c] = NoLogin
    /\ tried < MaxLogins
    /\ tried' = tried + 1
    /\ ~Locked(n)
    /\ login' = [login EXCEPT ![c] = [name |-> n, verified |-> FALSE]]
    /\ UNCHANGED <<sessions, codes, fails, now, issued, granted, revoked>>

\* One more failure on a counter; a window that has passed starts anew.
CountOn(s) ==
    LET before == IF now >= fails[s].until THEN 0 ELSE fails[s].count
    IN  [fails EXCEPT ![s] = [name  |-> @.name,
                              until |-> now + LockoutFor,
                              count |-> IF before < MaxFails THEN before + 1 ELSE before]]

\* Without one, the slot that expires soonest: an empty slot before any other.
Soonest == First({s \in FailureSlot : \A t \in FailureSlot : fails[s].until <= fails[t].until})

Fresh(n) == [name |-> n, until |-> now + LockoutFor, count |-> 1]

\* Mutant of RecordFailure: the count goes on past the limit.
RecordFailureUncapped(c) ==
    LET n == login[c].name
    IN  /\ n # None /\ ~login[c].verified
        /\ IF Counters(n) # {}
           THEN \E s \in Counters(n) : fails' = [fails EXCEPT ![s].count = @ + 1, ![s].until = now + LockoutFor]
           ELSE \E s \in Soonest : fails' = [fails EXCEPT ![s] = Fresh(n)]
        /\ login' = [login EXCEPT ![c] = NoLogin]
        /\ UNCHANGED <<sessions, codes, now, tried, issued, granted, revoked>>

\* Mutant of RecordFailure: the loop stops at an empty slot.
RecordFailureEarly(c) ==
    LET n     == login[c].name
        empty == First({s \in FailureSlot : fails[s].count = 0})
        early == {e \in empty : \A s \in Counters(n) : e < s}
    IN  /\ n # None /\ ~login[c].verified
        /\ IF Counters(n) # {} /\ early = {}
           THEN \E s \in Counters(n) : fails' = CountOn(s)
           ELSE \E s \in (IF early # {} THEN early ELSE Soonest) : fails' = [fails EXCEPT ![s] = Fresh(n)]
        /\ login' = [login EXCEPT ![c] = NoLogin]
        /\ UNCHANGED <<sessions, codes, now, tried, issued, granted, revoked>>

\* Mutant of RecordFailure: a full table gives up its first slot.
RecordFailureFirst(c) ==
    LET n == login[c].name
    IN  /\ n # None /\ ~login[c].verified
        /\ IF Counters(n) # {}
           THEN \E s \in Counters(n) : fails' = CountOn(s)
           ELSE fails' = [fails EXCEPT ![1] = Fresh(n)]
        /\ login' = [login EXCEPT ![c] = NoLogin]
        /\ UNCHANGED <<sessions, codes, now, tried, issued, granted, revoked>>

\* Authenticate refuses: an unknown name, a wrong password or a disabled user.
RecordFailure(c) ==
    LET n == login[c].name
    IN  /\ n # None /\ ~login[c].verified
        /\ IF Counters(n) # {}
           THEN \E s \in Counters(n) : fails' = CountOn(s)
           ELSE \E s \in Soonest : fails' = [fails EXCEPT ![s] = Fresh(n)]
        /\ login' = [login EXCEPT ![c] = NoLogin]
        /\ UNCHANGED <<sessions, codes, now, tried, issued, granted, revoked>>

\* Authenticate succeeds.
RecordSuccess(c) ==
    LET n == login[c].name
    IN  /\ n \in User /\ ~login[c].verified
        /\ fails' = [s \in FailureSlot |-> IF fails[s].name = n THEN NoFailure ELSE fails[s]]
        /\ login' = [login EXCEPT ![c] = [name |-> n, verified |-> TRUE]]
        /\ UNCHANGED <<sessions, codes, now, tried, issued, granted, revoked>>

-----------------------------------------------------------------------------
(* Codes. *)

FreeCodeSlot == First({s \in CodeSlot : codes[s].user = None \/ now >= codes[s].expires})

\* handleAuthorize issues the code, or has no slot for it.
IssueCode(c) ==
    /\ login[c].verified
    /\ login' = [login EXCEPT ![c] = NoLogin]
    /\ \/ /\ issued < MaxLogins
          /\ issued' = issued + 1
          /\ \E s \in FreeCodeSlot :
                codes' = [codes EXCEPT ![s] = [user    |-> login[c].name,
                                               code    |-> issued + 1,
                                               expires |-> now + CodeTTL]]
       \/ FreeCodeSlot = {} /\ UNCHANGED <<codes, issued>>
    /\ UNCHANGED <<sessions, fails, now, tried, granted, revoked>>

Live(s) == sessions[s].user # None /\ now < sessions[s].created + TokenTTL
Own(u) == {s \in SessionSlot : Live(s) /\ sessions[s].user = u}

\* Mutant of SlotFor: the oldest session of all.
SlotForAny(u) ==
    LET free == {s \in SessionSlot : ~Live(s)}
    IN  IF free # {} THEN First(free)
        ELSE First({s \in SessionSlot : \A t \in SessionSlot : sessions[s].created <= sessions[t].created})

\* newSessionLocked: the first slot that is free or expired, and failing that the
\* user's own oldest session; none when others fill the table.
SlotFor(u) ==
    LET free == {s \in SessionSlot : ~Live(s)}
    IN  IF free # {} THEN First(free)
        ELSE First({s \in Own(u) : \A t \in Own(u) : sessions[s].created <= sessions[t].created})

\* Mutant of RedeemCode: a code that is good keeps its slot.
RedeemCodeAgain(code, matches) ==
    \E s \in CodeSlot :
        /\ codes[s].user # None /\ codes[s].code = code
        /\ IF now < codes[s].expires /\ matches /\ SlotFor(codes[s].user) # {}
           THEN /\ \E t \in SlotFor(codes[s].user) :
                      sessions' = [sessions EXCEPT ![t] = [user |-> codes[s].user, created |-> now, code |-> code]]
                /\ granted' = [granted EXCEPT ![code] = @ + 1]
                /\ UNCHANGED codes
           ELSE UNCHANGED <<sessions, granted>> /\ codes' = [codes EXCEPT ![s] = NoCode]
        /\ UNCHANGED <<fails, now, login, tried, issued, revoked>>

\* The slot of the code is cleared before anything is looked at: a code that has
\* expired, that does not match or that finds no slot for a session is spent.
RedeemCode(code, matches) ==
    \E s \in CodeSlot :
        /\ codes[s].user # None /\ codes[s].code = code
        /\ codes' = [codes EXCEPT ![s] = NoCode]
        /\ IF now < codes[s].expires /\ matches /\ SlotFor(codes[s].user) # {}
           THEN /\ \E t \in SlotFor(codes[s].user) :
                      sessions' = [sessions EXCEPT ![t] = [user |-> codes[s].user, created |-> now, code |-> code]]
                /\ granted' = [granted EXCEPT ![code] = @ + 1]
           ELSE UNCHANGED <<sessions, granted>>
        /\ UNCHANGED <<fails, now, login, tried, issued, revoked>>

-----------------------------------------------------------------------------
(* Sessions. *)

\* LookupInto and Count: a session found expired gives up its slot.
Expire(s) ==
    /\ sessions[s].user # None /\ ~Live(s)
    /\ sessions' = [sessions EXCEPT ![s] = NoSession]
    /\ UNCHANGED <<codes, fails, now, login, tried, issued, granted, revoked>>

\* handleLogout
Revoke(s) ==
    /\ sessions[s].user # None
    /\ sessions' = [sessions EXCEPT ![s] = NoSession]
    /\ UNCHANGED <<codes, fails, now, login, tried, issued, granted, revoked>>

\* Mutant of RevokeUser: the codes are forgotten.
RevokeUserSessions(u) ==
    /\ sessions' = [s \in SessionSlot |-> IF sessions[s].user = u THEN NoSession ELSE sessions[s]]
    /\ revoked' = [revoked EXCEPT ![u] = issued]
    /\ UNCHANGED <<codes, fails, now, login, tried, issued, granted>>

\* handleUpdateUser, for a user disabled or whose password changed.
RevokeUser(u) ==
    /\ sessions' = [s \in SessionSlot |-> IF sessions[s].user = u THEN NoSession ELSE sessions[s]]
    /\ codes' = [s \in CodeSlot |-> IF codes[s].user = u THEN NoCode ELSE codes[s]]
    /\ revoked' = [revoked EXCEPT ![u] = issued]
    /\ UNCHANGED <<fails, now, login, tried, issued, granted>>

Tick ==
    /\ now < MaxTime
    /\ now' = now + 1
    /\ UNCHANGED <<sessions, codes, fails, login, tried, issued, granted, revoked>>

Next ==
    \/ \E c \in Client, n \in Name : CheckRateLimit(c, n)
    \/ \E c \in Client : RecordFailure(c) \/ RecordSuccess(c) \/ IssueCode(c)
    \/ \E k \in 1..MaxLogins, matches \in BOOLEAN : RedeemCode(k, matches)
    \/ \E s \in SessionSlot : Expire(s) \/ Revoke(s)
    \/ \E u \in User : RevokeUser(u)
    \/ Tick

Spec == Init /\ [][Next]_vars

-----------------------------------------------------------------------------
(* Properties. *)

TypeOK ==
    /\ sessions \in [SessionSlot -> [user : User \cup {None}, created : 0..MaxTime, code : 0..MaxLogins]]
    /\ codes \in [CodeSlot -> [user : User \cup {None}, code : 0..MaxLogins, expires : 0..(MaxTime + CodeTTL)]]
    /\ fails \in [FailureSlot -> [name : Name \cup {None}, until : 0..(MaxTime + LockoutFor), count : 0..MaxFails]]
    /\ now \in 0..MaxTime
    /\ login \in [Client -> [name : Name \cup {None}, verified : BOOLEAN]]
    /\ tried \in 0..MaxLogins
    /\ issued \in 0..MaxLogins
    /\ granted \in [1..MaxLogins -> Nat]
    /\ revoked \in [User -> 0..MaxLogins]

\* A code is good for one session at most, however often and by whomever it is
\* redeemed, and whatever happened to the session since.
CodesRedeemOnce == \A k \in 1..MaxLogins : granted[k] <= 1

\* newSessionLocked: logging in can cost a user their own stalest session when the
\* table is full of live ones, and never costs anyone else theirs.  A live session
\* goes by the clock, one at a time by a logout, with its user, or to its user.
OnlyOwnOldest ==
    \A s \in SessionSlot :
        Live(s) /\ sessions'[s] # sessions[s] =>
            \/ sessions'[s] = NoSession
            \/ /\ sessions'[s].user = sessions[s].user
               /\ \A t \in SessionSlot : Live(t)
               /\ \A t \in Own(sessions[s].user) : sessions[s].created <= sessions[t].created

NobodyElsesSessionLost == [][OnlyOwnOldest]_vars

\* RevokeUser: pending codes must not recreate a revoked user's sessions.  What is
\* left of a user comes from codes issued since they were last revoked.
RevokedStaysOut ==
    /\ \A s \in SessionSlot : sessions[s].user # None => sessions[s].code > revoked[sessions[s].user]
    /\ \A s \in CodeSlot : codes[s].user # None => codes[s].code > revoked[codes[s].user]

\* The attempts under a name are counted in one place, so the limit is one limit,
\* however logins under several names fail, succeed and push counters out.
OneCounterPerName == \A n \in Name : \A s, t \in Counters(n) : s = t

\* A name that is locked out stays so for its time, unless an attempt let through
\* before succeeds, or the table is full and no counter in it expires sooner.
LockoutKept ==
    \A n \in Name : \A s \in Counters(n) :
        Locked(n) /\ now' = now /\ ~Locked(n)' =>
            \/ \E c \in Client : login[c].name = n /\ login'[c].verified
            \/ \A t \in FailureSlot : fails[s].until <= fails[t].until

LockoutHolds == [][LockoutKept]_vars

-----------------------------------------------------------------------------
(***************************************************************************)
(* Proofs about the sessions for all sizes of the tables, all limits and   *)
(* all numbers of users and of logins in progress: codes are good once, a  *)
(* revocation is final, the limiter counts in one place, and the two       *)
(* properties of the steps that take a slot somebody was using.            *)
(*                                                                         *)
(* The inductive invariant adds what is true of the codes waiting to be    *)
(* redeemed (CodesFresh): each was issued, none twice, none has been good  *)
(* for a session yet, and none is older than the last revocation.          *)
(***************************************************************************)

CodesFresh ==
    /\ \A s \in CodeSlot : codes[s].user # None =>
          codes[s].code \in 1..issued /\ granted[codes[s].code] = 0
    /\ \A s, t \in CodeSlot :
          codes[s].user # None /\ codes[t].user # None /\ codes[s].code = codes[t].code => s = t
    /\ \A k \in 1..MaxLogins : k > issued => granted[k] = 0
    /\ \A u \in User : revoked[u] <= issued

VerifiedKnown == \A c \in Client : login[c].verified => login[c].name \in User

IInv ==
    /\ TypeOK
    /\ VerifiedKnown
    /\ CodesFresh
    /\ CodesRedeemOnce
    /\ RevokedStaysOut
    /\ OneCounterPerName

-----------------------------------------------------------------------------

\* What the assumption on the constants says of each.
LEMMA ConstantsType ==
    /\ None \notin User
    /\ SessionCapacity \in Nat \ {0} /\ CodeCapacity \in Nat \ {0} /\ FailureCapacity \in Nat \ {0}
    /\ TokenTTL \in Nat \ {0} /\ CodeTTL \in Nat \ {0} /\ LockoutFor \in Nat \ {0} /\ MaxFails \in Nat \ {0}
    /\ MaxLogins \in Nat /\ MaxTime \in Nat
BY SessionsAssumption

\* What the loops find is one of what they look for.
LEMMA FirstIn == ASSUME NEW S PROVE First(S) \subseteq S
BY DEF First

\* A login is put in a slot of the table.
LEMMA SlotForType == ASSUME NEW u PROVE SlotFor(u) \subseteq SessionSlot
BY FirstIn DEF SlotFor, Own

\* Empty tables satisfy the invariant.
LEMMA InitIInv == Init => IInv
<1> SUFFICES ASSUME Init PROVE IInv
  OBVIOUS
<1> USE ConstantsType DEF Init, NoSession, NoCode, NoFailure, NoLogin
<1>1. TypeOK
  BY DEF TypeOK
<1>2. VerifiedKnown
  BY DEF VerifiedKnown
<1>3. CodesFresh
  BY DEF CodesFresh
<1>4. CodesRedeemOnce
  BY DEF CodesRedeemOnce
<1>5. RevokedStaysOut
  BY DEF RevokedStaysOut
<1>6. OneCounterPerName
  BY DEF OneCounterPerName, Counters
<1> QED
  BY <1>1, <1>2, <1>3, <1>4, <1>5, <1>6 DEF IInv

-----------------------------------------------------------------------------
(* The steps, by the part of the state they change. *)

\* The steps of the limiter leave codes and sessions alone.
LEMMA FailuresStep ==
    ASSUME IInv, NEW c \in Client, RecordFailure(c)
    PROVE  IInv'
<1> DEFINE n == login[c].name
<1>1. n \in Name
  BY DEF RecordFailure, IInv, TypeOK
<1>2. /\ UNCHANGED <<sessions, codes, now, tried, issued, granted, revoked>>
      /\ login' = [login EXCEPT ![c] = NoLogin]
  BY DEF RecordFailure
<1>3. \E s \in FailureSlot :
          \/ s \in Counters(n) /\ fails' = CountOn(s)
          \/ Counters(n) = {} /\ fails' = [fails EXCEPT ![s] = Fresh(n)]
  BY FirstIn DEF RecordFailure, Counters, Soonest
<1>4. PICK s \in FailureSlot :
          \/ s \in Counters(n) /\ fails' = CountOn(s)
          \/ Counters(n) = {} /\ fails' = [fails EXCEPT ![s] = Fresh(n)]
  BY <1>3
<1>5. now + LockoutFor \in 0..(MaxTime + LockoutFor)
  BY ConstantsType DEF IInv, TypeOK
<1>6. fails[s] \in [name : Name \cup {None}, until : 0..(MaxTime + LockoutFor), count : 0..MaxFails]
  BY DEF IInv, TypeOK
<1>7. fails' \in [FailureSlot -> [name : Name \cup {None}, until : 0..(MaxTime + LockoutFor), count : 0..MaxFails]]
  <2>1. CASE s \in Counters(n) /\ fails' = CountOn(s)
    BY <2>1, <1>5, <1>6, ConstantsType DEF CountOn, IInv, TypeOK
  <2>2. CASE fails' = [fails EXCEPT ![s] = Fresh(n)]
    BY <2>2, <1>1, <1>5, <1>6, ConstantsType DEF Fresh, IInv, TypeOK
  <2> QED
    BY <1>4, <2>1, <2>2
<1>8. TypeOK'
  BY <1>2, <1>7 DEF IInv, TypeOK, NoLogin
<1>9. VerifiedKnown'
  BY <1>2 DEF IInv, TypeOK, VerifiedKnown, NoLogin
<1>10. CodesFresh' /\ CodesRedeemOnce' /\ RevokedStaysOut'
  BY <1>2 DEF IInv, CodesFresh, CodesRedeemOnce, RevokedStaysOut
<1>11. OneCounterPerName'
  <2> SUFFICES ASSUME NEW m \in Name, NEW a \in FailureSlot, NEW b \in FailureSlot,
                      fails'[a].count > 0, fails'[a].name = m,
                      fails'[b].count > 0, fails'[b].name = m
               PROVE  a = b
    BY DEF OneCounterPerName, Counters
  <2>1. CASE s \in Counters(n) /\ fails' = CountOn(s)
    <3>1. \A t \in FailureSlot : fails'[t].name = fails[t].name /\ (t # s => fails'[t] = fails[t])
      BY <2>1, <1>6 DEF CountOn, IInv, TypeOK
    <3>2. fails[s].count > 0 /\ fails[s].name = n
      BY <2>1 DEF Counters
    <3>3. a \in Counters(m) /\ b \in Counters(m)
      BY <3>1, <3>2 DEF Counters
    <3> QED
      BY <3>3 DEF IInv, OneCounterPerName
  <2>2. CASE Counters(n) = {} /\ fails' = [fails EXCEPT ![s] = Fresh(n)]
    <3>1. fails'[s].name = n /\ \A t \in FailureSlot : t # s => fails'[t] = fails[t]
      BY <2>2 DEF Fresh, IInv, TypeOK
    <3>2. CASE m = n
      BY <3>1, <3>2, <2>2 DEF Counters
    <3>3. CASE m # n
      BY <3>1, <3>3 DEF IInv, OneCounterPerName, Counters
    <3> QED
      BY <3>2, <3>3
  <2> QED
    BY <1>4, <2>1, <2>2
<1> QED
  BY <1>8, <1>9, <1>10, <1>11 DEF IInv

\* A password that was right gives up the failure counter of its name.
LEMMA SuccessStep ==
    ASSUME IInv, NEW c \in Client, RecordSuccess(c)
    PROVE  IInv'
<1> USE DEF RecordSuccess
<1>1. TypeOK'
  BY ConstantsType, SessionsAssumption DEF IInv, TypeOK, NoFailure
<1>2. VerifiedKnown'
  BY DEF IInv, TypeOK, VerifiedKnown
<1>3. CodesFresh' /\ CodesRedeemOnce' /\ RevokedStaysOut'
  BY DEF IInv, CodesFresh, CodesRedeemOnce, RevokedStaysOut
<1>4. \A s \in FailureSlot : fails'[s].count > 0 => fails'[s] = fails[s]
  BY DEF NoFailure
<1>5. OneCounterPerName'
  BY <1>4 DEF IInv, OneCounterPerName, Counters
<1> QED
  BY <1>1, <1>2, <1>3, <1>5 DEF IInv

\* The rate limiter counts an attempt, or refuses it.
LEMMA AttemptStep ==
    ASSUME IInv, NEW c \in Client, NEW n \in Name, CheckRateLimit(c, n)
    PROVE  IInv'
<1> USE DEF CheckRateLimit
<1>1. TypeOK'
  BY ConstantsType DEF IInv, TypeOK
<1>2. VerifiedKnown'
  BY DEF IInv, TypeOK, VerifiedKnown, NoLogin
<1>3. CodesFresh' /\ CodesRedeemOnce' /\ RevokedStaysOut' /\ OneCounterPerName'
  BY DEF IInv, CodesFresh, CodesRedeemOnce, RevokedStaysOut, OneCounterPerName, Counters
<1> QED
  BY <1>1, <1>2, <1>3 DEF IInv

\* A code that is issued is new.
LEMMA IssueStep ==
    ASSUME IInv, NEW c \in Client, IssueCode(c)
    PROVE  IInv'
<1> DEFINE u == login[c].name
           code == issued + 1
<1>1. u \in User
  BY DEF IssueCode, IInv, VerifiedKnown
<1>2. /\ UNCHANGED <<sessions, fails, now, tried, granted, revoked>>
      /\ login' = [login EXCEPT ![c] = NoLogin]
  BY DEF IssueCode
<1>3. VerifiedKnown'
  BY <1>2 DEF IInv, TypeOK, VerifiedKnown, NoLogin
<1>4. OneCounterPerName' /\ CodesRedeemOnce'
  BY <1>2 DEF IInv, OneCounterPerName, Counters, CodesRedeemOnce
<1>5. CASE UNCHANGED <<codes, issued>>
  <2>1. TypeOK'
    BY <1>2, <1>5 DEF IInv, TypeOK, NoLogin
  <2>2. CodesFresh' /\ RevokedStaysOut'
    BY <1>2, <1>5 DEF IInv, CodesFresh, RevokedStaysOut
  <2> QED
    BY <1>3, <1>4, <2>1, <2>2 DEF IInv
<1>6. CASE /\ issued < MaxLogins
           /\ issued' = code
           /\ \E s \in FreeCodeSlot :
                 codes' = [codes EXCEPT ![s] = [user |-> u, code |-> code, expires |-> now + CodeTTL]]
  <2>1. PICK s \in CodeSlot :
            codes' = [codes EXCEPT ![s] = [user |-> u, code |-> code, expires |-> now + CodeTTL]]
    BY <1>6, FirstIn DEF FreeCodeSlot
  <2>2. code \in 1..MaxLogins /\ issued \in Nat /\ now + CodeTTL \in 0..(MaxTime + CodeTTL)
    BY <1>6, ConstantsType DEF IInv, TypeOK
  <2>3. TypeOK'
    <3>1. codes' \in [CodeSlot -> [user : User \cup {None}, code : 0..MaxLogins, expires : 0..(MaxTime + CodeTTL)]]
      BY <1>1, <2>1, <2>2 DEF IInv, TypeOK
    <3>2. issued' \in 0..MaxLogins
      BY <1>6, <2>2
    <3> QED
      BY <1>2, <3>1, <3>2 DEF IInv, TypeOK, NoLogin
  <2>4. \A t \in CodeSlot : codes'[t] = IF t = s THEN [user |-> u, code |-> code, expires |-> now + CodeTTL]
                                                 ELSE codes[t]
    BY <2>1 DEF IInv, TypeOK
  <2>5. granted[code] = 0 /\ revoked[u] <= issued
    BY <1>1, <2>2 DEF IInv, CodesFresh
  <2>6. \A t \in CodeSlot : codes[t].user # None => codes[t].code \in 1..issued
    BY DEF IInv, CodesFresh
  <2>7. CodesFresh'
    <3>1. \A t \in CodeSlot : codes'[t].user # None => codes'[t].code \in 1..issued' /\ granted'[codes'[t].code] = 0
      BY <1>2, <1>6, <2>2, <2>4, <2>5 DEF IInv, CodesFresh
    <3>2. \A t, v \in CodeSlot :
             codes'[t].user # None /\ codes'[v].user # None /\ codes'[t].code = codes'[v].code => t = v
      BY <2>2, <2>4, <2>6 DEF IInv, CodesFresh
    <3>3. \A k \in 1..MaxLogins : k > issued' => granted'[k] = 0
      BY <1>2, <1>6, <2>2 DEF IInv, CodesFresh
    <3>4. \A v \in User : revoked'[v] <= issued'
      BY <1>2, <1>6, <2>2 DEF IInv, CodesFresh, TypeOK
    <3> QED
      BY <3>1, <3>2, <3>3, <3>4 DEF CodesFresh
  <2>8. RevokedStaysOut'
    <3>1. revoked[u] \in Nat
      BY <1>1 DEF IInv, TypeOK
    <3> QED
      BY <1>2, <2>2, <2>4, <2>5, <3>1 DEF IInv, RevokedStaysOut
  <2> QED
    BY <1>3, <1>4, <2>3, <2>7, <2>8 DEF IInv
<1> QED
  BY <1>5, <1>6 DEF IssueCode

\* A code is cleared from its slot before anything else is looked at.
LEMMA RedeemStep ==
    ASSUME IInv, NEW code \in 1..MaxLogins, NEW matches \in BOOLEAN, RedeemCode(code, matches)
    PROVE  IInv'
<1>1. PICK s \in CodeSlot :
          /\ codes[s].user # None /\ codes[s].code = code
          /\ codes' = [codes EXCEPT ![s] = NoCode]
          /\ IF now < codes[s].expires /\ matches /\ SlotFor(codes[s].user) # {}
             THEN /\ \E t \in SlotFor(codes[s].user) :
                        sessions' = [sessions EXCEPT ![t] = [user |-> codes[s].user, created |-> now, code |-> code]]
                  /\ granted' = [granted EXCEPT ![code] = @ + 1]
             ELSE UNCHANGED <<sessions, granted>>
          /\ UNCHANGED <<fails, now, login, tried, issued, revoked>>
  BY DEF RedeemCode
<1> DEFINE u == codes[s].user
<1>2. u \in User
  BY <1>1 DEF IInv, TypeOK
<1>3. code \in 1..issued /\ granted[code] = 0 /\ code > revoked[u]
  BY <1>1 DEF IInv, CodesFresh, RevokedStaysOut
<1>4. \A t \in CodeSlot : codes'[t] = IF t = s THEN NoCode ELSE codes[t]
  BY <1>1 DEF IInv, TypeOK
<1>5. \A t \in CodeSlot : codes'[t].user # None => t # s /\ codes'[t] = codes[t] /\ codes[t].code # code
  BY <1>1, <1>4 DEF NoCode, IInv, CodesFresh
<1>6. /\ granted' \in [1..MaxLogins -> Nat]
      /\ \A k \in 1..MaxLogins : k # code => granted'[k] = granted[k]
      /\ granted'[code] <= 1
  <2>1. granted \in [1..MaxLogins -> Nat]
    BY DEF IInv, TypeOK
  <2>2. CASE UNCHANGED granted
    BY <1>3, <2>1, <2>2
  <2>3. CASE granted' = [granted EXCEPT ![code] = @ + 1]
    BY <1>3, <2>1, <2>3
  <2> QED
    BY <1>1, <2>2, <2>3
<1>7. /\ sessions' \in [SessionSlot -> [user : User \cup {None}, created : 0..MaxTime, code : 0..MaxLogins]]
      /\ \A t \in SessionSlot : \/ sessions'[t] = sessions[t]
                                \/ sessions'[t].user = u /\ sessions'[t].code = code
  <2>1. CASE UNCHANGED sessions
    BY <2>1 DEF IInv, TypeOK
  <2>2. CASE \E t \in SlotFor(u) : sessions' = [sessions EXCEPT ![t] = [user |-> u, created |-> now, code |-> code]]
    <3>1. PICK t \in SessionSlot : sessions' = [sessions EXCEPT ![t] = [user |-> u, created |-> now, code |-> code]]
      BY <2>2, SlotForType
    <3> QED
      BY <3>1, <1>2, ConstantsType DEF IInv, TypeOK
  <2> QED
    BY <1>1, <2>1, <2>2
<1>8. TypeOK'
  <2>1. NoCode \in [user : User \cup {None}, code : 0..MaxLogins, expires : 0..(MaxTime + CodeTTL)]
    BY ConstantsType DEF NoCode
  <2>2. codes' \in [CodeSlot -> [user : User \cup {None}, code : 0..MaxLogins, expires : 0..(MaxTime + CodeTTL)]]
    BY <1>1, <2>1 DEF IInv, TypeOK
  <2> QED
    BY <1>1, <1>6, <1>7, <2>2 DEF IInv, TypeOK
<1>9. VerifiedKnown' /\ OneCounterPerName'
  BY <1>1 DEF IInv, VerifiedKnown, OneCounterPerName, Counters
<1>10. CodesRedeemOnce'
  BY <1>6 DEF IInv, CodesRedeemOnce
<1>11. CodesFresh'
  <2>1. \A t \in CodeSlot : codes'[t].user # None => codes'[t].code \in 1..issued' /\ granted'[codes'[t].code] = 0
    <3> SUFFICES ASSUME NEW t \in CodeSlot, codes'[t].user # None
                 PROVE  codes'[t].code \in 1..issued' /\ granted'[codes'[t].code] = 0
      OBVIOUS
    <3>1. codes'[t] = codes[t] /\ codes[t].code # code
      BY <1>5
    <3>2. codes[t].code \in 1..issued /\ granted[codes[t].code] = 0
      BY <3>1 DEF IInv, CodesFresh
    <3>3. codes[t].code \in 1..MaxLogins
      BY <3>2, ConstantsType DEF IInv, TypeOK
    <3> QED
      BY <1>1, <1>6, <3>1, <3>2, <3>3
  <2>2. \A t, v \in CodeSlot :
           codes'[t].user # None /\ codes'[v].user # None /\ codes'[t].code = codes'[v].code => t = v
    BY <1>5 DEF IInv, CodesFresh
  <2>3. \A k \in 1..MaxLogins : k > issued' => granted'[k] = 0
    BY <1>1, <1>3, <1>6 DEF IInv, TypeOK, CodesFresh
  <2>4. \A v \in User : revoked'[v] <= issued'
    BY <1>1 DEF IInv, CodesFresh
  <2> QED
    BY <2>1, <2>2, <2>3, <2>4 DEF CodesFresh
<1>12. RevokedStaysOut'
  BY <1>1, <1>3, <1>5, <1>7 DEF IInv, RevokedStaysOut
<1> QED
  BY <1>8, <1>9, <1>10, <1>11, <1>12 DEF IInv

\* Expire and Revoke: one session goes.
LEMMA DropStep ==
    ASSUME IInv, NEW s \in SessionSlot, sessions' = [sessions EXCEPT ![s] = NoSession],
           UNCHANGED <<codes, fails, now, login, tried, issued, granted, revoked>>
    PROVE  IInv'
<1>1. TypeOK'
  BY ConstantsType DEF IInv, TypeOK, NoSession
<1>2. VerifiedKnown' /\ CodesFresh' /\ CodesRedeemOnce' /\ OneCounterPerName'
  BY DEF IInv, VerifiedKnown, CodesFresh, CodesRedeemOnce, OneCounterPerName, Counters
<1>3. RevokedStaysOut'
  BY DEF IInv, TypeOK, RevokedStaysOut, NoSession
<1> QED
  BY <1>1, <1>2, <1>3 DEF IInv

\* Revoking a user clears the sessions and the codes of that user.
LEMMA RevokeUserStep ==
    ASSUME IInv, NEW u \in User, RevokeUser(u)
    PROVE  IInv'
<1> USE DEF RevokeUser
<1>1. TypeOK'
  BY ConstantsType DEF IInv, TypeOK, NoSession, NoCode
<1>2. VerifiedKnown' /\ CodesRedeemOnce' /\ OneCounterPerName'
  BY DEF IInv, VerifiedKnown, CodesRedeemOnce, OneCounterPerName, Counters
<1>3. \A t \in CodeSlot : codes'[t].user # None => codes'[t] = codes[t] /\ codes[t].user # u
  BY DEF NoCode
<1>4. \A t \in SessionSlot : sessions'[t].user # None => sessions'[t] = sessions[t] /\ sessions[t].user # u
  BY DEF NoSession
<1>5. \A v \in User : revoked'[v] = IF v = u THEN issued ELSE revoked[v]
  BY DEF IInv, TypeOK
<1>6. CodesFresh'
  BY <1>3, <1>5 DEF IInv, TypeOK, CodesFresh
<1>7. RevokedStaysOut'
  <2>1. \A t \in SessionSlot : sessions[t].user # None => sessions[t].user \in User
    BY DEF IInv, TypeOK
  <2>2. \A t \in CodeSlot : codes[t].user # None => codes[t].user \in User
    BY DEF IInv, TypeOK
  <2> QED
    BY <1>3, <1>4, <1>5, <2>1, <2>2 DEF IInv, RevokedStaysOut
<1> QED
  BY <1>1, <1>2, <1>6, <1>7 DEF IInv

\* A step that changes nothing keeps the invariant.
LEMMA StutterStep ==
    ASSUME IInv, UNCHANGED vars
    PROVE  IInv'
BY DEF vars, IInv, TypeOK, VerifiedKnown, CodesFresh, CodesRedeemOnce, RevokedStaysOut, OneCounterPerName, Counters

\* The clock moves and nothing else.
LEMMA TickStep ==
    ASSUME IInv, Tick
    PROVE  IInv'
<1> USE DEF Tick
<1>1. TypeOK'
  BY ConstantsType DEF IInv, TypeOK
<1>2. VerifiedKnown' /\ CodesFresh' /\ CodesRedeemOnce' /\ RevokedStaysOut' /\ OneCounterPerName'
  BY DEF IInv, VerifiedKnown, CodesFresh, CodesRedeemOnce, RevokedStaysOut, OneCounterPerName, Counters
<1> QED
  BY <1>1, <1>2 DEF IInv

\* Every step keeps the invariant.
LEMMA NextIInv == IInv /\ [Next]_vars => IInv'
<1> SUFFICES ASSUME IInv, [Next]_vars PROVE IInv'
  OBVIOUS
<1>1. ASSUME NEW c \in Client, NEW n \in Name, CheckRateLimit(c, n) PROVE IInv'
  BY <1>1, AttemptStep
<1>2. ASSUME NEW c \in Client, RecordFailure(c) PROVE IInv'
  BY <1>2, FailuresStep
<1>3. ASSUME NEW c \in Client, RecordSuccess(c) PROVE IInv'
  BY <1>3, SuccessStep
<1>4. ASSUME NEW c \in Client, IssueCode(c) PROVE IInv'
  BY <1>4, IssueStep
<1>5. ASSUME NEW k \in 1..MaxLogins, NEW matches \in BOOLEAN, RedeemCode(k, matches) PROVE IInv'
  BY <1>5, RedeemStep
<1>6. ASSUME NEW s \in SessionSlot, Expire(s) \/ Revoke(s) PROVE IInv'
  BY <1>6, DropStep DEF Expire, Revoke
<1>7. ASSUME NEW u \in User, RevokeUser(u) PROVE IInv'
  BY <1>7, RevokeUserStep
<1> QED
  BY <1>1, <1>2, <1>3, <1>4, <1>5, <1>6, <1>7, TickStep, StutterStep DEF Next

\* The invariant holds throughout.
LEMMA Invariance == Spec => []IInv
BY InitIInv, NextIInv, PTL DEF Spec

-----------------------------------------------------------------------------
(* Invariants. *)

\* No counter passes the limit and no table leaves its types, for every size of
\* the tables (sessions.go).
THEOREM TypeCorrect == Spec => []TypeOK
<1>1. IInv => TypeOK
  BY DEF IInv
<1> QED
  BY <1>1, Invariance, PTL

\* An authorization code is good for one session, whatever is redeemed at once
\* (RedeemCode).
THEOREM RedeemedOnce == Spec => []CodesRedeemOnce
<1>1. IInv => CodesRedeemOnce
  BY DEF IInv
<1> QED
  BY <1>1, Invariance, PTL

\* No session or code of a revoked user is older than the revocation (RevokeUser).
THEOREM RevocationIsFinal == Spec => []RevokedStaysOut
<1>1. IInv => RevokedStaysOut
  BY DEF IInv
<1> QED
  BY <1>1, Invariance, PTL

\* The failures of a name are counted in one slot (RecordFailure).
THEOREM OneCounter == Spec => []OneCounterPerName
<1>1. IInv => OneCounterPerName
  BY DEF IInv
<1> QED
  BY <1>1, Invariance, PTL

-----------------------------------------------------------------------------
(* Properties of steps. *)

\* The session a redemption takes is free, or the oldest of its own user.
LEMMA RedeemKeepsOthers ==
    ASSUME IInv, NEW code \in 1..MaxLogins, NEW matches \in BOOLEAN, RedeemCode(code, matches)
    PROVE  OnlyOwnOldest
<1>1. CASE UNCHANGED sessions
  BY <1>1 DEF OnlyOwnOldest
<1>2. CASE \E k \in CodeSlot : \E t \in SlotFor(codes[k].user) :
              sessions' = [sessions EXCEPT ![t] = [user |-> codes[k].user, created |-> now, code |-> code]]
  <2>0. PICK k \in CodeSlot : \E t \in SlotFor(codes[k].user) :
                sessions' = [sessions EXCEPT ![t] = [user |-> codes[k].user, created |-> now, code |-> code]]
    BY <1>2
  <2> DEFINE u == codes[k].user
  <2>1. PICK t \in SlotFor(u) : sessions' = [sessions EXCEPT ![t] = [user |-> u, created |-> now, code |-> code]]
    BY <2>0
  <2> SUFFICES ASSUME NEW s \in SessionSlot, Live(s), sessions'[s] # sessions[s]
               PROVE  /\ sessions'[s].user = sessions[s].user
                      /\ \A v \in SessionSlot : Live(v)
                      /\ \A v \in Own(sessions[s].user) : sessions[s].created <= sessions[v].created
    BY DEF OnlyOwnOldest
  <2>2. t = s /\ sessions'[s].user = u
    BY <2>1, SlotForType DEF IInv, TypeOK
  <2>3. {v \in SessionSlot : ~Live(v)} = {}
    BY <2>1, <2>2, FirstIn DEF SlotFor
  <2>4. s \in Own(u) /\ \A v \in Own(u) : sessions[s].created <= sessions[v].created
    BY <2>1, <2>2, <2>3, FirstIn DEF SlotFor
  <2> QED
    BY <2>2, <2>3, <2>4 DEF Own
<1> QED
  BY <1>1, <1>2 DEF RedeemCode

\* Nobody's login takes a live session but the oldest of their own, and that only
\* when the table is full of live sessions (newSessionLocked).
THEOREM NobodyElses == Spec => NobodyElsesSessionLost
<1>1. IInv /\ [Next]_vars => [OnlyOwnOldest]_vars
  <2> SUFFICES ASSUME IInv, Next PROVE OnlyOwnOldest
    OBVIOUS
  <2>1. ASSUME NEW k \in 1..MaxLogins, NEW matches \in BOOLEAN, RedeemCode(k, matches) PROVE OnlyOwnOldest
    BY <2>1, RedeemKeepsOthers
  <2>2. CASE \A s \in SessionSlot : sessions'[s] \in {sessions[s], NoSession}
    BY <2>2 DEF OnlyOwnOldest
  <2>3. ASSUME NEW s \in SessionSlot, Expire(s) \/ Revoke(s) PROVE OnlyOwnOldest
    BY <2>2, <2>3 DEF Expire, Revoke, IInv, TypeOK
  <2>4. ASSUME NEW u \in User, RevokeUser(u) PROVE OnlyOwnOldest
    BY <2>2, <2>4 DEF RevokeUser
  <2>5. ASSUME UNCHANGED sessions PROVE OnlyOwnOldest
    BY <2>2, <2>5
  <2> QED
    BY <2>1, <2>3, <2>4, <2>5 DEF Next, CheckRateLimit, RecordFailure, RecordSuccess, IssueCode, Tick
<1> QED
  BY <1>1, Invariance, PTL DEF Spec, NobodyElsesSessionLost

\* A failure gives up the counter of a lockout only in a full table, the one that expires first.
LEMMA FailureKeepsLockouts ==
    ASSUME IInv, NEW c \in Client, RecordFailure(c)
    PROVE  LockoutKept
<1> SUFFICES ASSUME NEW n \in Name, NEW s \in Counters(n), Locked(n), ~Locked(n)'
             PROVE  \A t \in FailureSlot : fails[s].until <= fails[t].until
  BY DEF LockoutKept
<1> DEFINE m == login[c].name
<1>1. s \in FailureSlot /\ fails[s].name = n
  BY DEF Counters
<1>2. fails[s].count >= MaxFails /\ now < fails[s].until
  BY DEF Locked, IInv, OneCounterPerName
<1>3. now' = now
  BY DEF RecordFailure
<1>4. fails'[s] # fails[s]
  BY <1>1, <1>2, <1>3, ConstantsType DEF Locked, Counters, IInv, TypeOK
<1>5. ASSUME NEW t \in Counters(m), fails' = CountOn(t)
      PROVE  FALSE
  <2>1. t = s
    BY <1>1, <1>4, <1>5 DEF CountOn, IInv, TypeOK
  <2>2. /\ fails'[s].name = n /\ fails'[s].count = fails[s].count
        /\ fails'[s].until = now + LockoutFor
    BY <1>1, <1>2, <1>5, <2>1, ConstantsType DEF CountOn, IInv, TypeOK
  <2> QED
    BY <1>1, <1>2, <1>3, <2>2, ConstantsType DEF Locked, Counters, IInv, TypeOK
<1>6. ASSUME NEW t \in Soonest, fails' = [fails EXCEPT ![t] = Fresh(m)]
      PROVE  \A v \in FailureSlot : fails[s].until <= fails[v].until
  <2>1. t = s
    BY <1>1, <1>4, <1>6 DEF IInv, TypeOK
  <2> QED
    BY <1>6, <2>1, FirstIn DEF Soonest
<1> QED
  BY <1>5, <1>6 DEF RecordFailure

\* A lockout ends by the clock, by the success of an attempt let through before
\* it, or for want of counters when no other expires sooner (RecordFailure,
\* RecordSuccess).
THEOREM LockoutsHold == Spec => LockoutHolds
<1>1. IInv /\ [Next]_vars => [LockoutKept]_vars
  <2> SUFFICES ASSUME IInv, Next PROVE LockoutKept
    OBVIOUS
  <2>1. ASSUME NEW c \in Client, RecordFailure(c) PROVE LockoutKept
    BY <2>1, FailureKeepsLockouts
  <2>2. ASSUME NEW c \in Client, RecordSuccess(c) PROVE LockoutKept
    <3> SUFFICES ASSUME NEW n \in Name, NEW s \in Counters(n), Locked(n), now' = now, ~Locked(n)'
                 PROVE  \E d \in Client : login[d].name = n /\ login'[d].verified
      BY DEF LockoutKept
    <3>1. PICK t \in Counters(n) : fails[t].count >= MaxFails /\ now < fails[t].until
      BY DEF Locked
    <3>2. t \in FailureSlot /\ fails[t].name = n /\ fails[t].count > 0
      BY <3>1 DEF Counters
    <3>3. fails'[t] # fails[t]
      BY <3>1, <3>2 DEF Locked, Counters
    <3>4. login[c].name = n
      BY <2>2, <3>2, <3>3 DEF RecordSuccess
    <3>5. login'[c].verified
      BY <2>2 DEF RecordSuccess, IInv, TypeOK
    <3> QED
      BY <3>4, <3>5
  <2>3. ASSUME UNCHANGED fails PROVE LockoutKept
    BY <2>3 DEF LockoutKept, Locked, Counters
  <2> QED
    BY <2>1, <2>2, <2>3 DEF Next, CheckRateLimit, IssueCode, RedeemCode, Expire, Revoke, RevokeUser, Tick
<1> QED
  BY <1>1, Invariance, PTL DEF Spec, LockoutHolds

=============================================================================
