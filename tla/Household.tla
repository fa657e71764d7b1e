----------------------------- MODULE Household ------------------------------
(***************************************************************************)
(* internal/core: the members of the household and its configuration.      *)
(* users.go creates and changes members, queries.go changes the            *)
(* configuration.                                                          *)
(*                                                                         *)
(* A request carries the copy of the actor that api.authenticate read when *)
(* the request arrived.  The operation runs later: in between the body is  *)
(* read and a password hashed, outside the service mutex, and other        *)
(* requests run.  What is abstracted: passwords, display names, and the    *)
(* text they take in the arena; the ledger, of which only the issued coins *)
(* are kept.                                                               *)
(***************************************************************************)
EXTENDS Integers, FiniteSets, FiniteSetTheorems, TLAPS

CONSTANTS
    Name,          \* usernames
    MaxUsers,
    None,          \* no actor
    Request,       \* requests that can be in progress together
    MaxGrant,      \* bound on Config.InitialGrant and on amounts issued
    MaxIssued      \* bound on the coins ever issued

ASSUME HouseholdAssumption ==
    /\ {MaxUsers, MaxGrant, MaxIssued} \subseteq Nat
    /\ MaxUsers > 0
    /\ None \notin Name

VARIABLES
    live, disk, up,    \* EventSourced
    pending,           \* the initial grant createUserLocked has yet to append
    actor              \* the copy of its actor each request in progress holds

vars == <<live, disk, up, pending, actor>>

\* A member is known by their username, which never changes.
Member == [name : Name, nana : BOOLEAN, active : BOOLEAN]

Refused(s) == [ok |-> FALSE, state |-> s]
Done(s) == [ok |-> TRUE, state |-> s]

Named(s, name) == {m \in s.users : m.name = name}
ActiveNanas(s) == {m \in s.users : m.nana /\ m.active}

-----------------------------------------------------------------------------
(* applyEvent. *)

\* putUser and putAccount: a member more than there are rows is refused, after
\* the record is in the journal.
ApplyUserCreated(s, e) ==
    IF Cardinality(s.users) = MaxUsers THEN Refused(s)
    ELSE Done([s EXCEPT !.users = @ \cup {e.user}])

\* Mutant of ApplyUserUpdated: the record takes a row of its own.
ApplyUserUpdatedAside(s, e) ==
    IF Named(s, e.name) = {} THEN Refused(s)
    ELSE Done([s EXCEPT !.users = @ \cup {[name |-> e.name, nana |-> e.nana, active |-> e.active]}])

\* The record is rewritten in place.
ApplyUserUpdated(s, e) ==
    IF Named(s, e.name) = {} THEN Refused(s)
    ELSE LET m == CHOOSE m \in s.users : m.name = e.name
         IN  Done([s EXCEPT !.users = (@ \ {m}) \cup {[m EXCEPT !.nana = e.nana, !.active = e.active]}])

ApplyConfigUpdated(s, e) == Done([s EXCEPT !.grant = e.grant])

\* An issue: the coins in circulation.
ApplyTransaction(s, e) == Done([s EXCEPT !.issued = @ + e.amount])

ApplyEvent(s, e) ==
    CASE e.type = "UserCreated"   -> ApplyUserCreated(s, e)
      [] e.type = "UserUpdated"   -> ApplyUserUpdated(s, e)
      [] e.type = "ConfigUpdated" -> ApplyConfigUpdated(s, e)
      [] e.type = "Transaction"   -> ApplyTransaction(s, e)

-----------------------------------------------------------------------------
(* The operations. *)

Log == INSTANCE EventSourced WITH Apply <- ApplyEvent

\* DefaultConfig has a grant.
Empty == [users |-> {}, grant |-> MaxGrant, issued |-> 0]

\* Requests in progress live in RAM.
NoRequest == [r \in Request |-> None]

Init ==
    /\ live = Empty
    /\ disk = Done(Empty)
    /\ up = TRUE
    /\ pending = {}
    /\ actor = NoRequest

\* Mutant of AppendEvent: applied to RAM first and journalled second.
AppendEventLate(e, after) ==
    /\ \/ Log!Commit(live, e)
       \/ live' = ApplyEvent(live, e).state /\ UNCHANGED <<disk, up>>
    /\ actor' = after

\* One append with its outcomes; after it, the requests still in progress.
AppendFails(e, after) ==
    \/ Log!CommitFails(live) /\ actor' = after
    \/ Log!FoundAtBoot(e) /\ actor' = NoRequest

AppendEvent(e, after) == (Log!Commit(live, e) /\ actor' = after) \/ AppendFails(e, after)

\* The service mutex is free.
Idle == up /\ pending = {}

\* authenticate: the session's user is read and must be enabled.
Arrive(r, name) ==
    /\ Idle
    /\ actor[r] = None
    /\ \E m \in Named(live, name) : m.active /\ actor' = [actor EXCEPT ![r] = m]
    /\ UNCHANGED <<live, disk, up, pending>>

Answered(r) == [actor EXCEPT ![r] = None]

\* The request is refused, by one of the checks of its handler or operation.
Refuse(r) ==
    /\ up
    /\ actor[r] # None
    /\ actor' = Answered(r)
    /\ UNCHANGED <<live, disk, up, pending>>

\* provisionedLocked
Provisioned == ActiveNanas(live) # {}

\* The first append of createUserLocked, and the second it then owes.
AddMember(name, nana, grant, after) ==
    LET e == [type |-> "UserCreated", user |-> [name |-> name, nana |-> nana, active |-> TRUE]]
        owed == IF grant /\ live.grant > 0 /\ ApplyEvent(live, e).ok
                THEN {[type |-> "Transaction", amount |-> live.grant]} ELSE {}
    IN  \/ Log!Commit(live, e) /\ actor' = after /\ pending' = owed
        \/ AppendFails(e, after) /\ UNCHANGED pending

\* Mutant of Create: whether the username is taken is not looked at.
CreateTwin(name, nana, grant, after) == AddMember(name, nana, grant, after)

\* createUserLocked: no look at the room there is.
Create(name, nana, grant, after) ==
    /\ Named(live, name) = {}
    /\ AddMember(name, nana, grant, after)

\* Provision: the first Nana, with no authenticated caller.  A household name is
\* an append of its own before it, of which nothing is kept here.
Provision(name) ==
    /\ Idle
    /\ ~Provisioned
    /\ Create(name, TRUE, FALSE, actor)

\* CreateUser
CreateUser(r, name, nana, grant) ==
    /\ Idle
    /\ actor[r] # None
    /\ actor[r].nana
    /\ Create(name, nana, grant, Answered(r))

\* The second append of createUserLocked; its failure leaves a member without
\* their grant.
GrantFinish ==
    /\ up
    /\ \E e \in pending : live.issued + e.amount <= MaxIssued /\ AppendEvent(e, actor)
    /\ pending' = {}

\* Book.Validate refuses the grant.
GrantRefused ==
    /\ up
    /\ pending # {}
    /\ pending' = {}
    /\ UNCHANGED <<live, disk, up, actor>>

\* Mutant of LastNana: disabled Nanas count.
LastNanaAny(m) == m.nana /\ Cardinality({n \in live.users : n.nana}) < 2

\* countActiveNanaLocked() < 2, for a target that is a Nana.
LastNana(m) == m.nana /\ Cardinality(ActiveNanas(live)) < 2

\* UpdateUser: the role and the status after the call, one or both of which the
\* request names.  The actor is Nana if their copy says so; whether they are still
\* enabled is not looked at.
UpdateUser(r, name, nana, active) ==
    /\ Idle
    /\ actor[r] # None
    /\ actor[r].nana
    /\ \E m \in Named(live, name) :
          /\ ~active /\ m.active => ~LastNana(m)
          /\ ~nana /\ m.nana => ~LastNana(m)
    /\ AppendEvent([type |-> "UserUpdated", name |-> name, nana |-> nana, active |-> active],
                   Answered(r))
    /\ UNCHANGED pending

SetConfig(r, grant) ==
    /\ Idle
    /\ actor[r] # None
    /\ actor[r].nana
    /\ AppendEvent([type |-> "ConfigUpdated", grant |-> grant], Answered(r))
    /\ UNCHANGED pending

\* Issue, to a member who is enabled.
Issue(r, name, amount) ==
    /\ Idle
    /\ actor[r] # None
    /\ actor[r].nana
    /\ \E m \in Named(live, name) : m.active
    /\ live.issued + amount <= MaxIssued
    /\ AppendEvent([type |-> "Transaction", amount |-> amount], Answered(r))
    /\ UNCHANGED pending

Restart ==
    /\ up
    /\ Log!Reboot
    /\ pending' = {}
    /\ actor' = NoRequest

Next ==
    \/ \E r \in Request, name \in Name : Arrive(r, name)
    \/ \E r \in Request : Refuse(r)
    \/ \E name \in Name : Provision(name)
    \/ \E r \in Request, name \in Name, nana, grant \in BOOLEAN : CreateUser(r, name, nana, grant)
    \/ GrantFinish
    \/ GrantRefused
    \/ \E r \in Request, name \in Name, nana, active \in BOOLEAN : UpdateUser(r, name, nana, active)
    \/ \E r \in Request, grant \in 0..MaxGrant : SetConfig(r, grant)
    \/ \E r \in Request, name \in Name, amount \in 1..MaxGrant : Issue(r, name, amount)
    \/ Restart

Spec == Init /\ [][Next]_vars

-----------------------------------------------------------------------------
(* Properties. *)

StateOK(s) ==
    /\ s.users \subseteq Member /\ Cardinality(s.users) <= MaxUsers
    /\ s.grant \in 0..MaxGrant
    /\ s.issued \in 0..MaxIssued

TypeOK ==
    /\ StateOK(live)
    /\ disk.ok \in BOOLEAN /\ StateOK(disk.state)
    /\ up \in BOOLEAN
    /\ Cardinality(pending) <= 1
    /\ actor \in [Request -> Member \cup {None}]

\* UpdateUser keeps somebody who can administer: a household with members has an
\* enabled Nana, whatever requests with old copies of their actors do to each
\* other, and so it is also never provisioned twice.
AlwaysGoverned ==
    \A s \in {live, disk.state} : s.users # {} => ActiveNanas(s) # {}

\* Passwords are hashed before the mutex is taken, so two requests can be creating
\* the same member: a username names one member.
NamesUnique ==
    \A s \in {live, disk.state} : \A m, n \in s.users : m.name = n.name => m = n

\* A reboot at any point gives back the members, the configuration and the coins
\* as the running service knew them.
RebootKeepsHousehold == up => disk = Done(live)

-----------------------------------------------------------------------------
(* What the comments of the code claim and its steps do not keep. *)

\* events.go:13-16: the worst case of a failure is a record that was written and
\* reported as failed.  The journal can always be replayed.
Bootable == disk.ok

\* store.go:754-755: "every entry point that cares re-reads the authoritative
\* record", so the operations of Nana run for who is an enabled Nana now.
AdministratorIsCurrent ==
    [][up' /\ live' # live =>
          pending # {} \/ live.users = {} \/
          \E r \in Request : actor[r] # None /\ actor'[r] = None /\ actor[r] \in ActiveNanas(live)]_vars

-----------------------------------------------------------------------------
(***************************************************************************)
(* Proofs about Household: for any number of members, requests and coins,  *)
(* somebody can administer and a username is one member; and as long as    *)
(* there is a row for every username, a reboot gives back the household.   *)
(***************************************************************************)

State == [users : SUBSET Member, grant : 0..MaxGrant, issued : 0..MaxIssued]

GovernedIn(s) == s.users # {} => ActiveNanas(s) # {}
UniqueIn(s) == \A m, n \in s.users : m.name = n.name => m = n

\* What is true of the members, in RAM and in every replay of the journal.
Sound(s) ==
    /\ s \in State
    /\ IsFiniteSet(s.users)
    /\ Cardinality(s.users) <= MaxUsers
    /\ GovernedIn(s)
    /\ UniqueIn(s)

\* There is a row for every username there can be.
RoomForAll == IsFiniteSet(Name) /\ Cardinality(Name) <= MaxUsers

\* As long as the journal can be replayed, it yields what RAM holds.
Synced == up /\ disk.ok => disk.state = live

\* Who is asking came from a household with members; the first member to be
\* added is therefore the Nana that Provision adds.
AskersKnown == \A r \in Request : actor[r] # None => live.users # {}

IInv ==
    /\ Sound(live)
    /\ Sound(disk.state)
    /\ disk = [ok |-> disk.ok, state |-> disk.state]
    /\ disk.ok \in BOOLEAN
    /\ up \in BOOLEAN
    /\ RoomForAll => disk.ok
    /\ Synced
    /\ pending = {} \/ \E a \in 1..MaxGrant : pending = {[type |-> "Transaction", amount |-> a]}
    /\ actor \in [Request -> Member \cup {None}]
    /\ AskersKnown

-----------------------------------------------------------------------------

\* What the assumption on the constants says of each.
LEMMA ConstantsType ==
    /\ MaxUsers \in Nat \ {0} /\ MaxGrant \in Nat /\ MaxIssued \in Nat
    /\ None \notin Name
BY HouseholdAssumption DEF HouseholdAssumption

\* A household before provisioning is sound.
LEMMA EmptySound == Sound(Empty)
<1>1. Empty.users = {} /\ Empty \in State
  BY ConstantsType DEF Empty, State
<1>2. IsFiniteSet({}) /\ Cardinality({}) = 0
  BY FS_EmptySet
<1> QED
  BY <1>1, <1>2, ConstantsType DEF Sound, GovernedIn, UniqueIn

\* A service opened on an empty journal satisfies the invariant.
LEMMA InitIInv == Init => IInv
<1> SUFFICES ASSUME Init PROVE IInv
  OBVIOUS
<1>1. Sound(live) /\ disk = [ok |-> TRUE, state |-> live]
  BY EmptySound DEF Init, Done
<1> QED
  BY <1>1 DEF Init, IInv, Synced, AskersKnown, NoRequest

\* What replaying an event from a sound state may do.
Step(s, e) ==
    /\ ApplyEvent(s, e) = [ok |-> ApplyEvent(s, e).ok, state |-> ApplyEvent(s, e).state]
    /\ ApplyEvent(s, e).ok \in BOOLEAN
    /\ RoomForAll => ApplyEvent(s, e).ok
    /\ Sound(ApplyEvent(s, e).state)
    /\ s.users # {} => ApplyEvent(s, e).state.users # {}

PendingOK == pending = {} \/ \E a \in 1..MaxGrant : pending = {[type |-> "Transaction", amount |-> a]}

\* An append that is acknowledged: RAM and the journal move together.
LEMMA Committed ==
    ASSUME IInv, up, NEW e, Step(live, e), Log!Commit(live, e), PendingOK',
           NEW after \in [Request -> Member \cup {None}], actor' = after,
           \A r \in Request : after[r] # None => live.users # {}
    PROVE  IInv'
<1>1. live' = ApplyEvent(live, e).state /\ up' = up
  BY DEF Log!Commit
<1>2. disk' = IF disk.ok THEN ApplyEvent(disk.state, e) ELSE disk
  BY DEF Log!Commit, Log!Replayed
<1>3. CASE disk.ok
  <2>1. disk' = ApplyEvent(live, e)
    BY <1>2, <1>3 DEF IInv, Synced
  <2> QED
    BY <1>1, <2>1 DEF IInv, Synced, AskersKnown, Step, PendingOK
<1>4. CASE ~disk.ok
  BY <1>1, <1>2, <1>4 DEF IInv, Synced, AskersKnown, Step, PendingOK
<1> QED
  BY <1>3, <1>4

\* An append that fails, or that is found by the boot after it.
LEMMA NotCommitted ==
    ASSUME IInv, up, NEW e, Step(live, e), PendingOK',
           NEW after \in [Request -> Member \cup {None}], AppendFails(e, after),
           \A r \in Request : after[r] # None => live.users # {}
    PROVE  IInv'
<1>1. CASE Log!CommitFails(live) /\ actor' = after
  BY <1>1 DEF Log!CommitFails, IInv, Synced, AskersKnown, PendingOK
<1>2. CASE Log!FoundAtBoot(e) /\ actor' = NoRequest
  <2>1. /\ disk' = IF disk.ok THEN ApplyEvent(disk.state, e) ELSE disk
        /\ live' = disk'.state
        /\ up' = disk'.ok
    BY <1>2 DEF Log!FoundAtBoot, Log!Boot, Log!Replayed
  <2>2. /\ disk' = [ok |-> disk'.ok, state |-> disk'.state]
        /\ disk'.ok \in BOOLEAN
        /\ RoomForAll => disk'.ok
        /\ Sound(disk'.state)
    <3>1. CASE disk.ok
      BY <2>1, <3>1 DEF IInv, Synced, Step
    <3>2. CASE ~disk.ok
      BY <2>1, <3>2 DEF IInv
    <3> QED
      BY <3>1, <3>2
  <2>3. actor' \in [Request -> Member \cup {None}] /\ AskersKnown'
    BY <1>2 DEF NoRequest, AskersKnown
  <2> QED
    BY <2>1, <2>2, <2>3 DEF IInv, Synced, PendingOK
<1> QED
  BY <1>1, <1>2 DEF AppendFails

\* An event that takes sound states to sound states keeps the invariant, however its append ends.
LEMMA Appended ==
    ASSUME IInv, up, NEW e, Step(live, e), PendingOK',
           NEW after \in [Request -> Member \cup {None}], AppendEvent(e, after),
           \A r \in Request : after[r] # None => live.users # {}
    PROVE  IInv'
BY Committed, NotCommitted DEF AppendEvent

\* A request that was answered knows of its actor what it knew.
LEMMA AnsweredType ==
    ASSUME IInv, NEW r \in Request
    PROVE  /\ Answered(r) \in [Request -> Member \cup {None}]
           /\ \A q \in Request : Answered(r)[q] # None => live.users # {}
BY DEF IInv, AskersKnown, Answered

-----------------------------------------------------------------------------
(* The events. *)

\* What ApplyEvent has to give back for an event to be a sound step.
LEMMA StepTo ==
    ASSUME NEW s, NEW e, NEW b \in BOOLEAN, NEW t, ApplyEvent(s, e) = [ok |-> b, state |-> t],
           Sound(t), s.users # {} => t.users # {}, RoomForAll => b
    PROVE  Step(s, e)
<1>1. ApplyEvent(s, e).ok = b /\ ApplyEvent(s, e).state = t
  OBVIOUS
<1> QED
  BY <1>1 DEF Step

\* Members have different names, so with a row for every name there is one for a
\* member with a new name.
LEMMA RoomLeft ==
    ASSUME NEW s, Sound(s), NEW m \in Member, Named(s, m.name) = {}, RoomForAll
    PROVE  Cardinality(s.users) # MaxUsers
<1> DEFINE others == Name \ {m.name}
           f == [u \in s.users |-> u.name]
<1>1. m.name \in Name
  BY DEF Member
<1>2. f \in [s.users -> others]
  BY DEF Sound, State, Member, Named
<1>3. f \in Injection(s.users, others)
  BY <1>2 DEF Injection, IsInjective, Sound, UniqueIn
<1>4. IsFiniteSet(others) /\ Cardinality(others) = Cardinality(Name) - 1
  BY <1>1, FS_RemoveElement DEF RoomForAll
<1> HIDE DEF f, others
<1>5. Cardinality(s.users) <= Cardinality(others)
  BY <1>3, <1>4, FS_Injection
<1>6. Cardinality(s.users) \in Nat /\ Cardinality(Name) \in Nat
  BY FS_CardinalityType DEF Sound, RoomForAll
<1> QED
  BY <1>4, <1>5, <1>6, ConstantsType DEF RoomForAll

\* A new member under a name that is free, of whom the first is Nana.
LEMMA CreatedStep ==
    ASSUME NEW s, Sound(s), NEW m \in Member, Named(s, m.name) = {},
           s.users # {} \/ (m.nana /\ m.active),
           NEW e, e = [type |-> "UserCreated", user |-> m]
    PROVE  Step(s, e)
<1>0. ApplyEvent(s, e) = ApplyUserCreated(s, e) /\ e.user = m
  BY DEF ApplyEvent
<1>1. CASE Cardinality(s.users) = MaxUsers
  <2>1. ApplyEvent(s, e) = [ok |-> FALSE, state |-> s]
    BY <1>0, <1>1 DEF ApplyUserCreated, Refused
  <2> QED
    BY <1>1, <2>1, RoomLeft, StepTo
<1>2. CASE Cardinality(s.users) # MaxUsers
  <2> DEFINE t == [s EXCEPT !.users = @ \cup {m}]
  <2>1. ApplyEvent(s, e) = [ok |-> TRUE, state |-> t]
    BY <1>0, <1>2 DEF ApplyUserCreated, Done
  <2>2. t.users = s.users \cup {m} /\ t \in State
    BY DEF Sound, State
  <2> HIDE DEF t
  <2>3. IsFiniteSet(t.users) /\ Cardinality(t.users) <= MaxUsers
    <3>1. m \notin s.users
      BY DEF Named
    <3>2. IsFiniteSet(t.users) /\ Cardinality(t.users) = Cardinality(s.users) + 1
      BY <2>2, <3>1, FS_AddElement DEF Sound
    <3> QED
      BY <1>2, <3>2, ConstantsType, FS_CardinalityType DEF Sound
  <2>4. UniqueIn(t)
    BY <2>2 DEF Sound, UniqueIn, Named
  <2>5. GovernedIn(t)
    BY <2>2 DEF Sound, GovernedIn, ActiveNanas
  <2> QED
    BY <2>1, <2>2, <2>3, <2>4, <2>5, StepTo DEF Sound
<1> QED
  BY <1>1, <1>2

\* With two enabled Nanas, one is left whoever changes.
LEMMA OneLeft ==
    ASSUME NEW s, Sound(s), NEW m, ~(Cardinality(ActiveNanas(s)) < 2)
    PROVE  ActiveNanas(s) \ {m} # {}
<1>1. ActiveNanas(s) \in SUBSET s.users
  BY DEF ActiveNanas
<1>2. IsFiniteSet(ActiveNanas(s)) /\ Cardinality(ActiveNanas(s)) \in Nat
  BY <1>1, FS_Subset, FS_CardinalityType DEF Sound
<1>3. Cardinality(ActiveNanas(s) \ {m}) >= 1
  BY <1>2, FS_RemoveElement
<1> QED
  BY <1>3, FS_EmptySet

\* A member changed by UpdateUser, with the guards on the last Nana.
LEMMA UpdatedStep ==
    ASSUME NEW s, Sound(s), NEW m \in s.users, NEW nana \in BOOLEAN, NEW active \in BOOLEAN,
           NEW e, e = [type |-> "UserUpdated", name |-> m.name, nana |-> nana, active |-> active],
           ~active /\ m.active => ~(m.nana /\ Cardinality(ActiveNanas(s)) < 2),
           ~nana /\ m.nana => ~(m.nana /\ Cardinality(ActiveNanas(s)) < 2)
    PROVE  Step(s, e)
<1> DEFINE n == [m EXCEPT !.nana = nana, !.active = active]
           t == [s EXCEPT !.users = (@ \ {m}) \cup {n}]
<1>1. m \in Member /\ n \in Member /\ n.name = m.name /\ n.nana = nana /\ n.active = active
  BY DEF Sound, State, Member
<1>2. ApplyEvent(s, e) = Done(t)
  <2>1. ApplyEvent(s, e) = ApplyUserUpdated(s, e)
    BY DEF ApplyEvent
  <2>2. m \in Named(s, e.name)
    BY DEF Named
  <2>3. (CHOOSE k \in s.users : k.name = e.name) = m
    BY DEF Sound, UniqueIn
  <2> QED
    BY <2>1, <2>2, <2>3 DEF ApplyUserUpdated
<1>3. t.users = (s.users \ {m}) \cup {n} /\ t \in State
  BY <1>1 DEF Sound, State
<1> HIDE DEF t, n
<1>4. IsFiniteSet(t.users) /\ Cardinality(t.users) <= MaxUsers
  <2>1. /\ IsFiniteSet(s.users \ {m})
        /\ Cardinality(s.users \ {m}) = Cardinality(s.users) - 1
    BY FS_RemoveElement DEF Sound
  <2> DEFINE R == s.users \ {m}
  <2>2. /\ IsFiniteSet(R \cup {n})
        /\ Cardinality(R \cup {n}) = IF n \in R THEN Cardinality(R) ELSE Cardinality(R) + 1
    <3> HIDE DEF R
    <3> QED
      BY <2>1, FS_AddElement DEF R
  <2>3. Cardinality(s.users) \in Nat
    BY FS_CardinalityType DEF Sound
  <2> QED
    BY <1>3, <2>1, <2>2, <2>3, ConstantsType DEF Sound
<1>5. UniqueIn(t)
  BY <1>1, <1>3 DEF Sound, UniqueIn
<1>6. ActiveNanas(t) # {}
  <2>1. CASE nana /\ active
    BY <1>1, <1>3, <2>1 DEF ActiveNanas
  <2>2. CASE ~(nana /\ active)
    <3>1. ActiveNanas(s) \ {m} \subseteq ActiveNanas(t)
      BY <1>3 DEF ActiveNanas
    <3>2. ActiveNanas(s) \ {m} # {}
      <4>1. CASE m.nana /\ m.active
        BY <2>2, <4>1, OneLeft
      <4>2. CASE ~(m.nana /\ m.active)
        BY <4>2 DEF ActiveNanas, Sound, GovernedIn
      <4> QED
        BY <4>1, <4>2
    <3> QED
      BY <3>1, <3>2
  <2> QED
    BY <2>1, <2>2
<1> QED
  <2>1. Sound(t) /\ t.users # {}
    BY <1>3, <1>4, <1>5, <1>6 DEF Sound, GovernedIn
  <2> QED
    BY <1>2, <2>1, StepTo DEF Done

\* Neither the configuration nor the coins have to do with the members.
LEMMA OtherStep ==
    ASSUME NEW s, Sound(s), NEW e,
           \/ e.type = "ConfigUpdated" /\ e.grant \in 0..MaxGrant
           \/ e.type = "Transaction" /\ e.amount \in 0..MaxGrant /\ s.issued + e.amount <= MaxIssued
    PROVE  Step(s, e)
<1>1. CASE e.type = "ConfigUpdated" /\ e.grant \in 0..MaxGrant
  <2> DEFINE t == [s EXCEPT !.grant = e.grant]
  <2>1. ApplyEvent(s, e) = Done(t)
    BY <1>1 DEF ApplyEvent, ApplyConfigUpdated
  <2>2. t \in State /\ t.users = s.users
    BY <1>1 DEF Sound, State
  <2> HIDE DEF t
  <2>3. Sound(t)
    BY <2>2 DEF Sound, GovernedIn, UniqueIn, ActiveNanas
  <2> QED
    BY <2>1, <2>2, <2>3, StepTo DEF Done
<1>2. CASE e.type = "Transaction" /\ e.amount \in 0..MaxGrant /\ s.issued + e.amount <= MaxIssued
  <2> DEFINE t == [s EXCEPT !.issued = @ + e.amount]
  <2>1. ApplyEvent(s, e) = Done(t)
    BY <1>2 DEF ApplyEvent, ApplyTransaction
  <2>2. t \in State /\ t.users = s.users
    BY <1>2, ConstantsType DEF Sound, State
  <2> HIDE DEF t
  <2>3. Sound(t)
    BY <2>2 DEF Sound, GovernedIn, UniqueIn, ActiveNanas
  <2> QED
    BY <2>1, <2>2, <2>3, StepTo DEF Done
<1> QED
  BY <1>1, <1>2

-----------------------------------------------------------------------------
(* The actions. *)

\* Adding a member keeps the invariant: the first one is Nana.
LEMMA AddMemberStep ==
    ASSUME IInv, Idle, NEW name \in Name, NEW nana \in BOOLEAN, NEW grant \in BOOLEAN,
           live.users # {} \/ nana,
           NEW after \in [Request -> Member \cup {None}],
           \A r \in Request : after[r] # None => live.users # {},
           Create(name, nana, grant, after)
    PROVE  IInv'
<1> DEFINE m == [name |-> name, nana |-> nana, active |-> TRUE]
           e == [type |-> "UserCreated", user |-> m]
<1>1. m \in Member /\ m.name = name /\ m.nana = nana /\ m.active
  BY DEF Member
<1>2. Step(live, e)
  BY <1>1, CreatedStep DEF Create, IInv
<1>3. CASE /\ Log!Commit(live, e) /\ actor' = after
           /\ pending' = IF grant /\ live.grant > 0 /\ ApplyEvent(live, e).ok
                         THEN {[type |-> "Transaction", amount |-> live.grant]} ELSE {}
  <2>1. live.grant \in 0..MaxGrant
    BY DEF IInv, Sound, State
  <2>2. PendingOK'
    <3>1. CASE pending' = {}
      BY <3>1 DEF PendingOK
    <3>2. CASE live.grant > 0 /\ pending' = {[type |-> "Transaction", amount |-> live.grant]}
      <4>1. live.grant \in 1..MaxGrant
        BY <2>1, <3>2, ConstantsType
      <4> QED
        BY <3>2, <4>1 DEF PendingOK
    <3> QED
      BY <1>3, <3>1, <3>2
  <2> HIDE DEF e
  <2> QED
    BY <1>2, <1>3, <2>2, Committed DEF Idle
<1>4. CASE AppendFails(e, after) /\ UNCHANGED pending
  <2>1. PendingOK'
    BY <1>4 DEF PendingOK, Idle
  <2> HIDE DEF e
  <2> QED
    BY <1>2, <1>4, <2>1, NotCommitted DEF Idle
<1> QED
  BY <1>3, <1>4 DEF Create, AddMember

\* Provisioning adds Nana.
LEMMA ProvisionStep ==
    ASSUME IInv, NEW name \in Name, Provision(name)
    PROVE  IInv'
BY AddMemberStep DEF Provision, IInv, AskersKnown

\* A request by Nana adds a member.
LEMMA CreateUserStep ==
    ASSUME IInv, NEW r \in Request, NEW name \in Name, NEW nana \in BOOLEAN, NEW grant \in BOOLEAN,
           CreateUser(r, name, nana, grant)
    PROVE  IInv'
<1>1. live.users # {}
  BY DEF CreateUser, IInv, AskersKnown
<1> QED
  BY <1>1, AnsweredType, AddMemberStep DEF CreateUser

\* The grant owed to a new member is appended.
LEMMA GrantFinishStep ==
    ASSUME IInv, GrantFinish
    PROVE  IInv'
<1>1. PICK e \in pending : live.issued + e.amount <= MaxIssued /\ AppendEvent(e, actor)
  BY DEF GrantFinish
<1>2. e.type = "Transaction" /\ e.amount \in 0..MaxGrant
  BY ConstantsType DEF IInv
<1>3. Step(live, e)
  BY <1>1, <1>2, OtherStep DEF IInv
<1>4. PendingOK'
  BY DEF GrantFinish, PendingOK
<1>5. actor \in [Request -> Member \cup {None}] /\ \A r \in Request : actor[r] # None => live.users # {}
  BY DEF IInv, AskersKnown
<1> QED
  BY <1>1, <1>3, <1>4, <1>5, Appended DEF GrantFinish

\* A member changes role or is disabled, but not the last enabled Nana.
LEMMA UpdateUserStep ==
    ASSUME IInv, NEW r \in Request, NEW name \in Name, NEW nana \in BOOLEAN, NEW active \in BOOLEAN,
           UpdateUser(r, name, nana, active)
    PROVE  IInv'
<1> DEFINE e == [type |-> "UserUpdated", name |-> name, nana |-> nana, active |-> active]
<1>1. PICK m \in Named(live, name) :
          /\ ~active /\ m.active => ~LastNana(m)
          /\ ~nana /\ m.nana => ~LastNana(m)
  BY DEF UpdateUser
<1>2. m \in live.users /\ m.name = name
  BY DEF Named
<1>3. Step(live, e)
  BY <1>1, <1>2, UpdatedStep DEF IInv, LastNana
<1>4. PendingOK' /\ up /\ AppendEvent(e, Answered(r))
  BY DEF UpdateUser, Idle, PendingOK
<1> HIDE DEF e
<1> QED
  BY <1>3, <1>4, AnsweredType, Appended

\* The initial grant is changed.
LEMMA SetConfigStep ==
    ASSUME IInv, NEW r \in Request, NEW grant \in 0..MaxGrant, SetConfig(r, grant)
    PROVE  IInv'
<1> DEFINE e == [type |-> "ConfigUpdated", grant |-> grant]
<1>1. Step(live, e)
  BY OtherStep DEF IInv
<1>2. PendingOK' /\ up /\ AppendEvent(e, Answered(r))
  BY DEF SetConfig, Idle, PendingOK
<1> HIDE DEF e
<1> QED
  BY <1>1, <1>2, AnsweredType, Appended

\* Nana issues an amount to a member.
LEMMA IssueStep ==
    ASSUME IInv, NEW r \in Request, NEW name \in Name, NEW amount \in 1..MaxGrant, Issue(r, name, amount)
    PROVE  IInv'
<1> DEFINE e == [type |-> "Transaction", amount |-> amount]
<1>1. e.type = "Transaction" /\ e.amount \in 0..MaxGrant /\ live.issued + e.amount <= MaxIssued
  BY ConstantsType DEF Issue
<1>2. PendingOK' /\ up /\ AppendEvent(e, Answered(r))
  BY DEF Issue, Idle, PendingOK
<1> HIDE DEF e
<1>3. Step(live, e)
  BY <1>1, OtherStep DEF IInv
<1> QED
  BY <1>2, <1>3, AnsweredType, Appended

\* Requests come and go; the household does not change.
LEMMA ArriveStep ==
    ASSUME IInv, NEW r \in Request, NEW name \in Name, Arrive(r, name)
    PROVE  IInv'
<1>1. PICK m \in Named(live, name) : m.active /\ actor' = [actor EXCEPT ![r] = m]
  BY DEF Arrive
<1>2. m \in live.users /\ m \in Member
  BY DEF Named, IInv, Sound, State
<1> QED
  BY <1>1, <1>2 DEF Arrive, IInv, Synced, AskersKnown

\* A request that is refused changes nothing.
LEMMA RefuseStep ==
    ASSUME IInv, NEW r \in Request, Refuse(r)
    PROVE  IInv'
BY AnsweredType DEF Refuse, IInv, Synced, AskersKnown

\* A grant that is refused is owed no more.
LEMMA GrantRefusedStep ==
    ASSUME IInv, GrantRefused
    PROVE  IInv'
BY DEF GrantRefused, IInv, Synced, AskersKnown

\* A boot replays the journal.
LEMMA RestartStep ==
    ASSUME IInv, Restart
    PROVE  IInv'
BY DEF Restart, Log!Reboot, Log!Boot, NoRequest, IInv, Synced, AskersKnown

\* Every step keeps the invariant.
LEMMA NextIInv == IInv /\ [Next]_vars => IInv'
<1> SUFFICES ASSUME IInv, [Next]_vars PROVE IInv'
  OBVIOUS
<1>1. CASE Next
  BY <1>1, ArriveStep, RefuseStep, ProvisionStep, CreateUserStep, GrantFinishStep, GrantRefusedStep,
     UpdateUserStep, SetConfigStep, IssueStep, RestartStep DEF Next
<1>2. CASE UNCHANGED vars
  BY <1>2 DEF vars, IInv, Synced, AskersKnown
<1> QED
  BY <1>1, <1>2

\* The invariant holds throughout.
LEMMA Invariance == Spec => []IInv
BY InitIInv, NextIInv, PTL DEF Spec

-----------------------------------------------------------------------------

\* The household never has more members than rows, the coins ever issued stay
\* within their bound, and at most one append is owed.
THEOREM TypeCorrect == Spec => []TypeOK
<1>1. IInv => TypeOK
  <2> SUFFICES ASSUME IInv PROVE TypeOK
    OBVIOUS
  <2>1. Cardinality(pending) <= 1
    <3>1. CASE pending = {}
      BY <3>1, FS_EmptySet
    <3>2. CASE \E a \in 1..MaxGrant : pending = {[type |-> "Transaction", amount |-> a]}
      <4>1. PICK e : pending = {e}
        BY <3>2
      <4> QED
        BY <4>1, FS_Singleton
    <3> QED
      BY <3>1, <3>2 DEF IInv
  <2> QED
    BY <2>1 DEF IInv, TypeOK, StateOK, Sound, State
<1> QED
  BY <1>1, Invariance, PTL

\* UpdateUser and Provision: a household with members has an enabled Nana, in RAM
\* and in the journal, whatever requests with old copies of their actors do.
THEOREM Governed == Spec => []AlwaysGoverned
<1>1. IInv => AlwaysGoverned
  BY DEF IInv, Sound, GovernedIn, AlwaysGoverned
<1> QED
  BY <1>1, Invariance, PTL

\* createUserLocked: a username is one member, however requests overlap.
THEOREM Unique == Spec => []NamesUnique
<1>1. IInv => NamesUnique
  BY DEF IInv, Sound, UniqueIn, NamesUnique
<1> QED
  BY <1>1, Invariance, PTL

\* With a row for every username a reboot at any point, also between the appends
\* of createUserLocked, gives back the members, the configuration and the coins.
THEOREM RebootKeeps ==
    ASSUME RoomForAll
    PROVE  Spec => []RebootKeepsHousehold
<1>1. IInv => RebootKeepsHousehold
  BY RoomForAll DEF IInv, Synced, RebootKeepsHousehold, Done
<1> QED
  BY <1>1, Invariance, PTL

=============================================================================
