----------------------------- MODULE PartyPeople ----------------------------
(***************************************************************************)
(* The accounts of a party board (party/api/src/state.rs), their sessions  *)
(* and households, and how a request finds out who is calling (api.rs).    *)
(*                                                                         *)
(* A request reads its caller under the lock, gives the lock up, and takes *)
(* it again for its change: what it knows of the caller's role may be out  *)
(* of date by then.  A PIN sign-in likewise checks the PIN first and makes *)
(* the session afterwards.  Names, emails and PINs are not told apart; a   *)
(* person has a PIN or none.                                               *)
(*                                                                         *)
(* Somebody may also sign in with an account of another instance           *)
(* (identity.rs).  The instance answers much later than the board asked,   *)
(* so what the sign-in was meant for is acted upon whatever has changed    *)
(* since.  An account is its instance and the number it has there; its     *)
(* handle is the account again, as somebody who knows the handle means it. *)
(***************************************************************************)
EXTENDS Integers, FiniteSets, Sequences, SequencesExt

CONSTANTS
    Person,
    Household,
    Host, Subject,      \* instances, and account numbers on them
    MaxIdentities,      \* MAX_IDENTITIES
    None

VARIABLES
    people,       \* State.people, and None for who is not on the board
    sessions,     \* who has a session
    request,      \* the request of each person, once it knows its caller
    households,   \* State.households
    identities    \* StoredPerson.identities

peopleVars == <<people, sessions, request, households, identities>>

Active == "active"
Disabled == "disabled"
Invited == "invited"

StoredPerson == [status : {Active, Disabled, Invited}, admin : BOOLEAN, pin : BOOLEAN,
                 household : Household \cup {None}]

OnBoard == {p \in Person : people[p] # None}
ActiveAdmins == {p \in OnBoard : people[p].admin /\ people[p].status = Active}

\* What a request knows: nothing yet, its caller, or that a PIN was right.
NoRequest == None
Caller(admin) == [caller |-> TRUE, admin |-> admin]
PinRight == [caller |-> FALSE, admin |-> FALSE]

-----------------------------------------------------------------------------
(* Who is calling. *)

\* viewer: a disabled person is signed out.
Viewer(p) ==
    /\ p \in sessions
    /\ request[p] = NoRequest
    /\ IF people[p].status = Active
       THEN /\ request' = [request EXCEPT ![p] = Caller(people[p].admin)]
            /\ UNCHANGED sessions
       ELSE /\ sessions' = sessions \ {p}
            /\ UNCHANGED request
    /\ UNCHANGED <<people, households, identities>>

\* The request of a signed-in person, which its change ends.
As(p) ==
    /\ request[p] # NoRequest
    /\ request[p].caller
    /\ request' = [request EXCEPT ![p] = NoRequest]

AsAdmin(p) == As(p) /\ request[p].admin

-----------------------------------------------------------------------------
(* Accounts. *)

NewPerson(status, admin, pin) ==
    [status |-> status, admin |-> admin, pin |-> pin, household |-> None]

\* create_person, and the session of whoever made the account.
Enter(p, admin) ==
    /\ people[p] = None
    /\ people' = [people EXCEPT ![p] = NewPerson(Active, admin, TRUE)]
    /\ sessions' = sessions \cup {p}

\* setup: the first account is the admin's.
Setup(p) ==
    /\ OnBoard = {}
    /\ Enter(p, TRUE)
    /\ UNCHANGED <<request, households, identities>>

\* signup
Signup(p) ==
    /\ OnBoard # {}
    /\ Enter(p, FALSE)
    /\ UNCHANGED <<request, households, identities>>

\* add_person: someone without a PIN, made by an admin or an organizer.
AddPerson(actor, p) ==
    /\ As(actor)
    /\ people[p] = None
    /\ people' = [people EXCEPT ![p] = NewPerson(Invited, FALSE, FALSE)]
    /\ UNCHANGED <<sessions, households, identities>>

\* signup_invited, for the person the invitation names.
SignupInvited(p) ==
    /\ people[p] # None /\ people[p].status = Invited
    /\ people' = [people EXCEPT ![p].status = Active, ![p].pin = TRUE]
    /\ sessions' = sessions \cup {p}
    /\ UNCHANGED <<request, households, identities>>

\* change_pin
ChangePin(p) ==
    /\ As(p)
    /\ people' = [people EXCEPT ![p].pin = TRUE]
    /\ UNCHANGED <<sessions, households, identities>>

\* pin_sign_in, up to where the lock is given up.
CheckPin(p) ==
    /\ p \in OnBoard
    /\ request[p] = NoRequest
    /\ people[p].pin /\ people[p].status = Active
    /\ request' = [request EXCEPT ![p] = PinRight]
    /\ UNCHANGED <<people, sessions, households, identities>>

\* sign_in
SignIn(p) ==
    /\ request[p] = PinRight
    /\ request' = [request EXCEPT ![p] = NoRequest]
    /\ sessions' = sessions \cup {p}
    /\ UNCHANGED <<people, households, identities>>

\* A sign-out is done for whoever the session says.
Logout(p) ==
    /\ p \in sessions
    /\ sessions' = sessions \ {p}
    /\ UNCHANGED <<people, request, households, identities>>

-----------------------------------------------------------------------------
(* What an admin changes of a person. *)

Change == [admin : BOOLEAN \cup {None}, disabled : BOOLEAN \cup {None}, pin : BOOLEAN, signOut : BOOLEAN]

\* admin_update, as far as it goes on a copy.
Changed(person, change) ==
    LET role == IF change.admin = None THEN person ELSE [person EXCEPT !.admin = change.admin]
        stat == IF change.disabled = None THEN role
                ELSE [role EXCEPT !.status = IF change.disabled THEN Disabled ELSE Active]
    IN  IF ~change.pin THEN stat
        ELSE [stat EXCEPT !.pin = TRUE, !.status = IF @ = Invited THEN Active ELSE @]

IsActiveAdmin(person) == person.admin /\ person.status = Active

\* The mutant of AdminUpdate: whether the caller counts himself out is not asked.
AdminUpdateOther(actor, p, change) ==
    /\ AsAdmin(actor)
    /\ p \in OnBoard
    /\ LET next == Changed(people[p], change)
       IN  /\ IsActiveAdmin(people[p]) /\ ~IsActiveAdmin(next) => actor # p \/ Cardinality(ActiveAdmins) > 1
           /\ p = actor => next.status # Disabled
           /\ people' = [people EXCEPT ![p] = next]
           /\ sessions' = IF change.signOut \/ next.status = Disabled THEN sessions \ {p} ELSE sessions
    /\ UNCHANGED <<households, identities>>

\* admin_update: the last active admin stays one, and nobody disables himself.
AdminUpdate(actor, p, change) ==
    /\ AsAdmin(actor)
    /\ p \in OnBoard
    /\ LET next == Changed(people[p], change)
       IN  /\ IsActiveAdmin(people[p]) /\ ~IsActiveAdmin(next) => Cardinality(ActiveAdmins) > 1
           /\ p = actor => next.status # Disabled
           /\ people' = [people EXCEPT ![p] = next]
           /\ sessions' = IF change.signOut \/ next.status = Disabled THEN sessions \ {p} ELSE sessions
    /\ UNCHANGED <<households, identities>>

-----------------------------------------------------------------------------
(* Households. *)

CreateHousehold(actor, h) ==
    /\ AsAdmin(actor)
    /\ h \notin households
    /\ households' = households \cup {h}
    /\ UNCHANGED <<people, sessions, identities>>

\* delete_household: its people are in none.
DeleteHousehold(actor, h) ==
    /\ AsAdmin(actor)
    /\ h \in households
    /\ households' = households \ {h}
    /\ people' = [p \in Person |-> IF p \in OnBoard /\ people[p].household = h
                                   THEN [people[p] EXCEPT !.household = None] ELSE people[p]]
    /\ UNCHANGED <<sessions, identities>>

\* set_household
SetHousehold(actor, p, h) ==
    /\ AsAdmin(actor)
    /\ p \in OnBoard
    /\ h \in households \cup {None}
    /\ people' = [people EXCEPT ![p].household = h]
    /\ UNCHANGED <<sessions, households, identities>>

-----------------------------------------------------------------------------
(* Accounts of other instances. *)

Account == [host : Host, subject : Subject]
Identity == [account : Account, handle : Account]

IdentitiesOf(p) == Range(identities[p])
Owners(account) == {p \in OnBoard : \E i \in IdentitiesOf(p) : i.account = account}

\* link_identity
Linkable(p, account) ==
    /\ p \in OnBoard
    /\ Owners(account) \subseteq {p}
    /\ Owners(account) = {} => Len(identities[p]) < MaxIdentities

WithAccount(p, account) ==
    IF p \in Owners(account) THEN identities
    ELSE [identities EXCEPT ![p] = Append(@, [account |-> account, handle |-> account])]

\* finish_sign_in of a "link:", for whoever started it.
FinishLink(p, account) ==
    /\ Linkable(p, account)
    /\ identities' = WithAccount(p, account)
    /\ UNCHANGED <<people, sessions, request, households>>

\* unlink_identity: never the only way in.
UnlinkIdentity(p, handle) ==
    /\ As(p)
    /\ \E i \in IdentitiesOf(p) : i.handle = handle
    /\ identities' = [identities EXCEPT ![p] = SelectSeq(@, LAMBDA i : i.handle # handle)]
    /\ people[p].pin \/ identities'[p] # <<>>
    /\ UNCHANGED <<people, sessions, households>>

\* finish_sign_in of a "signin": the first identity with that number gets the handle.
FinishSignIn(account) ==
    /\ \E p \in Owners(account) :
         /\ people[p].status = Active
         /\ LET at == CHOOSE n \in DOMAIN identities[p] :
                         /\ identities[p][n].account.subject = account.subject
                         /\ \A m \in 1..n - 1 : identities[p][m].account.subject # account.subject
            IN  identities' = [identities EXCEPT ![p][at].handle = account]
         /\ sessions' = sessions \cup {p}
    /\ UNCHANGED <<people, request, households>>

\* finish_sign_in of a "redeem:" by somebody the board knows, or whom the invitation
\* names (invite_person): who was only invited is active from now on.
FinishRedeem(p, account) ==
    /\ p \in OnBoard
    /\ \/ p \in Owners(account)
       \/ Owners(account) = {} /\ people[p].status = Invited /\ Linkable(p, account)
    /\ people[p].status # Disabled
    /\ identities' = WithAccount(p, account)
    /\ people' = [people EXCEPT ![p].status = Active]
    /\ sessions' = sessions \cup {p}
    /\ UNCHANGED <<request, households>>

\* finish_sign_in of a "redeem:" by a stranger (person_from): a new person without a PIN.
RedeemStranger(p, account) ==
    /\ OnBoard # {} /\ people[p] = None
    /\ Owners(account) = {}
    /\ people' = [people EXCEPT ![p] = NewPerson(Active, FALSE, FALSE)]
    /\ identities' = [identities EXCEPT ![p] = <<[account |-> account, handle |-> account]>>]
    /\ sessions' = sessions \cup {p}
    /\ UNCHANGED <<request, households>>

\* A request that is refused, or changes nothing.
GiveUp(p) ==
    /\ request[p] # NoRequest
    /\ request' = [request EXCEPT ![p] = NoRequest]
    /\ UNCHANGED <<people, sessions, households, identities>>

Init ==
    /\ people = [p \in Person |-> None]
    /\ sessions = {}
    /\ request = [p \in Person |-> NoRequest]
    /\ households = {}
    /\ identities = [p \in Person |-> <<>>]

Next ==
    \/ \E p \in Person :
         \/ Viewer(p) \/ Setup(p) \/ Signup(p) \/ SignupInvited(p) \/ ChangePin(p)
         \/ CheckPin(p) \/ SignIn(p) \/ Logout(p) \/ GiveUp(p)
    \/ \E p \in Person, account \in Account :
         \/ FinishLink(p, account) \/ UnlinkIdentity(p, account)
         \/ FinishRedeem(p, account) \/ RedeemStranger(p, account)
    \/ \E account \in Account : FinishSignIn(account)
    \/ \E actor, p \in Person : AddPerson(actor, p)
    \/ \E actor, p \in Person, change \in Change : AdminUpdate(actor, p, change)
    \/ \E actor \in Person, h \in Household : CreateHousehold(actor, h) \/ DeleteHousehold(actor, h)
    \/ \E actor, p \in Person, h \in Household \cup {None} : SetHousehold(actor, p, h)

Spec == Init /\ [][Next]_peopleVars

-----------------------------------------------------------------------------
(* Properties. *)

TypeOK ==
    /\ \A p \in Person : people[p] \in StoredPerson \cup {None}
    /\ sessions \subseteq OnBoard
    /\ \A p \in Person : request[p] # NoRequest => p \in OnBoard
    /\ households \subseteq Household
    /\ \A p \in Person : IdentitiesOf(p) \subseteq Identity /\ Len(identities[p]) <= MaxIdentities

\* A board that was set up keeps an active admin, though admins act on each other
\* at once and a request may still hold a role its caller has lost meanwhile
\* (state.rs: "party needs at least one active admin"); and nobody is in a
\* household that is gone.
SomeoneInCharge ==
    /\ OnBoard # {} => ActiveAdmins # {}
    /\ \A p \in OnBoard : people[p].household \in households \cup {None}

HasWayIn(p) == people[p].pin \/ identities[p] # <<>>

\* Nobody loses the last way to sign in (identity.rs: "Set a PIN first: this is your
\* only way in"), and an account never comes to sign in two people.
WayInIsKept ==
    /\ \A p \in OnBoard : HasWayIn(p) => HasWayIn(p)'
    /\ \A account \in Account : Cardinality(Owners(account)') <= 1

\* Who is active has a way to sign in: an invited person becomes active by getting one
\* (invites.rs: "redeeming it later activates that person").
ActiveGetsIn == \A p \in OnBoard : people[p].status = Active => HasWayIn(p)

\* An identity keeps the handle of its own account (identity.rs: "Handles can change
\* by instance migration; keep the newest").
HandlesAreOwn == \A p \in OnBoard : \A i \in IdentitiesOf(p) : i.handle = i.account
=============================================================================
