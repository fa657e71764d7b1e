----------------------------- MODULE PartyGroups ----------------------------
(***************************************************************************)
(* The groups of a party board, who belongs to them with which role        *)
(* (party/api/src/groups.rs), and the invitations that bring people into   *)
(* one (invites.rs).                                                       *)
(*                                                                         *)
(* A person is an admin or not for good, and is known from the start; names, *)
(* kinds and texts of a group are left out.  An invitation is its token:   *)
(* whoever holds it may redeem it, also after its sender lost the role     *)
(* that let him write it.                                                  *)
(***************************************************************************)
EXTENDS Integers, FiniteSets

CONSTANTS
    Person, Admin,      \* everybody, and the admins among them
    Group,
    None,
    Visibilities, Joins,    \* the settings exercised
    MaxMembers,         \* limits.members_per_group
    MaxInvites,         \* limits.invites
    Ids,                \* the invitations ever made
    Uses,               \* how often one may be used
    MaxNow              \* an invitation lasts one step of the clock

VARIABLES
    groups,     \* State.groups
    invites,    \* State.invites, by id
    nextInvite,
    now

groupVars == <<groups, invites, nextInvite, now>>

Organizer == "organizer"
CoOrganizer == "co_organizer"
Member == "member"
Active == "active"
Requested == "requested"
Removed == "removed"
Archived == "archived"
Open == "open"
Used == "used"
Revoked == "revoked"

Membership == [role : {Organizer, CoOrganizer, Member}, status : {Active, Requested, Removed}]
StoredGroup == [visibility : Visibilities, join : Joins, status : {Active, Archived},
                members : [Person -> Membership \cup {None}]]
Invite == [group : Group, issuer : Person, person : Person \cup {None}, expires : Nat,
           uses : Uses, left : Nat, usedBy : SUBSET Person, status : {Open, Used, Revoked}]

Exists(g) == groups[g] # None
MembersOf(g) == {p \in Person : groups[g].members[p] # None}
IsActive(g, p) == p \in MembersOf(g) /\ groups[g].members[p].status = Active
Holds(g, p, role) == IsActive(g, p) /\ groups[g].members[p].role = role
ActiveOrganizers(g) == {p \in Person : Holds(g, p, Organizer)}

-----------------------------------------------------------------------------
(* The permission table. *)

Owns(p, g) == p \in Admin \/ Holds(g, p, Organizer)
Manages(p, g) == Owns(p, g) \/ Holds(g, p, CoOrganizer)
Sees(p, g) ==
    \/ p \in Admin \/ IsActive(g, p)
    \/ groups[g].status # Archived /\ groups[g].visibility \in {"public", "unlisted"}

\* visible: a group that cannot be seen is not there.
Visible(p, g) == Exists(g) /\ Sees(p, g)

SetMembership(g, p, m) == groups' = [groups EXCEPT ![g].members[p] = m]

-----------------------------------------------------------------------------
(* Groups. *)

CreateGroup(actor, g, visibility, join) ==
    /\ ~Exists(g)
    /\ groups' = [groups EXCEPT ![g] =
           [visibility |-> visibility, join |-> join, status |-> Active,
            members |-> [p \in Person |-> IF p = actor THEN [role |-> Organizer, status |-> Active]
                                          ELSE None]]]
    /\ UNCHANGED <<invites, nextInvite, now>>

\* update_group: only an owner archives or restores.
UpdateGroup(actor, g, visibility, join, status) ==
    /\ Visible(actor, g) /\ Manages(actor, g)
    /\ status # groups[g].status => Owns(actor, g)
    /\ groups' = [groups EXCEPT ![g].visibility = visibility, ![g].join = join, ![g].status = status]
    /\ UNCHANGED <<invites, nextInvite, now>>

\* delete_group: its invitations stay behind.
DeleteGroup(actor, g) ==
    /\ Visible(actor, g) /\ Owns(actor, g)
    /\ groups' = [groups EXCEPT ![g] = None]
    /\ UNCHANGED <<invites, nextInvite, now>>

\* join_group
JoinGroup(actor, g) ==
    /\ Visible(actor, g)
    /\ actor \notin MembersOf(g)
    /\ groups[g].status # Archived
    /\ groups[g].join \in {"open", "approval"}
    /\ Cardinality(MembersOf(g)) < MaxMembers
    /\ SetMembership(g, actor, [role |-> Member, status |-> IF groups[g].join = "open" THEN Active
                                                            ELSE Requested])
    /\ UNCHANGED <<invites, nextInvite, now>>

\* Mutant of LeaveGroup: the organizers are counted whatever their status.
LeaveGroupAny(actor, g) ==
    /\ Exists(g) /\ actor \in MembersOf(g)
    /\ groups[g].members[actor].status # Removed
    /\ Holds(g, actor, Organizer) => Cardinality(MembersOf(g)) > 1
    /\ SetMembership(g, actor, None)
    /\ UNCHANGED <<invites, nextInvite, now>>

\* leave_group, also to withdraw a request; who was removed stays removed.
LeaveGroup(actor, g) ==
    /\ Exists(g) /\ actor \in MembersOf(g)
    /\ groups[g].members[actor].status # Removed
    /\ Holds(g, actor, Organizer) => Cardinality(ActiveOrganizers(g)) > 1
    /\ SetMembership(g, actor, None)
    /\ UNCHANGED <<invites, nextInvite, now>>

\* What set_member makes of a membership: who is removed is a plain member again.
Amended(current, role, status) ==
    LET base == IF current = None THEN [role |-> Member, status |-> Active] ELSE current
        withRole == IF role = None THEN base ELSE [base EXCEPT !.role = role]
    IN  IF status = None THEN withRole
        ELSE [role |-> IF status = Removed THEN Member ELSE withRole.role, status |-> status]

IsOrganizer(m) == m # None /\ m.role = Organizer
IsActiveOrganizer(m) == IsOrganizer(m) /\ m.status = Active

MaySetMember(actor, g, p, next) ==
    LET current == groups[g].members[p]
    IN  /\ IsOrganizer(current) \/ IsOrganizer(next) => Owns(actor, g)
        /\ IsActiveOrganizer(current) /\ ~IsActiveOrganizer(next)
               => Cardinality(ActiveOrganizers(g)) > 1
        /\ current = None => Cardinality(MembersOf(g)) < MaxMembers

\* set_member: approves, removes, adds or gives another role.
SetMember(actor, g, p, role, status) ==
    /\ Visible(actor, g) /\ Manages(actor, g)
    /\ LET next == Amended(groups[g].members[p], role, status)
       IN  /\ next # groups[g].members[p]
           /\ MaySetMember(actor, g, p, next)
           /\ SetMembership(g, p, next)
    /\ UNCHANGED <<invites, nextInvite, now>>

\* transfer_group: the caller, if an organizer, steps down.
TransferGroup(actor, g, to) ==
    /\ Visible(actor, g) /\ Owns(actor, g)
    /\ to # actor /\ IsActive(g, to)
    /\ LET m == groups[g].members
       IN  groups' = [groups EXCEPT ![g].members =
               [p \in Person |-> IF p = to THEN [m[p] EXCEPT !.role = Organizer]
                                 ELSE IF p = actor /\ IsOrganizer(m[p])
                                      THEN [m[p] EXCEPT !.role = CoOrganizer] ELSE m[p]]]
    /\ UNCHANGED <<invites, nextInvite, now>>

-----------------------------------------------------------------------------
(* Invitations. *)

Held == {i \in Ids : invites[i] # None}

\* status: what an invitation is worth now.
StatusOf(i) == IF invites[i].status = Open /\ now >= invites[i].expires THEN "expired"
               ELSE invites[i].status

\* The oldest invitation that is of no use makes room for a new one.
Forgettable == {i \in Held : StatusOf(i) # Open}
MakeRoom ==
    IF Cardinality(Held) < MaxInvites THEN invites
    ELSE [invites EXCEPT ![CHOOSE i \in Forgettable : \A j \in Forgettable : i <= j] = None]

\* apply_invite on a group: the sender must still be able to add people.
Applies(issuer, g, p) ==
    /\ Exists(g)
    /\ \/ IsActive(g, p)
       \/ /\ Manages(issuer, g)
          /\ MaySetMember(issuer, g, p, Amended(groups[g].members[p], None, Active))

ApplyInvite(g, p) ==
    IF IsActive(g, p) THEN UNCHANGED groups
    ELSE SetMembership(g, p, Amended(groups[g].members[p], None, Active))

\* create_invite: somebody it names is in at once.
CreateInvite(actor, g, p, uses) ==
    /\ nextInvite \in Ids
    /\ Exists(g) /\ Manages(actor, g)
    /\ Cardinality(Held) >= MaxInvites => Forgettable # {}
    /\ invites' = [MakeRoom EXCEPT ![nextInvite] =
           [group |-> g, issuer |-> actor, person |-> p, expires |-> now + 1, uses |-> uses,
            left |-> uses, usedBy |-> {}, status |-> Open]]
    /\ nextInvite' = nextInvite + 1
    /\ IF p = None THEN UNCHANGED groups ELSE Applies(actor, g, p) /\ ApplyInvite(g, p)
    /\ UNCHANGED now

\* redeem, at the site or by a direct message.
Redeem(p, i) ==
    /\ i \in Held /\ StatusOf(i) = Open
    /\ invites[i].person \in {None, p}
    /\ p \notin invites[i].usedBy
    /\ Applies(invites[i].issuer, invites[i].group, p)
    /\ ApplyInvite(invites[i].group, p)
    /\ invites' = [invites EXCEPT ![i].left = @ - 1, ![i].usedBy = @ \cup {p},
                                  ![i].status = IF invites[i].left = 1 THEN Used ELSE @]
    /\ UNCHANGED <<nextInvite, now>>

\* revoke_invite, whatever became of it.
RevokeInvite(actor, i) ==
    /\ i \in Held
    /\ actor # invites[i].issuer => Exists(invites[i].group) /\ Manages(actor, invites[i].group)
    /\ invites' = [invites EXCEPT ![i].status = Revoked]
    /\ UNCHANGED <<groups, nextInvite, now>>

TimePasses ==
    /\ now < MaxNow
    /\ now' = now + 1
    /\ UNCHANGED <<groups, invites, nextInvite>>

Init ==
    /\ groups = [g \in Group |-> None]
    /\ invites = [i \in Ids |-> None]
    /\ nextInvite = 1
    /\ now = 0

GroupNext(actor, g) ==
    \/ \E v \in Visibilities, j \in Joins : CreateGroup(actor, g, v, j)
    \/ \E v \in Visibilities, j \in Joins, s \in {Active, Archived} : UpdateGroup(actor, g, v, j, s)
    \/ DeleteGroup(actor, g) \/ JoinGroup(actor, g) \/ LeaveGroup(actor, g)
    \/ \E p \in Person, role \in {None, Organizer, CoOrganizer, Member}, status \in {None, Active, Removed} :
         SetMember(actor, g, p, role, status)
    \/ \E to \in Person : TransferGroup(actor, g, to)
    \/ \E p \in Person \cup {None}, uses \in Uses : CreateInvite(actor, g, p, uses)

Next ==
    \/ TimePasses
    \/ \E actor \in Person, g \in Group : GroupNext(actor, g)
    \/ \E p \in Person, i \in Ids : Redeem(p, i) \/ RevokeInvite(p, i)

Spec == Init /\ [][Next]_groupVars

-----------------------------------------------------------------------------
(* Properties. *)

TypeOK ==
    /\ \A g \in Group : groups[g] \in StoredGroup \cup {None}
    /\ \A i \in Ids : invites[i] \in Invite \cup {None}
    /\ nextInvite \in 1..Cardinality(Ids) + 1
    /\ now \in 0..MaxNow

\* Whatever organizers, co-organizers and admins do to each other, every group has
\* an organizer (groups.rs: "A group needs at least one organizer"), and no more
\* members than fit.
GroupIsLed ==
    \A g \in Group : Exists(g) => /\ ActiveOrganizers(g) # {}
                                  /\ Cardinality(MembersOf(g)) <= MaxMembers

\* An invitation lets in as many people as it has uses, each once; the list of them
\* stays within its limit, and no open one was forgotten to make room.
InvitesAreCounted ==
    /\ Cardinality(Held) <= MaxInvites
    /\ \A i \in Held : /\ invites[i].left + Cardinality(invites[i].usedBy) = invites[i].uses
                       /\ invites[i].left = 0 => invites[i].status # Open
=============================================================================
