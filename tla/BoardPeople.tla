----------------------------- MODULE BoardPeople -----------------------------
(* Accounts of the board-game board: setup, sign-up, signing in by PIN, by  *)
(* an emailed code and by Mastodon, what an admin may change, and the        *)
(* instances people may come from (gamematcher/api/src/state.rs,             *)
(* identity.rs, and their routes in api.rs).  A call is one step inside      *)
(* App::mutate except where the code lets go of the lock in between.         *)
(* A session is who is signed in; its limits are in FwSessions.              *)
EXTENDS Naturals, FiniteSets, Sequences

CONSTANTS Email, Subject,     \* addresses; Mastodon identities
          MaxAccounts, MaxProviders,       \* Limits, MAX_PROVIDERS
          MaxProvider                      \* bounds the provider ids

None == "none"
VARIABLES accounts,      \* sequence, an account's id is its place
          signup_closed,
          providers,     \* id -> [trust, invites]
          next_provider,
          sessions,      \* ids signed in
          entering,      \* PIN checked, session not made yet: ids
          resets,        \* ids with an emailed code
          tickets        \* OAuth sign-ins that the instance answered: [intent, who]
vars == <<accounts, signup_closed, providers, next_provider, sessions, entering, resets, tickets>>

Account == [email : Email \cup {None}, pin : BOOLEAN, identity : Subject \cup {None},
            admin : BOOLEAN, disabled : BOOLEAN]
Intent == [kind : {"link"}, id : 1..MaxAccounts] \cup [kind : {"login"}, id : 1..MaxProvider]

Init == /\ accounts = <<>> /\ signup_closed = FALSE
        /\ providers = <<>> /\ next_provider = 1
        /\ sessions = {} /\ entering = {} /\ resets = {} /\ tickets = {}

ids == DOMAIN accounts
active_admins == {i \in ids : accounts[i].admin /\ ~accounts[i].disabled}
account_with(s) == {i \in ids : accounts[i].identity = s}
by_email(e) == {i \in ids : accounts[i].email = e}
\* caller: a session of a disabled account is revoked, not served.
Callers == {i \in sessions : ~accounts[i].disabled}
Admins == {i \in Callers : accounts[i].admin}

-----------------------------------------------------------------------------
create_account(e, admin) ==
    /\ by_email(e) = {} /\ Len(accounts) < MaxAccounts
    /\ accounts' = Append(accounts, [email |-> e, pin |-> TRUE, identity |-> None,
                                     admin |-> admin, disabled |-> FALSE])
    /\ sessions' = sessions \cup {Len(accounts) + 1}
    /\ UNCHANGED <<signup_closed, providers, next_provider, entering, resets, tickets>>

setup == \E e \in Email : accounts = <<>> /\ create_account(e, TRUE)
signup == \E e \in Email : accounts # <<>> /\ ~signup_closed /\ create_account(e, FALSE)

\* pin_sign_in: the PIN is checked under one lock, the session made under the
\* next; another call may come between.
check_pin(i) == /\ i \in ids /\ accounts[i].email # None /\ accounts[i].pin
                /\ ~accounts[i].disabled /\ entering' = entering \cup {i}
                /\ UNCHANGED <<accounts, signup_closed, providers, next_provider, sessions,
                               resets, tickets>>
sign_in(i) == /\ i \in entering /\ entering' = entering \ {i}
              /\ sessions' = sessions \cup {i}
              /\ UNCHANGED <<accounts, signup_closed, providers, next_provider, resets, tickets>>

start_reset(i) == /\ i \in ids /\ accounts[i].email # None /\ ~accounts[i].disabled
                  /\ i \notin resets /\ resets' = resets \cup {i}
                  /\ UNCHANGED <<accounts, signup_closed, providers, next_provider, sessions,
                                 entering, tickets>>
\* A right code is spent; the new PIN is then saved, or (the commit failing) not.
finish_reset(i) == /\ i \in resets /\ resets' = resets \ {i}
                   /\ \/ /\ accounts' = [accounts EXCEPT ![i].pin = TRUE]
                         /\ sessions' = sessions \cup {i}
                      \/ UNCHANGED <<accounts, sessions>>
                   /\ UNCHANGED <<signup_closed, providers, next_provider, entering, tickets>>

revoke(i) == /\ i \in sessions /\ sessions' = sessions \ {i}
             /\ UNCHANGED <<accounts, signup_closed, providers, next_provider, entering,
                            resets, tickets>>

\* An account without a PIN sets its first one without naming an old one.
change_pin(i) == /\ i \in Callers /\ accounts' = [accounts EXCEPT ![i].pin = TRUE]
                 /\ UNCHANGED <<signup_closed, providers, next_provider, sessions, entering,
                                resets, tickets>>

-----------------------------------------------------------------------------
Change == [admin : BOOLEAN, disabled : BOOLEAN, pin : BOOLEAN, sign_out : BOOLEAN]
Changed(a, c) == [a EXCEPT !.admin = c.admin, !.disabled = c.disabled, !.pin = @ \/ c.pin]
InCharge(a) == a.admin /\ ~a.disabled
LastAdmin(id, c) == /\ InCharge(accounts[id]) /\ ~InCharge(Changed(accounts[id], c))
                    /\ Cardinality(active_admins) <= 1
admin_update(actor, id) == \E c \in Change :
    /\ actor \in Admins /\ id \in ids
    /\ ~LastAdmin(id, c) /\ ~(id = actor /\ c.disabled)
    /\ accounts' = [accounts EXCEPT ![id] = Changed(@, c)]
    /\ sessions' = IF c.sign_out \/ c.disabled THEN sessions \ {id} ELSE sessions
    /\ UNCHANGED <<signup_closed, providers, next_provider, entering, resets, tickets>>

\* PATCH settings: the switch of sign-up.
set_signup(actor) == /\ actor \in Admins /\ signup_closed' = ~signup_closed
                     /\ UNCHANGED <<accounts, providers, next_provider, sessions, entering,
                                    resets, tickets>>

Provider == [trust : {"household", "invited"}, invites : SUBSET Subject]
SetProviders(ps, next) ==
    /\ providers' = ps /\ next_provider' = next
    /\ UNCHANGED <<accounts, signup_closed, sessions, entering, resets, tickets>>
Having(f, i, v) == [k \in DOMAIN f \cup {i} |-> IF k = i THEN v ELSE f[k]]
add_provider(actor) == \E p \in Provider :
    /\ actor \in Admins /\ next_provider <= MaxProvider
    /\ Cardinality(DOMAIN providers) < MaxProviders
    /\ SetProviders(Having(providers, next_provider, p), next_provider + 1)
edit_provider(actor) == \E p \in Provider, i \in DOMAIN providers :
    /\ actor \in Admins /\ SetProviders(Having(providers, i, p), next_provider)
delete_provider(actor) == \E i \in DOMAIN providers :
    /\ actor \in Admins
    /\ SetProviders([k \in DOMAIN providers \ {i} |-> providers[k]], next_provider)

-----------------------------------------------------------------------------
(* Mastodon: started for an intent, answered later, applied when polled.     *)
Start == \E t \in Intent, who \in Subject :
    /\ t.kind = "link" => t.id \in Callers
    /\ t.kind = "login" => t.id \in DOMAIN providers
    /\ Cardinality(tickets) < 1 /\ tickets' = tickets \cup {[intent |-> t, who |-> who]}
    /\ UNCHANGED <<accounts, signup_closed, providers, next_provider, sessions, entering, resets>>

Allowed(p, who) == IF p.trust = "household" THEN ~signup_closed \/ who \in p.invites
                   ELSE who \in p.invites
Poll(t) == tickets' = tickets \ {t} /\ UNCHANGED <<signup_closed, providers, next_provider,
                                                   entering, resets>>

sign_in_with(t) ==
    \/ \E i \in account_with(t.who) : /\ ~accounts[i].disabled
          /\ sessions' = sessions \cup {i} /\ UNCHANGED accounts
    \/ /\ account_with(t.who) = {} /\ accounts # <<>> /\ t.intent.id \in DOMAIN providers
       /\ Allowed(providers[t.intent.id], t.who) /\ Len(accounts) < MaxAccounts
       /\ accounts' = Append(accounts, [email |-> None, pin |-> FALSE, identity |-> t.who,
                                        admin |-> FALSE, disabled |-> FALSE])
       /\ sessions' = sessions \cup {Len(accounts) + 1}

link_identity(t) == /\ account_with(t.who) \subseteq {t.intent.id}
                    /\ accounts' = [accounts EXCEPT ![t.intent.id].identity = t.who]
                    /\ UNCHANGED sessions
oauth_status == \E t \in tickets : Poll(t) /\
    \/ t.intent.kind = "link" /\ link_identity(t)
    \/ t.intent.kind = "login" /\ sign_in_with(t)
    \/ UNCHANGED <<accounts, sessions>>              \* refused, or not saved

unlink_identity(i) == /\ i \in Callers /\ accounts[i].pin
                      /\ accounts' = [accounts EXCEPT ![i].identity = None]
                      /\ UNCHANGED <<signup_closed, providers, next_provider, sessions,
                                     entering, resets, tickets>>
Reboot == /\ entering \cup resets # {} \/ tickets # {}
          /\ entering' = {} /\ resets' = {} /\ tickets' = {}
          /\ UNCHANGED <<accounts, signup_closed, providers, next_provider, sessions>>

AdminUsers == \E a \in ids : \/ \E i \in ids : admin_update(a, i)
                             \/ set_signup(a)
AdminProviders == \E a \in ids : add_provider(a) \/ edit_provider(a) \/ delete_provider(a)
OwnAccount == \E i \in ids : \/ check_pin(i) \/ sign_in(i) \/ start_reset(i) \/ finish_reset(i)
                             \/ revoke(i) \/ change_pin(i) \/ unlink_identity(i)
Next == setup \/ signup \/ OwnAccount \/ AdminUsers \/ AdminProviders
        \/ Start \/ oauth_status \/ Reboot
Spec == Init /\ [][Next]_vars

-----------------------------------------------------------------------------
TypeOK == /\ \A i \in ids : accounts[i] \in Account
          /\ Len(accounts) <= MaxAccounts /\ sessions \subseteq ids
          /\ DOMAIN providers \subseteq 1..(next_provider - 1)

\* "Game Matcher needs at least one active admin": once set up, whatever
\* admins do to each other and to themselves, one is left who is not shut out.
SomeoneInCharge == accounts = <<>> \/ active_admins # {}

\* An address or an identity leads to one account only, however sign-ins and
\* links that were started before cross each other; and every account keeps a
\* way in, a PIN with its address or an identity.
OneDoorEach ==
    /\ \A i, j \in ids : i # j =>
          /\ accounts[i].email = accounts[j].email => accounts[i].email = None
          /\ accounts[i].identity = accounts[j].identity => accounts[i].identity = None
    /\ \A i \in ids : accounts[i].pin \/ accounts[i].identity # None
=============================================================================
