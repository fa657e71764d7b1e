-------------------------------- MODULE FwOps --------------------------------
(* Operations on a board without a screen (miniframework's ops_actions.rs and   *)
(* planned_restart.rs): an action is run for an idempotency key, a disruptive   *)
(* one only with an approval for that action and key, and a restart leaves its  *)
(* reason in memory that survives the reset.                                    *)
EXTENDS Naturals, FiniteSets, Sequences

CONSTANTS Key,                         \* idempotency keys
          Slots, Cooldown, Validity,   \* audit entries, Installed.cooldown, an approval's time
          MaxNow, MaxGrants, MaxBoots  \* bounds
Action == {"checkpoint", "restart-planned"}
disruptive(a) == a = "restart-planned"
Reason == {"heap", "maintenance"}
None == "none"
NoGrant == [action |-> None, key |-> None, token |-> 0, until |-> 0]

VARIABLES entries,     \* sequence of [key, action, at, ok]
          grant,       \* the one approval
          pending, previous,   \* Restart
          retained,    \* the word that survives a reset
          draining, now, boots,
          given,       \* the approvals given out since the first boot: [action, key]
          runs         \* what ran: [key, action, token, boot]
vars == <<entries, grant, pending, previous, retained, draining, now, boots, given, runs>>

Init == /\ entries = <<>> /\ grant = NoGrant /\ pending = None /\ previous = None
        /\ retained = None /\ draining = FALSE /\ now = 0 /\ boots = 0 /\ given = <<>> /\ runs = {}

Places == DOMAIN entries
\* A key that belongs to another action is refused by every route.
Conflict(a, k) == \E i \in Places : entries[i].key = k /\ entries[i].action # a
Used(k) == \E i \in Places : entries[i].key = k
Cooling(a) == \E i \in Places : entries[i].action = a /\ now - entries[i].at < Cooldown

\* POST approvals: a new approval replaces the one before it.
Grant(a, k) == /\ ~Conflict(a, k) /\ disruptive(a) /\ ~Used(k) /\ Len(given) < MaxGrants
               /\ given' = Append(given, [action |-> a, key |-> k])
               /\ grant' = [action |-> a, key |-> k, token |-> Len(given) + 1, until |-> now + Validity]
               /\ UNCHANGED <<entries, pending, previous, retained, draining, now, boots, runs>>

\* The approval presented is the last one given, for this action and this key.
Approved(a, k, t) == /\ grant.until > now /\ grant.action = a /\ grant.key = k /\ grant.token = t

\* Restart::request: the first one wins.
request(r) == IF pending = None THEN pending' = r ELSE UNCHANGED pending
\* The callback: it may fail, having done something or not.
Run(a) == IF a = "restart-planned" THEN request("maintenance") ELSE UNCHANGED pending

\* The slot is taken before the callback is called, and kept if it fails.
Reserved(a, k, ok) == Append(entries, [key |-> k, action |-> a, at |-> now, ok |-> ok])

\* POST actions: under the lock from the checks to the outcome.
Post(a, k, t) == \E ok \in BOOLEAN :
    /\ ~Conflict(a, k) /\ ~Used(k) /\ ~Cooling(a) /\ Len(entries) < Slots
    /\ disruptive(a) => Approved(a, k, t)
    /\ grant' = IF disruptive(a) THEN NoGrant ELSE grant
    /\ entries' = Reserved(a, k, ok)
    /\ Run(a) \/ (~ok /\ UNCHANGED pending)
    /\ runs' = runs \cup {[key |-> k, action |-> a, token |-> IF disruptive(a) THEN t ELSE 0,
                           at |-> now, boot |-> boots]}
    /\ UNCHANGED <<previous, retained, draining, now, boots, given>>

-----------------------------------------------------------------------------
LowHeap == /\ pending = None /\ request("heap")
           /\ UNCHANGED <<entries, grant, previous, retained, draining, now, boots, given, runs>>
cancel == /\ pending # None /\ ~draining /\ pending' = None
          /\ UNCHANGED <<entries, grant, previous, retained, draining, now, boots, given, runs>>
\* commit: once the connections are drained, immediately before the restart.
commit == /\ pending # None /\ ~draining /\ retained' = pending /\ draining' = TRUE
          /\ UNCHANGED <<entries, grant, pending, previous, now, boots, given, runs>>

Kept(software) == None
\* boot: the word is consumed whatever kind of reset it was.
boot(software) == /\ boots < MaxBoots /\ boots' = boots + 1
                  /\ previous' = IF software THEN retained ELSE None
                  /\ retained' = Kept(software) /\ pending' = None /\ draining' = FALSE
                  /\ entries' = <<>> /\ grant' = NoGrant
                  /\ UNCHANGED <<now, given, runs>>
Clock == /\ now < MaxNow /\ now' = now + 1
         /\ UNCHANGED <<entries, grant, pending, previous, retained, draining, boots, given, runs>>

Next == \/ \E a \in Action, k \in Key : Grant(a, k) \/ \E t \in 0..Len(given) : Post(a, k, t)
        \/ LowHeap \/ cancel \/ commit \/ boot(TRUE) \/ boot(FALSE) \/ Clock
Spec == Init /\ [][Next]_vars

-----------------------------------------------------------------------------
TypeOK == /\ Len(entries) <= Slots /\ pending \in Reason \cup {None}
          /\ retained \in Reason \cup {None} /\ grant.token <= Len(given)

\* "never retry the callback automatically"; "a fresh approval for this exact
\* action key": between two boots a key runs one thing once, failed or not, two
\* runs of an action are a cooldown apart; what is disruptive runs under an approval
\* that was given for it, and none serves twice.
RunsAreApproved ==
    /\ \A r, q \in runs : r # q /\ r.boot = q.boot => r.key # q.key
    /\ \A r, q \in runs : r # q /\ r.token = q.token => r.token = 0
    /\ \A r, q \in runs : r # q /\ r.boot = q.boot /\ r.action = q.action =>
           r.at - q.at >= Cooldown \/ q.at - r.at >= Cooldown
    /\ \A r \in runs : disruptive(r.action) <=> r.token # 0
    /\ \A r \in runs : r.token # 0 => given[r.token] = [action |-> r.action, key |-> r.key]

\* "so a stale marker cannot relabel a later reset": a board says it restarted
\* as planned only if the reset just before it was that restart.
PreviousIsTrue ==
    boots' # boots /\ previous' # None => draining /\ previous' = pending
=============================================================================
