------------------------------- MODULE FwOAuth -------------------------------
(* Signing in with an instance (miniframework oauth.rs): a browser holds a     *)
(* ticket, one worker does the network steps in order, the instance sends the  *)
(* browser back with a code, and the ticket's next poll gets the identity.     *)
(* One instance, modelled from the requests the worker sends it; a ticket, an  *)
(* app registration (client) and an access token are numbers; time is a flag.  *)
EXTENDS Naturals, Sequences, FiniteSets, SequencesExt, FiniteSetsExt

CONSTANTS Origin,      \* how browsers name the app
          capacity,    \* Config.capacity
          MaxUris,     \* redirect URIs a registration keeps (8 in the code)
          MaxStarts, MaxClients        \* bounds on sign-ins and registrations
Ticket == 1..MaxStarts
VARIABLES flights,     \* ticket -> [origin, keep, phase, client, old]
          started,     \* tickets handed out
          jobs, work,  \* Job queue; the job the worker is in, <<>> if none
          stored,      \* the registration in Kv: [client, uris], client 0 if none
          kept,        \* kept: tickets whose access token waits for take_token
          clients,     \* the instance: registrations made
          live,        \* the instance: tickets whose access token it honours
          spent,       \* tickets whose code the worker has sent
          told         \* tickets whose poll has returned an identity
vars == <<flights, started, jobs, work, stored, kept, clients, live, spent, told>>

NoRegistration == [client |-> 0, uris |-> <<>>]
Flight == [origin : Origin, keep : BOOLEAN, client : 0..MaxClients, old : BOOLEAN,
           phase : {"starting", "redirect", "exchanging", "done", "failed"}]
Init == /\ flights = <<>> /\ started = 0 /\ jobs = <<>> /\ work = <<>>
        /\ stored = NoRegistration /\ kept = <<>> /\ clients = 0 /\ live = {} /\ spent = {}
        /\ told = {}

Flying == DOMAIN flights
Keep(set) == [t \in set |-> flights[t]]
Queued(kind, t) == Append(jobs, [kind |-> kind, ticket |-> t])

-----------------------------------------------------------------------------
\* start_provider: expired flights give way, a full table refuses.
Fresh == {t \in Flying : ~flights[t].old}
start == /\ started < MaxStarts
         /\ \E origin \in Origin, keep \in BOOLEAN :
              IF Cardinality(Fresh) >= capacity
              THEN flights' = Keep(Fresh) /\ UNCHANGED <<started, jobs>>
              ELSE LET t == started + 1
                       f == [origin |-> origin, keep |-> keep, phase |-> "starting", client |-> 0,
                             old |-> FALSE]
                   IN  /\ flights' = [x \in Fresh \cup {t} |-> IF x = t THEN f ELSE flights[x]]
                       /\ started' = t /\ jobs' = Queued("start", t)
         /\ UNCHANGED <<work, stored, kept, clients, live, spent, told>>

\* poll, by the browser that holds the ticket's cookie.
poll(t) == /\ t \in Flying
           /\ flights[t].old \/ flights[t].phase \in {"done", "failed"}
           /\ flights' = Keep(Flying \ {t})
           /\ told' = IF ~flights[t].old /\ flights[t].phase = "done" THEN told \cup {t} ELSE told
           /\ UNCHANGED <<started, jobs, work, stored, kept, clients, live, spent>>

\* callback: the browser comes back, with a code, with a refusal or with neither.
Redirected(t) == t \in Flying /\ flights[t].phase = "redirect"
callback(t) == /\ Redirected(t)
               /\ \/ /\ flights' = [flights EXCEPT ![t].phase = "exchanging"]
                     /\ jobs' = Queued("exchange", t)
                  \/ flights' = [flights EXCEPT ![t].phase = "failed"] /\ UNCHANGED jobs
               /\ UNCHANGED <<started, work, stored, kept, clients, live, spent, told>>

\* take_token: handed out once, to the app, which may later revoke it.
take_token == /\ kept # <<>> /\ \E i \in DOMAIN kept : kept' = RemoveAt(kept, i)
              /\ UNCHANGED <<flights, started, jobs, work, stored, clients, live, spent, told>>

-----------------------------------------------------------------------------
(* run_once, on the worker: the job and a copy of its flight are taken, the    *)
(* requests are made, and the outcome is for the flight if it is still there.  *)
Take == /\ work = <<>> /\ jobs # <<>>
        /\ jobs' = Tail(jobs)
        /\ LET j == Head(jobs)
           IN  work' = IF j.ticket \in Flying
                       THEN <<[kind |-> j.kind, ticket |-> j.ticket, flight |-> flights[j.ticket]]>>
                       ELSE <<>>
        /\ UNCHANGED <<flights, started, stored, kept, clients, live, spent, told>>
\* registration: the stored one if it knows this origin, else a new one that
\* knows the earlier origins too.
Uris(origin) == IF origin \in ToSet(stored.uris) THEN stored.uris
                ELSE LET all == Append(stored.uris, origin)
                     IN  SubSeq(all, 1, IF Len(all) < MaxUris THEN Len(all) ELSE MaxUris)
Known(origin) == stored.client > 0 /\ origin \in ToSet(stored.uris)
Registered(origin) ==   \* leaves the registration the step goes on with in stored'
    \/ Known(origin) /\ UNCHANGED <<stored, clients>>
    \/ /\ ~Known(origin) /\ clients < MaxClients /\ clients' = clients + 1
       /\ stored' = [client |-> clients + 1, uris |-> Uris(origin)]
\* The app is registered at the instance but the board could not save it.
Unsaved(origin) == ~Known(origin) /\ clients < MaxClients /\ clients' = clients + 1 /\ UNCHANGED stored
Refused == UNCHANGED <<stored, clients>>

Landed(t, phase, client) ==
    /\ flights' = IF t \in Flying
                  THEN [flights EXCEPT ![t].phase = phase, ![t].client = client] ELSE flights
    /\ work' = <<>>
Started_ == /\ work # <<>> /\ work[1].kind = "start"
            /\ LET t == work[1].ticket
               IN  \/ Registered(work[1].flight.origin) /\ Landed(t, "redirect", stored'.client)
                   \/ (Refused \/ Unsaved(work[1].flight.origin)) /\ Landed(t, "failed", 0)
            /\ UNCHANGED <<started, jobs, kept, live, spent, told>>
\* exchange: the code, the account, and then the token is kept or given back.
Kept(t) == IF Len(kept) >= capacity THEN Append(Tail(kept), t) ELSE Append(kept, t)
Exchanged == /\ work # <<>> /\ work[1].kind = "exchange"
             /\ LET t == work[1].ticket
                    f == work[1].flight
                IN  \/ /\ Registered(f.origin) /\ spent' = spent \cup {t}
                       /\ \/ /\ stored'.client = f.client /\ Landed(t, "done", f.client)
                             /\ IF f.keep THEN kept' = Kept(t) ELSE UNCHANGED kept
                             /\ live' \in {live, live \cup {t}} /\ (f.keep => t \in live')
                          \/ /\ Landed(t, "failed", f.client) /\ UNCHANGED kept
                             /\ live' \in {live} \cup {live \cup {x} : x \in
                                                        {y \in {t} : stored'.client = f.client}}
                    \/ /\ Refused \/ Unsaved(f.origin)
                       /\ Landed(t, "failed", f.client) /\ UNCHANGED <<kept, live, spent>>
             /\ UNCHANGED <<started, jobs, told>>
run_once == Take \/ Started_ \/ Exchanged

Expire == /\ \E t \in Flying : ~flights[t].old /\ flights' = [flights EXCEPT ![t].old = TRUE]
          /\ UNCHANGED <<started, jobs, work, stored, kept, clients, live, spent, told>>

Next == start \/ take_token \/ run_once \/ Expire \/ \E t \in Ticket : poll(t) \/ callback(t)
Spec == Init /\ [][Next]_vars /\ WF_vars(run_once)

-----------------------------------------------------------------------------
TypeOK == /\ Flying \subseteq 1..started /\ \A t \in Flying : flights[t] \in Flight
          /\ Len(kept) <= capacity /\ Cardinality(Flying) <= capacity
          /\ stored.client \in 0..MaxClients

\* A flight that waits on the worker has exactly one job, of the kind it waits
\* for, in the queue or in the worker's hands; no other flight has any.  So no
\* outcome is ever laid over a later phase.
JobsOf(t, kind) == Cardinality({i \in DOMAIN jobs : jobs[i] = [kind |-> kind, ticket |-> t]})
                   + Cardinality({w \in ToSet(work) : w.ticket = t /\ w.kind = kind})
OneJobEach == \A t \in Flying :
    /\ JobsOf(t, "start") = IF flights[t].phase = "starting" THEN 1 ELSE 0
    /\ JobsOf(t, "exchange") = IF flights[t].phase = "exchanging" THEN 1 ELSE 0

\* "returned once, then the ticket is gone": an identity is handed out for a
\* ticket at most once, and only when the browser brought a code for it.
ToldOnce == /\ told \subseteq spent /\ told \cap Flying = {}

\* A registration is made again only to know one origin more, and keeps the
\* earlier ones: browsers at two addresses of the app do not undo each other's.
OriginsAreKept ==
    stored' # stored =>
        ToSet(stored.uris) \subseteq ToSet(stored'.uris) /\ stored.uris # stored'.uris

\* Every sign-in the worker has been given is decided: its flight leaves the
\* waiting phases (or is gone) whatever the network does.
Waits(t) == t \in Flying /\ flights[t].phase \in {"starting", "exchanging"}
EveryWaitEnds == \A t \in Ticket : Waits(t) ~> ~Waits(t)

\* "Access tokens are used once (to read who signed in) and revoked": no token
\* the app was not asked to keep outlives its sign-in.  What the code does: a
\* failure after the token came (reading the account) leaves it unrevoked.
TokensAreGivenBack == \A t \in live : t \in Flying /\ flights[t].phase = "failed" => flights[t].keep
=============================================================================
