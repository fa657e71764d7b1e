---------------------------- MODULE PartyPublish ----------------------------
(***************************************************************************)
(* Publication of a party board's public pages to a repository, a file at  *)
(* a time and one commit for all (party/api/src/publish.rs, work.rs).      *)
(*                                                                         *)
(* The board remembers the files it pushed, uploads those that changed on  *)
(* top of the branch's tree, and takes away those that went.  The push     *)
(* runs without the lock; the answer of its last request may be lost.  A   *)
(* file's content is a version, or None when there is nothing to publish;  *)
(* the manifest, which always changes, is left out.                        *)
(***************************************************************************)
EXTENDS Integers, FiniteSets

CONSTANTS
    File,
    Version,
    Repo,
    None,
    MaxGeneration

VARIABLES
    public,     \* published_files: what a signed-out viewer may see now
    setup,      \* StoredPublish
    due,        \* whether the time of the next publication has come
    flight,     \* the publication the worker pushes
    remote,     \* the branch of each repository; None before its first commit
    estranged   \* the repositories whose branch the board may no longer know

publishVars == <<public, setup, due, flight, remote, estranged>>

Contents == [File -> Version \cup {None}]
Empty == [f \in File |-> None]

Setup == [repo : Repo, files : Contents \cup {None}, asked : BOOLEAN, published : BOOLEAN, generation : 0..MaxGeneration]

\* What a visible change of the board does to a file.
Change(f, v) ==
    /\ public[f] # v
    /\ public' = [public EXCEPT ![f] = v]
    /\ UNCHANGED <<setup, due, flight, remote, estranged>>

\* PUT admin/publish: another repository starts without remembered files.
PutPublish(repo) ==
    LET old == setup # None
        same == old /\ setup.repo = repo
    IN  /\ setup' = [repo |-> repo, files |-> IF same THEN setup.files ELSE None, asked |-> TRUE,
                     published |-> FALSE, generation |-> IF old THEN setup.generation ELSE 0]
        /\ estranged' = IF same THEN estranged
                        ELSE estranged \cup {r \in Repo : remote[r] # None \/ flight # None}
        /\ UNCHANGED <<public, due, flight, remote>>

\* DELETE admin/publish: what was pushed is forgotten.
RemovePublish ==
    /\ setup # None
    /\ setup' = None
    /\ estranged' = estranged \cup {r \in Repo : remote[r] # None \/ flight # None}
    /\ UNCHANGED <<public, due, flight, remote>>

\* "Publish now", of an admin.
PublishNow ==
    /\ setup # None /\ ~setup.asked
    /\ setup' = [setup EXCEPT !.asked = TRUE]
    /\ UNCHANGED <<public, due, flight, remote, estranged>>

TimeComes ==
    /\ ~due
    /\ due' = TRUE
    /\ UNCHANGED <<public, setup, flight, remote, estranged>>

-----------------------------------------------------------------------------
(* The worker. *)

Remembered(f) == IF setup.files = None THEN None ELSE setup.files[f]
Changed == {f \in File : public[f] # None /\ public[f] # Remembered(f)}
Gone == {f \in File : public[f] = None /\ Remembered(f) # None}

Takeaway == Gone

\* publication_due, and the push up to where the branch moves.
PublicationDue ==
    /\ flight = None /\ setup # None
    /\ setup.generation < MaxGeneration
    /\ setup.asked \/ due
    /\ setup.asked \/ Changed \cup Gone # {} \/ setup.files = None
    /\ flight' = [repo |-> setup.repo, files |-> public, changed |-> Changed, removed |-> Takeaway,
                  moved |-> FALSE]
    /\ UNCHANGED <<public, setup, due, remote, estranged>>

\* publication_checked: nothing to push.
PublicationChecked ==
    /\ flight = None /\ setup # None /\ due /\ ~setup.asked
    /\ Changed \cup Gone = {} /\ setup.files # None
    /\ due' = FALSE
    /\ UNCHANGED <<public, setup, flight, remote, estranged>>

\* The tree of the new commit: on the branch's tree, or of all files where there is none.
Tree(base) ==
    IF base = None THEN flight.files
    ELSE [f \in File |-> IF f \in flight.changed THEN flight.files[f]
                         ELSE IF f \in flight.removed THEN None ELSE base[f]]

\* push: the last request moves the branch.
MoveBranch ==
    /\ flight # None /\ ~flight.moved
    /\ remote' = [remote EXCEPT ![flight.repo] = Tree(@)]
    /\ flight' = [flight EXCEPT !.moved = TRUE]
    /\ UNCHANGED <<public, setup, due, estranged>>

\* publication_done, for whatever is set up by then.
PublicationDone ==
    /\ flight # None /\ flight.moved
    /\ flight' = None /\ due' = FALSE
    /\ IF setup = None THEN UNCHANGED setup
       ELSE setup' = [setup EXCEPT !.files = flight.files, !.asked = FALSE, !.published = TRUE,
                                   !.generation = @ + 1]
    /\ UNCHANGED <<public, remote, estranged>>

\* publication_done after an error; the branch may have moved all the same.
PublicationFailed ==
    /\ flight # None
    /\ flight' = None /\ due' = FALSE
    /\ IF setup = None THEN UNCHANGED setup
       ELSE setup' = [setup EXCEPT !.asked = FALSE, !.published = FALSE]
    /\ estranged' = IF flight.moved THEN estranged \cup {flight.repo} ELSE estranged
    /\ UNCHANGED <<public, remote>>

\* The power fails during a push.
PowerFails ==
    /\ flight # None
    /\ flight' = None
    /\ estranged' = IF flight.moved THEN estranged \cup {flight.repo} ELSE estranged
    /\ UNCHANGED <<public, setup, due, remote>>

Init ==
    /\ public = Empty
    /\ setup = None
    /\ due = FALSE
    /\ flight = None
    /\ remote = [r \in Repo |-> None]
    /\ estranged = {}

Next ==
    \/ \E f \in File, v \in Version \cup {None} : Change(f, v)
    \/ \E r \in Repo : PutPublish(r)
    \/ RemovePublish \/ PublishNow \/ TimeComes
    \/ PublicationDue \/ PublicationChecked \/ MoveBranch \/ PublicationDone \/ PublicationFailed
    \/ PowerFails

Spec == Init /\ [][Next]_publishVars

-----------------------------------------------------------------------------
(* Properties. *)

TypeOK ==
    /\ public \in Contents
    /\ setup \in Setup \cup {None}
    /\ due \in BOOLEAN
    /\ \A r \in Repo : remote[r] \in Contents \cup {None}
    /\ estranged \subseteq Repo

\* As long as no answer of a push was lost and the setup stayed, the branch holds what
\* the board remembers it pushed, of any number of pushes, each of changed files only.
RememberedIsThere ==
    setup # None /\ setup.published /\ setup.repo \notin estranged /\ flight = None
        => remote[setup.repo] = setup.files

\* What a publication recorded as done is what the branch holds (publish.rs: "an event
\* is published only if a signed-out viewer could see it").
PublishedIsPublic ==
    [][PublicationDone /\ setup # None /\ setup.repo = flight.repo
         => remote[flight.repo] = flight.files]_publishVars
=============================================================================
