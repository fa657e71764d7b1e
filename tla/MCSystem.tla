------------------------------ MODULE MCSystem ------------------------------
(***************************************************************************)
(* Small instances of the components that share a run: the applications    *)
(* party and gamematcher, the framework under them, the services built on  *)
(* it, and the two markets of NanaCoin.  A behaviour picks one component   *)
(* at the start and runs it; the components share the variables v1, v2,    *)
(* ..., each in the order of its own declaration.  A property is the       *)
(* conjunction of what is stated of the components it is about.            *)
(***************************************************************************)
EXTENDS Integers, Sequences, FiniteSets

CONSTANTS NoValue, NoBytes, TornBytes   \* no value; no record; a record that was cut short

VARIABLES
    which,   \* the component that runs
    v1, v2, v3, v4, v5, v6, v7, v8, v9, v10, v11, v12, v13, v14, v15, v16, v17, v18, v19,
    v20

\* The variables from the n-th on, which a component with fewer does not use.
from20 == <<v20>>
from19 == <<v19, from20>>
from18 == <<v18, from19>>
from17 == <<v17, from18>>
from16 == <<v16, from17>>
from15 == <<v15, from16>>
from14 == <<v14, from15>>
from13 == <<v13, from14>>
from12 == <<v12, from13>>
from11 == <<v11, from12>>
from10 == <<v10, from11>>
from9 == <<v9, from10>>
from8 == <<v8, from9>>
from7 == <<v7, from8>>
from6 == <<v6, from7>>
from5 == <<v5, from6>>
from4 == <<v4, from5>>
from3 == <<v3, from4>>
from2 == <<v2, from3>>
vars == <<which, v1, from2>>

idle20 == v20 = 0
idle19 == v19 = 0 /\ idle20
idle18 == v18 = 0 /\ idle19
idle17 == v17 = 0 /\ idle18
idle16 == v16 = 0 /\ idle17
idle15 == v15 = 0 /\ idle16
idle14 == v14 = 0 /\ idle15
idle13 == v13 = 0 /\ idle14
idle12 == v12 = 0 /\ idle13
idle11 == v11 = 0 /\ idle12
idle10 == v10 = 0 /\ idle11
idle9 == v9 = 0 /\ idle10
idle8 == v8 = 0 /\ idle9
idle7 == v7 = 0 /\ idle8
idle6 == v6 = 0 /\ idle7
idle5 == v5 = 0 /\ idle6
idle4 == v4 = 0 /\ idle5
idle3 == v3 = 0 /\ idle4
idle2 == v2 = 0 /\ idle3

\* A step of the component leaves the others, and the choice, alone.
keep17 == UNCHANGED <<which, from17>>
keep15 == UNCHANGED <<which, from15>>
keep13 == UNCHANGED <<which, from13>>
keep12 == UNCHANGED <<which, from12>>
keep11 == UNCHANGED <<which, from11>>
keep10 == UNCHANGED <<which, from10>>
keep9 == UNCHANGED <<which, from9>>
keep8 == UNCHANGED <<which, from8>>
keep7 == UNCHANGED <<which, from7>>
keep6 == UNCHANGED <<which, from6>>
keep5 == UNCHANGED <<which, from5>>
keep4 == UNCHANGED <<which, from4>>
keep21 == UNCHANGED which

-----------------------------------------------------------------------------
(* Inputs that are not plain sets. *)

\* What is mentioned to the bot of a party: a command in a direct message and in
\* public, a message of several lines, and one of somebody the party does not know.
TheMentions == << [sender |-> "a", direct |-> TRUE, lines |-> <<"going">>],
                  [sender |-> "a", direct |-> FALSE, lines |-> <<"no">>],
                  [sender |-> "a", direct |-> TRUE, lines |-> <<"undo", "no", "going">>],
                  [sender |-> NoValue, direct |-> TRUE, lines |-> <<"going">>] >>

\* The targets a build of housemetrics comes with: none, one, or two.
Target(name, url) == [name |-> name, url |-> url]
Deployments == { <<>>, <<Target("x", "u")>>, <<Target("x", "v"), Target("y", "u")>> }

\* A message of the wire formats with a field of every type, and values at the
\* widths where the formats change their encoding.
Ty(kind) == [kind |-> kind, of |-> <<>>, fields |-> <<>>]
Opt(ty) == [kind |-> "opt", of |-> <<ty>>, fields |-> <<>>]
List(ty) == [kind |-> "list", of |-> <<ty>>, fields |-> <<>>]
Msg(types) == [kind |-> "msg", of |-> <<>>,
               fields |-> [i \in DOMAIN types |-> [tag |-> i, ty |-> types[i]]]]
Inner == Msg(<<Ty("str"), Ty("u64")>>)
TheMessage == Msg(<<Ty("u64"), Opt(Ty("f64")), List(Ty("i64")), List(Inner),
                    Ty("f64"), Ty("bool"), List(Ty("str")), Inner>>)
Unsigned == {0, 23, 24, 127, 128, 255, 256, 65535, 65536}
Signed == {0, 1, -1, -32, -33, -128, -129, -32768, -32769, 200}
TheValues ==
    {<<u, <<>>, <<>>, <<>>, 0, 0, <<>>, <<0, 0>>>> : u \in Unsigned}
    \cup {<<1, o, <<>>, <<>>, f, b, <<>>, <<1, 0>>>> :
             o \in {<<>>} \cup {<<x>> : x \in 0..5}, f \in 0..5, b \in {0, 1}}
    \cup {<<0, <<>>, <<i, j>>, <<>>, 0, 0, <<>>, <<0, 1>>>> : i \in Signed, j \in {-33, 200}}
    \cup {<<0, <<>>, <<>>, l, 0, 0, <<s>>, <<t, 0>>>> :
             l \in {<<>>, <<<<3, 0>>, <<0, 300>>>>, <<<<40, 40>>, <<90, 1>>>>}, s \in {0, 130},
             t \in {0, 32, 123, 124, 125, 126, 127, 255, 256}}
    \cup {<<0, <<>>, [i \in 1..n[1] |-> 7 * i], <<>>, 0, 0, [i \in 1..n[2] |-> 1], <<1, 1>>>> :
             n \in {<<15, 0>>, <<16, 24>>, <<24, 16>>, <<70, 1>>}}

-----------------------------------------------------------------------------
(* The instances. *)

\* A household of two: one row for listings and two for offers, which are reused; three
\* transactions (a deal, its reversal, another deal) after the grants.
Market == INSTANCE Market WITH
    Account <- {"alice", "bob", "bank"}, Issuance <- {"bank"}, MaxSeq <- 5,
    User <- {"alice", "bob"}, Nana <- {"bob"}, Bank <- "bank", None <- NoValue, Grant <- 1,
    MaxListings <- 1, MaxOffers <- 2, Window <- 2, SettleAfter <- 1, Blocks <- 9,
    OfferText <- 1, MaxText <- 1, MaxAmount <- 1, MaxTime <- 1, MaxIds <- 3, live <- v1,
    disk <- v2, up <- v3, pending <- v4, now <- v5, nextId <- v6

\* Six accounts and six balance slots, of which another account may hold one: the code
\* has MaxAccounts + 1 = 33 slots for 2 * MaxUsers + 2 = 34 accounts.
Exchange == INSTANCE Exchange WITH
    Account <- {"ann", "ben", "annUsd", "benUsd", "bank", "usdBank"},
    Issuance <- {"bank", "usdBank"}, MaxSeq <- 5, User <- {"ann", "ben"}, Nana <- {"ann"},
    Wallet <- [ann |-> "annUsd", ben |-> "benUsd"], Bank <- "bank", UsdBank <- "usdBank",
    None <- NoValue, Grant <- [ann |-> 1, ben |-> 0], MaxQuotes <- 1, AccountCapacity <- 6,
    MaxOthers <- 1, Window <- 3, Blocks <- 1, Coins <- {1}, Rates <- {1}, MaxIssue <- 1,
    MaxTime <- 1, MaxIds <- 2, live <- v1, disk <- v2, up <- v3, pending <- v4, now <- v5,
    nextId <- v6

\* Three people for one place.
Answers == INSTANCE PartyAnswers WITH
    Person <- {"h", "a", "b"}, Host <- {"h"}, Household <- {}, Slot <- {}, Option <- {},
    Capacities <- {1}, MaxCount <- 1, MaxPlus <- 0, MaxAnswers <- 2, None <- NoValue,
    event <- v1, answer <- v2, queue <- v3, able <- v4, phase <- v5

\* Parties of one or two for two places.
Parties == INSTANCE PartyAnswers WITH
    Person <- {"h", "a"}, Host <- {"h"}, Household <- {}, Slot <- {}, Option <- {},
    Capacities <- {2}, MaxCount <- 1, MaxPlus <- 1, MaxAnswers <- 2, None <- NoValue,
    event <- v1, answer <- v2, queue <- v3, able <- v4, phase <- v5

\* A poll of times, and an item one person can bring, with a host and a guest.
Polls == INSTANCE PartyAnswers WITH
    Person <- {"h", "a"}, Host <- {"h"}, Household <- {}, Slot <- {"s"}, Option <- {"o"},
    Capacities <- {1}, MaxCount <- 1, MaxPlus <- 0, MaxAnswers <- 2, None <- NoValue,
    event <- v1, answer <- v2, queue <- v3, able <- v4, phase <- v5

Series == INSTANCE PartySeries WITH
    MaxNow <- 4, Starts <- {2}, MaxEvents <- 3, MaxMade <- 3, UpcomingLimit <- 2,
    PastLimit <- 1, Windows <- {1}, Counts <- {0, 2}, MaxTurns <- 6, Lead <- 1,
    None <- NoValue, now <- v1, events <- v2, series <- v3, next <- v4, ever <- v5

\* Three people, one of whom can sign in with an account elsewhere.
Guests == INSTANCE PartyPeople WITH
    Person <- {"a", "b", "c"}, Household <- {}, Host <- {"h1"}, Subject <- {},
    MaxIdentities <- 1, None <- NoValue, people <- v1, sessions <- v2, request <- v3,
    households <- v4, identities <- v5

\* Two people, and an account of each kind.
Doubles == INSTANCE PartyPeople WITH
    Person <- {"a", "b"}, Household <- {}, Host <- {"h1"}, Subject <- {"s"},
    MaxIdentities <- 2, None <- NoValue, people <- v1, sessions <- v2, request <- v3,
    households <- v4, identities <- v5

\* Three people for two places.
Groups == INSTANCE PartyGroups WITH
    Person <- {"a", "b", "c"}, Admin <- {}, Group <- {"g"}, None <- NoValue,
    Visibilities <- {"unlisted"}, Joins <- {"approval"}, MaxMembers <- 2, MaxInvites <- 1,
    Ids <- {1}, Uses <- {1}, MaxNow <- 0, groups <- v1, invites <- v2, nextInvite <- v3,
    now <- v4

\* An invitation good for two, that is replaced and expires.
Invited == INSTANCE PartyGroups WITH
    Person <- {"a", "b"}, Admin <- {"a"}, Group <- {"g"}, None <- NoValue,
    Visibilities <- {"unlisted"}, Joins <- {"approval"}, MaxMembers <- 2, MaxInvites <- 1,
    Ids <- {1, 2}, Uses <- {2}, MaxNow <- 1, groups <- v1, invites <- v2, nextInvite <- v3,
    now <- v4

Channels == INSTANCE PartyChannels WITH
    Ids <- {1, 2}, Kinds <- {"mail", "dm"}, Priorities <- {0}, MaxJobs <- 1,
    MaxAttempts <- 2, MailPerDay <- 1, MaxRetries <- 0, Token <- {"t"}, Instance <- {"i"},
    ValidAt <- [i \in {"i"} |-> {"t"}], None <- NoValue, jobs <- v1, nextJob <- v2,
    mail <- v3, sent <- v4, bot <- v5, flight <- v6, arrived <- v7, retries <- v8

Bot == INSTANCE PartyBot WITH
    Person <- {"a"}, Mentions <- TheMentions, MaxLines <- 2, Batch <- 2, Token <- {1, 2},
    MaxSetups <- 1, MaxWebAnswers <- 1, None <- NoValue, sent <- v1, bot <- v2,
    flight <- v3, state <- v4, replied <- v5, from <- v6, setups <- v7, webAnswers <- v8

Publish == INSTANCE PartyPublish WITH
    File <- {"f", "g"}, Version <- {1, 2}, Repo <- {"r"}, None <- NoValue,
    MaxGeneration <- 2, public <- v1, setup <- v2, due <- v3, flight <- v4, remote <- v5,
    estranged <- v6

\* One plan with two times.
Plans == INSTANCE BoardPlans WITH
    Person <- {"a"}, Admin <- {}, Fan <- {}, Overall <- {"in", "out"}, Starts <- {1, 2},
    MaxNow <- 2, Week <- 1, Gap <- {}, DoneAfter <- 1, RemindBefore <- 1, ActivePlans <- 1,
    PastPlans <- 1, MaxPlan <- 1, MaxTimeId <- 2, MaxGame <- 1, plans <- v1, nextPlan <- v2,
    catalog <- v3, nextGame <- v4, interests <- v5, now <- v6

\* One plan and two games.
Games == INSTANCE BoardPlans WITH
    Person <- {"a"}, Admin <- {}, Fan <- {"a"}, Overall <- {"in"}, Starts <- {1},
    MaxNow <- 1, Week <- 1, Gap <- {}, DoneAfter <- 0, RemindBefore <- 1, ActivePlans <- 1,
    PastPlans <- 1, MaxPlan <- 1, MaxTimeId <- 1, MaxGame <- 2, plans <- v1, nextPlan <- v2,
    catalog <- v3, nextGame <- v4, interests <- v5, now <- v6

\* Two plans, and room for two.
Room == INSTANCE BoardPlans WITH
    Person <- {"a"}, Admin <- {}, Fan <- {}, Overall <- {}, Starts <- {1, 2}, MaxNow <- 1,
    Week <- 1, Gap <- {}, DoneAfter <- 0, RemindBefore <- 1, ActivePlans <- 2,
    PastPlans <- 1, MaxPlan <- 2, MaxTimeId <- 1, MaxGame <- 1, plans <- v1, nextPlan <- v2,
    catalog <- v3, nextGame <- v4, interests <- v5, now <- v6

Notices == INSTANCE BoardNews WITH
    Person <- {"a", "b"}, Plan <- {"p"}, Kinds <- {"locked", "reminder"},
    Engaged <- {"a", "b"}, Limit <- 2, MaxId <- 3, MaxCount <- 2, lists <- v1, nextId <- v2,
    reminded <- v3, mail <- v4, disk <- v5, seen <- v6, sent <- v7

Threads == INSTANCE BoardThreads WITH
    Plan <- {"p", "q"}, Person <- {"a", "b"}, Admin <- {"b"}, PerPlan <- 2, Total <- 3,
    MaxNext <- 2, ram <- v1, disk <- v2, blob <- v3, torn <- v4

\* Saves that land, or do not, and a restart.
Outbox == INSTANCE BoardOutbox WITH
    Bots <- {"b1"}, Kinds <- {"email"}, QUEUE <- 2, MaxAttempts <- 2, DAILY_LIMIT <- 2,
    Landed <- {0, 3}, MaxJob <- 3, MaxSetups <- 1, MaxRetries <- 0, MaxBoots <- 1,
    bot <- v1, setup <- v2, generation <- v3, botRuns <- v4, mail <- v5, mailSetup <- v6,
    mailBusy <- v7, mailDue <- v8, mailRuns <- v9, sentToday <- v10, jobs <- v11,
    nextId <- v12, links <- v13, flight <- v14, disk <- v15, asked <- v16, lost <- v17,
    setups <- v18, retries <- v19, boots <- v20

Setups == INSTANCE BoardOutbox WITH
    Bots <- {"b1"}, Kinds <- {"email"}, QUEUE <- 1, MaxAttempts <- 2, DAILY_LIMIT <- 1,
    Landed <- {0, 3}, MaxJob <- 1, MaxSetups <- 2, MaxRetries <- 0, MaxBoots <- 1,
    bot <- v1, setup <- v2, generation <- v3, botRuns <- v4, mail <- v5, mailSetup <- v6,
    mailBusy <- v7, mailDue <- v8, mailRuns <- v9, sentToday <- v10, jobs <- v11,
    nextId <- v12, links <- v13, flight <- v14, disk <- v15, asked <- v16, lost <- v17,
    setups <- v18, retries <- v19, boots <- v20

Replies == INSTANCE BoardReplies WITH
    Person <- {"a"}, Stranger <- {}, Page <- 1, MaxId <- 3, MaxSite <- 1, MaxBoots <- 1,
    server <- v1, bot <- v2, replies <- v3, inbox <- v4, stored <- v5, poll <- v6,
    state <- v7, disk <- v8, open <- v9, acking <- v10, applied <- v11, settled <- v12,
    siteAnswers <- v13, boots <- v14

Members == INSTANCE BoardPeople WITH
    Email <- {"e"}, Subject <- {"s"}, MaxAccounts <- 2, MaxProviders <- 2, MaxProvider <- 1,
    accounts <- v1, signup_closed <- v2, providers <- v3, next_provider <- v4,
    sessions <- v5, entering <- v6, resets <- v7, tickets <- v8

\* Two rows, and commits that end at any write.
Flash == INSTANCE BoardStore WITH
    Row <- {"r1", "r2"}, Value <- {"v"}, None <- NoValue, Empty <- NoBytes,
    Torn <- TornBytes, MaxGeneration <- 3, MaxCommits <- 2, slots <- v1, kv <- v2,
    store <- v3, ram <- v4, dirty <- v5, point <- v6, todo <- v7, pc <- v8, old <- v9,
    done <- v10, commits <- v11

Records == INSTANCE RecordStore WITH
    Id <- {1}, Person <- {"p"}, Value <- {"a", "b"}, Sessions <- {"a"}, None <- NoValue,
    Zero <- "a", MaxUndo <- 1, kv <- v1, table <- v2, sess <- v3, meta <- v4, store <- v5,
    point <- v6, todo <- v7, pc <- v8

\* Three slots, and sequence numbers that run out before the fifth submit, which
\* numbers again what waits.
Queue == INSTANCE FwQueue WITH
    Owner <- {"a", "b"}, Slots <- 3, Workers <- 1, PerOwner <- 2, Lifetime <- 2,
    MaxSequence <- 4, MaxSubmits <- 5, MaxNow <- 2, entries <- v1, sequence <- v2,
    now <- v3, claimed <- v4, submits <- v5, order <- v6

\* For the liveness run: two slots, renumbered by the fourth submit.
LQueue == INSTANCE FwQueue WITH
    Owner <- {"a", "b"}, Slots <- 2, Workers <- 1, PerOwner <- 2, Lifetime <- 2,
    MaxSequence <- 3, MaxSubmits <- 4, MaxNow <- 2, entries <- v1, sequence <- v2,
    now <- v3, claimed <- v4, submits <- v5, order <- v6

Restarts == INSTANCE FwOps WITH
    Key <- {"k1", "k2"}, Slots <- 2, Cooldown <- 1, Validity <- 1, MaxNow <- 1,
    MaxGrants <- 1, MaxBoots <- 2, entries <- v1, grant <- v2, pending <- v3,
    previous <- v4, retained <- v5, draining <- v6, now <- v7, boots <- v8, given <- v9,
    runs <- v10

Log == INSTANCE FwLog WITH
    Capacity <- 6, Header <- 1, Cells <- 5, MaxSequence <- 5, Length <- {1, 3, 6},
    Limit <- {1, 5}, MaxLines <- 5, records <- v1, next_seq <- v2, first_seq <- v3,
    lines <- v4, after <- v5, seen <- v6, restarted <- v7, cell <- v8, pos <- v9,
    wrapped <- v10, mirrored <- v11

Logins == INSTANCE FwSessions WITH
    Subject <- {"a", "b"}, Idle <- 3, Absolute <- 5, PerSubject <- 1, Capacity <- 1,
    Touch <- 2, Start <- 2, MaxNow <- 7, MaxTokens <- 2, records <- v1, dirty <- v2,
    saved <- v3, time <- v4, clock_set <- v5, tokens <- v6, used <- v7

\* One place, which a second connection takes when it is idle; two requests on each.
Serve == INSTANCE FwServe WITH
    Conn <- {"a", "b"}, Clients <- 1, Budget <- 1, Unit <- {1}, Idle <- 1, Deadline <- 0,
    Stall <- 1, Linger <- 1, Old <- 2, MaxRequests <- 2, state <- v1, wire <- v2, eof <- v3,
    reads <- v4, input <- v5, response <- v6, quiet <- v7, waiting <- v8, stalled <- v9,
    draining <- v10, sent <- v11, answered <- v12

\* Two connections at once, whose replies of one or two units share a budget of two.
Turns == INSTANCE FwServe WITH
    Conn <- {"a", "b"}, Clients <- 2, Budget <- 2, Unit <- {1, 2}, Idle <- 1, Deadline <- 0,
    Stall <- 1, Linger <- 1, Old <- 2, MaxRequests <- 1, state <- v1, wire <- v2, eof <- v3,
    reads <- v4, input <- v5, response <- v6, quiet <- v7, waiting <- v8, stalled <- v9,
    draining <- v10, sent <- v11, answered <- v12

OAuth == INSTANCE FwOAuth WITH
    Origin <- {"h", "s"}, capacity <- 1, MaxUris <- 2, MaxStarts <- 3, MaxClients <- 2,
    flights <- v1, started <- v2, jobs <- v3, work <- v4, stored <- v5, kept <- v6,
    clients <- v7, live <- v8, spent <- v9, told <- v10

\* More kinds of incident than the mirror has room for.
Incidents == INSTANCE FwIncidents WITH
    Task <- {"p", "q"}, Kind <- {"k", "l", "m"}, CountOnly <- {}, EVENTS <- 4, RING <- 2,
    COALESCE <- 0, MaxNow <- 0, MaxRecords <- 4, MaxBoots <- 2, events <- v1,
    event_next <- v2, event_len <- v3, overwritten <- v4, dropped <- v5, counts <- v6,
    lock <- v7, at <- v8, magic <- v9, cells <- v10, mirrored <- v11, previous <- v12,
    stored <- v13, now <- v14, records <- v15, boots <- v16

\* A history that overwrites its oldest entry, and three boots.
Resets == INSTANCE FwIncidents WITH
    Task <- {"p", "q"}, Kind <- {"k", "r"}, CountOnly <- {"r"}, EVENTS <- 2, RING <- 2,
    COALESCE <- 0, MaxNow <- 2, MaxRecords <- 3, MaxBoots <- 3, events <- v1,
    event_next <- v2, event_len <- v3, overwritten <- v4, dropped <- v5, counts <- v6,
    lock <- v7, at <- v8, magic <- v9, cells <- v10, mirrored <- v11, previous <- v12,
    stored <- v13, now <- v14, records <- v15, boots <- v16

\* A clock that wraps at 8, and a loop that is late by then; memory is never low.
Workers == INSTANCE FwWorkers WITH
    Worker <- {"p", "q"}, W <- 8, STALL <- 2, PERIOD <- 2, HEAP_LOW <- 0, Start <- 7,
    MaxNow <- 9, now <- v1, beats <- v2, active <- v3, turn <- v4, beaten <- v5, look <- v6,
    sampled <- v7, wifi <- v8, stalled <- v9, heap_low <- v10, alarms <- v11

H2 == INSTANCE FwH2 WITH
    max_streams <- 1, QUEUED_STREAMS <- 1, RECV_WINDOW <- 2, DEFAULT_WINDOW <- 2,
    PeerWindow <- {0, 1}, Response <- {0, 3}, Upload <- {2}, MaxStream <- 3, MaxFrames <- 3,
    streams <- v1, last_stream <- v2, send_window <- v3, peer_initial_window <- v4,
    continuation <- v5, closing <- v6, step <- v7, input <- v8, out <- v9, open <- v10,
    sent <- v11, credit <- v12, room <- v13, ended <- v14

Site == INSTANCE FwSite WITH
    MaxData <- 1, Large <- {1}, GzipOnly <- FALSE, Validated <- {"body"},
    Path <- {"app", "public", "own", "sys", "metrics", "setup", "trust", "page", "lost"},
    Method <- {"GET", "POST", "OPTIONS"}, Fmt <- {"cbor", "odd"},
    Origin <- {"", "listed", "other"}, MaxCalls <- 2, data <- v1, release <- v2,
    https <- v3, cache <- v4, req <- v5, reply <- v6, calls <- v7, answer <- v8

Wire == INSTANCE FwWire WITH
    Format <- {"json", "msgpack", "cbor", "cbor-int", "protobuf"}, MAX_DEPTH <- 4,
    Limit <- {20, 132, 1000}, Message <- TheMessage, Value <- TheValues, Older <- {2, 4, 7},
    value <- v1, format <- v2, calls <- v3, w <- v4

Wifi == INSTANCE FwWifi WITH
    Net <- {"n1"}, Bad <- "bad", Minutes <- {1}, MINUTE <- 1, JOIN_TIMEOUT <- 1, GRACE <- 1,
    RETRY_SAVED <- 1, BOOT_ATTEMPTS <- 1, MaxJoins <- 1, build <- v1, power <- v2,
    left <- v3, saved <- v4, nvs <- v5, driver <- v6, air <- v7, phones <- v8, radio <- v9,
    joining <- v10, due <- v11, job <- v12, ctl <- v13, worker <- v14, won <- v15,
    joins <- v16

\* Listings, offers and purchases.
Coins == INSTANCE ArchiveLedger WITH
    MEMBERS <- 2, LISTINGS <- 1, OFFERS <- 2, QUOTES <- 1, HISTORY <- 1, MAX_RECORDS <- 4,
    MAX_AMOUNT <- 4, MAX_BALANCE <- 9, MAX_TIME <- 9, Amount <- {1}, Grant <- {1},
    Settle <- {1}, Kind <- {"provision", "create", "list", "offer", "buy", "reverse"},
    MaxClock <- 2, MaxSequence <- 11, members <- v1, coin <- v2, usd <- v3, listings <- v4,
    offers <- v5, quotes <- v6, history <- v7, sequence <- v8, last_timestamp <- v9,
    offer_settles_after <- v10, transactions <- v11, clock <- v12, past <- v13,
    replays <- v14

\* Members, money and quotes.
Dollars == INSTANCE ArchiveLedger WITH
    MEMBERS <- 2, LISTINGS <- 1, OFFERS <- 2, QUOTES <- 1, HISTORY <- 1, MAX_RECORDS <- 1,
    MAX_AMOUNT <- 4, MAX_BALANCE <- 9, MAX_TIME <- 9, Amount <- {1}, Grant <- {1},
    Settle <- {1},
    Kind <- {"provision", "create", "update", "configure", "issue", "retire", "transfer", "usd", "quote"},
    MaxClock <- 1, MaxSequence <- 11, members <- v1, coin <- v2, usd <- v3, listings <- v4,
    offers <- v5, quotes <- v6, history <- v7, sequence <- v8, last_timestamp <- v9,
    offer_settles_after <- v10, transactions <- v11, clock <- v12, past <- v13,
    replays <- v14

Journal == INSTANCE ArchiveService WITH
    Op <- {"o1", "o2", "o3"}, MAX_RECORDS <- 2, CHECKPOINT_AFTER <- 1,
    Fault <- {"power", "error"}, MaxGeneration <- 2, MaxFaults <- 1, head <- v1,
    head_synced <- v2, logs <- v3, synced <- v4, snapshots <- v5, up <- v6, state <- v7,
    generation <- v8, records <- v9, storage_failed <- v10, at <- v11, job <- v12,
    key <- v13, acked <- v14, reviewed <- v15, faults <- v16

Doors == INSTANCE ArchiveAuth WITH
    Member <- {"a"}, Stranger <- "z", MAX_SESSIONS <- 1, MAX_CODES <- 2, FAILURES <- 2,
    TRIES <- 2, SESSION_TTL <- 2, CODE_TTL <- 1, LOCKOUT <- 2, MaxClock <- 3,
    MaxChanges <- 1, clock <- v1, disabled <- v2, credentials <- v3, sessions <- v4,
    codes <- v5, failures <- v6, tried <- v7

Packing == INSTANCE MetricsGorilla WITH
    W <- 4, LEADING <- 1, MEANINGFUL <- 2, TIME <- <<2, 3, 4, 5>>, Delta <- {1, 4, 8, 19},
    MaxPoints <- 3, buf <- v1, enc <- v2, written <- v3

\* Two series of one point a block, and the three blocks they compete for: the second
\* takes a block of the first, also while a client is between two pages of it.
Points == INSTANCE MetricsStore WITH
    Key <- {"a", "b"}, MAX_SERIES <- 2, BLOCKS <- 3, BLOCK_BITS <- 3, WORST_POINT_BITS <- 2,
    MAX_DOD <- 2, ROLLUP <- 2, SLOTS <- 2, LIMIT <- 1, MAX_POINTS <- 3, Value <- {1},
    From <- {1}, MaxTime <- 3, MaxAccepted <- 5, MaxRemoved <- 0, series <- v1, free <- v2,
    metas <- v3, arena <- v4, accepted <- v5, removed <- v6, history <- v7, untold <- v8,
    reader <- v9

\* One series, removed and made again, and queries that reach back before it.
Old == INSTANCE MetricsStore WITH
    Key <- {"a"}, MAX_SERIES <- 1, BLOCKS <- 2, BLOCK_BITS <- 5, WORST_POINT_BITS <- 2,
    MAX_DOD <- 2, ROLLUP <- 2, SLOTS <- 2, LIMIT <- 1, MAX_POINTS <- 3, Value <- {1},
    From <- {1}, MaxTime <- 5, MaxAccepted <- 5, MaxRemoved <- 1, series <- v1, free <- v2,
    metas <- v3, arena <- v4, accepted <- v5, removed <- v6, history <- v7, untold <- v8,
    reader <- v9

Targets == INSTANCE MetricsTargets WITH
    Name <- {"x", "y"}, Url <- {"u", "v"}, Deployment <- Deployments, MAX_TARGETS <- 2,
    MAX_DEVICES <- 2, MaxIds <- 2, MaxBoots <- 2, inner <- v1, seen <- v2, due <- v3,
    devices <- v4, kv <- v5, told <- v6, booted <- v7, boots <- v8

\* For the liveness run: one plan with one time.
LPlans == INSTANCE BoardPlans WITH
    Person <- {"a"}, Admin <- {}, Fan <- {}, Overall <- {"in", "out"}, Starts <- {1, 2},
    MaxNow <- 2, Week <- 1, Gap <- {}, DoneAfter <- 1, RemindBefore <- 1, ActivePlans <- 1,
    PastPlans <- 1, MaxPlan <- 1, MaxTimeId <- 1, MaxGame <- 1, plans <- v1, nextPlan <- v2,
    catalog <- v3, nextGame <- v4, interests <- v5, now <- v6

\* For the liveness run: no retry by hand, which could be repeated for ever.
LChannels == INSTANCE PartyChannels WITH
    Ids <- {1, 2}, Kinds <- {"mail", "dm"}, Priorities <- {0}, MaxJobs <- 1,
    MaxAttempts <- 2, MailPerDay <- 1, MaxRetries <- 0, Token <- {"t"}, Instance <- {"i"},
    ValidAt <- [i \in {"i"} |-> {"t"}], None <- NoValue, jobs <- v1, nextJob <- v2,
    mail <- v3, sent <- v4, bot <- v5, flight <- v6, arrived <- v7, retries <- v8

\* For the liveness run: one retry by hand, no restart, every save lands.
LOutbox == INSTANCE BoardOutbox WITH
    Bots <- {"b1"}, Kinds <- {"post", "email"}, QUEUE <- 2, MaxAttempts <- 2,
    DAILY_LIMIT <- 1, Landed <- {3}, MaxJob <- 2, MaxSetups <- 2, MaxRetries <- 1,
    MaxBoots <- 0, bot <- v1, setup <- v2, generation <- v3, botRuns <- v4, mail <- v5,
    mailSetup <- v6, mailBusy <- v7, mailDue <- v8, mailRuns <- v9, sentToday <- v10,
    jobs <- v11, nextId <- v12, links <- v13, flight <- v14, disk <- v15, asked <- v16,
    lost <- v17, setups <- v18, retries <- v19, boots <- v20

\* For the liveness run: shorter windows, and a board with the portal and no network built in.
LWifi == INSTANCE FwWifi WITH
    Net <- {"n1"}, Bad <- "bad", Minutes <- {1}, MINUTE <- 1, JOIN_TIMEOUT <- 1, GRACE <- 1,
    RETRY_SAVED <- 1, BOOT_ATTEMPTS <- 1, MaxJoins <- 1, build <- v1, power <- v2,
    left <- v3, saved <- v4, nvs <- v5, driver <- v6, air <- v7, phones <- v8, radio <- v9,
    joining <- v10, due <- v11, job <- v12, ctl <- v13, worker <- v14, won <- v15,
    joins <- v16

ASSUME Incidents!RingAssumption /\ Resets!RingAssumption /\ Workers!WidthAssumption
       /\ Queue!SequenceAssumption /\ LQueue!SequenceAssumption /\ Channels!ChannelAssumption
       /\ Market!MarketAssumption /\ Exchange!ExchangeAssumption /\ Records!RecordStoreAssumption

-----------------------------------------------------------------------------
(* Which component runs is chosen at the start and stays. *)

InitMarket == which = "Market" /\ Market!Init /\ idle7
InitExchange == which = "Exchange" /\ Exchange!Init /\ idle7
InitAnswers == which = "Answers" /\ Answers!Init /\ idle6
InitParties == which = "Parties" /\ Parties!Init /\ idle6
InitPolls == which = "Polls" /\ Polls!Init /\ idle6
InitSeries == which = "Series" /\ Series!Init /\ idle6
InitGuests == which = "Guests" /\ Guests!Init /\ idle6
InitDoubles == which = "Doubles" /\ Doubles!Init /\ idle6
InitGroups == which = "Groups" /\ Groups!Init /\ idle5
InitInvited == which = "Invited" /\ Invited!Init /\ idle5
InitChannels == which = "Channels" /\ Channels!Init /\ idle9
InitBot == which = "Bot" /\ Bot!Init /\ idle9
InitPublish == which = "Publish" /\ Publish!Init /\ idle7
InitPlans == which = "Plans" /\ Plans!Init /\ idle7
InitGames == which = "Games" /\ Games!Init /\ idle7
InitRoom == which = "Room" /\ Room!Init /\ idle7
InitNotices == which = "Notices" /\ Notices!Init /\ idle8
InitThreads == which = "Threads" /\ Threads!Init /\ idle5
InitOutbox == which = "Outbox" /\ Outbox!Init
InitSetups == which = "Setups" /\ Setups!Init
InitReplies == which = "Replies" /\ Replies!Init /\ idle15
InitMembers == which = "Members" /\ Members!Init /\ idle9
InitFlash == which = "Flash" /\ Flash!Init /\ idle12
InitRecords == which = "Records" /\ Records!Init /\ idle9
InitQueue == which = "Queue" /\ Queue!Init /\ idle7
InitLQueue == which = "LQueue" /\ LQueue!Init /\ idle7
InitRestarts == which = "Restarts" /\ Restarts!Init /\ idle11
InitLog == which = "Log" /\ Log!Init /\ idle12
InitLogins == which = "Logins" /\ Logins!Init /\ idle8
InitServe == which = "Serve" /\ Serve!Init /\ idle13
InitTurns == which = "Turns" /\ Turns!Init /\ idle13
InitOAuth == which = "OAuth" /\ OAuth!Init /\ idle11
InitIncidents == which = "Incidents" /\ Incidents!Init /\ idle17
InitResets == which = "Resets" /\ Resets!Init /\ idle17
InitWorkers == which = "Workers" /\ Workers!Init /\ idle12
InitH2 == which = "H2" /\ H2!Init /\ idle15
InitSite == which = "Site" /\ Site!Init /\ idle9
InitWire == which = "Wire" /\ Wire!Init /\ idle5
InitWifi == which = "Wifi" /\ Wifi!Init /\ idle17
InitCoins == which = "Coins" /\ Coins!Init /\ idle15
InitDollars == which = "Dollars" /\ Dollars!Init /\ idle15
InitJournal == which = "Journal" /\ Journal!Init /\ idle17
InitDoors == which = "Doors" /\ Doors!Init /\ idle8
InitPacking == which = "Packing" /\ Packing!Init /\ idle4
InitPoints == which = "Points" /\ Points!Init /\ idle10
InitOld == which = "Old" /\ Old!Init /\ idle10
InitTargets == which = "Targets" /\ Targets!Init /\ idle9
InitLPlans == which = "LPlans" /\ LPlans!Init /\ idle7
InitLChannels == which = "LChannels" /\ LChannels!Init /\ idle9
InitLOutbox == which = "LOutbox" /\ LOutbox!Init
InitLWifi == which = "LWifi" /\ LWifi!Init /\ v1.portal /\ v1.builtin = LWifi!NoCred /\ idle17

RunMarket == which = "Market" /\ Market!Next /\ keep7
RunExchange == which = "Exchange" /\ Exchange!Next /\ keep7
RunAnswers == which = "Answers" /\ Answers!Next /\ keep6
RunParties == which = "Parties" /\ Parties!Next /\ keep6
RunPolls == which = "Polls" /\ Polls!Next /\ keep6
RunSeries == which = "Series" /\ Series!Next /\ keep6
RunGuests == which = "Guests" /\ Guests!Next /\ keep6
RunDoubles == which = "Doubles" /\ Doubles!Next /\ keep6
RunGroups == which = "Groups" /\ Groups!Next /\ keep5
RunInvited == which = "Invited" /\ Invited!Next /\ keep5
RunChannels == which = "Channels" /\ Channels!Next /\ keep9
RunBot == which = "Bot" /\ Bot!Next /\ keep9
RunPublish == which = "Publish" /\ Publish!Next /\ keep7
RunPlans == which = "Plans" /\ Plans!Next /\ keep7
RunGames == which = "Games" /\ Games!Next /\ keep7
RunRoom == which = "Room" /\ Room!Next /\ keep7
RunNotices == which = "Notices" /\ Notices!Next /\ keep8
RunThreads == which = "Threads" /\ Threads!Next /\ keep5
RunOutbox == which = "Outbox" /\ Outbox!Next /\ keep21
RunSetups == which = "Setups" /\ Setups!Next /\ keep21
RunReplies == which = "Replies" /\ Replies!Next /\ keep15
RunMembers == which = "Members" /\ Members!Next /\ keep9
RunFlash == which = "Flash" /\ Flash!Next /\ keep12
RunRecords == which = "Records" /\ Records!Next /\ keep9
RunQueue == which = "Queue" /\ Queue!Next /\ keep7
RunLQueue == which = "LQueue" /\ LQueue!Next /\ keep7
RunRestarts == which = "Restarts" /\ Restarts!Next /\ keep11
RunLog == which = "Log" /\ Log!Next /\ keep12
RunLogins == which = "Logins" /\ Logins!Next /\ keep8
RunServe == which = "Serve" /\ Serve!Next /\ keep13
RunTurns == which = "Turns" /\ Turns!Next /\ keep13
RunOAuth == which = "OAuth" /\ OAuth!Next /\ keep11
RunIncidents == which = "Incidents" /\ Incidents!Next /\ keep17
RunResets == which = "Resets" /\ Resets!Next /\ keep17
RunWorkers == which = "Workers" /\ Workers!Next /\ keep12
RunH2 == which = "H2" /\ H2!Next /\ keep15
RunSite == which = "Site" /\ Site!Next /\ keep9
RunWire == which = "Wire" /\ Wire!Next /\ keep5
RunWifi == which = "Wifi" /\ Wifi!Next /\ keep17
RunCoins == which = "Coins" /\ Coins!Next /\ keep15
RunDollars == which = "Dollars" /\ Dollars!Next /\ keep15
RunJournal == which = "Journal" /\ Journal!Next /\ keep17
RunDoors == which = "Doors" /\ Doors!Next /\ keep8
RunPacking == which = "Packing" /\ Packing!Next /\ keep4
RunPoints == which = "Points" /\ Points!Next /\ keep10
RunOld == which = "Old" /\ Old!Next /\ keep10
RunTargets == which = "Targets" /\ Targets!Next /\ keep9
RunLPlans == which = "LPlans" /\ LPlans!Next /\ keep7
RunLChannels == which = "LChannels" /\ LChannels!Next /\ keep9
RunLOutbox == which = "LOutbox" /\ LOutbox!Next /\ keep21
RunLWifi == which = "LWifi" /\ LWifi!Next /\ keep17

\* The two applications.
AppsInit ==
    \/ InitAnswers
    \/ InitParties
    \/ InitPolls
    \/ InitSeries
    \/ InitGuests
    \/ InitDoubles
    \/ InitGroups
    \/ InitInvited
    \/ InitChannels
    \/ InitBot
    \/ InitPublish
    \/ InitPlans
    \/ InitGames
    \/ InitRoom
    \/ InitNotices
    \/ InitThreads
    \/ InitOutbox
    \/ InitSetups
    \/ InitReplies
    \/ InitMembers
    \/ InitFlash
    \/ InitRecords
AppsNext ==
    \/ RunAnswers
    \/ RunParties
    \/ RunPolls
    \/ RunSeries
    \/ RunGuests
    \/ RunDoubles
    \/ RunGroups
    \/ RunInvited
    \/ RunChannels
    \/ RunBot
    \/ RunPublish
    \/ RunPlans
    \/ RunGames
    \/ RunRoom
    \/ RunNotices
    \/ RunThreads
    \/ RunOutbox
    \/ RunSetups
    \/ RunReplies
    \/ RunMembers
    \/ RunFlash
    \/ RunRecords
AppsSpec == AppsInit /\ [][AppsNext]_vars

\* The framework and the services built on it.
ServicesInit ==
    \/ InitQueue
    \/ InitRestarts
    \/ InitLog
    \/ InitLogins
    \/ InitServe
    \/ InitTurns
    \/ InitOAuth
    \/ InitIncidents
    \/ InitResets
    \/ InitWorkers
    \/ InitH2
    \/ InitSite
    \/ InitWire
    \/ InitWifi
    \/ InitCoins
    \/ InitDollars
    \/ InitJournal
    \/ InitDoors
    \/ InitPacking
    \/ InitPoints
    \/ InitOld
    \/ InitTargets
ServicesNext ==
    \/ RunQueue
    \/ RunRestarts
    \/ RunLog
    \/ RunLogins
    \/ RunServe
    \/ RunTurns
    \/ RunOAuth
    \/ RunIncidents
    \/ RunResets
    \/ RunWorkers
    \/ RunH2
    \/ RunSite
    \/ RunWire
    \/ RunWifi
    \/ RunCoins
    \/ RunDollars
    \/ RunJournal
    \/ RunDoors
    \/ RunPacking
    \/ RunPoints
    \/ RunOld
    \/ RunTargets
ServicesSpec == ServicesInit /\ [][ServicesNext]_vars

\* The components with something that must happen in the end.
LiveInit ==
    \/ InitBot
    \/ InitLQueue
    \/ InitTurns
    \/ InitOAuth
    \/ InitLPlans
    \/ InitLChannels
    \/ InitLOutbox
    \/ InitLWifi
LiveNext ==
    \/ RunBot
    \/ RunLQueue
    \/ RunTurns
    \/ RunOAuth
    \/ RunLPlans
    \/ RunLChannels
    \/ RunLOutbox
    \/ RunLWifi

\* The fairness of each component's Spec.  As `which` never changes, one fairness
\* condition can stand for an action of each: what runs is taken again and again.
LiveFairness ==
    /\ WF_vars(\/ which = "LQueue" /\ keep7 /\ LQueue!claim
               \/ which = "Turns" /\ keep13 /\ Turns!Tick
               \/ which = "OAuth" /\ keep11 /\ OAuth!run_once
               \/ which = "LPlans" /\ keep7 /\ LPlans!Tick
               \/ which = "Bot" /\ keep9 /\ Bot!PollBot
               \/ which = "LWifi" /\ keep17 /\ LWifi!Joining
               \/ which = "LChannels" /\ keep9 /\ LChannels!CheckMail
               \/ which = "LOutbox" /\ keep21 /\ LOutbox!TakeSetup)
    /\ WF_vars(\/ which = "LQueue" /\ keep7 /\ LQueue!Clock
               \/ which = "Turns" /\ keep13 /\ Turns!poll("a")
               \/ which = "LPlans" /\ keep7 /\ LPlans!Clock
               \/ which = "LWifi" /\ keep17 /\ LWifi!Worker
               \/ which = "LChannels" /\ keep9 /\ LChannels!CheckBot
               \/ which = "LOutbox" /\ keep21 /\ LOutbox!SetupDone)
    /\ WF_vars(\/ which = "LQueue" /\ keep7 /\ \E id \in 1..4 : LQueue!complete(id)
               \/ which = "Turns" /\ keep13 /\ Turns!poll("b")
               \/ which = "LWifi" /\ keep17 /\ LWifi!Tick
               \/ which = "LChannels" /\ keep9 /\ LChannels!Deliver
               \/ which = "LOutbox" /\ keep21 /\ LOutbox!TakeMailSetup)
    /\ WF_vars(\/ which = "LWifi" /\ keep17 /\ \E force_setup \in BOOLEAN : LWifi!BootReads(force_setup)
               \/ which = "LChannels" /\ keep9 /\ \E ok \in BOOLEAN : LChannels!MailChecked(ok)
               \/ which = "LOutbox" /\ keep21 /\ LOutbox!MailSetupDone)
    /\ WF_vars(\/ which = "LWifi" /\ keep17 /\ \E opened \in BOOLEAN : LWifi!Housekeeping(opened)
               \/ which = "LChannels" /\ keep9 /\ LChannels!BotChecked
               \/ which = "LOutbox" /\ keep21 /\ LOutbox!JobDone)
    /\ WF_vars(\/ which = "LChannels" /\ keep9 /\ LChannels!RetryTimeComes(1)
               \/ which = "LOutbox" /\ keep21 /\ LOutbox!Clock)
    /\ WF_vars(which = "LChannels" /\ keep9 /\ LChannels!RetryTimeComes(2))
    /\ WF_vars(which = "LChannels" /\ keep9 /\ LChannels!DayPasses)
    /\ SF_vars(\/ which = "LWifi" /\ keep17 /\ LWifi!Housekeeping(TRUE)
               \/ which = "Bot" /\ keep9 /\ Bot!TakeMentions
               \/ which = "LChannels" /\ keep9 /\ \E ok \in BOOLEAN : LChannels!Delivered(ok)
               \/ which = "LOutbox" /\ keep21 /\ LOutbox!TakeJob)
LiveSpec == LiveInit /\ [][LiveNext]_vars /\ LiveFairness

\* The marketplace and the exchange.
TradeInit ==
    \/ InitMarket
    \/ InitExchange
TradeNext ==
    \/ RunMarket
    \/ RunExchange
TradeSpec == TradeInit /\ [][TradeNext]_vars

\* The exchange alone.
LegsInit ==
    \/ InitExchange
LegsNext ==
    \/ RunExchange
LegsSpec == LegsInit /\ [][LegsNext]_vars

-----------------------------------------------------------------------------
(* Properties. *)

\* The type invariants of the applications' components.
AppsTypeOK ==
    /\ which = "Answers" => Answers!TypeOK
    /\ which = "Parties" => Parties!TypeOK
    /\ which = "Polls" => Polls!TypeOK
    /\ which = "Series" => Series!TypeOK
    /\ which = "Guests" => Guests!TypeOK
    /\ which = "Doubles" => Doubles!TypeOK
    /\ which = "Groups" => Groups!TypeOK
    /\ which = "Invited" => Invited!TypeOK
    /\ which = "Channels" => Channels!TypeOK
    /\ which = "Publish" => Publish!TypeOK
    /\ which = "Plans" => Plans!TypeOK
    /\ which = "Games" => Games!TypeOK
    /\ which = "Room" => Room!TypeOK
    /\ which = "Notices" => Notices!TypeOK
    /\ which = "Threads" => Threads!TypeOK
    /\ which = "Outbox" => Outbox!TypeOK
    /\ which = "Setups" => Setups!TypeOK
    /\ which = "Replies" => Replies!TypeOK
    /\ which = "Members" => Members!TypeOK
    /\ which = "Flash" => Flash!TypeOK
    /\ which = "Records" => Records!TypeOK

\* A change of a party reaches flash whole or not at all, a request that fails leaves
\* the state as it was, and a boot finds what the last commit left (party/api/src/api.rs,
\* state.rs, records.rs): every step of RecordStore is one of AtomicStore, or none.
AtomicSpec ==
    /\ which = "Records" => Records!Atomic!Init
    /\ [][which = "Records" => Records!AtomicStep]_vars

\* What is kept agrees with what was meant to be kept: a party's RAM that is not
\* dirty is on disk; a slot store serves the last commit that landed, whatever write
\* a power cut hit; mail that was handed on is on disk as handed on; the threads in
\* RAM, in the index and in their blob are the same threads.
SavedIsMeant ==
    /\ which = "Records" => Records!CleanMeansSaved
    /\ which = "Flash" => Flash!ServesTheLast
    /\ which = "Notices" => Notices!MailIsSaved
    /\ which = "Threads" => Threads!ThreadsAgree

\* Nobody waits for a place there is; plans past their limit go and leave nothing behind
\* that names them; the uses of an invitation and those who used it add up; and whatever is
\* left, removed, demoted or unlinked, in whatever order, a board keeps an admin who can
\* sign in, a group keeps an organizer, and an account elsewhere opens one person's door.
HouseRules ==
    /\ which = "Answers" => Answers!NobodyWaitsForRoom
    /\ which = "Parties" => Parties!NobodyWaitsForRoom
    /\ which = "Polls" => Polls!NobodyWaitsForRoom
    /\ which = "Plans" => Plans!NothingDangles /\ Plans!RoomIsKept
    /\ which = "Games" => Games!NothingDangles /\ Games!RoomIsKept
    /\ which = "Room" => Room!NothingDangles /\ Room!RoomIsKept
    /\ which = "Guests" => Guests!SomeoneInCharge
    /\ which = "Doubles" => Doubles!SomeoneInCharge
    /\ which = "Groups" => Groups!InvitesAreCounted /\ Groups!GroupIsLed
    /\ which = "Invited" => Invited!InvitesAreCounted /\ Invited!GroupIsLed
    /\ which = "Members" => Members!SomeoneInCharge /\ Members!OneDoorEach

\* A reply is applied once and none is skipped, also over restarts; a mention of the
\* bot runs once and is answered; there is one unread notice of a kind about a plan;
\* a bot that was removed stays removed; what publication remembers is published.
EachOnce ==
    /\ which = "Replies" => Replies!AppliedOnce /\ Replies!NoneSkipped
    /\ which = "Notices" => Notices!OneUnread
    /\ which = "Outbox" => Outbox!RemovedStaysRemoved
    /\ which = "Setups" => Setups!RemovedStaysRemoved
    /\ which = "Bot" => Bot!RunOnce
    /\ which = "Publish" => Publish!RememberedIsThere

\* No step fills an event past its capacity, makes an occurrence of a series twice or
\* late, moves an answer to another time of a plan, lets an older command overrule a newer
\* answer, takes away the last way in of a person, or drops a message that waits to be
\* sent; one that is marked as sent arrived.
NothingIsTakenBack ==
    [][/\ which = "Answers" => Answers!NothingOverfilled
       /\ which = "Parties" => Parties!NothingOverfilled
       /\ which = "Polls" => Polls!NothingOverfilled
       /\ which = "Series" => Series!OnceAndInTime
       /\ which = "Plans" => Plans!NoAnswerMoves
       /\ which = "Games" => Games!NoAnswerMoves
       /\ which = "Room" => Room!NoAnswerMoves
       /\ which = "Replies" => Replies!NoOldCommandWins
       /\ which = "Guests" => Guests!WayInIsKept
       /\ which = "Doubles" => Doubles!WayInIsKept
       /\ which = "Channels" => Channels!NothingVanishes
       /\ which = "Outbox" => Outbox!QueuedIsKept
       /\ which = "Setups" => Setups!QueuedIsKept]_vars

\* The type invariants of the framework's and the services' components.
ServicesTypeOK ==
    /\ which = "Queue" => Queue!TypeOK
    /\ which = "Restarts" => Restarts!TypeOK
    /\ which = "Log" => Log!TypeOK
    /\ which = "Logins" => Logins!TypeOK
    /\ which = "Serve" => Serve!TypeOK
    /\ which = "Turns" => Turns!TypeOK
    /\ which = "OAuth" => OAuth!TypeOK
    /\ which = "Incidents" => Incidents!TypeOK
    /\ which = "Resets" => Resets!TypeOK
    /\ which = "Workers" => Workers!TypeOK
    /\ which = "H2" => H2!TypeOK
    /\ which = "Site" => Site!TypeOK
    /\ which = "Wire" => Wire!TypeOK
    /\ which = "Wifi" => Wifi!TypeOK
    /\ which = "Coins" => Coins!TypeOK
    /\ which = "Dollars" => Dollars!TypeOK
    /\ which = "Journal" => Journal!TypeOK
    /\ which = "Doors" => Doors!TypeOK
    /\ which = "Packing" => Packing!TypeOK
    /\ which = "Points" => Points!TypeOK
    /\ which = "Old" => Old!TypeOK
    /\ which = "Targets" => Targets!TypeOK

\* What the framework promises its application.  A slot that is claimed is running the
\* job it was claimed for; an operation runs only under an approval of its own; a reader
\* of the log is told of every gap, and a restart finds the last words; a session lasts
\* as long as its table says and no longer; replies at work never take more memory than
\* the budget; a sign-in has one job, and its outcome is told once; every incident is in
\* the history or counted as lost; the health of the workers is what it was; the board
\* only ever saves a network it joined.
PromisesHold ==
    /\ which = "Queue" => Queue!ClaimsAreRunning
    /\ which = "Restarts" => Restarts!RunsAreApproved
    /\ which = "Log" => Log!NoSilentGap /\ Log!LastWords
    /\ which = "Logins" => Logins!RecordsAreTrue /\ Logins!ExpiryIsFair
    /\ which = "Serve" => Serve!BudgetHolds
    /\ which = "Turns" => Turns!BudgetHolds
    /\ which = "OAuth" => OAuth!OneJobEach /\ OAuth!ToldOnce
    /\ which = "Incidents" => Incidents!NewestAreMirrored /\ Incidents!NoneUncounted
    /\ which = "Resets" => Resets!NewestAreMirrored /\ Resets!NoneUncounted
    /\ which = "Workers" => Workers!HealthIsTrue
    /\ which = "Wifi" => Wifi!SavedHasJoined

\* What is sent is what its reader needs: answers within the windows of the peer, which
\* gets its own credit back; the body, the encoding and the headers the request asked
\* for; messages that read back as what was written, also by an older reader, and an
\* overflow exactly when one does not fit.
PeersUnderstand ==
    /\ which = "H2" => H2!AnswersBounded /\ H2!CreditIsKept
    /\ which = "Site" => Site!ShownIsMeant /\ Site!ClearIsPublic /\ Site!OriginsHold
    /\ which = "Wire" => Wire!ReadsBack /\ Wire!OldReadsNew /\ Wire!LimitIsExact

\* The archived NanaCoin: deals stand until they are undone and are undone once, its
\* events replay to its state; an acknowledged operation is applied once and survives
\* power cuts and failing writes at any point; nobody is let in on a grant that was taken
\* back.  housemetrics: points read back as written; a block belongs to one series or is
\* free; what is kept is the newest, each point is in one rollup, and the pages of an
\* answer meet; a token given out names the device it was given to.
RecordsStand ==
    /\ which = "Coins" => Coins!DealsStand /\ Coins!RefundedOnce /\ Coins!IdentitiesDiffer /\ Coins!SomeoneInCharge /\ Coins!EventsReplay
    /\ which = "Dollars" => Dollars!DealsStand /\ Dollars!RefundedOnce /\ Dollars!IdentitiesDiffer /\ Dollars!SomeoneInCharge /\ Dollars!EventsReplay
    /\ which = "Journal" => Journal!AtMostOnce /\ Journal!AlwaysOpens /\ Journal!AckedSurvives /\ Journal!MemoryIsDisk /\ Journal!AckedIsDurable
    /\ which = "Doors" => Doors!NoGrantOutlives /\ Doors!LocksHold
    /\ which = "Packing" => Packing!ReadsBack
    /\ which = "Points" => Points!BlocksAccounted /\ Points!RawIsRecent /\ Points!NeverFull /\ Points!CountedOnce /\ Points!AnswersAreWhole /\ Points!PagesMeet
    /\ which = "Old" => Old!BlocksAccounted /\ Old!RawIsRecent /\ Old!NeverFull /\ Old!CountedOnce /\ Old!AnswersAreWhole /\ Old!PagesMeet
    /\ which = "Targets" => Targets!TokensAreTrue /\ Targets!ListedIsTrue

\* No step serves a job before an older one, calls a reset a planned restart, closes a
\* connection with an answer to write, drops a known address of the app, loses more
\* than the incident that was being written, raises the alarm for a worker that beat,
\* sends past the window of a peer, resets a ledger that is not the one reviewed, takes
\* more bits for a point than are reserved, or removes a target somebody entered.
StepsAreFair ==
    [][/\ which = "Queue" => Queue!FirstComeFirst
       /\ which = "Restarts" => Restarts!PreviousIsTrue
       /\ which = "Serve" => Serve!EvictedIsIdle
       /\ which = "Turns" => Turns!EvictedIsIdle
       /\ which = "OAuth" => OAuth!OriginsAreKept
       /\ which = "Incidents" => Incidents!RecoveredIsTrue
       /\ which = "Resets" => Resets!RecoveredIsTrue
       /\ which = "Workers" => Workers!NoFalseAlarm
       /\ which = "H2" => H2!WithinWindow
       /\ which = "Journal" => Journal!ResetAsReviewed
       /\ which = "Packing" => Packing!WithinWorst
       /\ which = "Targets" => Targets!ManualIsKept]_vars

\* NanaCoin's two markets: an accepted offer is the deal that sold its listing, nobody
\* pays for what is not sold to them, the legs of a trade are those of its quote; and a
\* reboot, also one between two events of an operation, gives all of it back.
TradesAgree ==
    /\ which = "Market" => Market!TypeOK /\ Market!DealsAgree /\ Market!NoPaymentWithoutSale /\ Market!RebootKeepsAll
    /\ which = "Exchange" => Exchange!TypeOK /\ Exchange!LegsAgree /\ Exchange!RebootKeepsTrades

\* Rows are reused, but none that somebody still waits for.
NothingAwaitedIsLost ==
    [][/\ which = "Market" => Market!NothingAwaitedIsLost
       /\ which = "Exchange" => Exchange!NoOpenQuoteIsLost]_vars

\* quotes.go:221-224: "the coin leg cannot change what the cash leg can afford".
CashLegStaysValid == which = "Exchange" => Exchange!CashLegStaysValid

\* In the end, whatever fails on the way: a job of the queue is run or its time is up, a
\* request that has arrived is answered or given up, a sign-in is decided, a command of
\* the Wi-Fi setup ends, and a board that lost its network joins it or opens its own.
DeviceWaits(n) ==
    \/ which = "LQueue" /\ LQueue!Waits(n)
    \/ which = "Turns" /\ n <= 2 /\ Turns!Waits(IF n = 1 THEN "a" ELSE "b")
    \/ which = "OAuth" /\ n \in OAuth!Ticket /\ OAuth!Waits(n)
    \/ which = "LWifi" /\ n = 1 /\ LWifi!Commanded
    \/ which = "LWifi" /\ n = 2 /\ LWifi!Dark
DeviceSettles == \A n \in 1..4 : []<>~DeviceWaits(n)

\* In the end: a message of a board whose channel stays ready is sent or given up, also
\* behind mail over the budget of the day; a mention of the bot runs; a plan that is
\* over is closed.
BoardWaits(n) ==
    \/ which = "LChannels" /\ n <= 2 /\ LChannels!Unsettled(n)
    \/ which = "LOutbox" /\ n <= 2 /\ LOutbox!Unsettled(n)
    \/ which = "Bot" /\ Bot!Unread(n)
    \/ which = "LPlans" /\ n = 1 /\ LPlans!Overdue(n)
BoardSettles == \A n \in 1..4 : []<>~BoardWaits(n)

=============================================================================
