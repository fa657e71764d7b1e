# Programs for small boards, in TLA+

Formal models of this repository, kept beside its code. The repository holds programs
that run on an ESP32 and on a desktop, with fixed memory, flash or a journal behind them, and networks
in front of them:

- **NanaCoin** (`nanacoin/`, Go and TinyGo): a household's play money, its
  marketplace, and an exchange between coins and dollars; and the **archived NanaCoin** it
  replaced (`archive/nanacoin_rs/`, Rust);
- **party** (`party/api/`) and **gamematcher** (`gamematcher/api/`), Rust: boards on which people
  plan parties and evenings of board games;
- **miniframework** (`miniframework/crates/miniframework/`), Rust: the web framework these two run on;
- **housemetrics** (`miniframework/apps/housemetrics/`), Rust: a time-series database on a board.

Paths below are relative to the repository.

1. [The system](#1-the-system)
2. [Modules and code](#2-modules-and-code)
3. [What is checked, and at which bounds](#3-what-is-checked-and-at-which-bounds)
4. [What is proved](#4-what-is-proved)
5. [Where the code and its comments disagree](#5-where-the-code-and-its-comments-disagree)
6. [What is not modelled](#6-what-is-not-modelled)
7. [Plan](#7-plan)

## 1. The system

### The core of NanaCoin

| component | code (`nanacoin/internal/`) | state it keeps | operations |
| --- | --- | --- | --- |
| journal file | `storage/flashlog` | the file, `j.end`, `j.seq` | `Open`, `Replay`, `Append`: body, sync, marker, sync |
| ledger | `ledger` | a ring of packed records, balances and opening balances per account, reversal links, the intern table, the text arena | `Validate`, `Commit`/`Replay` (`apply`, `evictOldest`), `BuildReversalInto` |
| event sourcing | `core/commit.go`, `service.go`, `events.go` | the RAM model, and the journal | `appendEvent`, `applyEvent`, `New` |
| marketplace | `core/market.go`, `offers.go`, `offers_store.go`, `store.go` | tables of listings and offers | create, update, cancel, purchase; make, accept, undo, decline, withdraw an offer |
| exchange | `core/quotes.go`, `quotes_store.go` | a table of quotes | post, take (two legs), cancel |
| household | `core/users.go`, `queries.go` | members, configuration | provision, create, update, configure, issue |
| idempotency | `core/money.go`, `receipts.go` | receipts, oldest first, limited in entries and bytes | `IdempotentInto` |
| sessions | `auth/sessions.go`, `api/handlers.go` | tables of sessions, authorization codes and failure counters | rate limit, issue and redeem a code, look up, revoke |

**How they interact.** A request is authenticated against the sessions, under the
mutex of the session store; what it learns is a *copy* of the acting user. The
operation then runs under the mutex of the service (`store.mu`), possibly much
later: bodies are read and passwords hashed in between, under no mutex. An
operation checks, appends one event to the journal (or two, one after the other),
and applies each event to the RAM model after its append succeeded. `New` rebuilds the
RAM model by replaying every event through the same `applyEvent`, and returns
no service if that refuses one. Requests that may be repeated are wrapped in
`IdempotentInto`, which holds a lock stripe chosen by a hash of the key around the whole of it and takes
the service mutex for itself before and after. The ledger, the listings, the
offers and the quotes share one arena of text blocks, and the ledger and the
store share one intern table.

**What is hard.** Memory is fixed, so every table is a place where something
has to give: the ledger forgets old transactions, listings, offers and quotes recycle closed
rows, receipts and failure counters go, a login may cost a session. Some
operations are two appends, and the process may end, or the second append fail,
between them. An append that reports a failure may have written its record all
the same. Several critical sections make up one login. And state that was
read under one lock is used under the next.

What makes each component correct:

- *journal file*: what `Append` acknowledged is there after any power failure, in order, and
  nothing is written over it.
- *ledger*: balances cover the lifetime although the records do not; a transaction
  is undone at most once and by its mirror; identifiers never resolve to another
  transaction; no arena block is lost.
- *marketplace, exchange*: money moves exactly when its deal is recorded, in every order of
  operations; nothing somebody waits for is recycled; a reboot changes nothing.
- *household*: somebody can always administer; usernames are unique.
- *idempotency*: a repeated request is not carried out twice while its receipt is
  kept, and no answer is about another request; no deadlock between stripes.
- *sessions*: codes are good once, nobody loses a session to another, a revocation is
  final, a lockout lasts.

### The Rust programs

| component | code | state it keeps | operations |
| --- | --- | --- | --- |
| party store | `table.rs`, `records.rs`, `state.rs` | rows that remember what changed; one flash record per row, a journal | savepoint, change, rollback, commit, boot |
| party events | `events.rs`, `rsvps.rs`, `series.rs` | events, answers, waiting lists, claims, polls, series | answer, change capacity, lock a time, cancel, housekeeping |
| party people | `state.rs`, `identity.rs`, `groups.rs`, `invites.rs` | accounts, sessions, households, memberships, invitations | sign in and up, change roles, join, leave, redeem |
| party channels | `outbound.rs`, `work.rs`, `bot.rs`, `publish.rs` | a queue of messages, two channels, the bot's cursor, what was published | a worker that talks to the network with the lock released |
| gamematcher plans | `plans.rs`, `recurring.rs`, `catalog.rs`, `comments.rs` | plans, answers, the ring of past plans, games, threads | propose, respond, lock in, reopen, finish, comment |
| gamematcher people | `state.rs`, `identity.rs`, `notify.rs` | accounts, providers, notices, mail | the same, with an emailed code and instances |
| gamematcher outbound | `outbound.rs`, `replies.rs`, `api.rs` | queue, set-ups, links, a durable inbox of replies | one worker; replies are applied and taken off in two steps |
| gamematcher store | `store.rs`, `records.rs` | a snapshot in two slots, later a record per row | commit, load, the move from one to the other |
| queue and operations | `queue.rs`, `ops_actions.rs`, `planned_restart.rs`, `session.rs` | slots of jobs, approvals, the retained reason, sessions | submit, claim, complete; approve, run; restart |
| logs and incidents | `logbuf.rs`, `retained_log.rs`, `incidents.rs` | rings in RAM, copies in memory that outlives a reset | record, page, recover; beat and watch |
| HTTP | `mux.rs`, `http.rs`, `h2.rs`, `site.rs`, `web.rs` | connections, streams and windows, one request and its reply | a turn per connection: read, answer, write, close |
| wire formats | `wire/*.rs` | a writer over a fixed buffer, a reader over bytes | one message in JSON, MessagePack, CBOR (two ways), Protobuf |
| sign-in, Wi-Fi | `oauth.rs`, `wifi_setup.rs`, `esp/wifi.rs` | flights and tickets; the radio, the setup page's worker | start, callback, poll; join, lose, open a network of its own |
| housemetrics | `tsdb.rs`, `gorilla.rs`, `scrape.rs`, `auth.rs` | blocks of one pool, rollups, targets, devices | append, evict, page through an answer, scrape, save |
| archived NanaCoin | `domain.rs`, `offers.rs`, `forex.rs`, `journal.rs`, `auth.rs` | the household, a log and a checkpoint, receipts, logins | validate and apply an event, journal it, rotate, replay |

**How they interact.** An application runs a request under one lock as a whole: it takes a
savepoint, changes its tables, commits them to flash, and rolls back what failed. Its caller was read under the
lock before and the lock given up since. A worker thread reads what it is to do under the lock, talks to the
network without it, and brings back the result under the lock again; housekeeping runs between requests, without a savepoint. Replies of other servers
and commands to a bot arrive as pages of mentions, which may be fetched again. Underneath, the framework gives each connection a turn on one task,
hands requests to the application through a `Site`, keeps jobs, sessions and logs for it, and looks after the radio
on another task. housemetrics and the archived NanaCoin are services of the same kind with stores of their own.

**What is hard.** Power goes between any two writes, and any write may fail: what is on flash must be the state before or after
each change. What a worker brings back is about a state that may be gone: the bot was removed, the channel changed, the
mail went out although no answer came. Everything is a ring, a pool or a table of fixed size. Windows, buffers
and turns of several parties interleave. Clocks are unset, jump or wrap. And each loop must get on in spite
of all that.

What makes them correct: what is saved is what was meant, whole; answers, places, groups and plans keep their
rules whatever the order of requests; replies, commands and messages are handled once; jobs, requests, sign-ins and messages are settled
in the end; an answer stays within what its reader allows and reads back as what was written;
records decode to what was appended, and the newest are the ones kept.

### The rest of the repository

`PROJECT.json` lists every part with its sources. Around NanaCoin: its HTTP API, the board's HTTP
server, the network glue, a diagnostic event log, a catalogue, password hashing, and
clients. Besides: a token bucket and an HTTP client in the framework, `async_worker_rs/` (a bounded job
queue the framework's replaced), a MicroPython server, device examples, `homelab/`,
Angular front ends and documentation.

## 2. Modules and code

```
DurableLog   <-- implemented by --  Flashlog
     |  its contract is what EventSourced assumes of an append
EventSourced <-- INSTANCEd by --    Market, Exchange, Household, Idempotency
LedgerOps    <-- extended by  --    Ledger, Market, Exchange
Ledger       <-- implemented by --  Book
AtomicStore  <-- implemented by --  RecordStore
MCSystem     -- picks one of Market, Exchange and the Rust components, and runs it
```

`Flashlog`, `Household`, `Sessions`, `Idempotency`, `Book`, `RecordStore`, `Exchange`, `Market` hold their own theorems and
proofs, after their properties. `MCSystem` gives small constants to the components that share a run: a
behaviour chooses a component at the start (the variable `which`), and a property is the conjunction
of what is stated of each of them. Components with several instances meet different bounds in each.

### NanaCoin

**`Flashlog`** is `storage/flashlog`, one action per system call. The file is an array of
cells in two copies, the one `read` and `write` see and the one that survives a power
failure; the operating system may copy any cell at any time. A cell remembers
which record wrote it, which stands for magic, length, sequence number and CRC.
`Decode` checks that *a* commit marker follows, not whose, and neither does
`Decodes`. Failed writes are torn writes; both syncs may fail. **`DurableLog`** is the contract
its caller relies on: acknowledged records are replayed in order, and records whose
append was interrupted may be replayed too.

**`Book`** is `internal/ledger`: ring, interning, lazily opened balance slots, eviction, opening
balances, reversal links, arena. `Submit`, `Refuse` and `SubmitReversal` are what
`core` does with it (build, `Validate`, and then append or give up); the turns
of `apply`'s eviction loop are actions of their own, so the invariants hold
between two evictions as well. The rest of the store takes and releases arena
blocks and interns names. **`Ledger`** is the plain ledger the Book stands for, written with the
operators of **`LedgerOps`**, which `Market` and `Exchange` use for their ledger.

**`EventSourced`** is commit.go with `New`: the journal is represented by what replaying it
yields. An append is acknowledged and applied (`Commit`); or fails
(`CommitFails`); or reports a failure although its record is whole, and the
process ends before another append overwrites it (`FoundAtBoot`). The state the
operation starts from is a parameter because some checks change RAM before the append.

**`Market`**: `live` is the RAM model, `disk` the replayed journal. One action per
operation of the service, `UnacceptOffer` in two (its appends). One operator per event type
for `applyEvent`. A member stands for the account they own. Text is counted in blocks.
**`Exchange`** is built the same way; `TakeQuote` is `TakeQuote`, then `SettleTrade` or
`SettleRefused`. Accounts are opened lazily in a limited number of balance slots,
some of which the rest of the household takes. What the two have in common (transfers, reversals,
disabling a member) is an action in both, since it interferes with both.

**`Household`**: a request arrives with a copy of its actor and is carried out,
or refused, later. `createUserLocked` is two appends when there is an initial grant.
Passwords and display names are left out, and with them the updates that change
nothing else.

**`Idempotency`**: a call waits for its stripe, looks, runs, publishes, returns; the
operation it wraps is one append, the receipt another. A key stands for user, endpoint and
key of the request. Requests without a key, which run directly, and destinations too small
for the remembered answer are left out.

**`Sessions`**: the three tables, and a login as the critical sections of its handlers.
Whether a password verifies, and whether verifier and redirect of a redemption match, is left
open: both outcomes are steps.

### Party

**`RecordStore`**: tables, savepoint, rollback, commit and boot, one write or removal of a key per step, and
housekeeping, which changes rows outside a savepoint. The eleven tables are one. It implements **`AtomicStore`**: the state a boot
finds only ever becomes the state requests see, all at once.
**`PartyAnswers`**: one event, its answers in heads, its waiting list, slots and poll; its life is a phase.
**`PartySeries`**: occurrences ahead of time, reminders, the ring of past events, housekeeping.
**`PartyPeople`**: accounts, sessions, households, identities elsewhere; the caller is read in one step and used in another.
**`PartyGroups`**: members, roles, invitations by token.
**`PartyChannels`**: queue, worker, two channels, a day's budget of mail; what was sent may have arrived without an answer.
**`PartyBot`**: a batch of mentions is fetched in one step and taken in another, whose commit may fail.
**`PartyPublish`**: a push of changed files, whose last answer may be lost.

### Gamematcher

**`BoardPlans`**: proposals, answers, the lock-in, recurring plans, the past ring, games. **`BoardThreads`**: a thread is a blob of its own beside
the plan's row. **`BoardPeople`**: accounts, providers, codes, tickets. **`BoardNews`**: notices that are bumped rather than doubled, and
their mail. **`BoardOutbox`**: queue, set-ups and worker; settings and queue are three keys, so a save may land in part.
**`BoardReplies`**: pages into a durable inbox, applied, committed, acknowledged. **`BoardStore`**: the snapshot in two slots, the
records, and the first boot that moves between them.

### Miniframework

**`FwQueue`** (slots, lifetimes, a sequence that is rebased), **`FwOps`** (approved actions and the restart's retained
reason), **`FwSessions`** (idle and absolute expiry, an unset clock), **`FwLog`** (ring by bytes, copy by cells),
**`FwIncidents`** (tasks recording in single words, a mirror that outlives a reset), **`FwWorkers`** (a watch whose clocks wrap),
**`FwServe`** (turns of connections, a budget, eviction), **`FwH2`** (one HTTP/2 connection, frame by frame),
**`FwSite`** (the pipeline of one request with its headers and a browser that keeps answers), **`FwWire`** (each call of a writer, then of a
reader, in five encodings), **`FwOAuth`** (flights, one worker, an instance), **`FwWifi`** (radio, housekeeping, the setup
page's worker, with driver and phones as environment).

### Housemetrics and the archived NanaCoin

**`MetricsStore`** (pool, rollups, readers between pages), **`MetricsGorilla`** (a packed block bit by bit, with the field widths as
parameters), **`MetricsTargets`** (targets and devices, with saves that fail); **`ArchiveLedger`** (the household event by event),
**`ArchiveService`** (log, checkpoint, receipts and generations under power cuts and failing writes), **`ArchiveAuth`** (codes,
sessions, lockouts).

`PROJECT.json` maps the definitions to their lines: every operation, and a helper when no other entry names its lines. The definitions called "Mutant
of X" are faulty forms of X that show that the properties can fail; no specification
uses them.

## 3. What is checked, and at which bounds

| run | module, configuration | distinct states | what it shows |
| --- | --- | --- | --- |
| `flashlog` | `Flashlog`, `MCFlashlog` | 329,616 | acknowledged records survive everything; the journal implements `DurableLog` |
| `book` | `Book`, `MCBook` | 73,280 | the packed ring implements the plain ledger; books balance; no block is lost; the table of balance slots never overflows |
| `trade` | `MCSystem`, `MCTrade` | 394,612 | deals, quotes and payments agree; a reboot gives back what was; nothing awaited is recycled |
| `household` | `Household`, `MCHousehold` | 10,261 | there is always an enabled administrator; names are unique; a reboot gives the household back |
| `receipts` | `Idempotency`, `MCReceipts` | 303,932 | no second run while a receipt is kept; carried out once while the cache can keep it; answers are true; every call returns |
| `sessions` | `Sessions`, `MCSessions` | 611,094 | codes once; own sessions only; revocation is final; one counter; lockouts hold |
| `apps` | `MCSystem`, `MCApps` | 803,211 | party and gamematcher: what is saved is what was meant, houses keep their rules, replies and messages are handled once |
| `services` | `MCSystem`, `MCServices` | 1,527,864 | the framework, the archived NanaCoin and housemetrics keep their promises to the code above and to their peers |
| `live` | `MCSystem`, `MCLive` | 319,455 | what was begun is settled |
| `market_want_ad` | `Market`, `MCMarketWantAd` | violation | `PosterPays`, section 5 |
| `exchange_legs` | `MCSystem`, `MCExchangeLegs` | violation | `CashLegStaysValid`, section 5 |
| `household_full` | `Household`, `MCHouseholdFull` | violation | `Bootable`, section 5 |

The properties of `apps`, `services`, `live` and `trade` are conjunctions, one conjunct per component:

| property | what the components state |
| --- | --- |
| `SavedIsMeant` | `CleanMeansSaved` (a row that is not marked is on flash), one journal at a time, a rollback returns to the savepoint; `BoardStore`: one generation, a boot finds the last commit; threads and notices likewise |
| `AtomicSpec` | `RecordStore` implements `AtomicStore` |
| `HouseRules` | nobody waits for room there is; nothing names a plan, game or group that is gone; a group is led, an invitation is counted; somebody is in charge |
| `EachOnce` | replies and mentions are applied once and none skipped, one unread notice of a kind, a removed bot stays removed, what publication remembers is there |
| `NothingIsTakenBack` | no step overfills an event, repeats an occurrence, moves an answer, lets an older command win, closes somebody's last way in, drops a queued message |
| `PromisesHold` | claimed slots run their job; runs are approved; no gap in a log goes untold; sessions expire when they should; memory stays in its budget; sign-ins are told once; incidents are counted; alarms are true; only joined networks are saved |
| `PeersUnderstand` | HTTP/2 answers within windows and credit, bodies and headers that agree, messages that read back, also by older readers |
| `RecordsStand` | the archived ledger's deals, identities and replay; its service's receipts; logins; points decode, blocks are accounted for, pages meet |
| `StepsAreFair` | first come first served, planned restarts are told from crashes, no busy connection is closed, windows hold, a reviewed reset resets what was reviewed |
| `DeviceSettles`, `BoardSettles` | the liveness of each component under the fairness below |

**Bounds, and why they are enough.**

- `flashlog`: six cells, payloads of one, one and two cells. Three short records or one of each fill the
  file, so appends meet the capacity check; a torn or uncommitted record can be overwritten
  by a shorter, an equal or a longer one, and a stale marker can lie exactly where
  a later record ends. The proofs lift the result to every size.
- `book`: a ring of two for four sequence numbers, so every slot is reused; three balance
  slots for four accounts; one arena block that the store may hold, so a text is
  truncated or evicts a record; room for all names in the intern table.
- `trade`, the marketplace: two members (one of them Nana), one row for listings, tables of one and of two rows for
  offers (chosen in `Init`), a ring that keeps two transactions. Identifiers up to three
  fill and recycle both tables; the five sequence numbers are the two initial grants and three
  transactions: a deal, its reversal, another deal. Text blocks suffice; what happens when
  they do not is in section 5.
- `trade`, the exchange: six accounts and six balance slots, one of which another account may take;
  one row for quotes, two identifiers, four transactions and a ring of three. A trade, a reversal and
  another payment fit, and the slots run out between two legs.
- `household`: three usernames, three rows, two requests at a time, all of whom can be
  Nana: two can demote or disable each other while a third does the same. `household_full` has two rows.
- `receipts`: three keys on two stripes, two receipts or one large one, four transactions, two
  calls: calls meet on a key, on a stripe under different keys, and on neither.
- `sessions`: two users and an unknown name, tables of two slots, two logins in progress
  and four in all, a limit of two failures, and clock values up to two, at which codes, lockouts
  and tokens are over.
- `apps`: two or three people, one or two places, plans, channels and jobs, one row and one person's sessions in the store;
  each table can be filled and each identifier reused or run out, one restart or repeat of each kind happens,
  and every write of a commit can be its last.
- `services`: rings, pools and queues of one to three, which therefore overflow; windows of zero and one unit; values
  on both sides of each width at which an encoding changes; up to two faults. `Queue` renumbers what waits at the fifth
  submit. The clock of `Workers` wraps between 7 and 8, and a loop that beat at 7 is late at 9, past the wrap. In
  `Turns` two connections with answers of one and two units share a budget of two, and in `Serve` two connections take
  turns in one place with two requests each. `Incidents` has more kinds than its mirror of two cells, `Resets` three boots.
  In `Points` a series loses a block to another while a client is between two pages of it.
- `live`: the instances of `apps` and `services` again, without the inputs that a person could repeat for ever (retries by
  hand are spent), and with short windows. `LQueue` renumbers at the fourth submit; `Turns` has a neighbour who stops reading.

The constants of every instance stand in `MCSystem`, each with a note on what it lets happen.

Deadlock is checked in `flashlog`, `household`, `receipts` and `sessions`. Elsewhere bounded
counters (sequence numbers, identifiers, ages, restarts) run out and the instance stops; in
`household_full` the service does not start any more.

**Fairness.** In `Idempotency`, for `EveryCallReturns`, each step of
a call is weakly fair: goroutines that can run do run. Taking a stripe is strongly fair: `sync.Mutex`
hands itself to a waiter that has waited for a millisecond. The mutex of
TinyGo has no such mode; what it does for waiters is not part of this repository.
In `live`, weak fairness stands for the loops of the programs: the worker claims and completes jobs, the
clock goes on, the connection task gives every connection its turn, the housekeeping round comes, the setup worker runs, the outbound
worker looks at its queue. Four steps are strongly fair: a housekeeping round that finds the setup page closed, a commit
of the bot, a delivery, and taking the next job; each is offered again and again although other
steps come between, because its loop returns to it. Since a behaviour stays with one component, one condition of `LiveFairness`
states the fairness of a step of several of them. Nothing is assumed of people, of networks, or of a peer's answers.

## 4. What is proved

Checked by TLAPS, for every value of the constants.

**`Flashlog`**, from `FlashlogAssumption` (sizes and the capacity are positive):
`TypeCorrect`, `AckedSurvive` (`AckedDurable`), `BootComplete` (`BootsWithAllAcked`) and
`ImplementsContract` (every step is a step of `DurableLog` or a stutter). None of the properties
is inductive. The invariant `IInv` adds to them:

- `PromisedPlaced`: the acknowledged records are whole in *both* copies of the file, each
  beginning where the one before it ends. Both copies are needed because a power failure replaces the
  cache by the medium and a write-back does the opposite, cell by cell; `Mixture` is the lemma that
  a cell-wise mixture of two files that hold a record holds it.
- `KnownPlaced`: the records replayed or appended since `Open` are placed the same
  way and `end` follows the last of them, so that writes after `end` miss all of them.
- `ReplayAgrees`: during replay one of the two histories begins with the other. The step that needs it
  is `ReplayDone`: while acknowledged records are left, the next one decodes (`NextPromised`), and
  only it does (`DecodeUnique`), so replay cannot stop early or take a fork.
- `InTheMaking`: the record being appended fits, and its body is in the cache from
  the first write on; this is what makes the second sync an acknowledgement.

**`Sessions`**, from `SessionsAssumption` (tables, lifetimes and the limit are positive, users are
names): `TypeCorrect`, `RedeemedOnce`, `RevocationIsFinal`, `OneCounter` as
invariants, `NobodyElses` and `LockoutsHold` as action properties. `IInv` adds `CodesFresh` (a code in the table has
been issued, is in one slot and was never good) and `VerifiedKnown` (only users are verified). `CodesFresh` is why
clearing the slot first is enough: with it the one redemption that finds the code
raises its count from zero.

**`Household`**, from `HouseholdAssumption` (at least one row; the mark for no actor is no username):
`TypeCorrect`, `Governed` (`AlwaysGoverned`), `Unique` (`NamesUnique`) and, with a row for every
username (`RoomForAll`), `RebootKeeps` (`RebootKeepsHousehold`); without that hypothesis the last one is
false, see `household_full`. The members of RAM and of the journal are two
states, and one predicate, `Sound`, holds of both. `IInv` adds to it `Synced` (a journal that can be replayed yields what RAM
holds, so the guards evaluated on RAM are true of the journal too), `RoomForAll => disk.ok`, and
`AskersKnown`: who is asking came from a household with members, so only `Provision` adds a first
member, and that one is Nana. `Governed` rests on `OneLeft`, which is about cardinalities: of two
enabled Nanas one is left when one changes, whatever the copy of the actor says. Each
event type has one lemma (it takes sound states to sound states), and each outcome of an append
another (`Committed`, `NotCommitted`).

**`Idempotency`**, from `IdempotencyAssumption` (room for one receipt at least, a stripe for every key,
finitely many calls at a time): `TypeCorrect`, `NoRun` (`NoRunWhileRemembered`), `AnswersTrue` (`AnswersAreTrue`) and `CarriedOutOnce` (`AtMostOnce`). `IInv` adds
`LockInv` (a stripe is held by exactly the calls that are between its `Lock` and its `Unlock`, so there is
one at most), `DataInv` (the journal holds the transactions of RAM, and the receipts of both fit the cache and
name transactions made under their keys) and `CallInv` (what a call that looked the receipts up may rely on until
it publishes). `NoRun` rests on the order in the code: the lookup is inside the stripe, so nobody can publish a
receipt for the key between the lookup and the run. The bytes of the cache are a count, so
one more receipt adds its own size (`UsedOfAppend`); the receipts the eviction loop drops are the shortest prefix
that makes room, which `LeastNumber` provides.

`AtMostOnce` needs an account of every transaction, `OnceInv`: until the process ends it is about to get its receipt
(`Flying`), has one in the cache, or is `Displaced`, receipts of other requests having filled the cache after its
own was published. Receipts are not published in the order of their transactions, since a call may be held up between its
two appends; `Early` counts the transactions that were made before that of a receipt and published after it, and there are always fewer
than calls. `PushedOut` is the step that needs it: the receipts behind the one that goes, with the new one in
its place, are too many for the cache, because the eviction loop drops no more than it must. Looking
at the last few transactions only, instead of any earlier ones, would be wrong: with five transactions and a cache of three units TLC
finds a receipt published so late that it pushes out one of a transaction made long after its own.

**`Book`**, from `BookAssumption` (a ring, a table and amounts that are natural numbers): `TypeCorrect`,
`WindowHolds`, `LinksHold`, `SlotsThere` and `NothingLost`; and with `RoomForNames` (the intern table is larger
than the set of names) `AllAccounted` and `LedgerImplemented`. That hypothesis is what `intern.go:78-81` trades away: with a
full table names stand for reference 0, postings of both currencies fall on it, and TLC refutes
`GrandTotalZero` with `MaxInterned = 3`. What does not depend on names needs no hypothesis. The invariant:

- `WindowInv`: the retained records are in the slots their numbers say, all others are empty. `SlotsApart` is
  the arithmetic: numbers less than the capacity apart are never in one slot.
- `LinksInv`: a link survives neither the reuse of its slot nor the eviction of the reversal that made it.
  The step that is hard is `Store` of a reversal whose original is evicted by the very same apply.
- `BalanceSlotThere`: the accounts of the retained records keep their slots and an account without one has nothing, so
  neither the postings of apply nor those of `evictOldest`, which ask for slots without another check, can
  overflow the table. It is inductive only with the room that `CurInv` promises to the transaction in hand.
- `CurInv`: what Validate found (room for the balances, a sequence number, an original without a link) is
  still so after the evictions that come before the record is stored.
- `MoneyInv`, `ArenaInv`: sums over the retained records. A sum is defined as a count of units
  (`Units`, `SumOf`), so that a sum over a split set is the cardinality of a disjoint union (`SumSplit`) and
  no induction is needed; `SumChange` and `SumOfRest` do the accounting of one record that comes or goes.
- `RoomInv`: every posting has its account, the two of a transaction are of one currency, and references that
  stand for no name have no money.

The refinement maps the ring to the function of the retained transactions (`Contents`), and, while a transaction is being
applied, to the ledger in which it has been posted already (`Promised`). So accepting is the abstract
`Post` or `Reverse`, each eviction is the abstract `Forget`, and storing is a stutter.

**`RecordStore`**, from `RecordStoreAssumption` (the mark for no record is no content, a fresh board has a
meta): `TypeCorrect`, `CleanIsSaved` (`CleanMeansSaved`) and `AtomicImplemented`, the refinement of `AtomicStore`. The
state a boot would find is a function of flash, `Recovered`: the journal applied, then read. The invariant:

- `FlashInv`: flash with its journal applied is a board (`Board`: every row an index names is there).
- `TodoInv`: while a journal is being applied each of its writes is still to be done or done, so one more
  write leaves `Recovered` alone (`ReplayKeeps`), wherever it stops; and what is written to while no journal is
  known to be left has none.
- `StoreInv`: what the store believes of flash is so, and what is not marked is there. With it the changes,
  laid over flash, give the state in RAM (`ChangesLand`); that makes the one write of a
  commit (`WriteOne`, `WriteJournal`) the abstract `Commit`.
- `TableInv` and `PointInv`: each undo entry is of a marked row, a row touched since the savepoint has an entry since,
  and sessions a savepoint says are saved are. Then a request's edits never change where a rollback leads
  (`EditOK`, from `LoggedEdit` and `SilentEdit`), and the rows it brings back are marked if they are not on flash.

The undo log has any length: rollback is a recursive function (`Unwound`), and its lemmas argue by a least
counterexample (`LeastNumber`, from the library's well-foundedness of finite subsets) instead of induction. The
refinement maps `saved` to what the undo log would bring back (`Kept`) while a request changes the state.

**`Exchange`**, from `ExchangeAssumption` (finitely many members, accounts of one currency each, more balance slots
than the initial grants take): `TypeCorrect` and `LegsAlwaysAgree` (`LegsAgree`); with
`RoomForQuotes` (arena text for every row) also `RebootKeeps` (`RebootKeepsTrades`) and, as an action property,
`NoOpenQuoteLost` (`NoOpenQuoteIsLost`). Without that hypothesis a quote is journalled that `applyEvent` then refuses
(section 5, `Market!Bootable`), and TLC finds `RebootKeepsTrades` violated with two rows and one block. The
invariant `IInv` is about two states, RAM and what the journal replays to, and about what is pending:

- `Sound` holds of each of the two: every quote in the table has its story (`Legs`), each is in one row, and no
  payment has a reference that was not given out. The last part is why a new quote starts with no payments.
- `Agree`: one book, one membership, and a quote that is in both tables is the same in both. The tables themselves
  may differ: a failed `PostQuote` has given up a row in RAM only, and the journal, when it
  catches up, gives up the oldest closed quote of *its* table.
- `Match`: every open quote is in both tables, and the tables are equal while the journal's has a free row. A row that
  is found in RAM is then also found in the replay, by the pigeonhole principle (`SomeClosed`): a full table
  whose open quotes all have rows in a table with a free row has a closed one.
- `PendingInv`: the cash leg on its way is the next payment of a quote that is `FILLED`, whose coin leg is the last
  transaction of the book. It holds because the service mutex is kept between the legs.

Whether an event may be appended is a predicate, `Fits`; each kind of event has lemmas that say what it
makes of a sound state and that RAM and journal make the same of it, and `AppendMirrored` puts them
together for the three outcomes of an append. `LegsAgree` needs no hypothesis: `Agree` is claimed only of a journal that can be replayed.

**`Market`**, from `MarketAssumption` (finitely many members, more transactions than the initial grants take, the
bank is no member): `TypeCorrect`, `DealsAlwaysAgree` (`DealsAgree`), `NoPaymentWithoutASale`
(`NoPaymentWithoutSale`), and with `RoomForText` (arena text for full tables)
`RebootKeeps` (`RebootKeepsAll`) and `NothingAwaitedLost` (`NothingAwaitedIsLost`, a step keeps what somebody
waits for). `RoomForText` is needed for the reason given in section 5 for `Market!Bootable`: without
it a listing is journalled that a replay refuses. `DealsAgree` and `NoPaymentWithoutSale` hold either way. The invariant is of the
same shape as that of `Exchange`, with two tables instead of one:

- `Sound` of RAM and of the replayed journal. Its part `Story` says of every row what the properties say, and that accepted
  offers have a deal each, already made (`Settled`); its part `Fresh`, that no identifier of a row or a payment is one still
  to be given out.
- `Agree` and `Match`: one ledger, and a row that is in both tables is the same in both. With `RoomForText` the listings are
  equal, and every open or accepted offer is in both; closed offers may differ, since a failed append has given up a
  row in RAM only.
- `PendingInv`: between the two appends of `UnacceptOffer` the offer is still `ACCEPTED` and the transaction it settled
  is undone. It holds because the service mutex is kept between them.

`Suits` is what may be appended, one disjunct for each kind of event. `EventIs` says that `ApplyEvent` either refuses an event or gives the
tables `After`, and when; `ReadyMirrored` and `AppendMirrored` say that RAM and journal decide alike, for an append that succeeds,
fails, or fails and is found at boot. A new row is the hard case: it may go to different rows of the two
tables, and in place of a closed one (`SomeClosed`, the pigeonhole principle, and `RoomFits`, which
bounds the text of full tables).

**Only model-checked**: the Rust components other than `RecordStore`. What the prover cannot do here stays with TLC: liveness under
fairness (`EveryCallReturns`, `DeviceSettles`, `BoardSettles`); and recursions over data, which would need induction over an operator (the packed
blocks of `MetricsGorilla`, the writers and readers of `FwWire`). `TradesAgree` of the run `trade` and `SavedIsMeant`, `HouseRules`
and the others of `MCSystem` are conjunctions over the components that run composes; for NanaCoin's the conjuncts are the
properties proved here, under the same names.
## 5. Where the code and its comments disagree

Kept as runs that TLC must find violated:

- **A member too many** (`household_full`, `Bootable`). `createUserLocked` appends the record before
  anything looks at the room there is. `applyEvent` then refuses it with `ErrCapacity`, the record stays
  in the journal, and every later `New` fails. `core/events.go:13-16` describes the worst case as a record that was written and reported as
  failed. The board's journal keeps nothing, so this concerns hosts with a journal file.
- **A trade that half-lands although nothing fails** (`exchange_legs`, `CashLegStaysValid`). Both legs are validated
  against the same free balance slots; the coin leg can take the last one.
  `core/quotes.go:222-224` says the coin leg cannot change what the cash leg can afford. The book has 33 slots for
  34 accounts.
- **A purchased want-ad pays its poster** (`market_want_ad`, `PosterPays`). `Purchase` does not look at the side;
  `marketplace/types.go:48-50` says the poster has the money.

Stated in the modules, found violated by TLC when they are checked, and described here only:

| definition | what happens | what the code says |
| --- | --- | --- |
| `Flashlog!OnlyOwnMarkers` | a failed append leaves a marker past `j.end` that later completes another record of the same length whose own marker never landed | `storage/journal.go:7-9` |
| `Flashlog!KnownIsDurable` | `Replay` accepts records from the file cache and truncates the tail without a sync, so a power failure right after can change both | `flashlog.go:125-127` |
| `Book!PostingsKeepTheirAccount` | the intern table is full, names stand for reference 0, and accounts share a balance (with `MaxInterned` below the number of names) | `intern.go:78-81` |
| `Book!ReversalsKeepCurrency` | a reversal is built without the currency, so the reversal of a dollar transaction is recorded in coins | `book.go:482-483` |
| `Market!Bootable` | with few `Blocks`, `MakeOffer` journals an offer whose text the arena then refuses; `PostQuote` is the same | `core/events.go:13-16` |
| `Market!LiveIsReplay` | `canWriteOffer` (and `canWriteQuote`) frees a closed row although it only asks; the append fails and RAM has one closed offer fewer than a replay | `offers_store.go:167` |
| `Market!SettledIsClosed` | nothing ever sets `SETTLED`, so accepted offers past their window keep their rows and fill the table; no quote becomes `EXPIRED` either | `offers_store.go:90-91` |
| `Market!UndoneIsReopened` | the second append of `UnacceptOffer` fails: the money is back, the offer still accepted; it cannot be undone again | `offers.go:246-248` |
| `Market!UndoableDealKeepsListing` | a sold listing is recycled while its offer can be undone; `UnacceptOffer`, and `DeclineOffer` for open offers, then find no listing | `offers_store.go:133-135` |
| `Exchange!HalfTradesFindable` | a half-landed trade is `FILLED`, so its quote is recycled like a completed one | `quotes.go:153-155` |
| `Household!AdministratorIsCurrent` | Nana's operations decide by the copy of the actor read when the request arrived | `store.go:743-758` |
| `FwH2!OpenIsFinished` | once the connection is closing no request is dispatched any more, those whose stream is open included | `h2.rs:163` ("finish what is open, then close") |
| `FwSite!PublicIsReadable` | the answer for want of memory and the refusal of plain HTTP go out without the header that lets a page of another origin read them | `Cors::Public` in `site.rs` ("every answer, refusals included") |
| `FwIncidents!CountersAreMirrored` | a count is taken and stored in two steps, and two tasks can store in the other order | `incidents.rs`, the mirror |
| `FwOAuth!TokensAreGivenBack` | a failure after the token came, while the account is read, leaves the token unrevoked | `oauth.rs` ("used once … and revoked") |
| `ArchiveLedger!EventsReplay` | with a settling time at the end of the clock's range an accepted event fails its own replay (`Settle = {1, MAX_TIME}`) | `archive/nanacoin_rs` README ("configuration survive[s] replay") |
| `ArchiveService!AckedIsDurable` | with process kills as well as power cuts (`Fault = {"kill", "power"}`): a frame that was written and not flushed when the process was killed is replayed, and acknowledged to a retry, without being flushed | `journal/file.rs` |
| `ArchiveAuth!LocksHold` | when the table has no room for every name, the count of one name's failures is given up for another's | `archive/nanacoin_rs/README.md:34` (five failed attempts lock) |
| `MetricsTargets!NoDuplicateScrapes` | a target adopted by its name takes a URL that another target already has | `scrape.rs:144-145` ("without duplicate scrapes") |
| `MetricsStore!CreatedIsTold` | a series whose first point is refused is made and not counted | `messages.rs` ("New series created by this write") |
| `BoardThreads!IdsDistinct` | the blob was written and the commit of the row failed: the next comment gets an identifier that the blob already holds | `comments.rs` ("Could not save; nothing changed") |
| `BoardPlans!ReportsNameGames` | a report keeps the game that was merged into another | `catalog.rs` ("interests, plans and ticks move to `into`") |
| `PartySeries!CountedIsMade` | with the table of events full, an occurrence is counted in `made` although no event was made | `series.rs:7-8` (each occurrence is made exactly once) |
| `PartyBot!FailureChangesNothing` | the commit of a batch fails, and what a person may undo has changed all the same | `api.rs` ("any error leaves the state as it was") |
| `PartyPeople!ActiveGetsIn` | an administrator sets the status of an invited person who has neither a PIN nor an account elsewhere to active | `invites.rs` ("redeeming it later activates that person") |
| `PartyPeople!HandlesAreOwn` | signing in with one of two accounts that share a subject on two instances gives its handle to the other (`Host` of two) | `identity.rs` ("Handles can change by instance migration; keep the newest") |
| `PartyPublish!PublishedIsPublic` | the answer of a push is lost; the next one compares with what was remembered before, finds nothing to remove, and is recorded as done while the branch still shows the event | `publish.rs` ("published only if a signed-out viewer could see it") |
| `PartyAnswers!SameAnswerChangesNothing` | after the host lowered the capacity, the same answer again moves the person to the waiting list (`Capacities = {1, 2}`) | `rsvps.rs:143`, `spec/03-domain.md` |
| `PartyChannels!ReadyIsVerified` | the instance of the bot is replaced while the check of the old one is under way, and the answer makes the new one ready (two instances) | `spec/04-channels.md` ("The board verifies it") |

One more is described in words only: when a network is lost, `wifi.rs:254-277` keeps the age of the earlier failure, so the
window of retries may open at once; the comment at `wifi.rs:251-252` and `docs/WIFI_SETUP.md:11-12` promise the whole window.

Further behaviour a maintainer should know, that no comment contradicts: the initial grant is a second append, so
its failure leaves a member without it, and a retry gets `ErrUsernameTaken`; after a failed append of a
receipt the caches of RAM and journal differ in order, and the journal may keep a receipt for a
key that RAM has replaced; a process end between the money and its receipt means that a repeat runs
again (`money.go:237-239` says so; `AtMostOnce` therefore covers one life of the process);
a code is spent also when it does not match, or when there is no slot for a session.

## 6. What is not modelled

- Byte codecs other than the wire formats and `gorilla.rs` (event and record encoding, JSON text, HPACK, TLS) and arithmetic on bytes (password hashing,
  SHA-256): pure functions, which the repository tests with vectors and fuzzing.
- Rendering, wording, routing, user interfaces, device input and output.
- The list walks `EachOffer` and `EachQuote`: they give the mutex up between rows and
  come back to a row by its index, without the generation counter that
  `eachListingLocked` keeps.
- Arena fragmentation: text is counted in blocks, and the arena gives out any of them.
- 64-bit overflow of balances and of `coins * rate`; amounts are small integers.
- The integer width of sequence numbers is modelled by its end: `MaxSeq` is where `ErrSequenceFull` begins.
- Pictures, comments and profile pages of party; seats and texts of gamematcher; streamed uploads of HTTP/1; the
  exposition parser and the views of housemetrics; wrap-around of incident counters.
- In `Idempotency`: the service mutex (each step under it is one action, so `EveryCallReturns` is about the stripes), and
  operations of several appends (those are in `Market` and `Exchange`). `AtMostOnce` excuses a key once the process has
  ended between the operation and its receipt: then only `AnswersAreTrue` holds.
- In `Market` the message of an offer is stored whole; `offers_store.go:218-225` may clip it.
- `BoardOutbox` has nothing to say of a mailbox removed while it is being set up, nor `FwWifi` of how long a window of
  retries is; `PartyBot` has no type invariant. The instances `Journal`, `Doors` and `Coins` leave out the faults and
  sizes under which section 5 finds a difference.

## 7. Plan

Done, in this order: NanaCoin's journal, ledger, marketplace, exchange, household, receipts and sessions, the proofs of section 4; the stores, people, plans and outbound work of party and gamematcher; the framework;
housemetrics and the archived NanaCoin.

Left, most important first:

1. proofs: the queue and the approved actions of the framework, then the plans of gamematcher;
2. a module for the list walks (`EachListing`, `EachOffer`, `EachQuote`) against concurrent writers, one run
   that shows the generation counter and the gap without it;
3. the rate limiter and the HTTP client of the framework, and the bounded queue of `async_worker_rs/`.
