------------------------------- MODULE FwWifi -------------------------------
(* The board's Wi-Fi (miniframework esp/wifi.rs, esp/mod.rs housekeeping) and   *)
(* its setup page's one-command worker (wifi_setup.rs).  The radio driver, the  *)
(* routers and the phones are the environment.  A network's right password is   *)
(* written as its own name.  Times are ages in housekeeping rounds (10 s).      *)
EXTENDS Integers, FiniteSets

CONSTANTS Net, Bad,             \* networks, and a password that is right for none
          Minutes, MINUTE,      \* retry_minutes to choose, and the rounds of a minute
          JOIN_TIMEOUT, GRACE, RETRY_SAVED, BOOT_ATTEMPTS,
          MaxJoins              \* commands and cuts of power, for TLC
VARIABLES build,                \* the app's choices: portal, setup_ssid, builtin
          power, left, saved,   \* boot: attempts (or rounds) left, credentials were saved
          nvs,                  \* ssid, pass and retry_min
          driver,               \* conf, ap, link (network with an address), trying
          air, phones,          \* networks in reach; someone is on the setup network
          radio, joining, due,  \* Radio; Board.joining; a round of housekeeping is due
          job,                  \* a join that holds the radio: boot or the page
          ctl, worker,          \* Controller's state; where its worker is
          won, joins            \* history: pairs that joined; commands and cuts of power
vars == <<build, power, left, saved, nvs, driver, air, phones, radio, joining, due, job,
          ctl, worker, won, joins>>
boot == <<left, saved>>
world == <<air, phones>>
page == <<ctl, worker>>
past == <<won, joins>>

None == "none"
Never == -1
Cred == [ssid : Net, pass : Net \cup {Bad}]
NoCred == [ssid |-> None, pass |-> None]
Right(n) == [ssid |-> n, pass |-> n]
Command == [kind : {"join"}, cred : Cred, minutes : Minutes]
           \cup [kind : {"scan", "close"}] \cup [kind : {"retry"}, minutes : Minutes]
NoCmd == [kind |-> None]
NoJob == [who |-> None, step |-> None, cred |-> NoCred, age |-> 0]
Asleep == [conf |-> NoCred, ap |-> FALSE, link |-> None, trying |-> FALSE]
Fresh(minutes) == [setup |-> FALSE, cred |-> NoCred, ip |-> FALSE, joined |-> Never,
                   retried |-> Never, failure |-> Never, minutes |-> minutes]
Ready == [pending |-> NoCmd, busy |-> FALSE, phase |-> "ready", ssid |-> None, address |-> FALSE]
Idle == [step |-> "idle", cmd |-> NoCmd, ok |-> TRUE, info |-> None]
DEFAULT == CHOOSE m \in Minutes : \A k \in Minutes : k <= m

Init == /\ \E p, s \in BOOLEAN, b \in {NoCred} \cup {Right(n) : n \in Net} :
               (p => s) /\ build = [portal |-> p, setup_ssid |-> s, builtin |-> b]
        /\ power = "off" /\ left = 0 /\ saved = FALSE
        /\ nvs \in {[ssid |-> n, pass |-> n, minutes |-> DEFAULT] : n \in {None} \cup Net}
        /\ driver = Asleep /\ air \in SUBSET Net /\ phones = FALSE
        /\ radio = Fresh(DEFAULT) /\ joining = Never /\ due = FALSE /\ job = NoJob
        /\ ctl = Ready /\ worker = Idle
        /\ won = {Right(n) : n \in Net \cap {nvs.ssid}} /\ joins = 0

-----------------------------------------------------------------------------
\* The environment.
Works(c) == c.ssid \in air /\ c.pass = c.ssid
Appears == /\ \E a \in SUBSET Net : a # air /\ air' = a
           /\ driver' = [driver EXCEPT !.link = IF @ \in air' THEN @ ELSE None]
           /\ UNCHANGED <<build, power, boot, nvs, phones, radio, joining, due, job, page, past>>
PhoneMoves == /\ driver.ap /\ phones' = ~phones
              /\ UNCHANGED <<build, power, boot, nvs, driver, air, radio, joining, due, job, page, past>>
Associates == /\ driver.trying /\ Works(driver.conf) /\ power = "on"
              /\ driver' = [driver EXCEPT !.link = driver.conf.ssid, !.trying = FALSE]
              /\ won' = won \cup {driver.conf}
              /\ UNCHANGED <<build, power, boot, nvs, world, radio, joining, due, job, page, joins>>
PowerFails ==
    /\ power # "off" /\ joins < MaxJoins /\ joins' = joins + 1 /\ power' = "off"
    /\ driver' = Asleep /\ phones' = FALSE /\ radio' = Fresh(DEFAULT) /\ joining' = Never /\ due' = FALSE
    /\ job' = NoJob /\ ctl' = Ready /\ worker' = Idle /\ left' = 0 /\ saved' = FALSE
    /\ UNCHANGED <<build, nvs, air, won>>

-----------------------------------------------------------------------------
\* wifi_setup.rs
RetryWindow(minutes) == minutes * MINUTE
exhausted(minutes, elapsed) == elapsed >= RetryWindow(minutes)

\* set_configuration and connect of the driver; a station that changes its network is let go.
Configured(c, ap) == [conf |-> c, ap |-> ap, trying |-> FALSE,
                      link |-> IF c.ssid = driver.link THEN driver.link ELSE None]
Connecting(d) == [d EXCEPT !.trying = d.link = None]
connected_address == driver.link # None

\* open_setup
Opened(r) == [r EXCEPT !.setup = TRUE, !.ip = FALSE, !.joined = Never, !.retried = Never]
OpenSetup(r) == IF build.setup_ssid
                THEN driver' = [Asleep EXCEPT !.ap = TRUE] /\ radio' = Opened(r)
                ELSE UNCHANGED driver /\ radio' = r
joined(r, c) == [r EXCEPT !.cred = c, !.ip = TRUE, !.joined = 0]

-----------------------------------------------------------------------------
\* boot and boot_portal
credentials == IF nvs.ssid # None THEN [ssid |-> nvs.ssid, pass |-> nvs.pass] ELSE build.builtin
Chances == IF build.portal THEN RetryWindow(nvs.minutes) ELSE BOOT_ATTEMPTS
BootReads(force_setup) ==
    /\ power = "off"
    /\ LET r == Fresh(IF build.portal THEN nvs.minutes ELSE DEFAULT) IN
       \/ /\ (force_setup /\ build.setup_ssid) \/ credentials = NoCred
          /\ power' = IF build.setup_ssid THEN "on" ELSE "failed"
          /\ OpenSetup(r) /\ UNCHANGED <<boot, job>>
       \/ /\ ~(force_setup /\ build.setup_ssid) /\ credentials # NoCred /\ power' = "boot"
          /\ left' = Chances /\ saved' = (nvs.ssid # None)
          /\ radio' = [r EXCEPT !.cred = IF build.portal THEN credentials ELSE NoCred]
          /\ driver' = Configured(credentials, FALSE)
          /\ job' = [who |-> "boot", step |-> "connecting", cred |-> credentials, age |-> 0]
    /\ UNCHANGED <<build, nvs, world, joining, due, page, past>>
Connects == /\ job.step = "connecting" /\ Works(job.cred) /\ job.age <= JOIN_TIMEOUT
            /\ driver' = [driver EXCEPT !.link = job.cred.ssid] /\ won' = won \cup {job.cred}
            /\ UNCHANGED <<build, power, boot, nvs, world, radio, joining, due, job, page, joins>>
\* WifiUp at boot.
BootIsUp(r) == /\ power' = "on" /\ job' = NoJob
               /\ radio' = [r EXCEPT !.cred = job.cred, !.ip = TRUE]
BootJoins == /\ job.who = "boot" /\ job.step = "connecting" /\ connected_address
             /\ IF saved THEN BootIsUp(radio)
                ELSE job' = [job EXCEPT !.step = "ssid"] /\ UNCHANGED <<power, radio>>
             /\ UNCHANGED <<build, boot, nvs, driver, world, joining, due, page, past>>
\* An attempt failed.
BootRetries == /\ job.who = "boot" /\ job.step = "connecting" /\ ~connected_address /\ left > 1
               /\ left' = left - 1
               /\ UNCHANGED <<build, power, saved, nvs, driver, world, radio, joining, due, job, page, past>>
BootGivesUp ==
    /\ job.who = "boot" /\ job.step = "connecting" /\ ~connected_address /\ left <= 1
    /\ left' = 0 /\ job' = NoJob /\ power' = IF build.setup_ssid THEN "on" ELSE "failed"
    /\ OpenSetup([radio EXCEPT !.cred = job.cred])
    /\ UNCHANGED <<build, saved, nvs, world, joining, due, page, past>>

-----------------------------------------------------------------------------
\* save: two keys, one write each; `?` ends it at the first that fails.
\* Joined: what follows a save that worked.
PageJoined(r) == /\ job' = NoJob /\ radio' = joined(r, job.cred) /\ UNCHANGED power
                 /\ worker' = IF build.portal THEN [worker EXCEPT !.step = "ended"] ELSE worker
PageFailed == /\ job' = NoJob /\ UNCHANGED <<power, radio>>
              /\ worker' = IF build.portal THEN [worker EXCEPT !.step = "ended", !.ok = FALSE] ELSE worker
Saved == IF job.who = "boot" THEN BootIsUp(radio) /\ UNCHANGED worker ELSE PageJoined(radio)
SaveFailed == IF job.who = "page" THEN PageFailed
              ELSE /\ UNCHANGED worker
                   /\ IF build.portal THEN power' = "failed" /\ job' = NoJob /\ UNCHANGED radio
                      ELSE BootIsUp(radio)
Save(done) ==
    /\ \/ /\ job.step = "ssid" /\ done /\ nvs' = [nvs EXCEPT !.ssid = job.cred.ssid]
          /\ job' = [job EXCEPT !.step = "pass"] /\ UNCHANGED <<power, radio, worker>>
       \/ /\ job.step = "pass" /\ done /\ nvs' = [nvs EXCEPT !.pass = job.cred.pass] /\ Saved
       \/ /\ job.step \in {"ssid", "pass"} /\ ~done /\ UNCHANGED nvs /\ SaveFailed
    /\ UNCHANGED <<build, boot, driver, world, joining, due, ctl, past>>

-----------------------------------------------------------------------------
\* join_from_setup and join_portal, holding the radio until they end.
Locked == job.who = "page"
JoinBegins(c) ==
    /\ driver' = [Configured(c, driver.ap) EXCEPT !.link = None]
    /\ radio' = IF build.portal THEN [radio EXCEPT !.ip = FALSE, !.joined = Never, !.retried = Never] ELSE radio
    /\ job' = [who |-> "page", step |-> "connecting", cred |-> c, age |-> 0]
\* An app without the portal calls join itself; the setup network stays as it was.
AppJoins(c) == /\ power = "on" /\ ~build.portal /\ build.setup_ssid /\ ~Locked /\ joins < MaxJoins
               /\ joins' = joins + 1 /\ driver' = [Configured(c, TRUE) EXCEPT !.link = None]
               /\ job' = [who |-> "page", step |-> "connecting", cred |-> c, age |-> 0]
               /\ UNCHANGED <<build, power, boot, nvs, world, radio, joining, due, page, won>>
JoinConnected == /\ Locked /\ job.step = "connecting" /\ driver.link = job.cred.ssid
                 /\ job' = [job EXCEPT !.step = "ssid"]
                 /\ UNCHANGED <<build, power, boot, nvs, driver, world, radio, joining, due, page, past>>
JoinTimesOut == /\ Locked /\ job.step = "connecting" /\ job.age > JOIN_TIMEOUT /\ PageFailed
                /\ driver' = [driver EXCEPT !.link = None, !.trying = FALSE]
                /\ UNCHANGED <<build, boot, nvs, world, joining, due, ctl, past>>

\* close_setup, with credentials the station accepts.
ClosesTo(r) == IF r.cred = NoCred THEN UNCHANGED driver /\ radio' = r
               ELSE driver' = Connecting(Configured(r.cred, FALSE)) /\ radio' = [r EXCEPT !.setup = FALSE]
AppCloses == /\ power = "on" /\ ~build.portal /\ radio.setup /\ ~Locked /\ ClosesTo(radio) /\ phones' = FALSE
             /\ UNCHANGED <<build, power, boot, nvs, air, joining, due, job, page, past>>

-----------------------------------------------------------------------------
\* setup_chores
Chores(r) ==
    LET grace == IF build.portal THEN GRACE ELSE 2 * GRACE
        due_retry == r.retried = Never \/ r.retried >= RETRY_SAVED IN
    IF r.joined # Never
    THEN IF r.joined > grace THEN ClosesTo(r) ELSE UNCHANGED driver /\ radio' = r
    ELSE IF r.retried # Never /\ connected_address
    THEN IF phones THEN UNCHANGED driver /\ radio' = joined(r, r.cred) ELSE ClosesTo(joined(r, r.cred))
    ELSE IF r.cred # NoCred /\ due_retry /\ ~phones
    THEN radio' = [r EXCEPT !.retried = 0] /\ driver' = Connecting(Configured(r.cred, TRUE))
    ELSE UNCHANGED driver /\ radio' = r

\* portal_recovery: what it leaves of radio, and whether the window is over.
Recovered(r) == IF ~build.portal \/ r.setup THEN r
                ELSE IF connected_address THEN [r EXCEPT !.failure = Never, !.ip = TRUE]
                ELSE [r EXCEPT !.ip = FALSE, !.joined = Never,
                               !.failure = IF @ = Never THEN 0 ELSE @]
WindowIsOver(r) == build.portal /\ ~r.setup /\ ~connected_address /\ exhausted(r.minutes, r.failure)
\* The background join of a station that is down (opened says the driver did not refuse the AP).
Reconnects(r) ==
    /\ radio' = r
    /\ IF connected_address THEN joining' = Never /\ UNCHANGED driver
       ELSE IF joining # Never /\ joining < JOIN_TIMEOUT THEN UNCHANGED <<joining, driver>>
       ELSE joining' = 0 /\ driver' = [driver EXCEPT !.trying = TRUE]
Housekeeping(opened) ==
    /\ power = "on" /\ due /\ due' = FALSE
    /\ IF Locked THEN UNCHANGED <<radio, driver, joining>>
       ELSE LET r == Recovered(radio) IN
            IF WindowIsOver(r) /\ opened THEN OpenSetup(r) /\ UNCHANGED joining
            ELSE IF r.setup THEN opened /\ Chores(r) /\ UNCHANGED joining
            ELSE Reconnects(r)
    /\ phones' = (phones /\ driver'.ap)
    /\ UNCHANGED <<build, power, boot, nvs, air, job, page, past>>

Older(age, most) == IF age = Never \/ age > most THEN age ELSE age + 1
Longest == RetryWindow(DEFAULT)
Tick == /\ power = "on" /\ ~due /\ due' = TRUE
        /\ radio' = [radio EXCEPT !.joined = Older(@, 2 * GRACE), !.retried = Older(@, RETRY_SAVED),
                                  !.failure = Older(@, Longest)]
        /\ joining' = Older(joining, JOIN_TIMEOUT)
        /\ job' = IF Locked THEN [job EXCEPT !.age = Older(@, JOIN_TIMEOUT)] ELSE job
        /\ (Locked /\ job.step = "connecting") => job.age <= JOIN_TIMEOUT
        /\ UNCHANGED <<build, power, boot, nvs, driver, world, page, past>>

-----------------------------------------------------------------------------
\* The setup page: handle's enqueue and the worker's run_once.
PhaseOf(cmd) == CASE cmd.kind = "scan" -> "scanning" [] cmd.kind = "join" -> "joining"
                  [] cmd.kind = "retry" -> "saving" [] OTHER -> "closing"
enqueue(cmd) ==
    /\ power = "on" /\ build.portal /\ radio.setup /\ ~ctl.busy /\ joins < MaxJoins /\ joins' = joins + 1
    /\ ctl' = [ctl EXCEPT !.pending = cmd, !.busy = TRUE, !.phase = PhaseOf(cmd)]
    /\ UNCHANGED <<build, power, boot, nvs, driver, world, radio, joining, due, job, worker, won>>

\* backend.info: waits for the radio.
info == [ssid |-> radio.cred.ssid, address |-> radio.ip /\ connected_address]
Working == power = "on" /\ build.portal /\ ~Locked
\* Mutant of WorkerTakes
WorkerTakes_drops ==
    /\ Working /\ worker.step = "idle" /\ ctl.pending # NoCmd
    /\ ctl' = [ctl EXCEPT !.pending = NoCmd]
    /\ worker' = IF radio.setup THEN [Idle EXCEPT !.step = "run", !.cmd = ctl.pending] ELSE Idle
    /\ UNCHANGED <<build, power, boot, nvs, driver, world, radio, joining, due, job, past>>
WorkerTakes ==
    /\ Working /\ worker.step = "idle" /\ ctl.pending # NoCmd
    /\ ctl' = [ctl EXCEPT !.pending = NoCmd]
    /\ worker' = [Idle EXCEPT !.step = IF radio.setup THEN "run" ELSE "ended",
                              !.cmd = ctl.pending, !.ok = radio.setup]
    /\ UNCHANGED <<build, power, boot, nvs, driver, world, radio, joining, due, job, past>>
\* Nothing to do: info is read, then shown unless a command came meanwhile.
WorkerPeeks ==
    /\ Working /\ worker.step = "idle" /\ ctl.pending = NoCmd /\ ~ctl.busy
    /\ worker' = [Idle EXCEPT !.step = "peeked", !.info = info]
    /\ UNCHANGED <<build, power, boot, nvs, driver, world, radio, joining, due, job, ctl, past>>
WorkerShows ==
    /\ Working /\ worker.step = "peeked" /\ worker' = Idle
    /\ ctl' = IF ctl.busy THEN ctl
              ELSE [ctl EXCEPT !.ssid = worker.info.ssid, !.address = worker.info.address,
                               !.phase = IF worker.info.address /\ @ # "error" THEN "connected" ELSE @]
    /\ UNCHANGED <<build, power, boot, nvs, driver, world, radio, joining, due, job, past>>

Ended(ok) == worker' = [worker EXCEPT !.step = "ended", !.ok = ok]
\* set_retry_minutes: done says the write of retry_min worked.
SetMinutes(minutes, done) ==
    IF radio.minutes # minutes /\ done
    THEN nvs' = [nvs EXCEPT !.minutes = minutes] /\ radio' = [radio EXCEPT !.minutes = minutes]
    ELSE UNCHANGED <<nvs, radio>>
IsSet(minutes, done) == radio.setup /\ (radio.minutes = minutes \/ done)
RunRetry(done) ==
    /\ Working /\ worker.step = "run" /\ worker.cmd.kind = "retry"
    /\ IF radio.setup THEN SetMinutes(worker.cmd.minutes, done) ELSE UNCHANGED <<nvs, radio>>
    /\ Ended(IsSet(worker.cmd.minutes, done))
    /\ UNCHANGED <<build, power, boot, driver, world, joining, due, job, ctl, past>>
RunJoin(done) ==
    /\ Working /\ worker.step = "run" /\ worker.cmd.kind = "join"
    /\ IF radio.setup THEN SetMinutes(worker.cmd.minutes, done) ELSE UNCHANGED <<nvs, radio>>
    /\ IF IsSet(worker.cmd.minutes, done) THEN worker' = [worker EXCEPT !.step = "join"] ELSE Ended(FALSE)
    /\ UNCHANGED <<build, power, boot, driver, world, joining, due, job, ctl, past>>
\* The radio was let go between the two calls.
RunJoinPortal ==
    /\ Working /\ worker.step = "join"
    /\ IF radio.setup THEN JoinBegins(worker.cmd.cred) /\ worker' = [worker EXCEPT !.step = "joining"]
       ELSE Ended(FALSE) /\ UNCHANGED <<driver, radio, job>>
    /\ UNCHANGED <<build, power, boot, nvs, world, joining, due, ctl, past>>
RunScan == /\ Working /\ worker.step = "run" /\ worker.cmd.kind = "scan" /\ Ended(radio.setup)
           /\ UNCHANGED <<build, power, boot, nvs, driver, world, radio, joining, due, job, ctl, past>>
RunClose ==
    /\ Working /\ worker.step = "run" /\ worker.cmd.kind = "close"
    /\ LET home == info.address IN
       /\ Ended(home)
       /\ IF home /\ radio.setup THEN ClosesTo(radio) ELSE UNCHANGED <<driver, radio>>
    /\ phones' = (phones /\ driver'.ap)
    /\ UNCHANGED <<build, power, boot, nvs, air, joining, due, job, ctl, past>>
WorkerTells ==
    /\ Working /\ worker.step = "ended" /\ worker' = [worker EXCEPT !.step = "told", !.info = info]
    /\ UNCHANGED <<build, power, boot, nvs, driver, world, radio, joining, due, job, ctl, past>>
WorkerEnds ==
    /\ power = "on" /\ worker.step = "told" /\ worker' = Idle
    /\ ctl' = [ctl EXCEPT !.busy = FALSE, !.ssid = worker.info.ssid, !.address = worker.info.address,
                          !.phase = IF ~worker.ok THEN "error"
                                    ELSE IF worker.info.address THEN "connected" ELSE "ready"]
    /\ UNCHANGED <<build, power, boot, nvs, driver, world, radio, joining, due, job, past>>

Worker == \/ WorkerTakes \/ WorkerPeeks \/ WorkerShows \/ RunScan \/ RunClose \/ RunJoinPortal
          \/ WorkerTells \/ WorkerEnds
          \/ \E done \in BOOLEAN : RunRetry(done) \/ RunJoin(done)
Joining == \/ BootJoins \/ BootRetries \/ BootGivesUp \/ Connects \/ JoinConnected \/ JoinTimesOut
           \/ \E done \in BOOLEAN : Save(done)
Next == \/ Appears \/ PhoneMoves \/ Associates \/ PowerFails
        \/ \E force_setup \in BOOLEAN : BootReads(force_setup)
        \/ Joining \/ Worker
        \/ \E c \in Cred : AppJoins(c)
        \/ AppCloses
        \/ \E cmd \in Command : enqueue(cmd)
        \/ \E opened \in BOOLEAN : Housekeeping(opened)
        \/ Tick
\* Loops keep turning; the driver does not refuse the setup network for ever.
Fairness == /\ WF_vars(\E force_setup \in BOOLEAN : BootReads(force_setup))
            /\ WF_vars(Joining) /\ WF_vars(Worker) /\ WF_vars(Tick)
            /\ WF_vars(\E opened \in BOOLEAN : Housekeeping(opened)) /\ SF_vars(Housekeeping(TRUE))
Spec == Init /\ [][Next]_vars /\ Fairness

-----------------------------------------------------------------------------
TypeOK == /\ power \in {"off", "boot", "on", "failed"} /\ left \in 0 .. Longest + BOOT_ATTEMPTS
          /\ nvs.ssid \in Net \cup {None} /\ nvs.minutes \in Minutes
          /\ driver.link \in Net \cup {None} /\ (phones => driver.ap)
          /\ radio.joined \in Never .. 2 * GRACE + 1 /\ radio.failure \in Never .. Longest + 1
          /\ job.who \in {None, "boot", "page"} /\ (worker.step = "joining" <=> Locked /\ build.portal)

\* A network name is saved only once the board has been on that network, however a join, a
\* refused write or a loss of power interrupt one another.
SavedHasJoined == nvs.ssid # None => Right(nvs.ssid) \in won

\* Every accepted command ends, or power does.
Commanded == ctl.busy
EveryCommandEnds == Commanded ~> ~Commanded

\* A board with the portal is never for ever without its network and without its setup network.
Dark == build.portal /\ power = "on" /\ ~radio.setup /\ ~connected_address
NeverDark == Dark ~> ~Dark
=============================================================================
