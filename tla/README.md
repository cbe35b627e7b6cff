# A TLA+ verification of YGATE

YGATE collects Modbus readings at solar sites and brings them to a central
Platform. A **Middleware** at each site polls its devices, buffers every reading
in SQLite and keeps one outbound WebSocket to the **Platform**. The Platform
drains the buffered readings through that socket, ingests them into PostgreSQL,
evaluates alarms while it does so, and pushes the site's configuration back.

This directory holds TLA+ models of the parts of that system where order,
failure and concurrency matter, the configurations that check them with TLC, and
theorems about them checked by TLAPS. Paths in this document and in the modules
are relative to `src/`; `platform-api`, `auth-service` and `api-gateway` are short for
`services/<name>/internal`, `middleware` for `modbus-api-middleware/internal`.

1. [Inventory](#1-inventory) – the system's parts, their state and what can go wrong
2. [Modules](#2-modules) – what models what, and how state and actions correspond
3. [Runs](#3-runs) – what each run checks, its bounds, and what it shows
4. [Fairness](#4-fairness)
5. [Proofs](#5-proofs) – what holds for every value of the constants, and why
6. [Abstractions and what they cost](#6-abstractions-and-what-they-cost)
7. [What is not modelled](#7-what-is-not-modelled)
8. [Plan](#8-plan)

To run it:

    tlc -config TelemetryPull_faults.cfg MCTelemetryPull.tla
    tlapm TelemetryPull_proofs.tla

Every configuration `X_name.cfg` belongs to the module `MCX`.

## 1. Inventory

### 1.1 How the parts interact

    devices --Modbus--> poller --> outbox (SQLite) --+
                          ^                          |   one WebSocket, dialled by
                        cache <-- configuration      |   the Middleware
                                  (SQLite) <---------+---------------------+
                          local web UI ---^          |                     |
                                                     v                     |
      browser <--ws-- alarm tail      realtime client (one read loop)      |
         |                 ^                         |                     |
         v                 |                  gateway handler + hub  <-----+
     REST API --------> PostgreSQL <-- ingest <-- puller (one per socket)
     (admins)              ^                                  Push Config ^
                     auth-service                              admins ----+

* The Middleware dials; the Platform never does. Every Platform-to-site request is
  a `command` frame with a `commandId`, answered by a `command.result`.
* The Platform's *hub* knows one connection per gateway: the newest registered.
  An old connection's handler goroutine, and the puller it started, live on until
  the Platform notices that the socket is dead.
* The Middleware reads one frame at a time and handles it to the end: drains, acks,
  config snapshots and update stages queue behind each other.
* PostgreSQL transactions run at READ COMMITTED. SQLite runs in WAL mode with
  a pool of connections: one writer at a time, readers beside it, and only what is in one
  transaction is atomic.
* Configuration is pushed, never pulled: `hello` names the applied version and the
  Platform does not act on it.

### 1.2 The components

Each entry says what state the part keeps, its operations, what is hard about it, and
what makes it correct. The module that models it is named at the end.

**Telemetry pull** – `middleware/store` (outbox), `middleware/realtimeclient`,
`platform-api/telemetrypull`, `platform-api/ingestion`.
*State*: `outbox_events` rows (id, payload, status); per connection the frames in
flight; the pullers; `telemetry_ingest_batch` by idempotency key and
`raw_register_reading` by (plant, device, time, register).
*Operations*: enqueue, `telemetry.drain` (read the oldest 500 pending rows),
ingest, `telemetry.ack` (mark delivered), clean-up of delivered rows, connect,
disconnect, time out.
*Hard*: two pullers of one gateway race while an old socket is not known to be dead;
an ack may travel another connection than its drain; answers come after their
call's deadline; the ack is not a transaction; either process may die between any
two steps; a refused batch is remembered by the hash of its body.
*Correct when*: no row is released before a batch that holds it was committed; a
redelivered reading is never counted twice; what is released is in the database;
every buffered reading is eventually released. → `TelemetryPull`

**Config push** – `platform-api/core/middleware_config.go`, the hub, the realtime
client's `handleConfigSnapshot`, `middleware/store/config_history.go`.
*State*: `middleware_client` (version, snapshot, applied version),
`middleware_config_history`, the bounded buffer of the connection, the site's tables
and its own `config_history`.
*Operations*: edit the registry, Push Config (lock, build, bump, commit, hand to the
hub, mark SENT), apply, record, ack, record the ack.
*Hard*: several admins; everything after the commit holds no lock; a full buffer or an
abandoned socket; a crash between apply, history row and ack; the site's own page, which
writes the tables a push replaces.
*Correct when*: a later version never holds an older registry; what a push installed is
exactly a version the Platform recorded, until the site's own page writes over it; an APPLIED
ack is backed by the site's own record; pushes are applied in order; what was reported
delivered is handled. → `ConfigPush`

**Middleware configuration and its cache** – `middleware/configcache`, `middleware/web`
(configuration handlers, settings and CSV imports), `middleware/store`.
*State*: the tables of SQLite, the active `Config` behind an atomic pointer, the
`gateway_config` row.
*Operations*: local saves and deletes, imports of many rows, the application of a push,
rebuild (one query per table, no transaction) and swap, restart.
*Hard*: HTTP handlers run concurrently with each other and with the read loop; reading
and swapping are separate steps; an import may stop half-way.
*Correct when*: an editor sees its own change; with nothing under way cache and SQLite
agree. → `ConfigCache`

**Alarms** – `platform-api/ingestion/alarms.go`, `register_alarms.go`,
`platform-api/core/alarms.go`, `register_profiles.go`, `platform-api/httpapi/realtime.go`.
*State*: `alarm_rule`, the register profile's alarm mappings, `alarm_event` and its
identity sequence, mails handed to goroutines, the cursor of every browser connection.
*Operations*: judge a reading against rules and mappings inside the ingest
transaction; mail after the commit; create, update, delete a rule; save a profile
address; acknowledge; tail the log by id.
*Hard*: two ingest transactions of one gateway; redelivered readings; rollback after
events were opened; the delay before an alarm may open again; ids handed out before
their rows are visible; acknowledgement racing a clear.
*Correct when*: the log is what the stored readings call for; mail is only about
committed events; a viewer misses no event; the first acknowledgement stays.
→ `Alarms`

**Gateway hub** – `platform-api/gatewayhub`. *State*: gateway → connection, each with a
buffered channel and a map of pending calls. *Operations*: register (replacing),
unregister (only itself), `Call`, `resolve`, progress callbacks, `PushConfig`.
*Hard*: a call whose connection dies waits for its own context; an answer may come after
its caller has gone, or on a connection that is no longer the hub's. *Correct when*: an
answer reaches its own call only; a command of a living connection is on the way, at work or
answered; a frame reported as handed over is handled. → the parts each pipeline uses are in
`TelemetryPull`, `ConfigPush` and `SelfUpdate`

**Realtime client** – `middleware/realtimeclient`. *State*: the socket, the read loop,
the heartbeat. *Operations*: dial with back-off, hello, dispatch: drain, ack, snapshot,
stage, apply, rollback, restart, probes. *Hard*: minutes of `update.stage` inside the read
loop. *Correct when*: commands are handled in the order of their frames, each once.
→ `TelemetryPull` (drain, ack), `ConfigPush` and `ConfigCache` (snapshot), `SelfUpdate`
(stage, apply, rollback, restart), `Poller` (the maintenance gate)

**Poller and idle filter** – `middleware/app`, `profile`, `decoder`. *State*: the last
value per device, the time it was taken, the maintenance gate. *Operations*: plan the
blocks of a device set, sweep, read, retry, decode, decide, enqueue, take the baseline
back. *Hard*: the baseline moves before the reading is stored; the clock may step; one
register may fail in a block of many; a stage of a patch stops the sweep. *Correct
when*: a block plan covers each enabled register and nothing in between, and decodes
each once; what is left out is spoken for by a younger stored row; no connection is left
out; the gate comes back. → `Poller`

**Self-update** – `middleware/updater`, `updatebridge`, `web/update.go`. *State*: staged
package, manifest, backups, the detached apply script. *Operations*: stage, apply, roll
back, restart, from the realtime command, the bridge and the local page. *Hard*: the page
and the command stage at once; the script runs seconds later; a copy stops half-way; a new
binary may not start. *Correct when*: what is installed is a whole package built for the
site, and no failed or interrupted stage is ever installed. → `SelfUpdate`

**Middleware update jobs and patches** – `platform-api/core/middleware_update_jobs.go`,
`middleware_patch.go`. *State*: patches with their files, jobs in memory, one goroutine per
item. *Hard*: a site named twice, a restart, a call with no deadline, a second try.
*Correct when*: a job's status tells what its items say; an item succeeds only when the
site carried its command out. → `SelfUpdate`

**Accounts: sessions, registration, recovery, users, roles** – `auth-service/auth`,
`auth-service/core`. *State*: users with status, verified address and role; roles with
permissions; sessions; one-time links. *Operations*: sign in and out, change, forget and
reset a password, register, verify, resend, create, edit, disable and delete users, edit
roles. *Hard*: sign-in verifies the password outside the transaction that opens the
session; resending a verification is three statements outside any transaction; an
administrator's edit races a link, a sign-in and the edit of the role it assigns.
*Correct when*: what ends a user's sessions leaves none, and none about to be inserted; a
link works once; an administrator's password leaves no link that was there before; nobody
gives a permission he does not have. → `Accounts`

**Registry** – plants, Middlewares, device models with register profiles, devices, CSV
and configuration imports, hard delete, in `platform-api/core`. *State*: the tables and
their foreign keys. *Hard*: a hard delete is several statements, an import several
transactions. *Correct when*: nothing dangles; a deletion is not refused half-way; an
undisturbed import has done what it says. → `Registry`; it is also the edits of `ConfigPush`,
the operator who disables a device in `TelemetryPull` and the rule edits of `Alarms`

**Revisions: SCADA screens, dashboards, pictures** – `platform-api/core/scada.go`,
`dashboard_layout.go`, `plant_image.go`, `site_settings.go`. *State*: drafts with versions,
publications, addresses of pictures, files on disk. *Hard*: tabs that show something old,
answers that are lost, a file that is written outside the transaction that names it.
*Correct when*: nobody overwrites or publishes what he has not seen; every address leads
to a file. → `Revisions`

**Browser realtime** – `platform-api/httpapi/realtime.go`. The alarm tail is in `Alarms`; the
telemetry snapshots keep nothing but the last one sent.

**Everything else** – organisations and API keys, REST ingestion, dashboards' read models,
reports, audit, retention, HTTP routing, migrations, mail, the API gateway, the web
application, the Middleware's pages and licence gate, and its file store for mips: see
[section 7](#7-what-is-not-modelled).

`PROJECT.json` lists every part with its status, and, line by line, the hazards the
properties are aimed at.

## 2. Modules

| module | what it is | kind |
|---|---|---|
| `TelemetryPull` | how a reading leaves a site | detailed model |
| `TwoPhaseHandoff` | what the pull promises | abstract specification |
| `ConfigPush` | how a configuration reaches a site | detailed model |
| `PublishedConfig` | what Push Config promises | abstract specification |
| `ConfigCache` | configuration inside a Middleware | detailed model |
| `Alarms` | alarm evaluation, log, mail, viewers | detailed model |
| `Accounts` | sessions, one-time links, users and roles | detailed model |
| `Registry` | plants, models, devices, hard deletion, imports | detailed model |
| `Revisions` | drafts and publications from tabs, pictures and their files | detailed model |
| `SelfUpdate` | patches, batches, stage, apply and the detached script | detailed model |
| `Poller` | block plans, the sweep, the idle filter, the maintenance gate | detailed model |
| `MC…` | symmetry and the values of set-valued constants, one per model | for TLC |
| `…_proofs` | theorems about one model; `Middleware_proofs` about two, `ConfigCache` and `Poller` | for TLAPS |

Operators whose comment begins "Mutant of" are variants of an operator with a plausible
slip; they are used by nothing, and each shows, put in its place, that a property notices.
No model uses a RECURSIVE operator.

### 2.1 TelemetryPull

One site, its Middleware and the part of the Platform that serves it.

| variable | in the code |
|---|---|
| `outbox` | table `outbox_events`; the sequence's index is the AUTOINCREMENT id |
| `dialled`, `down`, `up` | the client's socket, frames to and from it |
| `handlers`, `hubConn` | running WebSocket handlers; `Hub.conns[gateway]` |
| `puller` | the goroutine each handler starts on hello, at one of the points where `pullOnce` waits |
| `blocked` | devices whose readings `normalize` refuses now (plant or device disabled, not registered) |
| `batches` | `telemetry_ingest_batch`: idempotency key → stored result |
| `stored` | `raw_register_reading`: reading → batch id that inserted it |

`Enqueue` is `Store.Enqueue`; `Ready` and `Delivered` are the two SQL statements of the
same names; `ClearDeliveryLogs` and `CleanupOld` the operator's and the cleaner's
deletes. `SendDrain`, `Ingest`, `SendAck`, `AckOffline`, `Timeout` are the points of
`pullOnce`, `HandleDrain`, `HandleAck`, `HandleFails` the Middleware's side, `Resolve` the
Platform's handler giving an answer to the call that waits for it. `Ingest` is all of
`IngestRaw`: the look-up by key, the verdict per reading, the insert that ignores
duplicates, the batch row and the decision to acknowledge. `IngestFails` covers both a
rollback and a commit whose reply is lost. `Connect`, `MiddlewareDrops`, `PlatformDrops`,
`PlatformCrashes` are the ways a connection comes and goes; a Middleware crash and a lost
network are one action, because the outbox is on disk and nothing else survives either.

`TwoPhaseHandoff` says the same without any of this: readings are buffered, settled,
released, in this order. `TelemetryPull` implements it under `buffered` = pending rows,
`settled` = readings of batches with at least one accepted or duplicate reading,
`released` = rows delivered or deleted.

### 2.2 ConfigPush

| variable | in the code |
|---|---|
| `registry` | revision of the rows a snapshot is built from |
| `rowLock`, `pusher` | `SELECT … FOR UPDATE` on `middleware_client`; each admin's request |
| `client`, `history` | `middleware_client`, `middleware_config_history` |
| `down`, `up`, `dialled`, `handlers`, `hubConn` | as above; `down` has the hub's buffer size |
| `conf`, `mwHistory`, `mw` | the site's tables, its `config_history`, its snapshot handler |

`LockAndBuild`, `CommitPush`, `SendPush`, `MarkSent` are the steps of
`doRecomputeAndPushMiddleware` another party can see; `HubPush` is `Hub.PushConfig`.
`ApplySnapshot` or `RefuseSnapshot`, then `RecordHistory`, then `SendAck` are
`handleConfigSnapshot`, each a commit of its own. `RecordAck` is `RecordConfigAck` with the
version the frame really carries.

`SaveLocally` is the site's own page: `deviceSets`, `connections` and an import of settings
write the tables a push replaces (`middleware/web/configuration.go`, `settings_transfer.go`),
at any moment and without a word to the Platform; what they leave is `Local`, which is no
revision of the registry.

`PublishedConfig` promises: versions in order, each with data no older than the last, and
sites that install published versions only, or what their own page wrote.

### 2.3 ConfigCache

Tables are named by their last commit. `store` is SQLite, `cache` the active `Config`,
`read` the `Config` an actor is rebuilding, `own` what each actor wrote last, `gateway` and
`form` the settings row and the copy of it the push handler holds. `SaveRows`, `SavesDone`,
`SavesFail` are a web handler's commits, its call of `refreshCache` and its early return;
`ApplySnapshot`, `RecordHistory`, `ReadGateway`, `SaveGateway`, `KeepGateway` the push
handler; `ReadTable` and `Swap` the rebuild, one query at a time; `ProcessRestarts` is `main`, which
loads the cache before anything polls or serves.

### 2.4 Alarms

| variable | in the code |
|---|---|
| `readings`, `stored` | the gateway's buffered readings; how many are committed |
| `rules`, `profile` | `alarm_rule` with its conditions; the profile's mappings and their generation of ids |
| `events`, `lastId` | committed `alarm_event` rows; the identity sequence, which a rollback does not take back |
| `tx` | each puller's open transaction: its reading, the rules `ActiveAlarmRules` listed, rows it wrote |
| `mail` | events handed to a mailer goroutine |
| `ack` | the row an acknowledge request holds `FOR UPDATE` |
| `tail` | a browser connection's last id |

`Begin` … `Commit` are the ingest transaction, one step per statement another
transaction could come between: insert a reading (which takes the row of its unique key
and so waits for the other puller), list the rules, judge each (`LeaveRule`,
`OpenRuleEvent`, `ClearRuleEvent`), judge the mappings, commit, mail. A statement sees
committed rows and its own (`Visible`), and waits for rows another transaction has
written (`Free`). `CreateAlarmRule`, `UpdateAlarmRule`, `DeleteAlarmRule`,
`SaveProfileAddress`, `LockEvent`/`Acknowledge` are the operators' requests with their
row locks; `Watch`, `Tick`, `Leave` a browser's.

### 2.5 Accounts

| variable | in the code |
|---|---|
| `users` | `app_user` with its baseline `user_role`: status, verified, role, member of the organisation |
| `roles` | custom `role` rows with their `role_permission` |
| `sessions`, `tokens` | `user_session` rows that are not revoked; unused reset and verification tokens |
| `req` | where each request is, and what its uncommitted statements hold |
| `given` | a history: the permissions that System Admins have put into custom roles |

A request is the code between two points another request can come between. `Login` is the
password check outside any transaction, `RecordLoginSuccess` and `OpenSession` the two
statements of `recordSuccess`. `ChangePassword`, `ClaimResetToken` → `UpdateUserPassword` →
`RevokeAllUserSessions` → `PasswordReset`, `RequestPasswordReset` → `CreateResetToken`,
`ClaimVerification` → `VerifyEmail`, and the three transactions of `ResendVerification` are
the flows of `recovery.go` and `registration.go`. An administrator's request locks the
account (`LocksUser`), checks, writes (`WriteUser`, where it decides which sessions and links
go) and commits (`CommitUser`); a role's edit locks the role and commits (`CommitRole`).
`Writes`, `LockedTokens`, `EditsRole`, `AssignsRole` say what a request holds; `KeyFree` is the
key lock an INSERT takes on its parent. `EnsureAdmin` is the start of the Platform, `Abort`
any end without a commit.

### 2.6 Registry

| variable | in the code |
|---|---|
| `plants`, `gateways`, `serves` | `plant`, `middleware_client`, `middleware_plant` |
| `models`, `rows` | `device_model` with name and profile; its register catalogue |
| `maps` | `register_profile` with its addresses, which is what a site polls |
| `devices`, `own` | `device`; the overrides in `device_register_metadata` |
| `refs` | raw readings and logbook entries that name a device |
| `req` | hard deletions and imports under way |

A transaction all of whose checks are made under a lock or repeated by a constraint is one
step. A hard deletion is `BeginDelete` (the row `FOR UPDATE`), `ClearReferences`,
`RemoveDevices`, `CommitDelete`. An import is a transaction per row with reads in between:
`UpsertRow`, `ReadProfile`, `UpsertAddress` for a register, then
`PruneModbusRegisterMetadata`, `ListDevices`, `ImportDevice`; `CsvPlant`, `CsvModel`,
`CsvDevice` for a row of a CSV. `Skip…` is what is logged and left out.

### 2.7 Revisions

`screens`, `pubs`, `boards` are the rows of screens, their publications and dashboards;
`tab` what each open tab shows; `image`, `logo`, `files` the addresses and the files;
`unsure` the plants whose last upload committed without an answer. A save or a publication
compares the versions its tab names with the locked row, in one step; `Answered` loses the
answer or not. An upload writes its file, commits its address, and removes the file the
address named before.

### 2.8 SelfUpdate

| variable | in the code |
|---|---|
| `patch` | the row of `middleware_patch` of one target, and what its file holds |
| `jobs`, `work` | `middlewareUpdateJobStore`; the goroutines of a batch and an operator's request |
| `link`, `calls` | the realtime connection and the command frames on it |
| `stage`, `staged` | a `StageZip` for the command and one for the local page; the staged directory they share |
| `backups`, `script`, `exe`, `running` | the directory of backups, the detached script, the installed file, the process |

`CreateMiddlewareUpdateBatch`, `StartItem`, `Call`, `Over` are the job's side, `Reply`
the result frame with `resolve`. `TakeStage`, `StageUpdate`, `WriteBinary`,
`WriteManifest` and the ways they fail are `StageZip`; `Manage` is `Apply`, `Rollback`
and `RestartOnly`; `ScriptStops`, `ScriptInstalls`, `ScriptStarts` the script, whose
copy may stop half-way. `Agent` is what runs: the Middleware, whose read loop does one
thing at a time, or the update bridge, which stages in a goroutine and refuses what
comes meanwhile (`BridgeRefuses`).

### 2.9 Poller

`Entries`, `Orders`, `BuildBlocks` translate `profile/blocks.go` and `address.go`; `Outcome` is
what `PollConnection` makes of the answers: failed blocks are read again register by
register, decoded values are kept by address. `sweep`, `log`, `baseline`, `heartbeat` are the
state of a sweep and of the idle filter; `gate` and `stage` the token of the maintenance gate
and who else wants it; `last`, `taken` the outbox as the filter cares about it. `SetBaseline`
before `StoreCreates` or `StoreRejects` is the order in which `Enqueue` works.

### 2.10 How the models meet

`ConfigPush` and `TelemetryPull` share the connection: the same `Connect`, `HangUp` and
handler life cycle, modelled in each with the frames it needs, because the two pipelines
touch no common row and a product of both would only multiply interleavings.
`ConfigCache` refines what `ConfigPush` shows as one step (`ApplySnapshot`) from the
reader's side. `Alarms` refines `TelemetryPull`'s `Ingest`: what it assumes of its
environment – two pullers may ingest overlapping batches in any order, a batch never
skips a reading that is not stored – is what `ReleasedAfterCommit` proves there.
`Poller` is what stands behind `Enqueue` of `TelemetryPull`: one row per device and instant.
`SelfUpdate` and `Poller` share the maintenance gate: `SelfUpdate` has the stage that
holds it, `Poller` the sweep that must get it back. `Registry` is the `registry` whose
revisions `ConfigPush` counts; what a site polls is `Polled` there.

## 3. Runs

Bounds are constants named `Max…`, and `Swept` of `Poller`; they appear only in guards. The numbers below are
distinct states.

| run | shows | bounds | states |
|---|---|---|---|
| `pull_faults` | `ReleasedAfterCommit`, `AcceptedCountsRows`, `TwoPhase` | 2 devices, 2 connections, batch 2, 2 rows, 2 faults, 2 operator toggles | 784 k |
| `pull_live` | `ReleasedIsStored`, `EventuallyReleased` under `FairSpec` | 1 device never refused, 2 connections, batch 2, 2 rows, 2 faults | 102 k |
| `pull_repair` | **violation** of `RetriedAfterRepair` under `FairSpec` | 1 device, 1 connection, batch 1, 2 rows, 2 toggles, no fault | – |
| `push_admins` | `VersionsFollowRegistry`, `InstalledIsRecorded`, `AppliedAckIsRecorded`, `PublishedInOrder` | 2 admins, 2 connections, buffer 1, 2 edits, 3 versions, 1 fault, local saves without bound | 1.33 M |
| `push_live` | `AppliedInOrder`, `DeliveredIsHandled` under `FairSpec` | 1 admin, 1 connection, buffer 2, 2 edits, 4 versions, no fault, local saves without bound | 91 k |
| `cache_actors` | `OwnWritesVisible`, `SerialMeansFresh` | 2 editors and the push handler, 4 commits, 1 push, 1 fault, 1 restart | 2.15 M |
| `alarms_log` | `LogFollowsReadings`, `MailedIsCommitted`, `NothingBehindTheTail`, `FirstAcknowledgeStays` | 1 device, 1 rule, 1 mapping, 3 readings, 2 pullers, 2 users, 1 viewer, 1 edit, 1 fault | 3.21 M |
| `accounts_admin` | `NoOrphans`, `NoEscalation`, `TokenIsOneTime`, `SweepIsComplete`, `AdminResetIsFinal` | 3 users, 2 custom roles, 1 session and 1 link alive at a time, 2 requests at once, 2 administrative edits | 944 k |
| `registry_admin` | `ReferencesHold`, `NothingSlipsIn`, `ImportTakesEffect` | 2 plants, 2 devices, 2 models, 1 profile more, 2 addresses, 1 Middleware, 2 requests at once, 3 edits | 165 k |
| `revisions_tabs` | `PicturesAreServed`, `NoLostUpdate`, `PublishedAsSeen` | 2 tabs, 1 plant, 1 screen, 1 dashboard, 2 designs, 2 files, 2 uploads at once, 5 edits | 224 k |
| `selfupdate_site` | `SelfUpdateTypeOK`, `InstalledIsWhole`, `LiveCallIsSomewhere`, `JobTellsItems`, `SucceededIsDone` | 1 batch of 1 or 2 items, 3 packages, 2 uploads, 1 fault, 1 action of the local page, 1 call, 2 scripts | 2.56 M |
| `poller_sweep` | `BlocksPlan`, `EveryRegisterAccounted`, `GateHasHolder`, `BaselineIsStored`, `SkippedIsSpokenFor`, `EveryConnectionPolled`, `GateReturns` | 2 connections, 2 values, clock to 4, 1 step back, 1 fault, 2 bad reads in a poll, 1 stage; plans of every device set of up to 4 of 9 registers under 2 modes, 3 of them swept | 393 k |

The type invariants of all models are proved ([section 5](#5-proofs)); only `SelfUpdate`'s is
run as well.

### 3.1 What the passing runs show

`pull_faults`. Whatever is lost, late, repeated or half done, and whichever of two pullers
acknowledges, a row leaves the outbox only after a batch that holds it was committed, and
every batch's accepted count is the number of readings that carry its id. Two connections
are needed for a stale puller, two rows for a half-done ack and for batches that overlap
without being equal ({1}, then {1,2}), two devices for a batch with one reading refused,
two faults for an ack lost on one connection and a timeout on the other.

`pull_live`. With finitely many faults and no refused device every buffered reading is
eventually acknowledged and all that is acknowledged is stored. A refused reading is
excluded on purpose: `pull_repair` and [3.3](#33-seen-while-modelling) show what may become
of it.

`push_admins`. Because the row is locked before the snapshot is built, versions agree with
registry order however many admins push while others edit; what a push installed stays a
recorded version until the site's own page writes the tables, which it may do between any two
steps. Three versions and two edits let a stale build be overtaken twice; one fault is
enough for each of the crash points since every property is about one push at a time.

`push_live`. One admin and a connection that does not fail. With two admins
`AppliedInOrder` does not hold: the frames are handed to the hub after the lock is
released. That is the code's order of steps and no document claims otherwise, so it is
recorded here and as a hazard rather than as a finding. The same holds of a connection
that fails: delivered means handed to a socket.

`cache_actors`. Any rebuild starts after its actor's last commit, so its swap shows what
the actor wrote, however the other actors' rebuilds interleave and wherever the process
restarts. Four commits let each of three actors write and one write twice. The comment on
`RebuildFromStore`, "so the cache and SQLite never silently diverge", holds on every
behaviour in which requests and pushes come one at a time and none stops half-way; the
run has all others too, and there it does not.

`alarms_log`. While nobody edits rules, the alarm log is the function `RuleLog` and
`RegisterLog` compute from the readings alone. Three readings in every order of ok, bad
and missing register are enough to open, hold back (delays of 2 and 3 poll intervals
differ at the third reading), clear and open again. With edits allowed the run checks the
remaining properties: mail, viewers and acknowledgements, across deletion of a rule with
its events.

`accounts_admin`. A System Admin, a manager who may edit users and roles, and a
newcomer. Two requests interleave at every statement, which is what it takes for a
sign-in to pass a reset, for a link to be created under an administrator's new password,
for a role to be deleted while it is assigned, and for a role to be edited by somebody
whose own role is edited meanwhile. When what ends sessions commits, the user has none
and no sign-in that has passed the account's row is about to insert one; when an
administrator's password commits, no link is left and nobody is at work with one. What
still waits for the row or the key at that moment is not stopped, see
[3.3](#33-seen-while-modelling). Two edits are enough for one to undercut the other; one
live session and one unused link at a time still let names be reused, so that a stale
one would be found.

`registry_admin`. Two deletions or imports, each stopped at any statement, among every single
edit of the registry. The way a deletion has cleared stays clear, because an INSERT that names
a row needs its key and the deletion holds it `FOR UPDATE`; nothing is left that refers to a
row that is gone; and an import that nobody disturbed has its registers in the catalogue, in
the map that is polled and on the devices it named. Three edits let a third party
come between two steps of each of two requests.

`revisions_tabs`. Two tabs, answers that may be lost, five commits: enough to publish twice,
roll back, and publish again from a tab that has not seen it. Versions are counted per
screen, so that one screen shows what several would. A save replaces the draft
its tab shows, a publication replaces the publication its tab shows, and no version is given
twice. With two uploads at once every address leads to a file, except for a plant whose
last upload committed without an answer (`unsure`).

`selfupdate_site`. Whatever stage fails and whatever process dies, the installed binary
is whole and built for the site, unless two parties shared the staged directory or a
copy of a binary was cut short, Apply's into a backup or the script's onto the installed
file; then it may be torn, but never built for another site. The exceptions are real,
see [3.3](#33-seen-while-modelling). A command on a living connection is on the way, at
work or answered. A batch's status tells what its items say, and an item succeeds only
in a step in which the site carries out its own command. Two uploads replace the file
under a patch's id while it is being staged, two scripts let a roll-back follow an
apply. One fault is enough for each way a stage, a copy, a connection or a process
fails; a copy of the script that is cut short takes it. Two tries of one stage that both
meet the old time limit are beyond the run.

`poller_sweep`. Block plans are compared with what they have to cover: each enabled
register, none beside it, each decoded in one block only, within limits, in whatever
order the sort leaves equal offsets, for 512 device sets that touch, overlap, leave
gaps, change the function code, exceed the limit or run past either end of the address
space. Registers that overlap may be read by two blocks, when the limit keeps them
apart. A failed block, a short answer or a senseless value costs the register it belongs
to and no other. What is left out as unchanged repeats the row stored last, which is
younger than the heartbeat. The clock's five instants hold two sweeps over two devices
with a heartbeat of 2 or 3 that ends between them.

### 3.2 What the violation shows

* `pull_repair` – `pullOnce` leaves a batch whose readings were all refused pending "so the
  operator can fix the rejection and retry" (`platform-api/telemetrypull/puller.go:207`). The
  retry never comes: the same rows are drained again, the batch's hash is its idempotency key,
  and `IngestRaw` answers it from the stored refusal without looking at a reading
  (`ingestion/raw_service.go:85`). In the trace a device is disabled while its reading is pulled
  and enabled for good, nothing fails, all loops are fair, and the reading stays buffered for
  ever. A batch that is not full is refused until a newer row changes its hash; a full one, 500
  rows of disabled devices at the head of the outbox, never changes, and everything behind it
  waits too. The run's batch is full with one row.

### 3.3 Seen while modelling

Behaviours of the code that the models contain, or that were left out of them, and that no
property forbids.

*Telemetry.*
* `pullOnce` acknowledges every drained id as soon as one reading of the batch was accepted or a
  duplicate (`telemetrypull/puller.go:216`). A reading refused in the same batch (a disabled
  plant, an unknown device) leaves the outbox with it and is nowhere.

*Configuration.*
* The Middleware sends the version it applied as `appliedVersion`, the Platform's handler
  passes the frame's `version` on (`httpapi/gateway_realtime.go:130`, `realtimeclient/client.go:199`):
  `RecordConfigAck` updates a version 0 that does not exist, and `config_applied_version`
  never moves.
* The site's own page writes the tables a push installed and tells nobody: the Platform and the
  site's `config_history` go on naming a version that is not what the site runs
  (`middleware/web/configuration.go:295`, `:338`), until the next push replaces it.
* With two admins, or a connection that fails, pushes may be applied out of order: frames are
  handed to the hub after the row lock is released.
* A committed apply whose `config_history` INSERT fails is acknowledged FAILED, and the
  cache is not rebuilt (`middleware/store/config_history.go:73`). The site runs the new tables
  after its next restart or save.
* Of two overlapping refreshes the one that read first may swap last and leave the cache
  behind SQLite for good (`middleware/web/configuration.go:23`). The queries of one
  rebuild are not a transaction: a `Config` may mix two pushes (`configcache/cache.go:57`).
* The push handler reads, merges and writes back the whole `gateway_config` row; an endpoint
  saved locally in between is overwritten (`realtimeclient/client.go:209`).
* An import of settings that stops at a refused row leaves the rows before it unseen by the
  poller (`middleware/web/settings_transfer.go:97`).
* Assigning a plant to a Middleware pushes nothing (`core/middleware_plants.go:119`).

*Alarms.*
* Saving a profile address deletes and re-inserts its mappings; an open event refers to an id
  that is gone, and the next reading closes it and opens a second one
  (`core/register_profiles.go:359`).
* A rule switched off while its event is open is not listed any more, so nothing clears
  the event (`ingestion/alarms.go:67`).

*Accounts.*
* The System Admin a start of the Platform creates has no verified address and cannot sign
  in (`platform-api/bootstrap/bootstrap.go:212`).
* The last System Admin is counted without a lock: two who remove each other at once leave
  none (`auth-service/core/users.go:667`), which is when the next start creates one.
* `Login` verifies the password before it waits for the account's row, and nothing looks at the
  password again: a sign-in with the old password that waits for a reset to commit opens its
  session right after (`auth-service/auth/service.go:121`), which the reset's sweep has not seen.
* A request for a reset link that waits for the account's key while an administrator sets a
  password creates its link right after (`auth-service/auth/recovery.go:48`), and it works: it
  sets the password back to one the holder of the mailbox chooses.
* Two resends at once may both create a link, and a verification link may be created for
  an account that has gone (`auth-service/auth/registration.go:164`).

*Registry.*
* A report that is imported again takes what is not reported out of the catalogue, not
  out of the map that is polled (`core/devices.go:499`).
* A CSV row whose plant is known is refused: it updates the plant without a lifecycle status
  (`core/csv_transfer.go:400`). So only the first device of a new plant arrives.
* A deleted model leaves its register profile, whose name is never free again
  (`core/devices.go:260`).

*Revisions.*
* A design bound to a device that has been deleted may still be published: bindings are
  checked when a draft is saved. `HardDeletePlant` leaves the plant's picture on disk,
  and an upload of the logo that is not answered may leave its file.
* The answer to an upload of the logo, and its audit record, are read outside the transaction
  before it commits: they show the logo as it was (`core/site_settings.go:144`).

*Self-update.*
* `StageZip` and the script use one staged directory. The comment that calls the manager "safe
  to share between the local web UI and the realtime command handler"
  (`middleware/updater/manager.go:96`) does not hold when the local page stages during a
  command's stage or within the script's two seconds. A backup is copied in place and may
  be cut short, and a roll-back installs it.
* The script's copy onto the installed binary may stop half-way, on a full disk for one, and the
  script starts the service all the same (`middleware/updater/manager.go:392`; on Windows after 30
  attempts, `:42`). What is left does not start, and as the process that could roll back is the
  one that does not start, nothing repairs it.
* A site named twice in a batch starts an item again that has ended, under a job that is
  over (`core/middleware_update_jobs.go:38`). A restart of the Platform forgets jobs.
* A stage has no deadline (`core/middleware_update_jobs.go:155`): when its connection dies its
  call waits for ever and the job stays running.
* A patch is uploaded under an id that stays; between the look-up and the download the file
  may become another's, and the site does not compare it with the sha256 it was sent.

*Poller.*
* A reading's values are kept by address alone: the same address under function codes 3
  and 4 is one value, and one of the two is lost.
* After the clock has stepped back a changed reading may meet the key of an older one: it is
  dropped as a duplicate and logged as unchanged, which the comment in
  `middleware/app/poller.go:65` explains by values that have not moved.
* The connection and its device set are two queries (`middleware/app/service.go:132`) and may
  come from two configurations.

## 4. Fairness

`pull_live`, `pull_repair`, `push_live` and `poller_sweep` use fairness, always weak, always of a step the
program takes by itself:

* `PullerStep`, `PushStep`: a goroutine that can run does; a pull begins at every slot of
  the ticker, provided API polling is enabled for the gateway, and a push request runs to
  its end.
* `CommandLoop`, `SnapshotStep`, `Resolve`, `RecordAck`: read loops read what is there.
* `Connect`: the client redials for ever with back-off.
* `dialled \notin handlers /\ MiddlewareDrops`, `c # dialled /\ PlatformDrops(c)` and their
  counterparts in `ConfigPush`: a dead peer is noticed, by the 45 s read deadline that a
  20 s heartbeat renews.
* `SweepStep`: a sweep goes on, since every Modbus read has a deadline of 3 s and SQLite's
  statements end; `Release`: a stage ends, since the context of its download does after 30 minutes
  and the release is deferred. Its progress reports are written on the context of the process,
  without a deadline (`realtimeclient/client.go:315`): that such a write ends rests on TCP, which
  gives a dead connection up.

Nothing is assumed of operators, admins, of the start of a sweep, the cleaner or of
faults, except that faults are finitely many (`MaxFaults`; `MaxFailures` in
`ConfigCache`). There is no strong fairness: a `Timeout` that needs no fault is part of
`PullerStep`, so a puller whose answer was lost moves on.

## 5. Proofs

The proofs hold for all sets of devices, connections, admins, editors, pullers, users,
requests, tabs, files, patches and device sets, and for all bounds; the assumptions are those
the models declare: names for "nobody" are not names of somebody, a rule is not named like a
mapping's event (`Alarms!RuleAssumption`), bounds are naturals, a batch holds at least one row,
a device set has finitely many registers, what is there at the start fits together.

| theorem | states |
|---|---|
| `TelemetryPull_proofs!Invariance` | The inductive invariant: every command in flight names only settled rows, every answer and batch names existing rows. |
| `TelemetryPull_proofs!TypeCorrect` | Every variable keeps its type, for any devices, connections, batch size and bounds. |
| `TelemetryPull_proofs!ReleaseIsSafe` | `ReleasedAfterCommit`: No row leaves the outbox before the Platform committed a batch holding its reading, whatever is lost, late or repeated. |
| `TelemetryPull_proofs!CountsAreExact` | `AcceptedCountsRows`: Each ingest batch counts exactly the raw readings that carry its id, however often and in whatever batches rows are redelivered. |
| `TelemetryPull_proofs!PullImplementsHandoff` | `TwoPhase`: TelemetryPull implements TwoPhaseHandoff: a reading is released only once settled, and never buffered again. |
| `TelemetryPull_proofs!AcceptedDevicesLoseNothing` | Whatever happens to the other devices, the readings of devices that are never refused leave the outbox only once they are stored. |
| `TelemetryPull_proofs!NothingRefusedNothingLost` | `ReleasedIsStored`: With no device refused, what leaves the outbox is stored, whatever is lost, late, repeated or crashes. |
| `ConfigPush_proofs!TypeCorrect` | Every variable keeps its type, the history has exactly the versions up to config_version, and the pipe never exceeds its buffer. |
| `ConfigPush_proofs!VersionsInOrder` | `VersionsFollowRegistry`: For any number of concurrent pushes and edits, a later version never holds an older registry. |
| `ConfigPush_proofs!InstalledInHistory` | `InstalledIsRecorded`: What a push installed at a site is exactly a version of the Platform's history until the site's own page writes the tables, across crashes and lost frames. |
| `ConfigPush_proofs!AckIsHonest` | `AppliedAckIsRecorded`: An APPLIED ack, in the making or on the wire, has its APPLIED row in the site's history. |
| `ConfigPush_proofs!OneAdminInOrder` | `AppliedInOrder`: If admins push one at a time, no apply takes a site from one version back to an older one, whatever fails. |
| `ConfigPush_proofs!PushImplementsRegister` | `PublishedInOrder`: Push Config implements PublishedConfig: versions are published in registry order, and what a site runs is a published one or what its own page wrote. |
| `Middleware_proofs!CacheTypeCorrect` | The cache, SQLite and what each actor has in hand keep their types, for any number of editors. |
| `Middleware_proofs!SwapShowsOwnWrites` | `OwnWritesVisible`: For any number of editors, errors and restarts a swap shows what the actor that makes it wrote. |
| `Middleware_proofs!OneRequestAtATime` | `SerialMeansFresh`: For any number of editors, pushes and restarts: as long as requests and pushes come one at a time and none fails, the cache equals SQLite whenever none is under way. |
| `Middleware_proofs!PollerTypeCorrect` | The variables keep their types, for any device sets, connections and bounds. |
| `Middleware_proofs!OneHolder` | `GateHasHolder`: The gate's token is in the channel, with a sweep or with a stage, across failures, expiries and restarts. |
| `Middleware_proofs!BaselinesAreRows` | `BaselineIsStored`: The baseline of a device is the row stored last for it, unless that is being stored. |
| `Middleware_proofs!SkippedIsStored` | `SkippedIsSpokenFor`: What is left out as unchanged repeats the row stored last, which is younger than the heartbeat, unless the clock gave its instant twice. |
| `Middleware_proofs!NoneLeftOut` | `EveryConnectionPolled`: A sweep that ends has logged an outcome for every connection. |
| `Middleware_proofs!BlocksReadWhatTheyShould` | `BlocksPlan`: For any device set, in whatever order the sort leaves equal offsets: the blocks read every enabled register and nothing in between, decode each in one block only, and none runs past the last address or grows past the limit. |
| `Middleware_proofs!NoRegisterUnaccounted` | `EveryRegisterAccounted`: Whatever reads fail or answer short, an enabled register is in the reading or the warning names its own read. |
| `Alarms_proofs!Invariance` | The inductive invariant: one writer at a time, uncommitted ids greater than committed ones, locked rows untouched by transactions. |
| `Alarms_proofs!TypeCorrect` | Every variable keeps its type; events and a transaction's rows carry ids the sequence has given out. |
| `Alarms_proofs!MailIsHonest` | `MailedIsCommitted`: Whatever is rolled back, mail is only about committed events. |
| `Alarms_proofs!TailMissesNothing` | `NothingBehindTheTail`: For any number of pullers and viewers, no commit adds an event at or before the last id a viewer was sent. |
| `Alarms_proofs!FirstAcknowledgeWins` | `FirstAcknowledgeStays`: Whoever acknowledged an event first stays on it, for any number of operators and ingest transactions. |
| `Alarms_proofs!LogIsFunctionOfReadings` | `LogFollowsReadings`: For any readings, rules, devices and pullers: while nobody edits, the alarm log is the function of the stored readings that RuleLog and RegisterLog compute, however they were batched, rolled back or raced for. |
| `Accounts_proofs!TypeCorrect` | Accounts, roles, sessions, links and requests keep their types, for any number of each. |
| `Accounts_proofs!NothingOutlivesItsAccount` | `NoOrphans`: No session and no reset link outlives its account, and whoever is active has a role that is there, whatever is deleted while it is being made. |
| `Accounts_proofs!NobodyEscalates` | `NoEscalation`: Custom roles carry what the staff had at first and what System Admins gave, through any number of concurrent edits. |
| `Accounts_proofs!LinksWorkOnce` | `TokenIsOneTime`: Who acts on a link holds one that is still unused, however many follow, replace or revoke it at once. |
| `Accounts_proofs!SweepsAreComplete` | `SweepIsComplete`: When what ends a user's sessions commits, none of them is left and no sign-in past the account's row is about to add one; a sign-in still waiting for the row is not stopped. |
| `Accounts_proofs!AdminResetsAreFinal` | `AdminResetIsFinal`: When an administrator's password commits, no reset link of the user is left and nobody is at work with one; a request for a link that waits for the account's key is not stopped. |
| `Registry_proofs!TypeCorrect` | The registry's tables and its requests keep their types, for any number of requests, plants, models and devices. |
| `Registry_proofs!NothingDangles` | `ReferencesHold`: No device, model, assignment, override or reading loses what it refers to, whatever is created, moved, imported and hard-deleted at once. |
| `Registry_proofs!DeletionsGoThrough` | `NothingSlipsIn`: What a hard deletion has cleared stays clear until its last statement: nobody can put a reading, an entry or a device in between. |
| `Registry_proofs!ImportsTakeEffect` | `ImportTakesEffect`: For any number of concurrent requests: an import nobody disturbed and that skipped nothing has its registers in the catalogue, in the map, on its devices and in what is polled. |
| `Revisions_proofs!TypeCorrect` | The variables keep their types: every screen, dashboard, publication, tab and picture request is of the shape the code gives it. |
| `Revisions_proofs!PicturesServed` | `PicturesAreServed`: For any number of concurrent uploads and deletions, failures and lost answers, every address of a picture leads to a file. |
| `Revisions_proofs!NothingIsLost` | `NoLostUpdate`: However many tabs edit, publish and roll back, nobody overwrites a draft he was not shown. |
| `Revisions_proofs!PublishedWasSeen` | `PublishedAsSeen`: Whoever publishes makes public the draft he was shown in place of the publication he was shown, and no version is given twice. |
| `SelfUpdate_proofs!SelfUpdateTypeCorrect` | `SelfUpdateTypeOK`: Patches, batches, calls, the site's files and its processes keep their types, for any number of each. |
| `SelfUpdate_proofs!InstalledBinaryIsWhole` | `InstalledIsWhole`: Whatever stage fails or process dies, the installed binary is whole and fits the site unless two parties shared the staged directory; torn it is only once a copy, to a backup or onto the installed file, was cut short, and even then nothing built for another site gets in. |
| `SelfUpdate_proofs!NoLiveCallIsLost` | `LiveCallIsSomewhere`: A command whose connection lives is on the way or at work, for any number of batches and calls. |
| `SelfUpdate_proofs!StatusFollowsItems` | `JobTellsItems`: However many goroutines write their items, the status of a batch tells what its items say. |
| `SelfUpdate_proofs!OnlyDoneSucceeds` | `SucceededIsDone`: An item succeeds only in a step in which the site carries out a command of its own, sent on the connection that lives. |

Each module proves an inductive invariant first, one lemma per action or per part.

**TelemetryPull.** `ReleasedAfterCommit` alone is not inductive: an ack that is already on
its way would break it. The invariant adds that every ack command in flight, from the hub's
channel to the Middleware's buffer, names settled rows only; that a puller about to send
one holds a settled batch; that every answer, batch and stored payload names rows that
exist. Settled rows stay settled because `batches` is only ever extended and a stored result
never changes. `AcceptedCountsRows` needs that a reading's batch, once set, stays, and that
the readings inserted by one commit are disjoint from those stored before; the cardinality
follows from finiteness of the batches.

`ReleasedIsStored` would fail as soon as one reading of a batch is refused and another is not.
How far that goes is a theorem: what is in a committed batch and belongs to
a device that is never refused is stored (`CommittedIsStored`), since the commit that settles a
batch inserts whatever it accepts; so the readings of such devices are not lost whatever happens
to the others (`AcceptedDevicesLoseNothing`), and with no device refused nothing is
(`NothingRefusedNothingLost`). The hypothesis is one about the whole behaviour, `[](blocked = {})`,
which is how the site runs until an operator disables a plant or a device.

**ConfigPush.** A save of the site's page changes the content of the tables and nothing the
invariant relates to versions: what is installed has the content of its version or `Local`. The
heart is that a request between `LockAndBuild` and `CommitPush` holds the
row lock (`LockOK`), so what it built is at least as new as the last version and no older than
any (`OrderInv`). What is in the pipe, in the handler and in SQLite is a row of the history
(`IsRow`), and rows are never rewritten but in their status (`HistoryKept`). For one admin,
the frames in the pipe are in version order and all newer than what the site runs
(`PipeOrdered`), which is where a second admin would break it.

**ConfigCache.** What an actor reads from a table after its own commit is at least that
commit, since stamps only grow; what it has read stays so until the swap (`ReadSince`). For
`SerialMeansFresh` a second invariant is added under its hypothesis: what a rebuild has read is
what SQLite holds, and with no rebuild under way cache and store are equal (`SerialInv`). The
step needs the hypothesis before and after, which is why the property is `[]P => []Q`.

**Alarms.** The unique key of a reading makes a second puller wait until the first has
committed or rolled back: at most one transaction has inserted a reading (`OneWriter`), so
only one has taken event ids; uncommitted ids are greater than committed ones (`NewerIds`),
and a cursor is at most the greatest committed one (`Cursors`). That is the whole reason why
tailing by id misses nothing, and it would fail for a plant served by two gateways, which
the schema excludes. A row that is locked by an acknowledgement is untouched by a
transaction and the reverse (`Locks`), and a transaction's copy of a row carries the
acknowledgement the committed row has (`SameAck`).

`LogFollowsReadings` compares the table with two recursions over the readings. Its invariant
(`LogTells`) holds the committed table against the recursions at `stored`, and the table as each
open transaction sees it against those at the reading it works on: before its judgement at the
element before, after it at the element itself, and in between, with some rules still listed,
rule by rule (`Judging`). A step of the transaction judges one rule or all mappings and moves
just their part of the table from one element to the next (`LeaveJudges`, `OpenJudges`,
`ClearJudges`, `MappingsJudge`); the cases are those of a delay: the breach is new, is held back,
has lasted, has ended. Since at most one transaction has inserted a reading (`OneWriter`), no
other commit comes in between, and a rollback forgets exactly what the table did not have. An
acknowledgement changes nothing the recursions look at (`SameEvents`).

**Accounts.** That a sweep is complete is easily lost in a change of the locking, and it
rests on two facts. Requests never collide (`LocksOK`): no two hold an account's row, a link,
or a role that one of them edits and the other assigns. And a request that holds a row has in
hand everything it will end (`RequestOK`): the sessions it found include all that live, the
links all that are unused, the role it assigns exists, the role it deletes is nobody's, and
the permissions it gives are its editor's, were there already, or a System Admin's. A session
opened meanwhile needs the account's row, which the sweeper holds; a link needs its key. With
those two the properties are read off the commit: no session and no link is there, no sign-in has
the row and no reset is at work, and what waits is what the properties leave out.

**Registry.** `ReferencesHold` is carried by `NothingSlipsIn` and the reverse: a deletion that
commits takes exactly what refers to it because nothing came after it was cleared
(`WayIsClear`), and nothing comes because new rows need keys that `Deleting` and `Removed`
hold. `WayIsClear` says more than the property, that no reference to a device about to go
is left out of the sweep, which is what the commit needs. An import's work is spread over as many
transactions as it has rows; for `ImportTakesEffect` the invariant says of an import that is still
alone and has skipped nothing how much of its report the tables show by now (`ToldSoFar`), at
each of its steps. Whoever else changes the tables takes its being alone away in the same step
(`OthersDisturbed`), so only its own steps need a look.

**Revisions.** Tabs: a view never shows a version later than the row's, and at the same version
shows the same draft (`Seen`), because versions only grow and a row's draft changes with its
version only; equal versions at a save therefore mean equal drafts. Files: pictures and logo
are files of their own (`Distinct`), a file that is not committed is nobody's (`Fresh`), a file
about to be removed is not in use (`Old`).

**SelfUpdate.** Four invariants, each with the step lemmas of the variables it is about.
Batches (`JobInv`): a goroutine at work serves an item of a batch that is there, and
that item is not over unless the batch names its site twice; the status is derived from
the items at every write, under one mutex, so it tells what they say. Site
(`SiteTypes`): a script that installs a backup has one. Calls (`CallInv`): no call waits
on a connection newer than the one that lives, and a call that waits on this one has its
frame among the commands or in the stage the site is at; the end of a connection ends
its calls in the same step, an answer wakes the call whose try and connection it carries
and no other. Files (`FilesAreWhole`): what a stage is done with is a whole binary that
fits, one stage writes at a time, and backups and the installed file are such binaries
or, once a copy was cut short, torn ones (`Copies`); it holds until two parties share
the directory. `shared` and `cut` remember that for ever. That an item succeeds only by
an answer to its own command (`OnlyDoneSucceeds`) follows from the calls.

**Poller.** A reading in the store step is its device's baseline already
(`StoringIsBaseline`), every connection is still to do or has its outcome (`PolledOrTodo`), and the
token is counted once over channel, sweep and stage.

`BlocksPlan` goes by induction over the sorted entries, as the loop does. Every block so
far is `WellCut`: its first register is the offset of one of its entries, its last is
the end of one, every register between belongs to one, and all of them lie in it. That
an entry that joins does not begin before the block is due to the order of the sort,
since some entry of the block begins where the block does; a block that grows stays
within the limit, one that does not keeps its own excuse. An order lists all entries
because an injection between finite sets of one size is onto; it lists none twice, so no
entry is in two blocks. `EveryRegisterAccounted` follows: an entry is in some block, and
either the block was read, or it was read again by itself, or the block is the very read
it would have been. Both are about addresses: two registers of one address and two
function codes are one in the reading.

*Inductions.* The induction theorems of the library take an operator and cannot be used. Where a
property is about a recursion (`RuleLog`, `RegisterLog`, `Stages`) the induction is carried out in
first-order terms: a set of naturals that has 0 and is closed under successors is all of them
(`Counting`), because its complement would have a least element (`WFMin` of
`WellFoundedInduction`). The same lemma shows that the recursion has a solution, so that its
CHOOSE has the values the defining equation gives. The models state these recursions as
recursive functions over numbers for that reason.

Only model-checked: the liveness properties (`EventuallyReleased`, `DeliveredIsHandled`,
`GateReturns`), which are beyond the prover, and the violation. All safety and action properties
of the passing runs are theorems, and so are both refinements.

## 6. Abstractions and what they cost

* *Readings.* A row's id names its reading: the collect time is the poll's own clock, so no
  two rows carry the same one. `normalize` is reduced to refused or not, per device; the
  conversions in it are pure. A payload is its set of row ids, in id order, so equal sets
  hash equally. The REST route calls the same `IngestRaw`.
* *Frames.* The `commandId` is modelled by the waiting caller: a call that gives up turns its
  frames into nobody's. TCP keeps order within a connection. Connect stands for dial,
  register and hello: nothing reads the connection in between. Frames written to a socket
  nobody reads are lost at once; that they might sit in a kernel buffer makes no difference
  to anyone.
* *Statuses.* `RETRYING` and `DEAD_LETTER` exist in the schema, but `Store.Failed` has no
  caller left; the model has the states that are reached.
* *Snapshots.* A snapshot's content is one revision of the registry. The builder runs
  several statements at READ COMMITTED, so an edit of several rows committed in between may
  be split; the model does not distinguish tables of one revision. All the site's own page
  writes is one content, `Local`; that its saves are several commits is in `ConfigCache`. The audit
  record after the push is left out.
* *Tables.* The cache's brand, device set and address queries are one table, `sets`; the
  queries that change what two actors can see of each other remain separate.
* *Alarms.* A condition, which is a fold of comparisons joined by AND and OR, is the set of
  values that breach it; mappings are EXACT ones of one register. One batch's readings of
  one gateway are ingested from at most one past the last stored one on: readings are
  drained in id order and released after their commit, which is `ReleasedAfterCommit`.
  Deleted events stay as tombstones so that ids can be compared; an insert that fails on the
  foreign key of a rule just deleted is one of the failures of `IngestFails`. Mail is
  enabled for every event; whether SMTP accepts it is nobody's state.
* *Accounts.* Passwords are left out, and with them the counters, locks and limits that only
  refuse a sign-in. One organisation; permissions are reduced to those for users, for roles and
  one other.
* *Registry.* All permissions are granted, names are not used twice, a row's contents are left
  out. A report names the plant it resolves to.
* *Revisions.* The contents of a design are the devices it is bound to; ids are fresh.
* *Self-update.* One patch target; one site that connects, and "away" for any that does not.
  The file and the row of an upload are one step. A package is whole or cut short, and fits
  the site or not. `systemd-run`'s answer is not looked at, as in the code: a second script
  while one runs is refused silently. The reply of a command resolves its call in the same step. A file
  is on disk once written: the code syncs none, and a loss of power of the host is not modelled.
* *Poller.* One device set is in use at a time, all its registers hold the same value, and what
  a value decodes to is left out. Only three device sets are swept (`Swept`); the others are
  planned. `readNow`, `connectTest` and the configuration export read and answer only.
* *Time.* Deadlines are events that may happen at any time (`Timeout`, a dropped
  connection). The alarm delay compares the readings' own times and the idle filter the poll's own clock;
  both are modelled as such.

## 7. What is not modelled

* *Modbus client and decoder* – the frames on the socket and the arithmetic of a value; that they
  may fail, and how, is in `Poller`. `normalizer` is not called by the poller.
* *Middleware on mips* (`store/file_arch.go`) – another implementation of the same store
  interface, selected by build tag. The models follow the SQLite build.
* *Organisations, API keys* – one row per call under its own lock; `Accounts` has one
  organisation.
* *Telemetry over REST* – a legacy route into the transaction `TelemetryPull` has.
* *Local web pages, licence gate, HTTP routing, JSON, CORS, API gateway, web application* –
  no state that other parties race for.
* *Dashboards' read models, reports, telemetry queries, audit* – queries and aggregation in SQL.
* *Telemetry snapshots of a browser connection* – nothing is kept but the last one sent.
* *Retention* – a ticker around one SQL function over data no model reads again.
* *Migrations, generated queries, bootstrap, mail, configuration files, contracts, deployment* –
  not behaviour at run time. Constraints of the schema that matter (unique keys, identity
  columns, cascades) are in the actions that meet them.

## 8. Plan

Done: `TelemetryPull` with `TwoPhaseHandoff`, `ConfigPush` with `PublishedConfig`, `ConfigCache`,
`Alarms`, `Accounts`, `Registry`, `Revisions`, `SelfUpdate`, `Poller`, and the proofs of all
their safety properties.

Left, in this order:

1. What a reader of the alarm log may conclude from `LogIsFunctionOfReadings`: an abstract log
   that `Alarms` implements while nobody edits.
2. Retention against late redelivery: a reading whose partition is gone comes again.
3. Organisations and API keys: membership of several organisations in `Accounts`, where the
   scope of a permission is what could go wrong.
4. The file store on mips against the interface the SQLite build implements.
