----------------------------- MODULE SelfUpdate -----------------------------
(***************************************************************************)
(* An update of the Middleware at one site, from the upload of a patch to  *)
(* the restart with the new binary.  On the Platform a batch starts one    *)
(* goroutine per site it names; each looks the patch up, calls the site    *)
(* over its realtime connection and records how that ended.  At the site   *)
(* the realtime client runs one command after another, or, where the       *)
(* update bridge is installed, stages in a goroutine of its own; the local *)
(* page stages and applies whenever its user wants.  Both share one staged *)
(* directory, one directory of backups and one detached script, which      *)
(* stops the service, installs a file over the binary and starts it again. *)
(*                                                                         *)
(* One patch target (version, operating system, architecture) and one site *)
(* that connects are modelled; "away" stands for every site that is        *)
(* offline.  A binary is a package, or Torn: a file cut short.             *)
(***************************************************************************)
EXTENDS Naturals, Sequences, FiniteSets

CONSTANTS
  Packages,    \* whole binaries
  Patches,     \* those that are uploaded, here or there
  Fitting,     \* those built for the site's operating system and architecture
  Bridge,      \* the binary that is the update bridge
  Jobs,        \* batches the Platform may create
  Operator,    \* a user who calls the site without a batch
  None, Torn,
  MaxUploads,  \* BOUND: patches uploaded
  MaxFaults,   \* BOUND: failed downloads, writes and copies, lost connections,
               \* crashes, timeouts
  MaxLocal,    \* BOUND: packages uploaded on the local page
  MaxCalls,    \* BOUND: requests of the operator
  MaxRuns      \* BOUND: scripts started

ASSUME PackageAssumption ==
  /\ Fitting \subseteq Packages /\ Patches \subseteq Packages /\ Bridge \in Fitting
  /\ {None, Torn} \cap Packages = {} /\ None # Torn
ASSUME CallerAssumption == \A j \in Jobs, i \in {1, 2} : Operator # <<j, i>>
ASSUME BoundAssumption ==
  {MaxUploads, MaxFaults, MaxLocal, MaxCalls, MaxRuns} \subseteq Nat

VARIABLES
  patch,      \* the row of middleware_patch: its id and what its file holds
  uploads,
  jobs,       \* middlewareUpdateJobStore, in memory
  work,       \* the goroutines of a batch and the operator's request
  link,       \* the realtime connection: whether it is up, and which it is
  calls,      \* command.request frames on it
  stage,      \* StageZip for the realtime command and for the local page
  staged,     \* the staged directory: binary and manifest
  backups,    \* the directory of backups, oldest first
  script,     \* the detached updater script
  exe,        \* the file of the installed binary
  running,    \* the package the service runs, None while it is stopped
  shared,     \* a stage ran into another one or into a script (history)
  cut,        \* a copy of a binary, to a backup or to where it is installed,
              \* was cut short (history)
  faults, locals, runs

patchVars   == <<patch, uploads>>
jobVars     == <<jobs, work>>
linkVars    == <<link, calls>>
stageVars   == <<stage, staged, shared>>
serviceVars == <<backups, script, exe, running, cut, runs>>
vars == <<patchVars, jobVars, linkVars, stageVars, serviceVars, faults, locals>>

Sites   == {"site", "away"}
Lists   == {<<"site">>, <<"site", "site">>, <<"site", "away">>}
Workers == Jobs \X {1, 2}
Callers == Workers \cup {Operator}
Kinds   == {"stage", "apply", "rollback", "restart"}
Statuses == {"pending", "running", "succeeded", "failed"}
Binaries == Packages \cup {Torn}
Stagers  == {"command", "local"}
Steps    == {"idle", "download", "writing", "written"}

Command == [by : Callers, try : Nat, kind : Kinds, patch : 0..MaxUploads, link : Nat]
Job  == [list : Lists, status : Statuses, items : [Sites -> Statuses \cup {None}]]
Work == [at : {"idle", "new", "calling", "waiting"}, kind : Kinds,
         patch : 0..MaxUploads, try : Nat, link : Nat]

ASSUME NoneAssumption == None \notin Command \cup Job \cup Statuses

SelfUpdateTypeOK ==
  /\ patch \in {None} \cup [id : 1..uploads, package : Packages] /\ uploads \in 0..MaxUploads
  /\ jobs \in [Jobs -> {None} \cup Job]
  /\ work \in [Callers -> Work]
  /\ link \in [up : BOOLEAN, no : Nat]
  /\ calls \in Seq(Command)
  /\ stage \in [Stagers -> [step : Steps, package : Packages \cup {None}, of : {None} \cup Command]]
  /\ staged \in [binary : Binaries \cup {None}, manifest : Packages \cup {None}]
  /\ backups \in Seq(Binaries)
  /\ script \in [step : {"none", "sleep", "stopped", "installed"},
                 source : {"staged", "backup", "exe"}, backup : 0..Len(backups)]
  /\ exe \in Binaries /\ running \in Packages \cup {None}

Idle == [step |-> "idle", package |-> None, of |-> None]
Quiet(at, kind) == [at |-> at, kind |-> kind, patch |-> 0, try |-> 1, link |-> 0]
NoScript == [step |-> "none", source |-> "exe", backup |-> 0]

SelfUpdateInit ==
  /\ patch = None /\ uploads = 0
  /\ jobs = [j \in Jobs |-> None]
  /\ work = [c \in Callers |-> Quiet("idle", "stage")]
  /\ link = [up |-> TRUE, no |-> 1] /\ calls = <<>>
  /\ stage = [s \in Stagers |-> Idle]
  /\ staged = [binary |-> None, manifest |-> None]
  /\ backups = <<>> /\ script = NoScript
  /\ exe \in Fitting /\ running = exe
  /\ shared = FALSE /\ cut = FALSE
  /\ faults = 0 /\ locals = 0 /\ runs = 0

Fault == faults < MaxFaults /\ faults' = faults + 1

-----------------------------------------------------------------------------
(* Patches on the Platform.                                                 *)

\* The file is written and the row inserted.  The row of the same version and
\* target is replaced and keeps its id.
UploadMiddlewarePatch(p) ==
  /\ uploads < MaxUploads
  /\ uploads' = uploads + 1
  /\ patch' = [id |-> IF patch = None THEN uploads' ELSE patch.id, package |-> p]
  /\ UNCHANGED <<jobVars, linkVars, stageVars, serviceVars, faults, locals>>

DeleteMiddlewarePatch ==
  /\ patch # None
  /\ patch' = None
  /\ UNCHANGED <<uploads, jobVars, linkVars, stageVars, serviceVars, faults, locals>>

-----------------------------------------------------------------------------
(* Batches, their goroutines and the calls they make.                       *)

List(j) == jobs[j].list
Site(c) == IF c = Operator THEN "site" ELSE List(c[1])[c[2]]

Goes(c, from, rest) == work[c].at = from /\ work' = [work EXCEPT ![c] = rest]

CreateMiddlewareUpdateBatch(j, action, list) ==
  /\ jobs[j] = None
  /\ \E q \in IF action = "stage" THEN 1..uploads ELSE {0} :
       work' = [c \in Callers |-> IF c \in {<<j, i>> : i \in DOMAIN list}
                                  THEN [Quiet("new", action) EXCEPT !.patch = q] ELSE work[c]]
  /\ jobs' = [jobs EXCEPT ![j] = [list |-> list, status |-> "running",
       items |-> [s \in Sites |-> IF \E i \in DOMAIN list : list[i] = s THEN "pending" ELSE None]]]
  /\ UNCHANGED <<patchVars, linkVars, stageVars, serviceVars, faults, locals>>

StartItem(w) ==
  /\ Goes(w, "new", [work[w] EXCEPT !.at = "calling"])
  /\ jobs' = [jobs EXCEPT ![w[1]].items[Site(w)] = "running"]
  /\ UNCHANGED <<patchVars, linkVars, stageVars, serviceVars, faults, locals>>

\* A request for apply, rollback or restart of the site, outside any batch.
OperatorCalls(kind) ==
  /\ work[Operator].try <= MaxCalls
  /\ Goes(Operator, "idle", [work[Operator] EXCEPT !.at = "calling", !.kind = kind])
  /\ UNCHANGED <<patchVars, jobs, linkVars, stageVars, serviceVars, faults, locals>>

\* Mutant: the status is what the item that finishes last makes it.
StatusOfLast(items, status) == status

\* The status of a job follows from all its items.
StatusOf(items, status) ==
  IF \E s \in Sites : items[s] \in {"pending", "running"} THEN "running"
  ELSE IF \E s \in Sites : items[s] = "failed" THEN "failed" ELSE "succeeded"

\* The call has returned: finishItem for a worker, the answer for the operator.
Over(c, ok) ==
  LET status == IF ok THEN "succeeded" ELSE "failed"
      items  == [jobs[c[1]].items EXCEPT ![Site(c)] = status]
  IN /\ work' = [work EXCEPT ![c] = [Quiet("idle", "stage") EXCEPT
                   !.try = IF c = Operator THEN work[c].try + 1 ELSE 1]]
     /\ jobs' = IF c = Operator THEN jobs
                ELSE [jobs EXCEPT ![c[1]].items = items, ![c[1]].status = StatusOf(items, status)]

\* The row of a patch is looked up before the first call, by its id.
Found(c) == work[c].kind # "stage" \/ work[c].try = 2 \/ (patch # None /\ patch.id = work[c].patch)

\* No such patch any more, or Hub.run finds no connection.
CallFails(c) ==
  /\ work[c].at = "calling" /\ (~Found(c) \/ Site(c) = "away" \/ ~link.up)
  /\ Over(c, FALSE)
  /\ UNCHANGED <<patchVars, linkVars, stageVars, serviceVars, faults, locals>>

\* Hub.run registers the command and writes its frame.
Call(c) ==
  /\ Goes(c, "calling", [work[c] EXCEPT !.at = "waiting", !.link = link.no])
  /\ Found(c) /\ Site(c) = "site" /\ link.up
  /\ calls' = Append(calls, [by |-> c, try |-> work[c].try, kind |-> work[c].kind,
                             patch |-> work[c].patch, link |-> link.no])
  /\ UNCHANGED <<patchVars, jobs, link, stageVars, serviceVars, faults, locals>>

\* The command is still in the pending map of the connection it went out on.
IsPending(of, c) ==
  of.by = c /\ work[c].at = "waiting" /\ work[c].link = of.link /\ work[c].try = of.try

\* A stage that ran into the old 60-second limit is called a second time.
Again(c, error) == work[c].kind = "stage" /\ error = "deadline" /\ work[c].try = 1

\* The site sends a command.result on the connection the command came in on.  If
\* that lives, resolve wakes the Call it belongs to; nobody waits for a late one.
Reply(of, error) ==
  \/ \E c \in Callers : link.up /\ of.link = link.no /\ IsPending(of, c) /\
       IF Again(c, error) THEN Goes(c, "waiting", [work[c] EXCEPT !.at = "calling", !.try = 2]) /\ UNCHANGED jobs
       ELSE Over(c, error = "")
  \/ (\A c \in Callers : ~(link.up /\ of.link = link.no /\ IsPending(of, c))) /\ UNCHANGED jobVars

\* Mutant: the error of an expired context is lost on its way to finishItem.
CallTimesOutUnnoticed(c) ==
  /\ work[c].at = "waiting" /\ work[c].kind # "stage"
  /\ Over(c, TRUE)
  /\ IF link.up /\ link.no = work[c].link THEN Fault ELSE UNCHANGED faults
  /\ UNCHANGED <<patchVars, linkVars, stageVars, serviceVars, locals>>

\* 15 seconds have passed; a stage has no deadline.
CallTimesOut(c) ==
  /\ work[c].at = "waiting" /\ work[c].kind # "stage"
  /\ Over(c, FALSE)
  /\ IF link.up /\ link.no = work[c].link THEN Fault ELSE UNCHANGED faults
  /\ UNCHANGED <<patchVars, linkVars, stageVars, serviceVars, locals>>

-----------------------------------------------------------------------------
(* The connection.                                                          *)

Closed == link' = [link EXCEPT !.up = FALSE] /\ calls' = <<>>

Drop ==
  /\ link.up
  /\ Fault
  /\ Closed
  /\ UNCHANGED <<patchVars, jobVars, stageVars, serviceVars, locals>>

Agent == IF running = Bridge THEN "bridge" ELSE "client"

\* The client's loop is where its stage runs: it dials again only after that.
LoopFree == running # None /\ (Agent = "client" => stage["command"].step = "idle")

Connect ==
  /\ ~link.up /\ LoopFree
  /\ link' = [up |-> TRUE, no |-> link.no + 1]
  /\ UNCHANGED <<patchVars, jobVars, calls, stageVars, serviceVars, faults, locals>>

\* The Platform's jobs, goroutines and connections are in memory.
PlatformRestarts ==
  /\ Fault
  /\ jobs' = [j \in Jobs |-> None]
  /\ work' = [c \in Callers |-> [Quiet("idle", "stage") EXCEPT !.try = IF c = Operator THEN work[c].try ELSE 1]]
  /\ Closed
  /\ UNCHANGED <<patchVars, stageVars, serviceVars, locals>>

-----------------------------------------------------------------------------
(* Commands at the site.                                                    *)

Take(kind) == LoopFree /\ link.up /\ calls # <<>> /\ Head(calls).kind = kind /\ calls' = Tail(calls)

\* The client waits for the maintenance gate, then downloads.
TakeStage ==
  /\ Take("stage")
  /\ stage["command"].step = "idle"
  /\ stage' = [stage EXCEPT !["command"] =
       [step |-> "download", package |-> None, of |-> Head(calls)]]
  /\ UNCHANGED <<patchVars, jobVars, link, staged, shared, serviceVars, faults, locals>>

\* Mutant: a bridge that is busy leaves the command unanswered.
BusyUnanswered == UNCHANGED jobVars

\* What the bridge answers while it stages, and to what it does not support.
Busy == Reply(Head(calls), "refused")

BridgeRefuses ==
  /\ Agent = "bridge"
  /\ \E kind \in Kinds : Take(kind) /\ (kind \in {"stage", "apply"} => stage["command"].step # "idle")
  /\ Busy
  /\ UNCHANGED <<patchVars, link, stageVars, serviceVars, faults, locals>>

\* The address names the row's id; the file is the one its path names by now.
Served(of) == patch # None /\ patch.id = of.patch

\* A stage ends; a command gets its result.
Ends(s, error) ==
  /\ stage' = [stage EXCEPT ![s] = Idle]
  /\ IF s = "command" THEN Reply(stage[s].of, error)
     ELSE UNCHANGED jobVars

\* The row or its file is gone (404), or the zip is not for this site.
StageRefused ==
  /\ stage["command"].step = "download"
  /\ Served(stage["command"].of) => patch.package \notin Fitting
  /\ Ends("command", "refused")
  /\ UNCHANGED <<patchVars, linkVars, staged, shared, serviceVars, faults, locals>>

\* The gate or the download takes too long, the download or a write fails.
StageFails(s, error) ==
  /\ \/ stage[s].step = "download"
     \/ stage[s].step \in {"writing", "written"} /\ error = "refused"
  /\ Fault
  /\ Ends(s, error)
  /\ UNCHANGED <<patchVars, linkVars, staged, shared, serviceVars, locals>>

Writing(s) == stage[s].step \in {"writing", "written"}

\* Mutant: StageZip overwrites the binary without clearing the directory.
Kept == staged

\* RemoveAll and MkdirAll.
Cleared == [binary |-> None, manifest |-> None]

\* StageZip has validated the zip: it clears the directory and creates the
\* binary, which is whole when the write has returned.
StageZip(s, p) ==
  /\ p \in Fitting
  /\ stage' = [stage EXCEPT ![s].step = "writing", ![s].package = p]
  /\ staged' = [Cleared EXCEPT !.binary = Torn]
  /\ shared' = (shared \/ (\E t \in Stagers \ {s} : Writing(t))
                       \/ (script.step # "none" /\ script.source = "staged"))

\* The patch has been downloaded.
StageUpdate ==
  /\ stage["command"].step = "download" /\ Served(stage["command"].of)
  /\ StageZip("command", patch.package)
  /\ UNCHANGED <<patchVars, jobVars, linkVars, serviceVars, faults, locals>>

\* The local page's upload.
UpdateUpload(p) ==
  /\ running # None /\ Agent = "client" /\ stage["local"].step = "idle"
  /\ locals < MaxLocal
  /\ locals' = locals + 1
  /\ StageZip("local", p)
  /\ UNCHANGED <<patchVars, jobVars, linkVars, serviceVars, faults>>

WriteBinary(s) ==
  /\ stage[s].step = "writing"
  /\ stage' = [stage EXCEPT ![s].step = "written"]
  /\ staged' = [staged EXCEPT !.binary = stage[s].package]
  /\ UNCHANGED <<patchVars, jobVars, linkVars, shared, serviceVars, faults, locals>>

WriteManifest(s) ==
  /\ stage[s].step = "written"
  /\ staged' = [staged EXCEPT !.manifest = stage[s].package]
  /\ Ends(s, "")
  /\ UNCHANGED <<patchVars, linkVars, shared, serviceVars, faults, locals>>

-----------------------------------------------------------------------------
(* Apply, Rollback, RestartOnly and the script they start.                  *)

\* systemd-run refuses a unit that is running, and nobody looks at its answer.
StartUpdater(source, backup) ==
  IF script.step # "none" THEN UNCHANGED <<script, runs>>
  ELSE /\ runs < MaxRuns /\ runs' = runs + 1
       /\ script' = [step |-> "sleep", source |-> source, backup |-> backup]

\* Apply backs the running binary up and points the script at the staged one.
Apply == StartUpdater("staged", 0) /\ backups' = Append(backups, exe)

\* Mutant: one past the files that are there.
PastLatest == Len(backups) + 1

\* The backup with the latest time; there is none when the directory is empty.
LatestBackup == Len(backups)

\* What one call of the manager does, and whether it reports an error.
Manage(kind, error) ==
  \/ /\ kind = "apply" /\ staged.manifest # None /\ error = ""
     /\ Apply
     /\ UNCHANGED <<cut, faults>>
  \/ /\ kind = "apply" /\ staged.manifest # None /\ error = "refused"
     /\ Fault
     /\ \/ UNCHANGED <<backups, cut>>
        \/ backups' = Append(backups, Torn) /\ cut' = TRUE
     /\ UNCHANGED <<script, runs>>
  \/ /\ kind = "rollback" /\ backups # <<>> /\ error = ""
     /\ StartUpdater("backup", LatestBackup)
     /\ UNCHANGED <<backups, cut, faults>>
  \/ /\ kind = "restart" /\ error = ""
     /\ StartUpdater("exe", 0)
     /\ UNCHANGED <<backups, cut, faults>>
  \/ /\ \/ kind = "apply" /\ staged.manifest = None
        \/ kind = "rollback" /\ backups = <<>>
     /\ error = "refused"
     /\ UNCHANGED <<backups, cut, script, runs, faults>>

TakeManage(kind, error) ==
  /\ Take(kind)
  /\ Agent = "bridge" => kind = "apply" /\ stage["command"].step = "idle"
  /\ Manage(kind, error)
  /\ Reply(Head(calls), error)
  /\ UNCHANGED <<patchVars, link, stageVars, exe, running, locals>>

LocalManage(kind, error) ==
  /\ running # None /\ Agent = "client" /\ kind \in {"apply", "rollback"}
  /\ locals < MaxLocal /\ locals' = locals + 1
  /\ Manage(kind, error)
  /\ UNCHANGED <<patchVars, jobVars, linkVars, stageVars, exe, running>>

\* The process is gone and with it all it had in memory.
ProcessEnds ==
  /\ stage' = [s \in Stagers |-> Idle]
  /\ Closed

ScriptStops ==
  /\ script.step = "sleep"
  /\ script' = [script EXCEPT !.step = "stopped"]
  /\ running' = None
  /\ ProcessEnds
  /\ UNCHANGED <<patchVars, jobVars, staged, shared, backups, exe, cut, runs, faults, locals>>

Source ==
  CASE script.source = "staged" -> staged.binary
    [] script.source = "backup" -> backups[script.backup]
    [] OTHER -> exe

\* install fails when its source is not there, does nothing when it is the
\* installed file itself, and may stop half-way (a full disk); the script starts
\* the service all the same.
ScriptInstalls ==
  /\ script.step = "stopped"
  /\ script' = [script EXCEPT !.step = "installed"]
  /\ \/ exe' = (IF Source = None THEN exe ELSE Source) /\ UNCHANGED <<cut, faults>>
     \/ /\ script.source # "exe" /\ Source # None
        /\ Fault
        /\ exe' = Torn /\ cut' = TRUE
  /\ UNCHANGED <<patchVars, jobVars, linkVars, stageVars, backups, running, runs, locals>>

\* A binary that was cut short does not start.
Started == IF exe = Torn THEN None ELSE exe

ScriptStarts ==
  /\ script.step = "installed"
  /\ script' = NoScript
  /\ running' = Started
  /\ UNCHANGED <<patchVars, jobVars, linkVars, stageVars, backups, exe, cut, runs, faults, locals>>

\* The process dies and the service manager starts the installed binary.
ServiceCrashes ==
  /\ running # None
  /\ Fault
  /\ ProcessEnds
  /\ UNCHANGED <<patchVars, jobVars, staged, shared, serviceVars, locals>>

-----------------------------------------------------------------------------

Uploads ==
  \/ \E p \in Patches : UploadMiddlewarePatch(p)
  \/ DeleteMiddlewarePatch

Batches ==
  \/ \E j \in Jobs, list \in Lists, action \in {"stage", "apply"} : CreateMiddlewareUpdateBatch(j, action, list)
  \/ \E w \in Workers : StartItem(w)
  \/ \E kind \in {"apply", "rollback", "restart"} : OperatorCalls(kind)
  \/ \E c \in Callers : CallFails(c) \/ Call(c) \/ CallTimesOut(c)

Channel == Drop \/ Connect \/ PlatformRestarts

Stages ==
  \/ TakeStage \/ BridgeRefuses \/ StageRefused \/ StageUpdate
  \/ \E p \in Patches : UpdateUpload(p)
  \/ \E s \in Stagers : \/ \E error \in {"deadline", "refused"} : StageFails(s, error)
                        \/ WriteBinary(s) \/ WriteManifest(s)

Services ==
  \/ \E kind \in Kinds, error \in {"", "refused"} : TakeManage(kind, error) \/ LocalManage(kind, error)
  \/ ScriptStops \/ ScriptInstalls \/ ScriptStarts \/ ServiceCrashes

SelfUpdateNext == Uploads \/ Batches \/ Channel \/ Stages \/ Services

SelfUpdateSpec == SelfUpdateInit /\ [][SelfUpdateNext]_vars

-----------------------------------------------------------------------------
(* Properties.                                                              *)

\* Wherever stages failed and processes died, what is installed is a whole binary
\* built for this site (StageZip clears the directory first and writes the
\* manifest Apply looks for last), unless two stages, or a stage and a script,
\* shared the staged directory.  A stage never leaves a torn binary there: it
\* takes a copy cut short, Apply's into a backup or the script's onto the
\* installed file, and even then nothing built for another site gets in.
InstalledIsWhole == shared \/ exe \in Fitting \/ (cut /\ exe = Torn)

\* A command whose connection lives is never lost: its frame is on the way or
\* the site is at work on it.  What a stage without a deadline
\* waits for does arrive, as long as the connection does not end.
LiveCallIsSomewhere ==
  \A c \in Callers : work[c].at = "waiting" /\ link.up /\ work[c].link = link.no =>
    \E of \in {calls[i] : i \in DOMAIN calls} \cup ({stage["command"].of} \ {None}) :
      of.by = c /\ of.try = work[c].try

Tells(status, items) ==
  LET statuses == {items[s] : s \in Sites} \ {None}
  IN /\ status = "running" <=> statuses \cap {"pending", "running"} # {}
     /\ status = "succeeded" <=> statuses = {"succeeded"}

\* The status of a batch that names each site once tells what its items say: it
\* is over exactly when all of them are, and succeeded when all of them have.
JobTellsItems ==
  \A j \in Jobs : jobs[j] # None /\ List(j) # <<"site", "site">> =>
    Tells(jobs[j].status, jobs[j].items)

\* The command the site may be answering in a step.
InHand == ({stage["command"].of} \ {None}) \cup {Head(calls) : i \in DOMAIN calls}

\* An item succeeds only in a step in which the site carries out a command of
\* its own, sent on the connection that lives; no other result, and no answer
\* that never came, is taken for it.
SucceededIsDone ==
  [][\A w \in Workers : work[w].at # "idle" /\ work'[w].at = "idle" /\ jobs'[w[1]] # None
                        /\ jobs'[w[1]].items[Site(w)] = "succeeded" =>
       \E of \in InHand : of.by = w /\ of.try = work[w].try /\ of.link = link.no]_vars
=============================================================================
