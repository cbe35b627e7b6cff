----------------------------- MODULE ConfigPush -----------------------------
(***************************************************************************)
(* How a site's configuration leaves the Platform.  An admin's Push Config *)
(* locks the Middleware's row, rebuilds the snapshot from the registry,    *)
(* commits it under a new version and only then hands it to the hub; the   *)
(* Middleware replaces its local configuration in one SQLite transaction,  *)
(* records the outcome in config_history and answers with a config.ack.    *)
(*                                                                         *)
(* The parties that interleave here are the admins' requests, whose work   *)
(* after the commit holds no lock, the registry edits other admins make,   *)
(* the Middleware's single-threaded read loop, and one Platform handler    *)
(* per WebSocket the Platform has not yet noticed to be dead.              *)
(*                                                                         *)
(* A snapshot's content is the revision of the registry it was built from. *)
(* The site's own page writes the same local tables at any time, and the   *)
(* Platform is not told. What the Middleware does with its in-memory copy  *)
(* is module ConfigCache.                                                  *)
(***************************************************************************)
EXTENDS Naturals, Sequences, FiniteSets

CONSTANTS
  Pushers,    \* admin requests that may run at the same time
  NoPusher,   \* "the row is not locked"
  Conns,      \* names for WebSocket connections; a name is reused once dead
  NoConn,     \* "no connection"
  PipeSize,   \* frames one connection buffers towards the Middleware (16)
  MaxEdits,   \* BOUND: edits of the registry
  MaxPushes,  \* BOUND: configuration versions
  MaxFaults   \* BOUND: connection losses, crashes and errors

ASSUME NameAssumption  == NoPusher \notin Pushers /\ NoConn \notin Conns
ASSUME BoundAssumption ==
  PipeSize \in Nat /\ MaxEdits \in Nat /\ MaxPushes \in Nat /\ MaxFaults \in Nat

VARIABLES
  registry,   \* revision of the plants, devices and models of this Middleware
  rowLock,    \* the request holding the middleware_client row FOR UPDATE
  pusher,     \* where each admin's request stands
  client,     \* middleware_client: config_version, its snapshot, applied version
  history,    \* middleware_config_history: version -> content and push_status
  dialled,    \* the connection the Middleware's client is reading from
  down,       \* snapshots the Middleware has yet to read from that connection
  up,         \* config.acks on their way to the Platform, per connection
  handlers,   \* connections whose Platform handler is still running
  hubConn,    \* gatewayhub: the connection the hub holds for this Middleware
  conf,       \* SQLite: the tables' content, and the version last applied to them
  mwHistory,  \* SQLite: config_history rows, in insertion order
  mw,         \* where the Middleware's snapshot handler stands
  faults      \* faults so far

pushVars == <<rowLock, pusher>>
dbVars   == <<client, history>>
wireVars == <<dialled, down, up>>
hubVars  == <<handlers, hubConn>>
mwVars   == <<conf, mwHistory, mw>>
vars     == <<registry, pushVars, dbVars, wireVars, hubVars, mwVars, faults>>

\* What the tables hold once the local page has changed them: no revision of
\* the registry.
Local == MaxEdits + 1

Snapshot == [version : Nat, content : Nat]
Outcomes == {"APPLIED", "FAILED"}

\* The Middleware names the version it applied in appliedVersion and leaves
\* version, which its envelope also has, at zero.
Ack == [version : Nat, appliedVersion : Nat, status : Outcomes]

NoSnapshot == [version |-> 0, content |-> 0]

TypeOK ==
  /\ registry \in Nat
  /\ rowLock \in Pushers \cup {NoPusher}
  /\ pusher \in [Pushers -> [phase : {"idle", "built", "committed", "sent"}, snap : Snapshot]]
  /\ client \in [version : Nat, snapshot : Nat, applied : Nat]
  /\ DOMAIN history = 1..client.version
  /\ \A v \in DOMAIN history :
       history[v] \in [content : Nat, status : {"PENDING", "SENT"} \cup Outcomes]
  /\ dialled \in Conns \cup {NoConn}
  /\ down \in Seq(Snapshot) /\ Len(down) <= PipeSize
  /\ up \in [Conns -> Seq(Ack)]
  /\ handlers \in SUBSET Conns
  /\ hubConn \in Conns \cup {NoConn}
  /\ conf \in Snapshot
  /\ mwHistory \in Seq([version : Nat, status : Outcomes])
  /\ mw \in [phase : {"reading", "applied", "answering"}, snap : Snapshot, ok : BOOLEAN]
  /\ faults \in Nat

Idle    == [phase |-> "idle", snap |-> NoSnapshot]
Reading == [phase |-> "reading", snap |-> NoSnapshot, ok |-> FALSE]

Init ==
  /\ registry = 0
  /\ rowLock = NoPusher
  /\ pusher = [p \in Pushers |-> Idle]
  /\ client = [version |-> 0, snapshot |-> 0, applied |-> 0]
  /\ history = [v \in {} |-> [content |-> 0, status |-> "PENDING"]]
  /\ dialled = NoConn
  /\ down = <<>>
  /\ up = [c \in Conns |-> <<>>]
  /\ handlers = {}
  /\ hubConn = NoConn
  /\ conf = NoSnapshot
  /\ mwHistory = <<>>
  /\ mw = Reading
  /\ faults = 0

Fault == faults < MaxFaults /\ faults' = faults + 1

-----------------------------------------------------------------------------
(* The Platform: the registry and the admins' requests.                    *)

\* An admin edits a device, a model or a plant, or assigns a plant to this
\* Middleware or away from it.  Nothing is pushed.
EditRegistry ==
  /\ registry < MaxEdits
  /\ registry' = registry + 1
  /\ UNCHANGED <<pushVars, dbVars, wireVars, hubVars, mwVars, faults>>

\* buildConfigSnapshot: assigned plants, their active devices that have a Modbus
\* address, the models those devices use and the registers to poll.
BuildConfigSnapshot == [version |-> 0, content |-> registry]

\* Mutant of LockAndBuild: the row is read without FOR UPDATE.
BuildUnlocked(p) ==
  /\ pusher[p].phase = "idle"
  /\ client.version < MaxPushes
  /\ rowLock' = p
  /\ pusher' = [pusher EXCEPT ![p] = [phase |-> "built", snap |-> BuildConfigSnapshot]]
  /\ UNCHANGED <<registry, dbVars, wireVars, hubVars, mwVars, faults>>

\* doRecomputeAndPushMiddleware: SELECT ... FOR UPDATE, then buildConfigSnapshot.
LockAndBuild(p) ==
  /\ pusher[p].phase = "idle"
  /\ client.version < MaxPushes
  /\ rowLock = NoPusher
  /\ rowLock' = p
  /\ pusher' = [pusher EXCEPT ![p] = [phase |-> "built", snap |-> BuildConfigSnapshot]]
  /\ UNCHANGED <<registry, dbVars, wireVars, hubVars, mwVars, faults>>

\* Mutant of CommitPush: the history row is written after the transaction, and
\* the error of that write is ignored.
CommitWithoutHistory(p) ==
  /\ pusher[p].phase = "built"
  /\ LET v == client.version + 1
         new == [content |-> pusher[p].snap.content, status |-> "PENDING"]
     IN  /\ client' = [client EXCEPT !.version = v, !.snapshot = new.content]
         /\ \/ history' = [w \in DOMAIN history \cup {v} |->
                             IF w = v THEN new ELSE history[w]]
            \/ UNCHANGED history
         /\ pusher' = [pusher EXCEPT ![p] = [phase |-> "committed",
                                             snap  |-> [@.snap EXCEPT !.version = v]]]
  /\ rowLock' = NoPusher
  /\ UNCHANGED <<registry, wireVars, hubVars, mwVars, faults>>

\* A new version, always, even of an unchanged snapshot: bump config_version,
\* store the snapshot, add the history row, commit.
CommitPush(p) ==
  /\ pusher[p].phase = "built"
  /\ LET v == client.version + 1
         new == [content |-> pusher[p].snap.content, status |-> "PENDING"]
     IN  /\ client' = [client EXCEPT !.version = v, !.snapshot = new.content]
         /\ history' = [w \in DOMAIN history \cup {v} |->
                          IF w = v THEN new ELSE history[w]]
         /\ pusher' = [pusher EXCEPT ![p] = [phase |-> "committed",
                                             snap  |-> [@.snap EXCEPT !.version = v]]]
  /\ rowLock' = NoPusher
  /\ UNCHANGED <<registry, wireVars, hubVars, mwVars, faults>>

\* The transaction fails and is rolled back; the admin sees the error.
AbortPush(p) ==
  /\ pusher[p].phase = "built"
  /\ Fault
  /\ rowLock' = NoPusher
  /\ pusher' = [pusher EXCEPT ![p] = Idle]
  /\ UNCHANGED <<registry, dbVars, wireVars, hubVars, mwVars>>

\* Mutant of HubPush: a full buffer drops the frame and still says delivered.
HubPushDrops(snap, delivered) ==
  \/ hubConn = NoConn /\ ~delivered /\ UNCHANGED down
  \/ hubConn # NoConn /\ hubConn # dialled /\ UNCHANGED down
  \/ /\ hubConn # NoConn /\ hubConn = dialled /\ delivered
     /\ down' = IF Len(down) < PipeSize THEN Append(down, snap) ELSE down

\* Hub.PushConfig never blocks: delivered means handed to the connection the
\* hub holds now, which nobody may be reading any more.
HubPush(snap, delivered) ==
  \/ hubConn = NoConn /\ ~delivered /\ UNCHANGED down
  \/ hubConn # NoConn /\ hubConn # dialled /\ UNCHANGED down
  \/ /\ hubConn # NoConn /\ hubConn = dialled
     /\ delivered = (Len(down) < PipeSize)
     /\ down' = IF delivered THEN Append(down, snap) ELSE down

\* Mutant of SendPush: the frame is built from the registry as it is by now.
SendRebuilt(p) ==
  /\ pusher[p].phase = "committed"
  /\ \E delivered \in BOOLEAN :
       /\ HubPush([pusher[p].snap EXCEPT !.content = registry], delivered)
       /\ pusher' = [pusher EXCEPT ![p] = IF delivered THEN [@ EXCEPT !.phase = "sent"] ELSE Idle]
  /\ UNCHANGED <<registry, rowLock, dbVars, dialled, up, hubVars, mwVars, faults>>

\* After the commit, with no lock held.  An undelivered version is not retried.
SendPush(p) ==
  /\ pusher[p].phase = "committed"
  /\ \E delivered \in BOOLEAN :
       /\ HubPush(pusher[p].snap, delivered)
       /\ pusher' = [pusher EXCEPT ![p] = IF delivered THEN [@ EXCEPT !.phase = "sent"] ELSE Idle]
  /\ UNCHANGED <<registry, rowLock, dbVars, dialled, up, hubVars, mwVars, faults>>

SetStatus(v, status) ==
  history' = IF v \in DOMAIN history THEN [history EXCEPT ![v].status = status] ELSE history

\* UPDATE ... SET push_status='SENT', whatever it is by now.
MarkSent(p) ==
  /\ pusher[p].phase = "sent"
  /\ SetStatus(pusher[p].snap.version, "SENT")
  /\ pusher' = [pusher EXCEPT ![p] = Idle]
  /\ UNCHANGED <<registry, rowLock, client, wireVars, hubVars, mwVars, faults>>

\* The error of that UPDATE is ignored.
MarkSentFails(p) ==
  /\ pusher[p].phase = "sent"
  /\ Fault
  /\ pusher' = [pusher EXCEPT ![p] = Idle]
  /\ UNCHANGED <<registry, rowLock, dbVars, wireVars, hubVars, mwVars>>

\* RecordConfigAck, in one transaction: the history row the ack's version names,
\* and on APPLIED the applied version, which never goes back.
RecordAck(c) ==
  /\ c \in handlers /\ up[c] # <<>>
  /\ LET ack == Head(up[c])
     IN  /\ SetStatus(ack.version, ack.status)
         /\ client' = IF ack.status = "APPLIED" /\ client.applied < ack.version
                      THEN [client EXCEPT !.applied = ack.version] ELSE client
  /\ up' = [up EXCEPT ![c] = Tail(@)]
  /\ UNCHANGED <<registry, pushVars, dialled, down, hubVars, mwVars, faults>>

\* The transaction fails: the handler logs the error and reads on.
RecordAckFails(c) ==
  /\ c \in handlers /\ up[c] # <<>>
  /\ Fault
  /\ up' = [up EXCEPT ![c] = Tail(@)]
  /\ UNCHANGED <<registry, pushVars, dbVars, dialled, down, hubVars, mwVars>>

-----------------------------------------------------------------------------
(* Connections.                                                            *)

\* The Middleware dials once its previous connection's handler has returned; the
\* new handler registers with the hub.  hello tells the Platform the applied
\* version, and HandleGatewayHello pushes nothing, whatever it is.
Connect(c) ==
  /\ dialled = NoConn /\ mw.phase = "reading"
  /\ c \notin handlers
  /\ dialled' = c
  /\ handlers' = handlers \cup {c}
  /\ hubConn' = c
  /\ UNCHANGED <<registry, pushVars, dbVars, down, up, mwVars, faults>>

\* The connection fails.  What the Middleware had not read is lost; a snapshot
\* it is handling is handled to the end.
Disconnect ==
  /\ dialled # NoConn
  /\ IF dialled \in handlers THEN Fault ELSE UNCHANGED faults
  /\ dialled' = NoConn
  /\ down' = <<>>
  /\ UNCHANGED <<registry, pushVars, dbVars, up, hubVars, mwVars>>

\* The Middleware's process dies between any two steps; SQLite is on disk.
MiddlewareCrashes ==
  /\ Fault
  /\ dialled' = NoConn
  /\ down' = <<>>
  /\ mw' = Reading
  /\ UNCHANGED <<registry, pushVars, dbVars, up, hubVars, conf, mwHistory>>

\* The handler of a connection ends, and with it the acks it had not read; it
\* unregisters if the hub still holds this very connection.
HandlerEnds(c) ==
  /\ c \in handlers
  /\ IF dialled = c THEN Fault ELSE UNCHANGED faults
  /\ handlers' = handlers \ {c}
  /\ hubConn' = IF hubConn = c THEN NoConn ELSE hubConn
  /\ up' = [up EXCEPT ![c] = <<>>]
  /\ UNCHANGED <<registry, pushVars, dbVars, dialled, down, mwVars>>

\* The Platform's process dies: requests, open transactions, handlers and acks
\* not yet recorded are gone.
PlatformCrashes ==
  /\ Fault
  /\ rowLock' = NoPusher
  /\ pusher' = [p \in Pushers |-> Idle]
  /\ handlers' = {}
  /\ hubConn' = NoConn
  /\ up' = [c \in Conns |-> <<>>]
  /\ UNCHANGED <<registry, dbVars, dialled, down, mwVars>>

-----------------------------------------------------------------------------
(* The Middleware: handleConfigSnapshot, one snapshot at a time.           *)

Without(i) == SubSeq(down, 1, i - 1) \o SubSeq(down, i + 1, Len(down))

\* Mutant of ApplySnapshot: each snapshot is handled in a goroutine of its own.
ApplyAny ==
  /\ mw.phase = "reading"
  /\ \E i \in DOMAIN down :
       /\ down' = Without(i)
       /\ conf' = down[i]
       /\ mw' = [phase |-> "applied", snap |-> down[i], ok |-> TRUE]
  /\ UNCHANGED <<registry, pushVars, dbVars, dialled, up, hubVars, mwHistory, faults>>

\* applyConfigSnapshotTx commits: the local configuration is replaced, whatever
\* its version was.
ApplySnapshot ==
  /\ mw.phase = "reading" /\ down # <<>>
  /\ down' = Tail(down)
  /\ conf' = Head(down)
  /\ mw' = [phase |-> "applied", snap |-> Head(down), ok |-> TRUE]
  /\ UNCHANGED <<registry, pushVars, dbVars, dialled, up, hubVars, mwHistory, faults>>

\* The snapshot fails validation or a write: the transaction is rolled back.
RefuseSnapshot ==
  /\ mw.phase = "reading" /\ down # <<>>
  /\ down' = Tail(down)
  /\ mw' = [phase |-> "applied", snap |-> Head(down), ok |-> FALSE]
  /\ UNCHANGED <<registry, pushVars, dbVars, dialled, up, hubVars, conf, mwHistory, faults>>

Status(ok) == IF ok THEN "APPLIED" ELSE "FAILED"

\* ApplyConfigSnapshot's own INSERT, after the transaction.
RecordHistory ==
  /\ mw.phase = "applied"
  /\ mwHistory' = Append(mwHistory, [version |-> mw.snap.version, status |-> Status(mw.ok)])
  /\ mw' = [mw EXCEPT !.phase = "answering"]
  /\ UNCHANGED <<registry, pushVars, dbVars, wireVars, hubVars, conf, faults>>

\* Mutant of RecordHistoryFails: the error of the INSERT is only logged.
RecordHistoryFailsQuietly ==
  /\ mw.phase = "applied"
  /\ Fault
  /\ mw' = [mw EXCEPT !.phase = "answering"]
  /\ UNCHANGED <<registry, pushVars, dbVars, wireVars, hubVars, conf, mwHistory>>

\* The INSERT fails: an error is returned although the apply was committed.
RecordHistoryFails ==
  /\ mw.phase = "applied"
  /\ Fault
  /\ mw' = [mw EXCEPT !.phase = "answering", !.ok = FALSE]
  /\ UNCHANGED <<registry, pushVars, dbVars, wireVars, hubVars, conf, mwHistory>>

\* Write the config.ack; it is lost if the connection is.
SendAck ==
  /\ mw.phase = "answering"
  /\ up' = IF dialled \in handlers
           THEN [up EXCEPT ![dialled] =
                   Append(@, [version |-> 0, appliedVersion |-> mw.snap.version,
                              status |-> Status(mw.ok)])]
           ELSE up
  /\ mw' = Reading
  /\ UNCHANGED <<registry, pushVars, dbVars, dialled, down, hubVars, conf, mwHistory, faults>>

\* The site's own page saves or deletes a connection, a device set or a plant, or
\* imports settings, over what a push installed; the next push replaces it.
SaveLocally ==
  /\ conf' = [conf EXCEPT !.content = Local]
  /\ UNCHANGED <<registry, pushVars, dbVars, wireVars, hubVars, mwHistory, mw, faults>>

-----------------------------------------------------------------------------
PushStep(p) == CommitPush(p) \/ SendPush(p) \/ MarkSent(p)

SnapshotStep == ApplySnapshot \/ RefuseSnapshot \/ RecordHistory \/ SendAck

Next ==
  \/ EditRegistry
  \/ \E p \in Pushers : LockAndBuild(p) \/ PushStep(p) \/ AbortPush(p) \/ MarkSentFails(p)
  \/ \E c \in Conns : Connect(c) \/ HandlerEnds(c) \/ RecordAck(c) \/ RecordAckFails(c)
  \/ Disconnect
  \/ MiddlewareCrashes
  \/ PlatformCrashes
  \/ SnapshotStep
  \/ RecordHistoryFails
  \/ SaveLocally

Spec == Init /\ [][Next]_vars

\* A request runs to its end, the client redials, its read loop and the
\* Platform's handlers read what is there, a dead peer is noticed.  Nothing
\* makes an admin edit the registry or push, or anybody use the site's page.
Fairness ==
  /\ \A p \in Pushers : WF_vars(PushStep(p))
  /\ \A c \in Conns : WF_vars(RecordAck(c))
  /\ WF_vars(\E c \in Conns : Connect(c))
  /\ WF_vars(dialled \notin handlers /\ Disconnect)
  /\ \A c \in Conns : WF_vars(c # dialled /\ HandlerEnds(c))
  /\ WF_vars(SnapshotStep)

FairSpec == Spec /\ Fairness

-----------------------------------------------------------------------------
(* Properties.                                                              *)

\* A later version never holds an older registry: SELECT ... FOR UPDATE comes
\* before the snapshot is built, so builds and version numbers agree in order
\* however many admins push and edit at once.
VersionsFollowRegistry ==
  \A v, w \in DOMAIN history : v <= w => history[v].content <= history[w].content

\* What a push installed is a version in the Platform's history and stays its
\* content, to the byte, until the site's own page writes the tables; and
\* config_snapshot is that history's last row.
InstalledIsRecorded ==
  /\ client.version > 0 => client.snapshot = history[client.version].content
  /\ conf.version > 0 => conf.version \in DOMAIN history
                         /\ conf.content \in {history[conf.version].content, Local}

\* An APPLIED ack, from its creation to its arrival, has an APPLIED row in the
\* site's own history: it survives the crash that follows it.
Recorded(v) == \E i \in DOMAIN mwHistory : mwHistory[i] = [version |-> v, status |-> "APPLIED"]

AppliedAckIsRecorded ==
  /\ mw.phase = "answering" /\ mw.ok => Recorded(mw.snap.version)
  /\ \A c \in Conns : \A i \in DOMAIN up[c] :
       up[c][i].status = "APPLIED" => Recorded(up[c][i].appliedVersion)

\* With one admin pushing at a time, an apply never takes a site back to an
\* older version, though the Middleware itself compares no versions.  What the
\* site's own page saves is not an apply.
AppliedInOrder ==
  [][conf' # conf /\ conf'.content # Local => conf'.version > conf.version]_conf

\* A snapshot reported delivered on a connection that does not fail is applied
\* or refused, and recorded: HubPush says so only if the frame is in the pipe.
DeliveredIsHandled ==
  \A v \in 1..MaxPushes :
    (v \in DOMAIN history /\ history[v].status = "SENT")
      ~> \E i \in DOMAIN mwHistory : mwHistory[i].version = v

\* Push Config as its specification states it.
Register == INSTANCE PublishedConfig
              WITH Revisions <- 0..MaxEdits, Local <- Local, latest <- client.version,
                   published <- [v \in DOMAIN history |-> history[v].content],
                   installed <- conf

PublishedInOrder == Register!Spec

=============================================================================
