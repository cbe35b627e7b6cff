--------------------------- MODULE TelemetryPull ---------------------------
(***************************************************************************)
(* How a reading leaves a site.  The Middleware polls its devices and      *)
(* buffers one row per reading in a SQLite outbox; the Platform, over the  *)
(* WebSocket the Middleware dialled, drains a batch of rows, ingests them  *)
(* in one database transaction and only then acknowledges the row ids.     *)
(*                                                                         *)
(* The parties that interleave here are the Middleware's poll loop, its    *)
(* single-threaded command loop, its dialler and its log cleaner, and, on  *)
(* the Platform, one handler and one puller goroutine per WebSocket the    *)
(* Platform has not yet noticed to be dead.                                *)
(*                                                                         *)
(* A row's AUTOINCREMENT id names the reading it carries: the collect time *)
(* is the poll's own clock, so no two rows carry the same reading, and a   *)
(* drained batch, whose readings are listed in id order, is its set of ids.*)
(***************************************************************************)
EXTENDS Naturals, Sequences, FiniteSets

CONSTANTS
  Devices,    \* devices of one site, each with its own plant and registration
  Conns,      \* names for WebSocket connections; a name is reused once dead
  NoConn,     \* "no connection", and the caller of a frame nobody waits for
  BatchSize,  \* drainBatchSize (500)
  PipeSize,   \* frames one connection buffers towards the Middleware (16)
  MaxRows,    \* BOUND: readings the poll loop ever stores
  MaxFaults,  \* BOUND: connection losses, crashes, errors and early timeouts
  MaxToggles  \* BOUND: times an operator disables or enables a device

ASSUME ConnAssumption  == NoConn \notin Conns
ASSUME BatchAssumption == BatchSize \in Nat \ {0} /\ PipeSize \in Nat
ASSUME BoundAssumption == MaxRows \in Nat /\ MaxFaults \in Nat /\ MaxToggles \in Nat

VARIABLES
  outbox,    \* outbox_events: row id -> device and status; GONE is a deleted row
  dialled,   \* the connection the Middleware's client is reading from
  down,      \* commands the Middleware has yet to read from that connection
  up,        \* command results on their way to the Platform, per connection
  handlers,  \* connections whose Platform handler is still running
  hubConn,   \* gatewayhub: the connection the hub holds for this gateway
  puller,    \* the puller goroutine each running handler started
  blocked,   \* devices whose readings the Platform refuses today
  batches,   \* telemetry_ingest_batch: payload -> stored result
  stored,    \* raw_register_reading: reading -> payload of the inserting batch
  faults,    \* faults so far
  toggles    \* operator actions so far

mwVars   == <<outbox, dialled>>
wireVars == <<down, up>>
hubVars  == <<handlers, hubConn>>
dbVars   == <<batches, stored>>
envVars  == <<faults, toggles>>
vars     == <<mwVars, wireVars, hubVars, puller, blocked, dbVars, envVars>>

Statuses == {"PENDING", "DELIVERED", "GONE"}
Phases   == {"off", "waiting", "draining", "ingesting", "acking", "awaitAck"}
RowIds   == DOMAIN outbox

Row     == [dev : Devices, status : Statuses]
Command == [kind : {"drain", "ack"}, caller : Conns \cup {NoConn}, ids : SUBSET Nat]
Answer  == [kind : {"drain", "ack"}, caller : Conns \cup {NoConn}, ids : SUBSET Nat,
            ok : BOOLEAN]
Result  == [accepted : Nat, duplicate : Nat, rejected : Nat]

TypeOK ==
  /\ outbox \in Seq(Row)
  /\ dialled \in Conns \cup {NoConn}
  /\ down \in Seq(Command)
  /\ up \in [Conns -> Seq(Answer)]
  /\ handlers \in SUBSET Conns
  /\ hubConn \in Conns \cup {NoConn}
  /\ puller \in [Conns -> [phase : Phases, batch : SUBSET Nat]]
  /\ blocked \in SUBSET Devices
  /\ DOMAIN batches \in SUBSET (SUBSET Nat)
  /\ \A p \in DOMAIN batches : batches[p] \in Result
  /\ DOMAIN stored \in SUBSET Nat
  /\ \A r \in DOMAIN stored : stored[r] \in DOMAIN batches
  /\ faults \in Nat
  /\ toggles \in Nat

NoResult == [accepted |-> 0, duplicate |-> 0, rejected |-> 0]

Idle(phase) == [phase |-> phase, batch |-> {}]

Init ==
  /\ outbox = <<>>
  /\ dialled = NoConn
  /\ down = <<>>
  /\ up = [c \in Conns |-> <<>>]
  /\ handlers = {}
  /\ hubConn = NoConn
  /\ puller = [c \in Conns |-> Idle("off")]
  /\ blocked = {}
  /\ batches = [p \in {} |-> NoResult]
  /\ stored = [i \in {} |-> {}]
  /\ faults = 0
  /\ toggles = 0

-----------------------------------------------------------------------------
(* The Middleware: poll loop, outbox, log cleaner.                         *)

Pending == {i \in RowIds : outbox[i].status = "PENDING"}

\* Store.Ready: the oldest rows still to be delivered, at most n of them.
Ready(n) == {i \in Pending : Cardinality({j \in Pending : j < i}) < n}

\* Store.Enqueue of a reading the idle filter let through.
Enqueue(d) ==
  /\ Len(outbox) < MaxRows
  /\ outbox' = Append(outbox, [dev |-> d, status |-> "PENDING"])
  /\ UNCHANGED <<dialled, wireVars, hubVars, puller, blocked, dbVars, envVars>>

Marked(ids, from, to) ==
  [i \in RowIds |-> IF i \in ids /\ outbox[i].status \in from
                    THEN [outbox[i] EXCEPT !.status = to] ELSE outbox[i]]

\* Store.Delivered: one UPDATE per id, whatever the row's status; a row that
\* is gone matches nothing.
Delivered(ids) == Marked(ids, {"PENDING", "DELIVERED"}, "DELIVERED")

\* Deleting rows.  No code path writes DEAD_LETTER any more.
Delete(ids) ==
  /\ ids # {}
  /\ outbox' = Marked(ids, {"DELIVERED"}, "GONE")
  /\ UNCHANGED <<dialled, wireVars, hubVars, puller, blocked, dbVars, envVars>>

DeliveredRows == {i \in RowIds : outbox[i].status = "DELIVERED"}

\* Store.ClearDeliveryLogs: an operator clears the delivery log.
ClearDeliveryLogs == Delete(DeliveredRows)

\* Store.CleanupOld: the periodic cleaner deletes the rows delivered long enough ago.
CleanupOld == \E ids \in SUBSET DeliveredRows : Delete(ids)

-----------------------------------------------------------------------------
(* Connections.  A frame's caller is the puller waiting for its answer; a   *)
(* call that gives up deletes its commandId from the pending map, and its   *)
(* frames, if any are still under way, become nobody's (NoConn).            *)

Orphaned(frames, callers) ==
  [i \in DOMAIN frames |-> IF frames[i].caller \in callers
                           THEN [frames[i] EXCEPT !.caller = NoConn] ELSE frames[i]]

GiveUp(c) == /\ down' = Orphaned(down, {c})
             /\ up'   = [k \in Conns |-> Orphaned(up[k], {c})]

Fault == faults < MaxFaults /\ faults' = faults + 1

\* The Middleware dials; the handler registers with the hub (replacing whatever
\* connection it held) and, on hello, starts this connection's puller.
Connect(c) ==
  /\ dialled = NoConn
  /\ c \notin handlers
  /\ dialled' = c
  /\ handlers' = handlers \cup {c}
  /\ hubConn' = c
  /\ puller' = [puller EXCEPT ![c] = Idle("waiting")]
  /\ UNCHANGED <<outbox, wireVars, blocked, dbVars, envVars>>

\* The Middleware's read fails or its 45 s deadline passes: it abandons the
\* connection, and what it had not read is lost.
HangUp ==
  /\ dialled # NoConn
  /\ down' = <<>>
  /\ dialled' = NoConn
  /\ UNCHANGED <<outbox, up, hubVars, puller, blocked, dbVars, toggles>>

\* The Middleware loses the network, or its process dies and restarts.  The
\* outbox is on disk.  A connection the Platform already dropped fails for free.
MiddlewareDrops ==
  /\ IF dialled \in handlers THEN Fault ELSE UNCHANGED faults
  /\ HangUp

\* Mutant of Unregister: it deletes whatever connection the hub holds by now.
UnregisterAny(c) ==
  /\ handlers' = handlers \ {c}
  /\ hubConn' = NoConn
  /\ puller' = [puller EXCEPT ![c] = Idle("off")]
  /\ down' = Orphaned(down, {c})
  /\ up' = [k \in Conns |-> IF k = c THEN <<>> ELSE Orphaned(up[k], {c})]
  /\ UNCHANGED <<mwVars, blocked, dbVars, toggles>>

\* The Platform's handler ends (read error or failed write): it unregisters, if
\* the hub still holds this very connection, and its context ends its puller.
Unregister(c) ==
  /\ handlers' = handlers \ {c}
  /\ hubConn' = IF hubConn = c THEN NoConn ELSE hubConn
  /\ puller' = [puller EXCEPT ![c] = Idle("off")]
  /\ down' = Orphaned(down, {c})
  /\ up' = [k \in Conns |-> IF k = c THEN <<>> ELSE Orphaned(up[k], {c})]
  /\ UNCHANGED <<mwVars, blocked, dbVars, toggles>>

PlatformDrops(c) ==
  /\ c \in handlers
  /\ IF dialled = c THEN Fault ELSE UNCHANGED faults
  /\ Unregister(c)

\* The Platform process dies: every handler, puller and frame it held is gone;
\* an open ingest transaction is rolled back.
PlatformCrashes ==
  /\ handlers # {}
  /\ Fault
  /\ handlers' = {}
  /\ hubConn' = NoConn
  /\ puller' = [c \in Conns |-> Idle("off")]
  /\ down' = Orphaned(down, Conns)
  /\ up' = [c \in Conns |-> <<>>]
  /\ UNCHANGED <<mwVars, blocked, dbVars, toggles>>

-----------------------------------------------------------------------------
(* pullOnce, step by step.                                                  *)

\* Hub.run hands a command to the connection the hub holds NOW, which need not
\* be the one this puller was started for, nor one anybody still reads.
Send(c, kind, ids, next) ==
  /\ hubConn # NoConn
  /\ IF hubConn = dialled
     THEN /\ Len(down) < PipeSize
          /\ down' = Append(down, [kind |-> kind, caller |-> c, ids |-> ids])
     ELSE UNCHANGED down
  /\ puller' = [puller EXCEPT ![c].phase = next]
  /\ UNCHANGED <<mwVars, up, hubVars, blocked, dbVars, envVars>>

SendDrain(c) == puller[c].phase = "waiting" /\ Send(c, "drain", {}, "draining")
SendAck(c)   == puller[c].phase = "acking"  /\ Send(c, "ack", puller[c].batch, "awaitAck")

\* ErrOffline: no live connection, so the pull ends; a drained batch is
\* forgotten without an ack and will be drained again.
AckOffline(c) ==
  /\ puller[c].phase = "acking"
  /\ hubConn = NoConn
  /\ puller' = [puller EXCEPT ![c] = Idle("waiting")]
  /\ UNCHANGED <<mwVars, wireVars, hubVars, blocked, dbVars, envVars>>

Answerable(c) ==
  \/ \E i \in DOMAIN down : down[i].caller = c
  \/ \E k \in Conns : \E i \in DOMAIN up[k] : up[k][i].caller = c

\* The call's context expires: nothing came back within commandTimeout.  It is a
\* fault only if an answer could still have come; a full pipe also ends here.
Timeout(c) ==
  /\ \/ puller[c].phase \in {"draining", "awaitAck"}
     \/ puller[c].phase = "acking" /\ hubConn = dialled /\ Len(down) = PipeSize
  /\ IF Answerable(c) THEN Fault ELSE UNCHANGED faults
  /\ puller' = [puller EXCEPT ![c] = Idle("waiting")]
  /\ GiveUp(c)
  /\ UNCHANGED <<mwVars, hubVars, blocked, dbVars, toggles>>

-----------------------------------------------------------------------------
(* The Middleware's command loop: one command at a time, in arrival order.  *)

\* Write the command.result; it goes nowhere if the Platform already hung up.
Reply(f, ids, ok) ==
  /\ down' = Tail(down)
  /\ up' = IF dialled \in handlers
           THEN [up EXCEPT ![dialled] =
                   Append(@, [kind |-> f.kind, caller |-> f.caller, ids |-> ids, ok |-> ok])]
           ELSE up
  /\ UNCHANGED <<dialled, hubVars, puller, blocked, dbVars, toggles>>

\* Mutant of HandleDrain: drained rows are marked delivered at once.
HandleDrainMarks ==
  /\ down # <<>>
  /\ LET f == Head(down)
     IN  f.kind = "drain" /\ Reply(f, Ready(BatchSize), TRUE)
  /\ outbox' = Delivered(Ready(BatchSize))
  /\ UNCHANGED faults

\* telemetry.drain: read-only.
HandleDrain ==
  /\ down # <<>>
  /\ LET f == Head(down)
     IN  f.kind = "drain" /\ Reply(f, Ready(BatchSize), TRUE)
  /\ UNCHANGED <<outbox, faults>>

\* telemetry.ack: mark every id, then answer.
HandleAck ==
  /\ down # <<>>
  /\ LET f == Head(down)
     IN  f.kind = "ack" /\ outbox' = Delivered(f.ids) /\ Reply(f, {}, TRUE)
  /\ UNCHANGED faults

\* The store fails: a drain reads nothing; an ack, which is not a transaction,
\* stops at some id and leaves the earlier ones delivered.
HandleFails ==
  /\ down # <<>>
  /\ Fault
  /\ LET f == Head(down)
     IN  /\ \/ f.kind = "drain" /\ UNCHANGED outbox
            \/ f.kind = "ack" /\ \E at \in f.ids :
                 outbox' = Delivered({i \in f.ids : i < at})
         /\ Reply(f, {}, FALSE)

-----------------------------------------------------------------------------
(* The Platform receives answers and ingests.                               *)

\* resolve: the handler of connection k reads a command.result.  Nobody waits
\* for an orphan.  A failed or empty drain ends the pull; so does any ack.
Resolve(k) ==
  /\ k \in handlers /\ up[k] # <<>>
  /\ up' = [up EXCEPT ![k] = Tail(@)]
  /\ LET f == Head(up[k])
     IN  puller' = IF f.caller = NoConn THEN puller
                   ELSE [puller EXCEPT ![f.caller] =
                           IF f.kind = "drain" /\ f.ok /\ f.ids # {}
                           THEN [phase |-> "ingesting", batch |-> f.ids]
                           ELSE Idle("waiting")]
  /\ UNCHANGED <<mwVars, down, hubVars, blocked, dbVars, envVars>>

Accepted(p)   == {r \in p : outbox[r].dev \notin blocked /\ r \notin DOMAIN stored}
Duplicates(p) == {r \in p : outbox[r].dev \notin blocked /\ r \in DOMAIN stored}
Refused(p)    == {r \in p : outbox[r].dev \in blocked}

\* Mutant of Outcome: a payload seen before is judged again.
OutcomeRecounted(p) ==
  [accepted  |-> Cardinality(Accepted(p)),
   duplicate |-> Cardinality(Duplicates(p)),
   rejected  |-> Cardinality(Refused(p))]

\* IngestRaw with no idempotency key: the key is the payload's own hash.  A
\* payload seen before returns the STORED result and touches nothing; a new one
\* is judged reading by reading in the transaction that stores the result.
Outcome(p) ==
  IF p \in DOMAIN batches THEN batches[p]
  ELSE [accepted  |-> Cardinality(Accepted(p)),
        duplicate |-> Cardinality(Duplicates(p)),
        rejected  |-> Cardinality(Refused(p))]

Progress(res) == res.accepted > 0 \/ res.duplicate > 0

CommitBatch(p) ==
  /\ batches' = [q \in DOMAIN batches \cup {p} |-> IF q = p THEN Outcome(p) ELSE batches[q]]
  /\ stored' = IF p \in DOMAIN batches THEN stored
               ELSE [r \in DOMAIN stored \cup Accepted(p) |->
                       IF r \in DOMAIN stored THEN stored[r] ELSE p]

\* Mutant of Ingest: a batch refused outright is acknowledged like any other.
IngestAcksRefused(c) ==
  /\ puller[c].phase = "ingesting"
  /\ CommitBatch(puller[c].batch)
  /\ puller' = [puller EXCEPT ![c].phase = "acking"]
  /\ UNCHANGED <<mwVars, wireVars, hubVars, blocked, envVars>>

\* The batch is committed.  If every reading was refused the pull ends without
\* an ack; otherwise ALL drained ids are acknowledged.
Ingest(c) ==
  /\ puller[c].phase = "ingesting"
  /\ LET p == puller[c].batch
     IN  /\ CommitBatch(p)
         /\ puller' = IF Progress(Outcome(p)) THEN [puller EXCEPT ![c].phase = "acking"]
                                              ELSE [puller EXCEPT ![c] = Idle("waiting")]
  /\ UNCHANGED <<mwVars, wireVars, hubVars, blocked, envVars>>

\* Mutant of IngestFails: the error is logged and the ack sent all the same.
IngestFailsAcks(c) ==
  /\ puller[c].phase = "ingesting"
  /\ Fault
  /\ \/ UNCHANGED dbVars
     \/ CommitBatch(puller[c].batch)
  /\ puller' = [puller EXCEPT ![c].phase = "acking"]
  /\ UNCHANGED <<mwVars, wireVars, hubVars, blocked, toggles>>

\* The transaction fails and is rolled back, or commits but the error of the
\* commit's reply says otherwise: either way the puller sends no ack.
IngestFails(c) ==
  /\ puller[c].phase = "ingesting"
  /\ Fault
  /\ \/ UNCHANGED dbVars
     \/ CommitBatch(puller[c].batch)
  /\ puller' = [puller EXCEPT ![c] = Idle("waiting")]
  /\ UNCHANGED <<mwVars, wireVars, hubVars, blocked, toggles>>

\* An operator disables a plant or device, or registers or re-enables it.
Toggle(d) ==
  /\ toggles < MaxToggles
  /\ toggles' = toggles + 1
  /\ blocked' = IF d \in blocked THEN blocked \ {d} ELSE blocked \cup {d}
  /\ UNCHANGED <<mwVars, wireVars, hubVars, puller, dbVars, faults>>

-----------------------------------------------------------------------------
CommandLoop == HandleDrain \/ HandleAck

PullerStep(c) == SendDrain(c) \/ SendAck(c) \/ AckOffline(c) \/ Timeout(c) \/ Ingest(c)

Next ==
  \/ \E d \in Devices : Enqueue(d) \/ Toggle(d)
  \/ ClearDeliveryLogs
  \/ CleanupOld
  \/ \E c \in Conns : Connect(c)
  \/ MiddlewareDrops
  \/ \E c \in Conns : PlatformDrops(c)
  \/ PlatformCrashes
  \/ \E c \in Conns : PullerStep(c)
  \/ CommandLoop
  \/ HandleFails
  \/ \E c \in Conns : Resolve(c)
  \/ \E c \in Conns : IngestFails(c)

Spec == Init /\ [][Next]_vars

\* The dialler redials forever, the command loop and the handlers read what is
\* there, a dead peer is noticed (45 s deadline, 20 s heartbeat), and with API
\* polling enabled the puller runs its next slot.
Fairness ==
  /\ \A c \in Conns : WF_vars(PullerStep(c)) /\ WF_vars(Resolve(c))
  /\ WF_vars(\E c \in Conns : Connect(c))
  /\ WF_vars(CommandLoop)
  /\ WF_vars(dialled \notin handlers /\ MiddlewareDrops)
  /\ \A c \in Conns : WF_vars(c # dialled /\ PlatformDrops(c))

FairSpec == Spec /\ Fairness

-----------------------------------------------------------------------------
(* Properties.                                                              *)

\* Readings of batches the Platform committed and did not refuse outright.
Settled == UNION {p \in DOMAIN batches : Progress(batches[p])}

\* No row leaves the outbox before the Platform has committed a batch holding
\* its reading: whatever is lost, late, repeated or half done, and whichever
\* puller's ack it is, pullOnce acknowledges only after IngestRaw returned.
ReleasedAfterCommit ==
  \A i \in RowIds : outbox[i].status # "PENDING" => i \in Settled

\* Redelivery never counts a reading twice: each batch's accepted count is the
\* number of raw readings carrying its id, though the same rows may be offered
\* in several batches by two pullers at once (ON CONFLICT ... DO NOTHING).
AcceptedCountsRows ==
  \A p \in DOMAIN batches :
    batches[p].accepted = Cardinality({r \in DOMAIN stored : stored[r] = p})

\* Nothing is lost on the way: with no device refused, a reading that has left
\* the outbox is in the database. (A refused reading that shares its batch with
\* a stored one is acknowledged with it, pullOnce acknowledges drained.IDs.)
ReleasedIsStored ==
  \A i \in RowIds : outbox[i].status # "PENDING" => i \in DOMAIN stored

\* With finitely many faults and no refused device, every buffered reading is
\* eventually acknowledged, across reconnects, restarts and stale pullers.
EventuallyReleased == \A i \in 1..MaxRows : i \in Pending ~> i \in RowIds \ Pending

\* Once the operator has repaired for good what readings were refused for, what
\* is still buffered is eventually acknowledged: pullOnce leaves a refused batch
\* pending "so the operator can fix the rejection and retry".
RetriedAfterRepair == <>[](blocked = {}) => EventuallyReleased

\* The handoff as its design states it: a drain changes nothing at the site, a
\* reading is settled by a committed batch, and only settled rows are released.
Handoff == INSTANCE TwoPhaseHandoff
             WITH Readings <- 1..MaxRows, buffered <- Pending,
                  settled <- Settled, released <- RowIds \ Pending

TwoPhase == Handoff!Spec
=============================================================================
