------------------------------- MODULE Poller -------------------------------
(***************************************************************************)
(* The poll sweep of the Middleware: one goroutine that takes the          *)
(* maintenance gate, polls every enabled connection, reads its registers   *)
(* in blocks, leaves out a reading that repeats the last one and stores    *)
(* the others in the outbox.  A stage of a patch takes the same gate and   *)
(* waits for it.                                                           *)
(*                                                                         *)
(* One device set is in use.  What a device's registers hold is one value  *)
(* for all of them.  A register's address is unique within its function    *)
(* code, and a reading's values are kept by address alone, as in the code. *)
(***************************************************************************)
EXTENDS Integers, Sequences, FiniteSets, SequencesExt

CONSTANTS
  Connections,   \* enabled connections; dev_dn is unique, so also the devices
  Profiles,      \* device sets
  Swept,         \* BOUND: those the sweep runs with
  Contents,      \* what registers may hold
  Heartbeats,    \* configured heartbeats; 0 stands for one out of range
  Default,       \* DefaultIdleHeartbeat
  None, Failed,
  MaxClock,      \* BOUND: the last instant
  MaxBack,       \* BOUND: times the clock steps back, by two instants
  MaxFaults,     \* BOUND: polls that meet a failure, failed statements, restarts
  MaxReads,      \* BOUND: failed or short reads in a poll
  MaxStages      \* BOUND: patches staged

ASSUME PollerAssumption ==
  /\ {Default, MaxClock, MaxBack, MaxFaults, MaxReads, MaxStages} \subseteq Nat /\ Heartbeats \subseteq Nat
  /\ Swept \subseteq Profiles /\ \A p \in Profiles : IsFiniteSet(p.registers)
  /\ Failed \notin Nat /\ IsFiniteSet(Connections)
  /\ None \notin Connections \cup {"error", "queued", "unchanged"}

VARIABLES
  profile,    \* the device set: mode, limit, registers
  plan,       \* the blocks its registers are read in
  yields,     \* what a poll by that plan may yield
  clock,      \* the system clock
  gate,       \* tokens in the channel of the maintenance gate
  stage,      \* stageUpdate: whether it waits for the gate or holds it
  sweep,      \* PollEnabledConnections: where it is and what it has in hand
  log,        \* what this sweep has logged for a connection
  baseline,   \* lastEnqueued
  heartbeat,  \* idleHeartbeat
  last,       \* the row of a device inserted last
  taken,      \* idempotency keys in the outbox
  backs, faults, stages

memory == <<sweep, baseline, heartbeat>>
outbox == <<last, taken>>
vars == <<profile, plan, yields, clock, gate, stage, memory, log, outbox, backs, faults, stages>>

Fault == faults < MaxFaults /\ faults' = faults + 1

-----------------------------------------------------------------------------
(* BuildBlocks.                                                             *)

\* The code's limit on a block: 30 unless set, and what Modbus allows.
Limit(p) == IF p.limit < 1 THEN 30 ELSE IF p.limit > 125 THEN 125 ELSE p.limit

\* ResolveModbusAddress: function code and first register on the wire.
ModbusAddress(mode, d) ==
  CASE mode = "ONE_BASED"      -> <<d.fc, d.address - 1>>
    [] mode = "REGISTER_30001" -> <<d.fc, d.address - 30001>>
    [] mode = "REGISTER_40001" -> <<d.fc, d.address - 40001>>
    [] mode = "FULL_NOTATION"  -> IF d.address \in 30000..39999 THEN <<3, d.address - 30000>>
                                  ELSE IF d.address \in 40000..49999 THEN <<4, d.address - 40000>>
                                  ELSE <<0, 0>>
    [] OTHER                   -> <<d.fc, d.address>>

EntryOf(p, d) ==
  LET at == ModbusAddress(p.mode, d)
  IN [fc |-> at[1], offset |-> at[2], length |-> d.length, address |-> d.address]

Entries(p) == {EntryOf(p, d) : d \in {r \in p.registers : r.enabled}}

End(e) == e.offset + e.length

\* One register out of range refuses the device set; the address space has
\* 65536 registers.
Readable(p) ==
  \A e \in Entries(p) : e.length \in 1..125 /\ e.fc \in {3, 4} /\ e.offset \in Nat /\ End(e) <= 65536

\* sort.Slice: by function code and offset, equal ones in either order.
Before(e, f) == e.fc < f.fc \/ (e.fc = f.fc /\ e.offset <= f.offset)
Orders(p) == {s \in SetToSeqs(Entries(p)) : \A i, j \in DOMAIN s : i < j => Before(s[i], s[j])}

\* Mutant: the block grows by the entry's length, also where they overlap.
JoinedByLength(b, e) == [b EXCEPT !.quantity = @ + e.length, !.entries = @ \cup {e}]

Joined(b, e) ==
  [b EXCEPT !.quantity = IF End(e) - b.start > @ THEN End(e) - b.start ELSE @, !.entries = @ \cup {e}]

NewBlock(e) == [fc |-> e.fc, start |-> e.offset, quantity |-> e.length, entries |-> {e}]

Fits(b, e, limit) ==
  b.fc = e.fc /\ e.offset <= b.start + b.quantity /\ End(e) - b.start <= limit

\* The entry joins the last block, or begins one.
Added(blocks, e, limit) ==
  IF blocks # <<>> /\ Fits(blocks[Len(blocks)], e, limit)
  THEN [blocks EXCEPT ![Len(blocks)] = Joined(@, e)]
  ELSE Append(blocks, NewBlock(e))

\* Element n: the blocks of the first n entries.
Stages(p, order) ==
  LET built[n \in 0..Len(order)] ==
        IF n = 0 THEN <<>> ELSE Added(built[n - 1], order[n], Limit(p))
  IN built

BuildBlocks(p, order) == Stages(p, order)[Len(order)]

Plans(p) == IF Readable(p) THEN {BuildBlocks(p, order) : order \in Orders(p)} ELSE {<<>>}

-----------------------------------------------------------------------------
(* PollConnection: what reads and failures make of the device set.          *)

Request(e) == [fc |-> e.fc, start |-> e.offset, quantity |-> e.length]
BlockRequest(b) == [fc |-> b.fc, start |-> b.start, quantity |-> b.quantity]

\* The entries of a block that failed are read one by one, unless that would
\* repeat the read.
Alone(b) == \E e \in b.entries : b.entries = {e} /\ b.quantity = e.length

\* Mutant: an entry of a failed block is not read on its own.
NotRetried(b, got) == {}

Retried(b, got) == IF got[BlockRequest(b)] = Failed /\ ~Alone(b) THEN b.entries ELSE {}

\* decodeEntry: enough registers came back, and they hold a value.
Decoded(e, base, n, sentinel) == e.offset - base + e.length <= n /\ e \notin sentinel

\* What the reads of the blocks yield when they answer got[r] registers or fail.
Outcome(blocks, got, sentinel) ==
  LET read   == UNION {{<<b.start, got[BlockRequest(b)], e>> : e \in b.entries} :
                         b \in {b \in blocks : got[BlockRequest(b)] # Failed}}
      again  == UNION {Retried(b, got) : b \in blocks}
      single == {<<e.offset, got[Request(e)], e>> : e \in {e \in again : got[Request(e)] # Failed}}
      good   == {r \in read \cup single : Decoded(r[3], r[1], r[2], sentinel)}
  IN [addresses |-> {r[3].address : r \in good},
      failures  |-> {BlockRequest(b) : b \in {b \in blocks : got[BlockRequest(b)] = Failed}}
               \cup {Request(e) : e \in {e \in again : got[Request(e)] = Failed}}
               \cup {Request(r[3]) : r \in (read \cup single) \ good},
      faults    |-> IF sentinel = {} /\ \A r \in DOMAIN got : got[r] = r.quantity THEN 0 ELSE 1]

\* Up to MaxReads reads fail or answer one register, and one register may hold a
\* value that means nothing.
Outcomes(p, q) ==
  LET blocks   == {q[i] : i \in DOMAIN q}
      requests == {BlockRequest(b) : b \in blocks} \cup {Request(e) : e \in Entries(p)}
      answers  == UNION {{[r \in requests |-> IF r \in bad THEN worse[r] ELSE r.quantity] :
                            worse \in [bad -> {Failed, 1}]} :
                           bad \in {s \in SUBSET requests : Cardinality(s) <= MaxReads}}
  IN {o \in {Outcome(blocks, got, sentinel) : got \in answers, sentinel \in {{}} \cup {{e} : e \in Entries(p)}} :
        o.addresses # {}}

-----------------------------------------------------------------------------

Nothing == [at |-> "idle", todo |-> {}, connection |-> None, reading |-> None]
Reading == [addresses : {o.addresses : o \in yields}, content : Contents, at : Nat,
            failures : {o.failures : o \in yields}]
Row == [addresses : {o.addresses : o \in yields}, content : Contents, at : Nat]

PollerTypeOK ==
  /\ clock \in Nat /\ gate \in 0..1
  /\ stage \in {"idle", "waiting", "holding"}
  /\ sweep \in [at : {"idle", "next", "filter", "store"}, todo : SUBSET Connections,
                connection : Connections \cup {None}, reading : Reading \cup {None}]
  /\ log \in [Connections -> {None, "error", "queued", "unchanged"}]
  /\ baseline \in [Connections -> Row \cup {None}] /\ last \in [Connections -> Row \cup {None}]
  /\ heartbeat \in Nat
  /\ taken \subseteq Connections \X Nat

PollerInit ==
  /\ profile \in Profiles
  /\ plan \in Plans(profile)
  /\ yields = IF profile \in Swept THEN Outcomes(profile, plan) ELSE {}
  /\ clock = 0 /\ gate = 1 /\ stage = "idle"
  /\ sweep = Nothing
  /\ log = [c \in Connections |-> None]
  /\ baseline = [c \in Connections |-> None] /\ heartbeat = 0
  /\ last = [c \in Connections |-> None] /\ taken = {}
  /\ backs = 0 /\ faults = 0 /\ stages = 0

\* The token goes to a stage that waits for it, or into the channel.
EndPoll ==
  IF stage = "waiting" THEN stage' = "holding" /\ UNCHANGED gate
  ELSE gate' = gate + 1 /\ UNCHANGED stage

\* runPollScan's next round, with the token.  Its bound leaves the clock room
\* for every connection, and most device sets are only planned.
TryBeginPoll ==
  /\ sweep.at = "idle" /\ gate > 0 /\ profile \in Swept
  /\ gate' = gate - 1
  /\ clock + Cardinality(Connections) <= MaxClock
  /\ sweep' = [Nothing EXCEPT !.at = "next", !.todo = Connections]
  /\ \E h \in Heartbeats : heartbeat' = h
  /\ UNCHANGED <<profile, plan, yields, clock, stage, log, baseline, outbox, backs, faults, stages>>

\* Mutant: the token is returned by the sweep that comes to its end only.
TokenKept == UNCHANGED <<gate, stage>>

\* GatewayConfig fails: the deferred endPoll runs all the same.
TokenBack == EndPoll

SweepFails ==
  /\ sweep.at = "next" /\ sweep.todo = Connections
  /\ Fault
  /\ sweep' = Nothing
  /\ TokenBack
  /\ UNCHANGED <<profile, plan, yields, clock, log, baseline, heartbeat, outbox, backs, stages>>

\* The sweep logs how the poll of c ended and goes on with the next.
Logged(c, status) ==
  /\ log' = [log EXCEPT ![c] = status]
  /\ sweep' = [Nothing EXCEPT !.at = "next", !.todo = sweep.todo \ {c}]

\* Mutant: the first connection that fails ends the sweep.
StopsHere(c) == log' = [log EXCEPT ![c] = "error"] /\ sweep' = [Nothing EXCEPT !.at = "next"]

\* Mutant: a connection that fails is polled until it does not.
TryAgain(c) == log' = [log EXCEPT ![c] = "error"] /\ UNCHANGED sweep

PollError(c) == Logged(c, "error")

Refused == ~Readable(profile) \/ Entries(profile) = {}

\* The device set is refused or has no register, or its row is gone, or no read
\* yields a value.
PollConnectionFails(c) ==
  /\ sweep.at = "next" /\ c \in sweep.todo
  /\ IF Refused THEN UNCHANGED faults ELSE Fault
  /\ PollError(c)
  /\ UNCHANGED <<profile, plan, yields, clock, gate, stage, baseline, heartbeat, outbox, backs, stages>>

\* A poll that yields something takes one instant.
PollConnection(c) ==
  /\ sweep.at = "next" /\ c \in sweep.todo
  /\ Readable(profile)
  /\ \E content \in Contents, outcome \in yields :
       /\ faults' = faults + outcome.faults /\ faults' <= MaxFaults
       /\ sweep' = [sweep EXCEPT !.at = "filter", !.connection = c,
            !.reading = [addresses |-> outcome.addresses, content |-> content,
                         at |-> clock, failures |-> outcome.failures]]
  /\ clock' = clock + 1
  /\ UNCHANGED <<profile, plan, yields, gate, stage, log, baseline, heartbeat, outbox, backs, stages>>

-----------------------------------------------------------------------------
(* Enqueue.                                                                 *)

Taken(r) == [addresses |-> r.addresses, content |-> r.content, at |-> r.at]
SameValues(r, s) == r.addresses = s.addresses /\ r.content = s.content

Due == IF heartbeat = 0 THEN Default ELSE heartbeat

\* Mutant: a baseline newer than the reading counts as well.
RepeatsAnyTime(c, r) ==
  baseline[c] # None /\ SameValues(baseline[c], r) /\ r.at - baseline[c].at < Due

Repeats(c, r) ==
  /\ baseline[c] # None /\ SameValues(baseline[c], r)
  /\ r.at >= baseline[c].at /\ r.at - baseline[c].at < Due

InHand == sweep.connection

\* skipUnchanged leaves the reading out.
SkipUnchanged ==
  /\ sweep.at = "filter"
  /\ Repeats(InHand, sweep.reading)
  /\ Logged(InHand, "unchanged")
  /\ UNCHANGED <<profile, plan, yields, clock, gate, stage, baseline, heartbeat, outbox, backs, faults, stages>>

\* skipUnchanged lets it pass: it is the baseline before it is stored.
SetBaseline ==
  /\ sweep.at = "filter"
  /\ ~Repeats(InHand, sweep.reading)
  /\ sweep' = [sweep EXCEPT !.at = "store"]
  /\ baseline' = [baseline EXCEPT ![InHand] = Taken(sweep.reading)]
  /\ UNCHANGED <<profile, plan, yields, clock, gate, stage, log, heartbeat, outbox, backs, faults, stages>>

Key == <<InHand, sweep.reading.at>>

StoreCreates ==
  /\ sweep.at = "store" /\ Key \notin taken
  /\ last' = [last EXCEPT ![InHand] = Taken(sweep.reading)]
  /\ taken' = taken \cup {Key}
  /\ Logged(InHand, "queued")
  /\ UNCHANGED <<profile, plan, yields, clock, gate, stage, baseline, heartbeat, backs, faults, stages>>

\* Mutant: the baseline stays as it was set.
BaselineKept == UNCHANGED baseline

ForgetEnqueued == baseline' = [baseline EXCEPT ![InHand] = None]

\* INSERT OR IGNORE finds the key taken, or the statement fails.
StoreRejects(status) ==
  /\ sweep.at = "store"
  /\ IF status = "unchanged" THEN Key \in taken /\ UNCHANGED faults ELSE Fault
  /\ ForgetEnqueued
  /\ Logged(InHand, status)
  /\ UNCHANGED <<profile, plan, yields, clock, gate, stage, heartbeat, outbox, backs, stages>>

SweepEnds ==
  /\ sweep.at = "next" /\ sweep.todo = {}
  /\ sweep' = Nothing
  /\ log' = [c \in Connections |-> None]
  /\ EndPoll
  /\ UNCHANGED <<profile, plan, yields, clock, baseline, heartbeat, outbox, backs, faults, stages>>

-----------------------------------------------------------------------------
(* Maintenance, the clock, restarts.                                        *)

BeginMaintenance ==
  /\ stage = "idle"
  /\ stages < MaxStages /\ stages' = stages + 1
  /\ IF gate > 0 THEN gate' = gate - 1 /\ stage' = "holding"
     ELSE stage' = "waiting" /\ UNCHANGED gate
  /\ UNCHANGED <<profile, plan, yields, clock, memory, log, outbox, backs, faults>>

\* The stage's context ends before the sweep does.
MaintenanceExpires ==
  /\ stage = "waiting"
  /\ stage' = "idle"
  /\ UNCHANGED <<profile, plan, yields, clock, gate, memory, log, outbox, backs, faults, stages>>

\* However the stage ended, its release is deferred.
Release ==
  /\ stage = "holding"
  /\ stage' = "idle" /\ gate' = gate + 1
  /\ UNCHANGED <<profile, plan, yields, clock, memory, log, outbox, backs, faults, stages>>

ClockStepsBack ==
  /\ backs < MaxBack /\ backs' = backs + 1
  /\ sweep.at = "idle"
  /\ clock >= 2 /\ clock' = clock - 2
  /\ UNCHANGED <<profile, plan, yields, gate, stage, memory, log, outbox, faults, stages>>

Restart ==
  /\ Fault
  /\ gate' = 1 /\ stage' = "idle"
  /\ sweep' = Nothing /\ heartbeat' = 0
  /\ baseline' = [c \in Connections |-> None]
  /\ log' = [c \in Connections |-> None]
  /\ UNCHANGED <<profile, plan, yields, clock, outbox, backs, stages>>

SweepStep ==
  \/ SweepFails \/ SweepEnds
  \/ \E c \in Connections : PollConnection(c) \/ PollConnectionFails(c)
  \/ SkipUnchanged \/ SetBaseline \/ StoreCreates
  \/ \E status \in {"unchanged", "error"} : StoreRejects(status)

PollerNext ==
  \/ TryBeginPoll \/ SweepStep
  \/ BeginMaintenance \/ MaintenanceExpires \/ Release
  \/ ClockStepsBack \/ Restart

\* A sweep goes on: every read has a deadline and every statement ends.  A stage
\* ends: the context of its download does, after half an hour, and the progress
\* reports it writes, which have no deadline, end when TCP gives the connection
\* up.
PollerSpec ==
  PollerInit /\ [][PollerNext]_vars /\ WF_vars(SweepStep) /\ WF_vars(Release)

-----------------------------------------------------------------------------
(* Properties.                                                              *)

\* The registers a read of n asks for.
Span(x, first, n) == {<<x.fc, a>> : a \in first..(first + n - 1)}

\* The blocks of a device set, in whatever order the sort leaves equal offsets,
\* read every enabled register and nothing in between, and decode each in one
\* block only; no block is larger than the limit unless one register is, or runs
\* past the last address (BuildBlocks).  Where entries overlap, so may blocks.
BlocksPlan ==
  Readable(profile) =>
    LET blocks == {plan[i] : i \in DOMAIN plan}
    IN /\ UNION {b.entries : b \in blocks} = Entries(profile)
       /\ \A i, j \in DOMAIN plan : i # j => plan[i].entries \cap plan[j].entries = {}
       /\ \A b \in blocks : /\ b.start + b.quantity <= 65536
                            /\ b.quantity <= Limit(profile) \/ \E e \in b.entries : b.quantity = e.length
                            /\ Span(b, b.start, b.quantity) = UNION {Span(e, e.offset, e.length) : e \in b.entries}

\* An enabled register is in the reading, or the warning names the very read
\* that failed for it: a failed block, a short answer and a value that means
\* nothing cost no register but their own (PollConnection).  A reading knows an
\* address and not its function code: of two registers that share one, either
\* stands for both.
EveryRegisterAccounted ==
  sweep.reading # None =>
    \A e \in Entries(profile) :
      e.address \in sweep.reading.addresses \/ Request(e) \in sweep.reading.failures

\* The gate's token is in the channel, with a sweep or with a stage, never gone
\* and never doubled; a sweep and a stage do not run at once (BeginMaintenance:
\* "waits for any active polling sweep to finish, then Blocks new sweeps").
GateHasHolder ==
  gate + (IF sweep.at # "idle" THEN 1 ELSE 0) + (IF stage = "holding" THEN 1 ELSE 0) = 1

\* The baseline of a device is the row stored last for it, except while that is
\* being stored (skipUnchanged sets it first, Enqueue takes it back).
BaselineIsStored ==
  \A c \in Connections : baseline[c] # None =>
    baseline[c] = last[c] \/ (sweep.at = "store" /\ InHand = c)

\* A reading is left out as unchanged only when the row stored last for its
\* device says the same and is younger than the heartbeat; what is not left out
\* is stored or logged as an error (the key of a reading the clock has given
\* twice excepted).
SkippedIsSpokenFor ==
  [][\A c \in Connections : log'[c] = "unchanged" /\ log[c] = None /\ Key \notin taken =>
       /\ last[c] # None /\ SameValues(last[c], sweep.reading)
       /\ sweep.reading.at - last[c].at \in 0..(Due - 1)]_vars

\* A sweep that comes to its end has logged an outcome for every connection:
\* none that fails keeps the others from being polled.
EveryConnectionPolled ==
  [][SweepEnds => \A c \in Connections : log[c] # None]_vars

\* The gate comes back from whatever has taken it: the site never stops polling
\* for good.
GateReturns == gate = 0 ~> gate = 1
=============================================================================
