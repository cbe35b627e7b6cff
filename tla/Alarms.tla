------------------------------- MODULE Alarms -------------------------------
(***************************************************************************)
(* Alarms.  Inside the transaction that stores a site's readings, every    *)
(* reading is judged against its device's alarm rules and against the      *)
(* alarm mappings of its register profile: alarm_event rows are opened and *)
(* closed, and once the transaction has committed the opened ones are      *)
(* mailed.  Operators edit rules and profiles, acknowledge events, and     *)
(* follow new events over a WebSocket that polls for ids beyond the last.  *)
(*                                                                         *)
(* The parties that interleave are the pullers' ingest transactions, two   *)
(* of one gateway while an old WebSocket is not yet known to be dead (see  *)
(* TelemetryPull), the operators' requests, the mailer's goroutines and    *)
(* the viewers' connections.  PostgreSQL runs at READ COMMITTED: a         *)
(* transaction sees what is committed and what it wrote itself.            *)
(*                                                                         *)
(* The plant of these devices is served by one gateway (the schema's       *)
(* one_middleware_per_plant) and none of its readings is refused.          *)
(***************************************************************************)
EXTENDS Naturals, FiniteSets

CONSTANTS
  Devices,      \* devices of one plant, all of one model
  Rules,        \* names for alarm_rule rows; a name is not reused
  Values,       \* values of the register that rules and mappings watch
  NoValue,      \* the reading does not carry that register
  Conditions,   \* conditions a rule may have: the set of values that breach it
  AlarmSets,    \* alarm mappings a profile may have: the set of values mapped
  Delays,       \* alarm_delay_seconds, counted in poll intervals
  Pullers,      \* puller goroutines of the gateway
  Users,        \* operators' acknowledge requests
  NoUser,       \* "not acknowledged"
  Viewers,      \* browser connections
  MaxReadings,  \* BOUND: readings the gateway has buffered
  MaxEdits,     \* BOUND: edits of rules and profiles
  MaxFaults     \* BOUND: failed transactions and crashes

ASSUME NameAssumption  == NoValue \notin Values /\ NoUser \notin Users
ASSUME RuleAssumption  == \A r \in Rules : r \notin Nat \X Values
ASSUME EditAssumption  == Conditions \subseteq SUBSET Values /\ AlarmSets \subseteq SUBSET Values
ASSUME BoundAssumption == Delays \subseteq Nat /\ {MaxReadings, MaxEdits, MaxFaults} \subseteq Nat

VARIABLES
  readings,  \* the gateway's readings in poll order; index k is also its time
  stored,    \* raw_register_reading: readings 1..stored are committed
  rules,     \* alarm_rule with its conditions
  profile,   \* the devices' register profile: generation of its mapping ids, mappings
  events,    \* alarm_event: id -> row, as committed
  lastId,    \* alarm_event's identity sequence; never rolled back
  tx,        \* each puller's ingest transaction
  mail,      \* events handed to a mailer goroutine
  ack,       \* the row each acknowledge request has locked
  tail,      \* realtime connections: last id seen
  edits, faults

editVars   == <<rules, profile, edits>>
storeVars  == <<readings, stored>>
alarmVars  == <<events, lastId>>
peopleVars == <<ack, tail>>
vars       == <<storeVars, editVars, alarmVars, tx, mail, peopleVars, faults>>

Reading  == [dev : Devices, value : Values \cup {NoValue}]
Rule     == [state : {"none", "on", "off", "deleted"}, dev : Devices, delay : Delays,
             breach : SUBSET Values]
Sources  == Rules \cup (Nat \X Values)   \* a rule, or a mapping: <<generation, value>>
Row      == [src : Sources, dev : Devices, at : Nat, state : {"open", "cleared", "deleted"},
             ack : Users \cup {NoUser}]
Listed   == [rule : Rules, delay : Nat, last : Nat]
Phases   == {"idle", "inserting", "judging"}

TypeOK ==
  /\ readings \in [1..MaxReadings -> Reading]
  /\ stored \in Nat
  /\ rules \in [Rules -> Rule]
  /\ profile \in [gen : Nat, alarms : SUBSET Values]
  /\ DOMAIN events \subseteq 1..lastId
  /\ \A id \in DOMAIN events : events[id] \in Row
  /\ lastId \in Nat
  /\ DOMAIN tx = Pullers
  /\ \A p \in Pullers :
       /\ tx[p].phase \in Phases
       /\ tx[p].at \in Nat /\ tx[p].last \in Nat
       /\ tx[p].listed \subseteq Listed
       /\ DOMAIN tx[p].rows \subseteq 1..lastId
       /\ \A id \in DOMAIN tx[p].rows : tx[p].rows[id] \in Row
  /\ mail \subseteq 1..lastId
  /\ ack \in [Users -> Nat]
  /\ tail \in [Viewers -> [on : BOOLEAN, cursor : Nat]]
  /\ edits \in Nat /\ faults \in Nat

Empty == [id \in {} |-> 0]

Idle == [phase |-> "idle", at |-> 0, last |-> 0, listed |-> {}, rows |-> Empty]

Init ==
  /\ readings \in [1..MaxReadings -> Reading]
  /\ stored = 0
  /\ rules \in [Rules -> [state : {"none", "on"}, dev : Devices, delay : Delays, breach : Conditions]]
  /\ profile \in [gen : {0}, alarms : AlarmSets]
  /\ events = Empty
  /\ lastId = 0
  /\ tx = [p \in Pullers |-> Idle]
  /\ mail = {}
  /\ ack = [u \in Users |-> 0]
  /\ tail = [v \in Viewers |-> [on |-> FALSE, cursor |-> 0]]
  /\ edits = 0 /\ faults = 0

Fault == faults < MaxFaults /\ faults' = faults + 1

Edit == edits < MaxEdits /\ edits' = edits + 1

-----------------------------------------------------------------------------
(* alarm_event as a transaction sees it.  tx[p].rows holds the rows p has   *)
(* inserted, updated or locked and nobody else may write until it ends.     *)

Over(f, g) == [id \in DOMAIN f \cup DOMAIN g |-> IF id \in DOMAIN f THEN f[id] ELSE g[id]]

Visible(p) == Over(tx[p].rows, events)

OpenOf(table, src) == {id \in DOMAIN table : table[id].src = src /\ table[id].state = "open"}

\* Nobody else's transaction holds one of these rows.
Free(p, ids) ==
  /\ \A q \in Pullers \ {p} : DOMAIN tx[q].rows \cap ids = {}
  /\ \A u \in Users : ack[u] \notin ids

Opened(src, d, k) == [src |-> src, dev |-> d, at |-> k, state |-> "open", ack |-> NoUser]

Cleared(table, ids) == [id \in ids |-> [table[id] EXCEPT !.state = "cleared"]]

-----------------------------------------------------------------------------
(* IngestRaw.                                                               *)

\* A puller ingests a drained batch.  Its first reading is at most the one after the
\* last stored (rows leave the outbox only once stored), and every reading it finds
\* stored is a duplicate, judged no more.
Begin(p) ==
  /\ tx[p].phase = "idle"
  /\ \E last \in (stored + 1)..MaxReadings :
       tx' = [tx EXCEPT ![p] = [Idle EXCEPT !.phase = "inserting", !.last = last]]
  /\ UNCHANGED <<storeVars, editVars, alarmVars, mail, peopleVars, faults>>

\* Readings q has inserted and not committed.
Inserted(q) == IF tx[q].at = 0 THEN {} ELSE (stored + 1)..tx[q].at

\* The next reading of the batch that is not stored.
NextNew(p) == IF tx[p].at = 0 THEN stored + 1 ELSE tx[p].at + 1

\* max(breached_at) of a rule's events, 0 when there are none.
LastBreach(table, r) ==
  LET ats == {0} \cup {table[id].at : id \in {i \in DOMAIN table :
                          table[i].src = r /\ table[i].state # "deleted"}}
  IN  {t \in ats : \A s \in ats : s <= t}

ActiveRules(d) == {r \in Rules : rules[r].state = "on" /\ rules[r].dev = d}

\* evaluateAlarms' first query: the device's active rules, when each alarmed last.
ListRules(p, d) ==
  UNION {{[rule |-> r, delay |-> rules[r].delay, last |-> t] : t \in LastBreach(Visible(p), r)} :
           r \in ActiveRules(d)}

\* Mutant of InsertReading: no unique key makes one transaction wait for another.
InsertReadingAnyway(p) ==
  /\ tx[p].phase = "inserting" /\ NextNew(p) <= tx[p].last
  /\ tx' = [tx EXCEPT ![p].phase = "judging", ![p].at = NextNew(p),
                      ![p].listed = ListRules(p, readings[NextNew(p)].dev)]
  /\ UNCHANGED <<storeVars, editVars, alarmVars, mail, peopleVars, faults>>

\* ON CONFLICT DO NOTHING: the unique key makes the insert wait for a transaction
\* that has inserted the same reading and not ended.
InsertReading(p) ==
  /\ tx[p].phase = "inserting" /\ NextNew(p) <= tx[p].last
  /\ \A q \in Pullers \ {p} : NextNew(p) \notin Inserted(q)
  /\ tx' = [tx EXCEPT ![p].phase = "judging", ![p].at = NextNew(p),
                      ![p].listed = ListRules(p, readings[NextNew(p)].dev)]
  /\ UNCHANGED <<storeVars, editVars, alarmVars, mail, peopleVars, faults>>

-----------------------------------------------------------------------------
(* Judging the inserted reading, rule by rule, then by the mappings.        *)

Breaches(l, v) == v \in rules[l.rule].breach

\* AlarmSuppressed: the rule alarmed less than its delay ago.
Suppressed(l, k) == l.delay > 0 /\ l.last > 0 /\ k < l.last + l.delay

\* Rule l is judged; rows are what the transaction writes.
Judged(p, l, rows) ==
  tx' = [tx EXCEPT ![p].listed = @ \ {l}, ![p].rows = Over(rows, @)]

AtRule(p, l) == tx[p].phase = "judging" /\ l \in tx[p].listed

\* The point is missing, or the rule breaches but is suppressed or open already (the
\* id that ON CONFLICT DO NOTHING then wastes is one more gap in the sequence).
LeaveRule(p, l) ==
  /\ AtRule(p, l)
  /\ LET k == tx[p].at
         v == readings[k].value
     IN  \/ v = NoValue
         \/ /\ Breaches(l, v)
            /\ Suppressed(l, k) \/ OpenOf(Visible(p), l.rule) # {}
  /\ Judged(p, l, Empty)
  /\ UNCHANGED <<storeVars, editVars, alarmVars, mail, peopleVars, faults>>

\* INSERT ... ON CONFLICT DO NOTHING: one open event per rule.
OpenRuleEvent(p, l) ==
  /\ AtRule(p, l)
  /\ LET k == tx[p].at
     IN  /\ Breaches(l, readings[k].value) /\ ~Suppressed(l, k)
         /\ OpenOf(Visible(p), l.rule) = {}
         /\ Judged(p, l, [id \in {lastId + 1} |-> Opened(l.rule, readings[k].dev, k)])
  /\ lastId' = lastId + 1
  /\ UNCHANGED <<storeVars, editVars, events, mail, peopleVars, faults>>

\* Mutant of ClearRuleEvent: a suppressed breach falls through to the clear.
ClearRuleEventAnyway(p, l) ==
  /\ AtRule(p, l)
  /\ LET v == readings[tx[p].at].value
         open == OpenOf(Visible(p), l.rule)
     IN  /\ v # NoValue /\ (~Breaches(l, v) \/ Suppressed(l, tx[p].at))
         /\ Free(p, open)
         /\ Judged(p, l, Cleared(Visible(p), open))
  /\ UNCHANGED <<storeVars, editVars, alarmVars, mail, peopleVars, faults>>

\* The reading does not breach the rule: its open event, if any, is cleared.
ClearRuleEvent(p, l) ==
  /\ AtRule(p, l)
  /\ LET v == readings[tx[p].at].value
         open == OpenOf(Visible(p), l.rule)
     IN  /\ v # NoValue /\ ~Breaches(l, v)
         /\ Free(p, open)
         /\ Judged(p, l, Cleared(Visible(p), open))
  /\ UNCHANGED <<storeVars, editVars, alarmVars, mail, peopleVars, faults>>

\* The mapping of an alarm address, EXACT mode, that matches a value.
Active(v) == IF v \in profile.alarms THEN {<<profile.gen, v>>} ELSE {}

OpenRegisterEvents(table, d) ==
  {id \in DOMAIN table : table[id].src \notin Rules /\ table[id].dev = d
                          /\ table[id].state = "open"}

\* evaluateRegisterAlarms: the device's open events are locked; those whose mapping
\* is not active now, or whose register is missing, are closed, and an active
\* mapping with none is given one.
JudgeMappings(p) ==
  /\ tx[p].phase = "judging" /\ tx[p].listed = {}
  /\ LET k      == tx[p].at
         d      == readings[k].dev
         active == Active(readings[k].value)
         open   == OpenRegisterEvents(Visible(p), d)
         toClose == {id \in open : Visible(p)[id].src \notin active}
         toOpen  == active \ {Visible(p)[id].src : id \in open}
         held    == [id \in open |-> IF id \in toClose THEN Cleared(Visible(p), open)[id]
                                                        ELSE Visible(p)[id]]
         new     == [id \in {i \in {lastId + 1} : toOpen # {}} |->
                       Opened(CHOOSE src \in toOpen : TRUE, d, k)]
     IN  /\ Free(p, open)
         /\ lastId' = IF toOpen = {} THEN lastId ELSE lastId + 1
         /\ tx' = [tx EXCEPT ![p].phase = "inserting",
                             ![p].rows = Over(Over(new, held), @)]
  /\ UNCHANGED <<storeVars, editVars, events, mail, peopleVars, faults>>

NewIds(p) == DOMAIN tx[p].rows \ DOMAIN events

Committed(p) ==
  /\ events' = Over(tx[p].rows, events)
  /\ stored' = IF tx[p].at = 0 THEN stored ELSE tx[p].at

\* Every reading of the batch is done: commit, then mail what was opened.
Commit(p) ==
  /\ tx[p].phase = "inserting" /\ NextNew(p) > tx[p].last
  /\ Committed(p)
  /\ mail' = mail \cup NewIds(p)
  /\ tx' = [tx EXCEPT ![p] = Idle]
  /\ UNCHANGED <<readings, editVars, lastId, peopleVars, faults>>

\* Mutant of IngestFails: the breaches found so far are mailed all the same.
IngestFailsMails(p) ==
  /\ tx[p].phase # "idle"
  /\ Fault
  /\ tx' = [tx EXCEPT ![p] = Idle]
  /\ mail' = mail \cup NewIds(p)
  /\ UNCHANGED <<storeVars, editVars, alarmVars, peopleVars>>

\* Some statement fails, or the rule of an event being opened was just deleted:
\* everything is rolled back, the sequence excepted.  Or the commit succeeds and its
\* reply is lost.  Either way nothing is mailed and the rows are drained again.
IngestFails(p) ==
  /\ tx[p].phase # "idle"
  /\ Fault
  /\ tx' = [tx EXCEPT ![p] = Idle]
  /\ \/ UNCHANGED <<events, stored>>
     \/ tx[p].phase = "inserting" /\ NextNew(p) > tx[p].last /\ Committed(p)
  /\ UNCHANGED <<readings, editVars, lastId, mail, peopleVars>>

-----------------------------------------------------------------------------
(* Operators: rules, profiles, acknowledgements.                            *)

CreateAlarmRule(r) ==
  /\ Edit
  /\ rules[r].state = "none"
  /\ \E new \in [state : {"on"}, dev : Devices, delay : Delays, breach : Conditions] :
       rules' = [rules EXCEPT ![r] = new]
  /\ UNCHANGED <<storeVars, profile, alarmVars, tx, mail, peopleVars, faults>>

\* lockAlarmRule waits for a transaction that has inserted an event of the rule (it
\* shares a lock on the row its event refers to).  Open events stay as they are.
UpdateAlarmRule(r) ==
  /\ Edit
  /\ rules[r].state \in {"on", "off"}
  /\ \A p \in Pullers : \A id \in NewIds(p) : tx[p].rows[id].src # r
  /\ \E new \in [state : {"on", "off"}, dev : {rules[r].dev}, delay : Delays, breach : Conditions] :
       rules' = [rules EXCEPT ![r] = new]
  /\ UNCHANGED <<storeVars, profile, alarmVars, tx, mail, peopleVars, faults>>

EventsOf(r) == {id \in DOMAIN events : events[id].src = r}

\* The rule goes with its conditions and, by cascade, its events; this waits for
\* whoever holds one of them.
DeleteAlarmRule(r) ==
  /\ Edit
  /\ rules[r].state \in {"on", "off"}
  /\ \A p \in Pullers : \A id \in DOMAIN tx[p].rows : tx[p].rows[id].src # r
  /\ \A u \in Users : ack[u] \notin EventsOf(r)
  /\ rules' = [rules EXCEPT ![r].state = "deleted", ![r].breach = {}]
  /\ events' = [id \in DOMAIN events |->
                  IF id \in EventsOf(r) THEN [events[id] EXCEPT !.state = "deleted"]
                  ELSE events[id]]
  /\ UNCHANGED <<storeVars, profile, lastId, tx, mail, peopleVars, faults>>

\* UpsertRegisterProfileAddress: the address's mappings are deleted and inserted
\* again under new ids, also those that stay what they were.
SaveProfileAddress ==
  /\ Edit
  /\ \E alarms \in AlarmSets : profile' = [gen |-> profile.gen + 1, alarms |-> alarms]
  /\ UNCHANGED <<storeVars, rules, alarmVars, tx, mail, peopleVars, faults>>

\* Mutant of LockEvent: the row is read without FOR UPDATE.
ReadEvent(u, id) ==
  /\ ack[u] = 0
  /\ events[id].state # "deleted" /\ events[id].ack = NoUser
  /\ ack' = [ack EXCEPT ![u] = id]
  /\ UNCHANGED <<storeVars, editVars, alarmVars, tx, mail, tail, faults>>

\* AcknowledgeAlarmEvent: SELECT ... FOR UPDATE; an event acknowledged already is
\* left alone ...
LockEvent(u, id) ==
  /\ ack[u] = 0
  /\ events[id].state # "deleted" /\ events[id].ack = NoUser
  /\ \A w \in Users : ack[w] # id
  /\ \A p \in Pullers : id \notin DOMAIN tx[p].rows
  /\ ack' = [ack EXCEPT ![u] = id]
  /\ UNCHANGED <<storeVars, editVars, alarmVars, tx, mail, tail, faults>>

\* ... and any other is acknowledged by this user.
Acknowledge(u) ==
  /\ ack[u] # 0
  /\ events' = [events EXCEPT ![ack[u]].ack = u]
  /\ ack' = [ack EXCEPT ![u] = 0]
  /\ UNCHANGED <<storeVars, editVars, lastId, tx, mail, tail, faults>>

AcknowledgeFails(u) ==
  /\ ack[u] # 0
  /\ Fault
  /\ ack' = [ack EXCEPT ![u] = 0]
  /\ UNCHANGED <<storeVars, editVars, alarmVars, tx, mail, tail>>

-----------------------------------------------------------------------------
(* Viewers.                                                                 *)

Existing == {id \in DOMAIN events : events[id].state # "deleted"}

\* COALESCE(max(id), 0).
LatestAlarmEventID == {i \in Existing \cup {0} : \A j \in Existing : j <= i}

\* A browser connects: history is not replayed.
Watch(v) ==
  /\ ~tail[v].on
  /\ \E id \in LatestAlarmEventID : tail' = [tail EXCEPT ![v] = [on |-> TRUE, cursor |-> id]]
  /\ UNCHANGED <<storeVars, editVars, alarmVars, tx, mail, ack, faults>>

\* AlarmEventsSince: every tick sends the events beyond the cursor and moves it.
Tick(v) ==
  /\ tail[v].on
  /\ \E id \in LatestAlarmEventID :
       /\ tail[v].cursor < id
       /\ tail' = [tail EXCEPT ![v].cursor = id]
  /\ UNCHANGED <<storeVars, editVars, alarmVars, tx, mail, ack, faults>>

Leave(v) ==
  /\ tail[v].on
  /\ tail' = [tail EXCEPT ![v] = [on |-> FALSE, cursor |-> 0]]
  /\ UNCHANGED <<storeVars, editVars, alarmVars, tx, mail, ack, faults>>

\* The Platform dies: open transactions are rolled back.
PlatformCrashes ==
  /\ Fault
  /\ tx' = [p \in Pullers |-> Idle]
  /\ ack' = [u \in Users |-> 0]
  /\ tail' = [v \in Viewers |-> [on |-> FALSE, cursor |-> 0]]
  /\ UNCHANGED <<storeVars, editVars, alarmVars, mail>>

-----------------------------------------------------------------------------

IngestStep(p) ==
  \/ Begin(p) \/ InsertReading(p)
  \/ \E l \in tx[p].listed : LeaveRule(p, l) \/ OpenRuleEvent(p, l) \/ ClearRuleEvent(p, l)
  \/ JudgeMappings(p) \/ Commit(p) \/ IngestFails(p)

RuleEdit(r) == CreateAlarmRule(r) \/ UpdateAlarmRule(r) \/ DeleteAlarmRule(r)

Next ==
  \/ \E p \in Pullers : IngestStep(p)
  \/ \E r \in Rules : RuleEdit(r)
  \/ SaveProfileAddress
  \/ \E u \in Users : (\E id \in DOMAIN events : LockEvent(u, id))
                      \/ Acknowledge(u) \/ AcknowledgeFails(u)
  \/ \E v \in Viewers : Watch(v) \/ Tick(v) \/ Leave(v)
  \/ PlatformCrashes

Spec == Init /\ [][Next]_vars

-----------------------------------------------------------------------------
(* The alarm log the readings themselves call for, reading by reading and   *)
(* with no transaction, batch, retry or lock.                               *)

\* What a rule's log is after reading k (rds[k]), given what it was: when it alarmed, and whether it is open.
RuleStep(rule, rds, k, was) ==
  LET v    == rds[k].value
      held == rule.delay > 0 /\ \E t \in was.ats : k < t + rule.delay
  IN  IF rds[k].dev # rule.dev \/ v = NoValue THEN was
      ELSE IF v \notin rule.breach THEN [ats |-> was.ats, open |-> FALSE]
      ELSE IF was.open \/ held THEN was
      ELSE [ats |-> was.ats \cup {k}, open |-> TRUE]

RuleLogOf(rule, rds) ==
  LET log[k \in 0..MaxReadings] ==
        IF k = 0 THEN [ats |-> {}, open |-> FALSE] ELSE RuleStep(rule, rds, k, log[k - 1])
  IN  log

RuleLog(r) == RuleLogOf(rules[r], readings)

\* When the mappings of device d's profile alarmed, and the one that is open; now[k] is
\* the mapping that reading k matches.
RegisterStep(d, rds, now, k, was) ==
  IF rds[k].dev # d THEN was
  ELSE [ats |-> was.ats \cup {<<s, k>> : s \in now[k] \ was.open}, open |-> now[k]]

RegisterLogOf(d, rds, now) ==
  LET log[k \in 0..MaxReadings] ==
        IF k = 0 THEN [ats |-> {}, open |-> {}] ELSE RegisterStep(d, rds, now, k, log[k - 1])
  IN  log

Matched == [k \in 1..MaxReadings |-> Active(readings[k].value)]

RegisterLog(d) == RegisterLogOf(d, readings, Matched)

\* With rules and profile left alone the alarm log is a function of the stored
\* readings: however they were batched, redelivered, rolled back or raced for by
\* two pullers, the same events were opened, and the same ones are open.
LogFollowsReadings ==
  edits = 0 =>
    /\ \A r \in {q \in Rules : rules[q].state = "on"} :
         /\ {events[id].at : id \in EventsOf(r)} = RuleLog(r)[stored].ats
         /\ Cardinality(OpenOf(events, r)) = (IF RuleLog(r)[stored].open THEN 1 ELSE 0)
    /\ \A d \in Devices :
         LET own == {id \in DOMAIN events : events[id].src \notin Rules /\ events[id].dev = d}
         IN  /\ {<<events[id].src, events[id].at>> : id \in own} = RegisterLog(d)[stored].ats
             /\ {events[id].src : id \in OpenRegisterEvents(events, d)} = RegisterLog(d)[stored].open

\* The WebSocket's cursor is an id, and ids are given out before they are visible:
\* still no commit adds an event at or behind the cursor of a viewer, since the
\* ingest transactions of one gateway write one after the other.
NothingBehindTheTail ==
  [][\A v \in Viewers : tail[v].on =>
       \A id \in DOMAIN events' \ DOMAIN events : id > tail[v].cursor]_vars

\* Who acknowledged an event first stays on it: a second acknowledgement, or the
\* clear of a concurrent ingest, does not take its place.
FirstAcknowledgeStays ==
  [][\A id \in DOMAIN events :
       events[id].ack # NoUser => events'[id].ack = events[id].ack]_vars

\* "Email is sent only for newly opened events after commit": no mail goes out for
\* an event a rollback takes back, though breaches are gathered before the commit.
MailedIsCommitted == mail \subseteq DOMAIN events

=============================================================================
