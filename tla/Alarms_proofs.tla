--------------------------- MODULE Alarms_proofs ---------------------------
(***************************************************************************)
(* Proofs about Alarms for any number of pullers, operators, viewers,      *)
(* devices, rules and readings.                                            *)
(***************************************************************************)
EXTENDS Alarms, FiniteSetTheorems, WellFoundedInduction, TLAPS

Rows == UNION {[S -> Row] : S \in SUBSET Nat}
Tx   == [phase : Phases, at : Nat, last : Nat, listed : SUBSET Listed, rows : Rows]

Types ==
  /\ readings \in [1..MaxReadings -> Reading]
  /\ stored \in Nat
  /\ rules \in [Rules -> Rule]
  /\ profile \in [gen : Nat, alarms : SUBSET Values]
  /\ events \in Rows
  /\ lastId \in Nat
  /\ tx \in [Pullers -> Tx]
  /\ ack \in [Users -> Nat]
  /\ tail \in [Viewers -> [on : BOOLEAN, cursor : Nat]]
  /\ edits \in Nat /\ faults \in Nat

\* A transaction stands inside its batch, beyond what is stored, and writes no event
\* before it has inserted a reading.
Batches ==
  \A p \in Pullers :
    /\ tx[p].last <= MaxReadings /\ tx[p].at <= tx[p].last
    /\ tx[p].at # 0 => stored < tx[p].at
    /\ tx[p].at = 0 => DOMAIN tx[p].rows = {}
    /\ tx[p].phase = "judging" => tx[p].at # 0

\* The unique key lets one transaction at a time have inserted readings.
OneWriter == \A p, q \in Pullers : tx[p].at # 0 /\ tx[q].at # 0 => p = q

KnownIds ==
  /\ DOMAIN events \subseteq 1..lastId
  /\ \A p \in Pullers : DOMAIN tx[p].rows \subseteq 1..lastId
  /\ mail \subseteq DOMAIN events

\* What is not committed has a greater id than all that is.
NewerIds == \A p \in Pullers : \A id \in NewIds(p) : \A j \in DOMAIN events : j < id

\* A viewer's cursor is a committed event's id.
Cursors == \A v \in Viewers : tail[v].cursor \in DOMAIN events \cup {0}

\* A transaction's version of a row has the acknowledgement of the committed one ...
SameAck ==
  \A p \in Pullers : \A id \in DOMAIN tx[p].rows \cap DOMAIN events :
    tx[p].rows[id].ack = events[id].ack

\* ... because whoever is about to acknowledge it holds it alone.
Locks ==
  \A u \in Users : ack[u] # 0 =>
    /\ ack[u] \in DOMAIN events /\ events[ack[u]].ack = NoUser
    /\ \A p \in Pullers : ack[u] \notin DOMAIN tx[p].rows
    /\ \A w \in Users : ack[w] = ack[u] => w = u

IndInv ==
  /\ Types /\ Batches /\ OneWriter /\ KnownIds
  /\ NewerIds /\ Cursors /\ SameAck /\ Locks

-----------------------------------------------------------------------------
(* Tables of events.                                                        *)

LEMMA RowsAre ==
  ASSUME NEW f
  PROVE  f \in Rows <=> /\ f = [id \in DOMAIN f |-> f[id]]
                        /\ DOMAIN f \subseteq Nat
                        /\ \A id \in DOMAIN f : f[id] \in Row
<1>1. ASSUME f \in Rows
      PROVE  /\ f = [id \in DOMAIN f |-> f[id]]
             /\ DOMAIN f \subseteq Nat /\ \A id \in DOMAIN f : f[id] \in Row
  <2>1. PICK S \in SUBSET Nat : f \in [S -> Row]  BY <1>1 DEF Rows
  <2> QED  BY <2>1
<1>2. ASSUME f = [id \in DOMAIN f |-> f[id]], DOMAIN f \subseteq Nat,
             \A id \in DOMAIN f : f[id] \in Row
      PROVE  f \in Rows
  <2>1. f \in [DOMAIN f -> Row]  BY <1>2
  <2>2. DOMAIN f \in SUBSET Nat  BY <1>2
  <2> QED  BY <2>1, <2>2 DEF Rows
<1> QED  BY <1>1, <1>2

\* Over(f, g) is g overwritten by f.
LEMMA OverIs ==
  ASSUME NEW f \in Rows, NEW g \in Rows
  PROVE  /\ Over(f, g) \in Rows
         /\ DOMAIN Over(f, g) = DOMAIN f \cup DOMAIN g
         /\ \A id \in DOMAIN f : Over(f, g)[id] = f[id]
         /\ \A id \in DOMAIN g \ DOMAIN f : Over(f, g)[id] = g[id]
<1> DEFINE h == Over(f, g)
<1>1. /\ DOMAIN h = DOMAIN f \cup DOMAIN g
      /\ \A id \in DOMAIN f : h[id] = f[id]
      /\ \A id \in DOMAIN g \ DOMAIN f : h[id] = g[id]
      /\ h = [id \in DOMAIN h |-> h[id]]
  BY DEF Over
<1> HIDE DEF h
<1>2. /\ DOMAIN f \subseteq Nat /\ \A id \in DOMAIN f : f[id] \in Row
      /\ DOMAIN g \subseteq Nat /\ \A id \in DOMAIN g : g[id] \in Row
  BY RowsAre
<1>3. DOMAIN h \subseteq Nat /\ \A id \in DOMAIN h : h[id] \in Row  BY <1>1, <1>2
<1>4. h \in Rows  BY <1>1, <1>3, RowsAre
<1> QED  BY <1>1, <1>4 DEF h

LEMMA EmptyIs == Empty \in Rows /\ DOMAIN Empty = {}
<1>1. DOMAIN Empty = {} /\ Empty = [id \in DOMAIN Empty |-> Empty[id]]  BY DEF Empty
<1> QED  BY <1>1, RowsAre

LEMMA IdleIs == Idle \in Tx /\ Idle.phase = "idle" /\ Idle.at = 0 /\ Idle.last = 0 /\ DOMAIN Idle.rows = {}
BY EmptyIs DEF Idle, Tx, Phases

LEMMA InitInv == Init => IndInv
<1> SUFFICES ASSUME Init PROVE IndInv  OBVIOUS
<1>1. Types
  <2>1. rules \in [Rules -> Rule]
    BY EditAssumption DEF Init, Rule
  <2>2. profile \in [gen : Nat, alarms : SUBSET Values]  BY EditAssumption DEF Init
  <2> QED  BY <2>1, <2>2, EmptyIs, IdleIs DEF Init, Types
<1>2. Batches /\ OneWriter  BY IdleIs, BoundAssumption DEF Init, Batches, OneWriter
<1>3. KnownIds /\ NewerIds /\ Cursors /\ SameAck /\ Locks
  BY IdleIs, EmptyIs DEF Init, KnownIds, NewerIds, NewIds, Cursors, SameAck, Locks
<1> QED  BY <1>1, <1>2, <1>3 DEF IndInv

-----------------------------------------------------------------------------
(* What the steps have in common.                                           *)

\* No transaction moves, and no acknowledgement begins.
LEMMA FrameStep ==
  ASSUME IndInv, Types', Cursors', UNCHANGED <<stored, events, lastId, tx, mail, ack>>
  PROVE  IndInv'
BY DEF IndInv, Batches, OneWriter, KnownIds, NewerIds, NewIds, SameAck, Locks

\* The transaction that has inserted readings writes rows it may write: new ones, and
\* ones it sees and nobody has locked, whose acknowledgement it keeps.
LEMMA WriteStep ==
  ASSUME IndInv, Types', NEW p \in Pullers, NEW rows \in Rows,
         tx[p].at # 0,
         lastId <= lastId', DOMAIN rows \subseteq 1..lastId',
         tx'[p].rows = Over(rows, tx[p].rows),
         tx'[p].at = tx[p].at, tx'[p].last = tx[p].last,
         \A q \in Pullers \ {p} : tx'[q] = tx[q],
         \A id \in DOMAIN rows :
           \/ lastId < id
           \/ /\ id \in DOMAIN Visible(p) /\ rows[id].ack = Visible(p)[id].ack
              /\ \A u \in Users : ack[u] # id,
         UNCHANGED <<stored, events, mail, ack, tail>>
  PROVE  IndInv'
<1> DEFINE mine == tx[p].rows
<1>t. mine \in Rows /\ events \in Rows /\ lastId \in Nat /\ lastId' \in Nat
  BY DEF IndInv, Types, Tx
<1>1. /\ DOMAIN tx'[p].rows = DOMAIN rows \cup DOMAIN mine
      /\ \A id \in DOMAIN rows : tx'[p].rows[id] = rows[id]
      /\ \A id \in DOMAIN mine \ DOMAIN rows : tx'[p].rows[id] = mine[id]
  <2> HIDE DEF mine
  <2>1. tx'[p].rows = Over(rows, mine)  BY DEF mine
  <2>2. /\ DOMAIN Over(rows, mine) = DOMAIN rows \cup DOMAIN mine
        /\ \A id \in DOMAIN rows : Over(rows, mine)[id] = rows[id]
        /\ \A id \in DOMAIN mine \ DOMAIN rows : Over(rows, mine)[id] = mine[id]
    BY <1>t, OverIs
  <2> QED  BY <2>1, <2>2
<1>2. /\ DOMAIN Visible(p) = DOMAIN mine \cup DOMAIN events
      /\ \A id \in DOMAIN mine : Visible(p)[id] = mine[id]
      /\ \A id \in DOMAIN events \ DOMAIN mine : Visible(p)[id] = events[id]
  BY <1>t, OverIs DEF Visible
<1>3. Batches' /\ OneWriter'  BY DEF IndInv, Batches, OneWriter
<1>4. KnownIds'
  <2>1. 1..lastId \subseteq 1..lastId'  BY <1>t
  <2> QED  BY <2>1, <1>1 DEF IndInv, KnownIds
<1>5. NewerIds'
  <2> SUFFICES ASSUME NEW q \in Pullers, NEW id \in NewIds(q)', NEW j \in DOMAIN events
               PROVE  j < id
    BY DEF NewerIds
  <2>1. CASE q # p  BY <2>1 DEF IndInv, NewerIds, NewIds
  <2>2. CASE q = p /\ id \in DOMAIN rows /\ lastId < id
    BY <2>2, <1>t DEF IndInv, KnownIds
  <2>3. CASE q = p /\ ~(id \in DOMAIN rows /\ lastId < id)
    <3>1. id \in NewIds(p)  BY <2>3, <1>1, <1>2 DEF NewIds
    <3> QED  BY <3>1 DEF IndInv, NewerIds
  <2> QED  BY <2>1, <2>2, <2>3
<1>6. Cursors'  BY DEF IndInv, Cursors
<1>7. SameAck'
  <2> SUFFICES ASSUME NEW q \in Pullers, NEW id \in DOMAIN tx'[q].rows \cap DOMAIN events
               PROVE  tx'[q].rows[id].ack = events[id].ack
    BY DEF SameAck
  <2>1. CASE q # p  BY <2>1 DEF IndInv, SameAck
  <2>2. CASE q = p
    <3>1. ~(lastId < id)  BY <1>t DEF IndInv, KnownIds
    <3>2. id \in DOMAIN mine => mine[id].ack = events[id].ack  BY DEF IndInv, SameAck
    <3> QED  BY <2>2, <3>1, <3>2, <1>1, <1>2
  <2> QED  BY <2>1, <2>2
<1>8. Locks'
  <2> SUFFICES ASSUME NEW u \in Users, ack[u] # 0
               PROVE  /\ ack[u] \in DOMAIN events /\ events[ack[u]].ack = NoUser
                      /\ \A q \in Pullers : ack[u] \notin DOMAIN tx'[q].rows
                      /\ \A w \in Users : ack[w] = ack[u] => w = u
    BY DEF Locks
  <2>1. ack[u] \in DOMAIN events /\ ~(lastId < ack[u])
    BY <1>t DEF IndInv, Locks, KnownIds
  <2>2. ack[u] \notin DOMAIN rows  BY <2>1
  <2> QED  BY <2>1, <2>2, <1>1 DEF IndInv, Locks
<1> QED  BY <1>3, <1>4, <1>5, <1>6, <1>7, <1>8 DEF IndInv

\* A transaction ends, committed or rolled back.
LEMMA EndStep ==
  ASSUME IndInv, Types', NEW p \in Pullers,
         tx' = [tx EXCEPT ![p] = Idle],
         Committed(p) \/ UNCHANGED <<events, stored>>,
         mail' \subseteq mail \cup NewIds(p), mail' \subseteq DOMAIN events',
         UNCHANGED <<lastId, ack, tail>>
  PROVE  IndInv'
<1> DEFINE mine == tx[p].rows
<1>t. mine \in Rows /\ events \in Rows /\ events' \in Rows /\ lastId \in Nat /\ stored \in Nat
      /\ tx \in [Pullers -> Tx] /\ tx[p].at \in Nat
  BY DEF IndInv, Types, Tx
<1>1. /\ tx'[p] = Idle /\ \A q \in Pullers \ {p} : tx'[q] = tx[q]
  BY <1>t
<1>2. CASE UNCHANGED <<events, stored>>
  <2>1. Batches' /\ OneWriter'
    BY <1>1, <1>2, <1>t, IdleIs, BoundAssumption DEF IndInv, Batches, OneWriter
  <2>2. KnownIds' /\ NewerIds' /\ Cursors' /\ SameAck' /\ Locks'
    BY <1>1, <1>2, IdleIs DEF IndInv, KnownIds, NewerIds, NewIds, Cursors, SameAck, Locks
  <2> QED  BY <2>1, <2>2 DEF IndInv
<1>3. CASE Committed(p)
  <2>1. /\ DOMAIN events' = DOMAIN mine \cup DOMAIN events
        /\ \A id \in DOMAIN mine : events'[id] = mine[id]
        /\ \A id \in DOMAIN events \ DOMAIN mine : events'[id] = events[id]
    <3> HIDE DEF mine
    <3>1. events' = Over(mine, events)  BY <1>3 DEF Committed, mine
    <3>2. /\ DOMAIN Over(mine, events) = DOMAIN mine \cup DOMAIN events
          /\ \A id \in DOMAIN mine : Over(mine, events)[id] = mine[id]
          /\ \A id \in DOMAIN events \ DOMAIN mine : Over(mine, events)[id] = events[id]
      BY <1>t, OverIs
    <3> QED  BY <3>1, <3>2
  <2>2. CASE tx[p].at = 0
    <3>1. DOMAIN mine = {}  BY <2>2 DEF IndInv, Batches
    <3>2. stored' = stored  BY <2>2, <1>3 DEF Committed
    <3>3. DOMAIN events' = DOMAIN events /\ \A id \in DOMAIN events : events'[id] = events[id]
      BY <2>1, <3>1
    <3>4. Batches' /\ OneWriter'
      BY <1>1, <3>2, <1>t, IdleIs, BoundAssumption DEF IndInv, Batches, OneWriter
    <3>5. KnownIds' /\ NewerIds' /\ Cursors' /\ SameAck' /\ Locks'
      BY <1>1, <3>3, IdleIs DEF IndInv, KnownIds, NewerIds, NewIds, Cursors, SameAck, Locks
    <3> QED  BY <3>4, <3>5 DEF IndInv
  <2>3. CASE tx[p].at # 0
    <3>1. \A q \in Pullers : tx'[q].at = 0 /\ DOMAIN tx'[q].rows = {}
      BY <2>3, <1>1, IdleIs DEF IndInv, OneWriter, Batches
    <3>2. Batches' /\ OneWriter'
      BY <1>1, <3>1, <1>t, IdleIs, BoundAssumption DEF IndInv, Batches, OneWriter
    <3>3. KnownIds' /\ NewerIds' /\ Cursors' /\ SameAck'
      BY <3>1, <2>1, <1>t DEF IndInv, KnownIds, NewerIds, NewIds, Cursors, SameAck
    <3>4. Locks'
      BY <3>1, <2>1 DEF IndInv, Locks
    <3> QED  BY <3>2, <3>3, <3>4 DEF IndInv
  <2> QED  BY <2>2, <2>3
<1> QED  BY <1>2, <1>3

-----------------------------------------------------------------------------
(* The ingest transaction, action by action.                                *)

LEMMA VisibleIs ==
  ASSUME Types, NEW p \in Pullers
  PROVE  /\ Visible(p) \in Rows
         /\ DOMAIN Visible(p) = DOMAIN tx[p].rows \cup DOMAIN events
         /\ DOMAIN Visible(p) \subseteq Nat
         /\ \A id \in DOMAIN Visible(p) : Visible(p)[id] \in Row
<1>1. tx[p].rows \in Rows /\ events \in Rows  BY DEF Types, Tx
<1>2. Visible(p) \in Rows /\ DOMAIN Visible(p) = DOMAIN tx[p].rows \cup DOMAIN events
  BY <1>1, OverIs DEF Visible
<1> QED  BY <1>2, RowsAre

LEMMA ListIs ==
  ASSUME Types, NEW p \in Pullers, NEW d
  PROVE  ListRules(p, d) \in SUBSET Listed
<1> SUFFICES ASSUME NEW r \in Rules, NEW t \in LastBreach(Visible(p), r)
             PROVE  [rule |-> r, delay |-> rules[r].delay, last |-> t] \in Listed
  BY DEF ListRules, ActiveRules
<1>1. t \in Nat  BY VisibleIs DEF LastBreach, Row
<1>2. rules[r].delay \in Nat  BY BoundAssumption DEF Types, Rule
<1> QED  BY <1>1, <1>2 DEF Listed

\* The rows an action writes, as a function of their ids.
LEMMA OpenedIs ==
  ASSUME NEW src \in Sources, NEW d \in Devices, NEW k \in Nat, NEW S \in SUBSET Nat
  PROVE  [id \in S |-> Opened(src, d, k)] \in Rows
<1>1. Opened(src, d, k) \in Row  BY DEF Opened, Row
<1>2. [id \in S |-> Opened(src, d, k)] \in [S -> Row]  BY <1>1
<1> QED  BY <1>2 DEF Rows

LEMMA ClearedIs ==
  ASSUME NEW table \in Rows, NEW ids \in SUBSET DOMAIN table
  PROVE  /\ Cleared(table, ids) \in Rows
         /\ DOMAIN Cleared(table, ids) = ids
         /\ \A id \in ids : Cleared(table, ids)[id].ack = table[id].ack
<1>1. DOMAIN table \subseteq Nat /\ \A id \in DOMAIN table : table[id] \in Row  BY RowsAre
<1>2. ASSUME NEW id \in ids
      PROVE  /\ [table[id] EXCEPT !.state = "cleared"] \in Row
             /\ [table[id] EXCEPT !.state = "cleared"].ack = table[id].ack
  BY <1>1 DEF Row
<1>3. Cleared(table, ids) \in [ids -> Row] /\ ids \in SUBSET Nat  BY <1>1, <1>2 DEF Cleared
<1> QED  BY <1>2, <1>3 DEF Rows, Cleared

LEMMA ClearedRowIs ==
  ASSUME NEW table \in Rows, NEW ids \in SUBSET DOMAIN table, NEW id \in ids
  PROVE  /\ Cleared(table, ids)[id].src = table[id].src
         /\ Cleared(table, ids)[id].dev = table[id].dev
         /\ Cleared(table, ids)[id].at = table[id].at
         /\ Cleared(table, ids)[id].state = "cleared"
<1>1. PICK row \in Row : row = table[id]  BY RowsAre
<1>2. Cleared(table, ids)[id] = [row EXCEPT !.state = "cleared"]  BY <1>1 DEF Cleared
<1>3. PICK new : new = [row EXCEPT !.state = "cleared"]  OBVIOUS
<1>4. new.src = row.src /\ new.dev = row.dev /\ new.at = row.at /\ new.state = "cleared"
  BY <1>3 DEF Row
<1> QED  BY <1>1, <1>2, <1>3, <1>4

LEMMA BeginStep ==
  ASSUME IndInv, NEW p \in Pullers, Begin(p)
  PROVE  IndInv'
<1>1. PICK last \in (stored + 1)..MaxReadings :
        tx' = [tx EXCEPT ![p] = [Idle EXCEPT !.phase = "inserting", !.last = last]]
  BY DEF Begin
<1> DEFINE new == [Idle EXCEPT !.phase = "inserting", !.last = last]
<1>2. last \in Nat /\ last <= MaxReadings
  BY BoundAssumption DEF IndInv, Types
<1>3. new \in Tx /\ new.phase = "inserting" /\ new.at = 0 /\ new.last = last /\ DOMAIN new.rows = {}
  BY <1>2, EmptyIs DEF Idle, Tx, Phases
<1> HIDE DEF new
<1>4. tx' \in [Pullers -> Tx] /\ tx'[p] = new /\ \A q \in Pullers \ {p} : tx'[q] = tx[q]
  BY <1>1, <1>3 DEF IndInv, Types, new
<1>5. Types'
  BY <1>4 DEF IndInv, Types, Begin, storeVars, editVars, alarmVars, peopleVars
<1>6. Batches' /\ OneWriter'
  <2>1. stored' = stored  BY DEF Begin, storeVars
  <2>2. tx'[p].phase = "inserting" /\ tx'[p].at = 0 /\ tx'[p].last = last /\ DOMAIN tx'[p].rows = {}
    BY <1>3, <1>4
  <2>3. Batches'
    BY <1>2, <1>4, <2>1, <2>2 DEF IndInv, Batches
  <2>4. OneWriter'
    BY <1>4, <2>2 DEF IndInv, OneWriter
  <2> QED  BY <2>3, <2>4
<1>7. /\ UNCHANGED <<events, lastId, mail, ack, tail>>
      /\ \A q \in Pullers : DOMAIN tx'[q].rows = {} \/ tx'[q] = tx[q]
  BY <1>3, <1>4 DEF Begin, alarmVars, peopleVars
<1>8. KnownIds' /\ NewerIds' /\ Cursors'
  BY <1>7 DEF IndInv, KnownIds, NewerIds, NewIds, Cursors
<1>9. SameAck' /\ Locks'
  BY <1>7 DEF IndInv, SameAck, Locks
<1> QED  BY <1>5, <1>6, <1>8, <1>9 DEF IndInv

\* It waits for whoever has inserted the same reading, hence for every writer.
LEMMA InsertStep ==
  ASSUME IndInv, NEW p \in Pullers, InsertReading(p)
  PROVE  IndInv'
<1> DEFINE k == NextNew(p)
           list == ListRules(p, readings[k].dev)
<1>t. /\ tx \in [Pullers -> Tx] /\ stored \in Nat
      /\ \A q \in Pullers : tx[q].at \in Nat /\ tx[q].last \in Nat
  BY DEF IndInv, Types, Tx
<1>1. k \in Nat /\ stored < k /\ k <= tx[p].last
  BY <1>t DEF NextNew, InsertReading, IndInv, Batches
<1>2. list \in SUBSET Listed  BY ListIs DEF IndInv
<1> HIDE DEF k, list
<1>3. tx' = [tx EXCEPT ![p].phase = "judging", ![p].at = k, ![p].listed = list]
  BY DEF InsertReading, k, list
<1>4. /\ tx' \in [Pullers -> Tx] /\ \A q \in Pullers \ {p} : tx'[q] = tx[q]
      /\ tx'[p].phase = "judging" /\ tx'[p].at = k /\ tx'[p].last = tx[p].last
      /\ tx'[p].rows = tx[p].rows
  BY <1>t, <1>1, <1>2, <1>3 DEF Tx, Phases
<1>5. Types'
  BY <1>4 DEF IndInv, Types, InsertReading, storeVars, editVars, alarmVars, peopleVars
<1>6. \A q \in Pullers \ {p} : tx[q].at = 0
  <2> SUFFICES ASSUME NEW q \in Pullers \ {p}, tx[q].at # 0 PROVE FALSE  OBVIOUS
  <2>1. tx[p].at = 0  BY DEF IndInv, OneWriter
  <2>2. k = stored + 1  BY <2>1 DEF k, NextNew
  <2>3. stored + 1 \in (stored + 1)..tx[q].at
    BY <1>t DEF IndInv, Batches
  <2> QED  BY <2>2, <2>3 DEF InsertReading, Inserted, k
<1>7. Batches' /\ OneWriter'
  BY <1>1, <1>4, <1>6, <1>t DEF IndInv, Batches, OneWriter, InsertReading, storeVars
<1>8. KnownIds' /\ NewerIds' /\ Cursors' /\ SameAck' /\ Locks'
  BY <1>4 DEF IndInv, KnownIds, NewerIds, NewIds, Cursors, SameAck, Locks, InsertReading,
     alarmVars, peopleVars
<1> QED  BY <1>5, <1>7, <1>8 DEF IndInv

\* A rule is judged: what Judged and the types ask for, then WriteStep.
LEMMA JudgedStep ==
  ASSUME IndInv, NEW p \in Pullers, NEW l \in Listed, NEW rows \in Rows,
         AtRule(p, l), Judged(p, l, rows),
         lastId <= lastId', lastId' \in Nat, DOMAIN rows \subseteq 1..lastId',
         \A id \in DOMAIN rows :
           \/ lastId < id
           \/ /\ id \in DOMAIN Visible(p) /\ rows[id].ack = Visible(p)[id].ack
              /\ \A u \in Users : ack[u] # id,
         UNCHANGED <<storeVars, editVars, events, mail, peopleVars, faults>>
  PROVE  IndInv'
<1> DEFINE list == tx[p].listed \ {l}
           new  == Over(rows, tx[p].rows)
<1>t. tx \in [Pullers -> Tx] /\ tx[p].listed \in SUBSET Listed /\ tx[p].rows \in Rows
  BY DEF IndInv, Types, Tx
<1>1. list \in SUBSET Listed /\ new \in Rows  BY <1>t, OverIs
<1>2. tx' = [tx EXCEPT ![p].listed = list, ![p].rows = new]  BY DEF Judged
<1>n. new = Over(rows, tx[p].rows)  OBVIOUS
<1> HIDE DEF list, new
<1>3. /\ tx' \in [Pullers -> Tx] /\ \A q \in Pullers \ {p} : tx'[q] = tx[q]
      /\ tx'[p].rows = new /\ tx'[p].at = tx[p].at /\ tx'[p].last = tx[p].last
  BY <1>t, <1>1, <1>2 DEF Tx
<1>4. Types'  BY <1>3 DEF IndInv, Types, storeVars, editVars, peopleVars
<1>5. tx[p].at # 0  BY DEF IndInv, Batches, AtRule
<1> QED  BY <1>3, <1>4, <1>5, <1>n, WriteStep DEF storeVars, peopleVars

LEMMA LeaveRuleStep ==
  ASSUME IndInv, NEW p \in Pullers, NEW l \in tx[p].listed, LeaveRule(p, l)
  PROVE  IndInv'
<1>1. l \in Listed  BY DEF IndInv, Types, Tx
<1>2. lastId' = lastId /\ lastId \in Nat  BY DEF LeaveRule, alarmVars, IndInv, Types
<1>3. AtRule(p, l) /\ Judged(p, l, Empty)  BY DEF LeaveRule
<1>4. UNCHANGED <<storeVars, editVars, events, mail, peopleVars, faults>>
  BY DEF LeaveRule, alarmVars
<1> QED  BY <1>1, <1>2, <1>3, <1>4, EmptyIs, JudgedStep

\* The reading in hand.
LEMMA ReadingIs ==
  ASSUME IndInv, NEW p \in Pullers, tx[p].phase = "judging"
  PROVE  /\ tx[p].at \in Nat /\ tx[p].at # 0
         /\ readings[tx[p].at].dev \in Devices
<1>1. tx[p].at \in 1..MaxReadings
  BY BoundAssumption DEF IndInv, Types, Tx, Batches
<1> QED  BY <1>1 DEF IndInv, Types, Reading

LEMMA OpenRuleEventStep ==
  ASSUME IndInv, NEW p \in Pullers, NEW l \in tx[p].listed, OpenRuleEvent(p, l)
  PROVE  IndInv'
<1> DEFINE k == tx[p].at
           rows == [id \in {lastId + 1} |-> Opened(l.rule, readings[k].dev, k)]
<1>1. l \in Listed /\ l.rule \in Sources  BY DEF IndInv, Types, Tx, Listed, Sources
<1>2. AtRule(p, l) /\ Judged(p, l, rows)  BY DEF OpenRuleEvent
<1>3. lastId \in Nat /\ lastId' = lastId + 1  BY DEF OpenRuleEvent, IndInv, Types
<1>4. rows \in Rows  BY <1>1, <1>2, <1>3, ReadingIs, OpenedIs DEF AtRule
<1>5. DOMAIN rows = {lastId + 1}  OBVIOUS
<1> HIDE DEF rows
<1>6. UNCHANGED <<storeVars, editVars, events, mail, peopleVars, faults>>
  BY DEF OpenRuleEvent
<1> QED  BY <1>1, <1>2, <1>3, <1>4, <1>5, <1>6, JudgedStep

LEMMA ClearRuleEventStep ==
  ASSUME IndInv, NEW p \in Pullers, NEW l \in tx[p].listed, ClearRuleEvent(p, l)
  PROVE  IndInv'
<1> DEFINE open == OpenOf(Visible(p), l.rule)
           rows == Cleared(Visible(p), open)
<1>1. l \in Listed  BY DEF IndInv, Types, Tx
<1>2. AtRule(p, l) /\ Judged(p, l, rows) /\ Free(p, open)  BY DEF ClearRuleEvent
<1>3. lastId \in Nat /\ lastId' = lastId  BY DEF ClearRuleEvent, IndInv, Types, alarmVars
<1>4. open \in SUBSET DOMAIN Visible(p)  BY DEF OpenOf
<1>5. /\ rows \in Rows /\ DOMAIN rows = open
      /\ \A id \in open : rows[id].ack = Visible(p)[id].ack
  BY <1>4, VisibleIs, ClearedIs DEF IndInv
<1>6. open \subseteq 1..lastId  BY <1>4, VisibleIs DEF IndInv, KnownIds
<1>7. \A id \in open : \A u \in Users : ack[u] # id  BY <1>2 DEF Free
<1>8. UNCHANGED <<storeVars, editVars, events, mail, peopleVars, faults>>
  BY DEF ClearRuleEvent, alarmVars
<1> HIDE DEF open, rows
<1> QED  BY <1>1, <1>2, <1>3, <1>4, <1>5, <1>6, <1>7, <1>8, JudgedStep

LEMMA JudgeMappingsStep ==
  ASSUME IndInv, NEW p \in Pullers, JudgeMappings(p)
  PROVE  IndInv'
<1> DEFINE k       == tx[p].at
           d       == readings[k].dev
           active  == Active(readings[k].value)
           open    == OpenRegisterEvents(Visible(p), d)
           toClose == {id \in open : Visible(p)[id].src \notin active}
           toOpen  == active \ {Visible(p)[id].src : id \in open}
           closed  == Cleared(Visible(p), open)
           held    == [id \in open |-> IF id \in toClose THEN closed[id] ELSE Visible(p)[id]]
           ids     == {i \in {lastId + 1} : toOpen # {}}
           src     == CHOOSE s \in toOpen : TRUE
           new     == [id \in ids |-> Opened(src, d, k)]
           writes  == Over(new, held)
<1>t. /\ lastId \in Nat /\ tx \in [Pullers -> Tx] /\ tx[p].rows \in Rows
      /\ profile \in [gen : Nat, alarms : SUBSET Values]
  BY DEF IndInv, Types, Tx
<1>1. lastId' \in Nat /\ lastId <= lastId' /\ (toOpen # {} => lastId' = lastId + 1)
  BY <1>t DEF JudgeMappings
<1>2. /\ tx[p].phase = "judging" /\ Free(p, open)
      /\ tx' = [tx EXCEPT ![p].phase = "inserting", ![p].rows = Over(writes, @)]
      /\ UNCHANGED <<storeVars, editVars, events, mail, peopleVars, faults>>
  BY DEF JudgeMappings
<1>3. active \in SUBSET Sources  BY <1>t DEF Active, Sources
<1>4. open \in SUBSET DOMAIN Visible(p)  BY DEF OpenRegisterEvents
<1>5. held \in Rows /\ DOMAIN held = open /\ \A id \in open : held[id].ack = Visible(p)[id].ack
  <2>1. /\ closed \in Rows /\ DOMAIN closed = open
        /\ \A id \in open : closed[id].ack = Visible(p)[id].ack
    BY <1>4, VisibleIs, ClearedIs DEF IndInv
  <2>2. \A id \in open : closed[id] \in Row  BY <2>1, RowsAre
  <2> HIDE DEF closed, toClose, open
  <2>3. held \in [open -> Row] /\ open \in SUBSET Nat
    BY <1>4, <2>2, VisibleIs DEF IndInv
  <2> QED  BY <2>1, <2>3 DEF Rows
<1>6. new \in Rows /\ DOMAIN new = ids /\ ids \subseteq {lastId + 1}
  <2>1. CASE toOpen = {}
    <3>1. ids = {} /\ DOMAIN new = {}  BY <2>1
    <3>2. new = [id \in DOMAIN new |-> new[id]]  OBVIOUS
    <3> HIDE DEF new
    <3> QED  BY <3>1, <3>2, RowsAre
  <2>2. CASE toOpen # {}
    <3>1. src \in Sources  BY <2>2, <1>3
    <3>2. ids \in SUBSET Nat  BY <1>t
    <3> HIDE DEF src, ids
    <3>3. new \in Rows  BY <1>2, <3>1, <3>2, ReadingIs, OpenedIs
    <3> QED  BY <3>3 DEF ids
  <2> QED  BY <2>1, <2>2
<1>7. ids # {} => lastId' = lastId + 1  BY <1>1
<1>8. open \subseteq 1..lastId  BY <1>4, VisibleIs DEF IndInv, KnownIds
<1>9. \A id \in open : \A u \in Users : ack[u] # id  BY <1>2 DEF Free
<1> HIDE DEF new, held, ids, open
<1>10. /\ writes \in Rows /\ DOMAIN writes = ids \cup open
       /\ \A id \in ids : writes[id] = new[id]
       /\ \A id \in open \ ids : writes[id] = held[id]
  BY <1>5, <1>6, OverIs
<1> HIDE DEF writes
<1>11. DOMAIN writes \subseteq 1..lastId'
  BY <1>t, <1>1, <1>6, <1>7, <1>8, <1>10
<1>12. \A id \in DOMAIN writes :
         \/ lastId < id
         \/ /\ id \in DOMAIN Visible(p) /\ writes[id].ack = Visible(p)[id].ack
            /\ \A u \in Users : ack[u] # id
  <2>1. \A id \in ids : lastId < id  BY <1>t, <1>6
  <2>2. \A id \in open \ ids : writes[id].ack = held[id].ack  BY <1>10
  <2>3. \A id \in open \ ids : id \in DOMAIN Visible(p) /\ writes[id].ack = Visible(p)[id].ack
    BY <1>4, <1>5, <2>2
  <2> QED  BY <1>9, <1>10, <2>1, <2>3
<1>13. /\ tx' \in [Pullers -> Tx] /\ \A q \in Pullers \ {p} : tx'[q] = tx[q]
       /\ tx'[p].rows = Over(writes, tx[p].rows)
       /\ tx'[p].at = tx[p].at /\ tx'[p].last = tx[p].last
  <2> DEFINE all == Over(writes, tx[p].rows)
  <2>1. all \in Rows  BY <1>t, <1>10, OverIs
  <2>2. tx' = [tx EXCEPT ![p].phase = "inserting", ![p].rows = all]  BY <1>2
  <2> HIDE DEF all
  <2>3. /\ tx' \in [Pullers -> Tx] /\ \A q \in Pullers \ {p} : tx'[q] = tx[q]
        /\ tx'[p].rows = all
        /\ tx'[p].at = tx[p].at /\ tx'[p].last = tx[p].last
    BY <1>t, <2>1, <2>2 DEF Tx, Phases
  <2> QED  BY <2>3 DEF all
<1>14. Types'
  BY <1>1, <1>2, <1>13 DEF IndInv, Types, storeVars, editVars, peopleVars
<1>15. tx[p].at # 0  BY <1>2 DEF IndInv, Batches
<1>16. UNCHANGED <<stored, events, mail, ack, tail>>  BY <1>2 DEF storeVars, peopleVars
<1> QED  BY <1>1, <1>10, <1>11, <1>12, <1>13, <1>14, <1>15, <1>16, WriteStep

LEMMA CommittedIs ==
  ASSUME IndInv, NEW p \in Pullers, Committed(p)
  PROVE  /\ events' \in Rows /\ stored' \in Nat
         /\ DOMAIN events' = DOMAIN tx[p].rows \cup DOMAIN events
         /\ \A id \in DOMAIN events : events'[id].ack = events[id].ack
<1>1. /\ tx[p].rows \in Rows /\ events \in Rows /\ tx[p].at \in Nat /\ stored \in Nat
  BY DEF IndInv, Types, Tx
<1> DEFINE h == Over(tx[p].rows, events)
<1>2. /\ h \in Rows /\ DOMAIN h = DOMAIN tx[p].rows \cup DOMAIN events
      /\ \A id \in DOMAIN tx[p].rows : h[id] = tx[p].rows[id]
      /\ \A id \in DOMAIN events \ DOMAIN tx[p].rows : h[id] = events[id]
  BY <1>1, OverIs
<1>3. events' = h  BY DEF Committed
<1> HIDE DEF h
<1>4. \A id \in DOMAIN events : h[id].ack = events[id].ack  BY <1>2 DEF IndInv, SameAck
<1> QED  BY <1>1, <1>2, <1>3, <1>4 DEF Committed

LEMMA CommitStep ==
  ASSUME IndInv, NEW p \in Pullers, Commit(p)
  PROVE  IndInv'
<1>1. Committed(p) /\ tx' = [tx EXCEPT ![p] = Idle]  BY DEF Commit
<1>2. UNCHANGED <<readings, rules, profile, edits, lastId, ack, tail, faults>>
  BY DEF Commit, editVars, peopleVars
<1>3. Types'
  BY <1>1, <1>2, CommittedIs, IdleIs DEF IndInv, Types
<1>4. mail' = mail \cup NewIds(p)  BY DEF Commit
<1>5. mail' \subseteq DOMAIN events'
  BY <1>1, <1>4, CommittedIs DEF NewIds, IndInv, KnownIds
<1> QED  BY <1>1, <1>2, <1>3, <1>4, <1>5, EndStep

LEMMA IngestFailsStep ==
  ASSUME IndInv, NEW p \in Pullers, IngestFails(p)
  PROVE  IndInv'
<1>1. /\ tx' = [tx EXCEPT ![p] = Idle]
      /\ Committed(p) \/ UNCHANGED <<events, stored>>
      /\ UNCHANGED <<readings, rules, profile, edits, lastId, mail, ack, tail>>
      /\ faults' = faults + 1
  BY DEF IngestFails, Fault, editVars, peopleVars
<1>2. events' \in Rows /\ stored' \in Nat /\ DOMAIN events \subseteq DOMAIN events'
  BY <1>1, CommittedIs DEF IndInv, Types
<1>3. Types'
  BY <1>1, <1>2, IdleIs DEF IndInv, Types
<1>4. mail' \subseteq DOMAIN events'  BY <1>1, <1>2 DEF IndInv, KnownIds
<1> QED  BY <1>1, <1>3, <1>4, EndStep

-----------------------------------------------------------------------------
(* Operators, viewers, crashes.                                             *)

LEMMA RuleEditStep ==
  ASSUME IndInv, NEW r \in Rules, RuleEdit(r)
  PROVE  IndInv'
<1>t. rules \in [Rules -> Rule] /\ edits \in Nat  BY DEF IndInv, Types
<1>1. ASSUME CreateAlarmRule(r) \/ UpdateAlarmRule(r)  PROVE IndInv'
  <2>1. /\ edits' = edits + 1 /\ Cursors'
        /\ UNCHANGED <<readings, stored, profile, events, lastId, tx, mail, ack, tail, faults>>
    BY <1>1 DEF CreateAlarmRule, UpdateAlarmRule, Edit, storeVars, alarmVars, peopleVars,
       IndInv, Cursors
  <2>2. PICK new \in Rule : rules' = [rules EXCEPT ![r] = new]
    BY <1>1, <1>t, EditAssumption DEF CreateAlarmRule, UpdateAlarmRule, Rule
  <2>3. Types'  BY <1>t, <2>1, <2>2 DEF IndInv, Types
  <2> QED  BY <2>1, <2>3, FrameStep
<1>2. ASSUME DeleteAlarmRule(r)  PROVE IndInv'
  <2>1. /\ edits' = edits + 1
        /\ rules' = [rules EXCEPT ![r].state = "deleted", ![r].breach = {}]
        /\ UNCHANGED <<readings, stored, profile, lastId, tx, mail, ack, tail, faults>>
    BY <1>2 DEF DeleteAlarmRule, Edit, storeVars, peopleVars
  <2>2. rules' \in [Rules -> Rule]  BY <1>t, <2>1 DEF Rule
  <2>3. \A id \in DOMAIN events : events[id] \in Row
    BY RowsAre DEF IndInv, Types
  <2>4. /\ DOMAIN events' = DOMAIN events
        /\ events' = [id \in DOMAIN events' |-> events'[id]]
        /\ \A id \in DOMAIN events : events'[id] \in Row /\ events'[id].ack = events[id].ack
    BY <1>2, <2>3 DEF DeleteAlarmRule, Row
  <2>5. events' \in Rows  BY <2>4, RowsAre DEF IndInv, Types
  <2>6. Types'  BY <1>t, <2>1, <2>2, <2>5 DEF IndInv, Types
  <2>7. Batches' /\ OneWriter'  BY <2>1 DEF IndInv, Batches, OneWriter
  <2>8. KnownIds' /\ NewerIds' /\ Cursors'
    BY <2>1, <2>4 DEF IndInv, KnownIds, NewerIds, NewIds, Cursors
  <2>9. SameAck' /\ Locks'  BY <2>1, <2>4 DEF IndInv, SameAck, Locks
  <2> QED  BY <2>6, <2>7, <2>8, <2>9 DEF IndInv
<1> QED  BY <1>1, <1>2 DEF RuleEdit

LEMMA SaveProfileAddressStep ==
  ASSUME IndInv, SaveProfileAddress
  PROVE  IndInv'
<1>1. /\ edits' = edits + 1
      /\ UNCHANGED <<readings, stored, rules, events, lastId, tx, mail, ack, tail, faults>>
  BY DEF SaveProfileAddress, Edit, storeVars, alarmVars, peopleVars
<1>2. profile' \in [gen : Nat, alarms : SUBSET Values]
  BY EditAssumption DEF SaveProfileAddress, IndInv, Types
<1>3. Types' /\ Cursors'  BY <1>1, <1>2 DEF IndInv, Types, Cursors
<1> QED  BY <1>1, <1>3, FrameStep

LEMMA LockEventStep ==
  ASSUME IndInv, NEW u \in Users, NEW e \in DOMAIN events, LockEvent(u, e)
  PROVE  IndInv'
<1>1. /\ ack' = [ack EXCEPT ![u] = e] /\ events[e].ack = NoUser
      /\ \A w \in Users : ack[w] # e
      /\ \A p \in Pullers : e \notin DOMAIN tx[p].rows
      /\ UNCHANGED <<storeVars, editVars, alarmVars, tx, mail, tail, faults>>
  BY DEF LockEvent
<1>2. ack \in [Users -> Nat] /\ e \in Nat  BY RowsAre DEF IndInv, Types
<1>3. Types'  BY <1>1, <1>2 DEF IndInv, Types, storeVars, editVars, alarmVars
<1>4. Batches' /\ OneWriter' /\ KnownIds' /\ NewerIds' /\ Cursors' /\ SameAck'
  BY <1>1 DEF IndInv, Batches, OneWriter, KnownIds, NewerIds, NewIds, Cursors, SameAck,
     storeVars, alarmVars
<1>5. Locks'
  BY <1>1, <1>2 DEF IndInv, Locks, alarmVars
<1> QED  BY <1>3, <1>4, <1>5 DEF IndInv

LEMMA AcknowledgeStep ==
  ASSUME IndInv, NEW u \in Users, Acknowledge(u)
  PROVE  IndInv'
<1> DEFINE e == ack[u]
<1>1. /\ e # 0 /\ events' = [events EXCEPT ![e].ack = u] /\ ack' = [ack EXCEPT ![u] = 0]
      /\ UNCHANGED <<storeVars, editVars, lastId, tx, mail, tail, faults>>
  BY DEF Acknowledge
<1>2. /\ ack \in [Users -> Nat] /\ e \in DOMAIN events
      /\ \A p \in Pullers : e \notin DOMAIN tx[p].rows
      /\ \A w \in Users : ack[w] = e => w = u
  BY <1>1 DEF IndInv, Types, Locks
<1>3. \A id \in DOMAIN events : events[id] \in Row  BY RowsAre DEF IndInv, Types
<1> HIDE DEF e
<1>4. /\ DOMAIN events' = DOMAIN events
      /\ events' = [id \in DOMAIN events' |-> events'[id]]
      /\ \A id \in DOMAIN events : events'[id] \in Row
      /\ \A id \in DOMAIN events \ {e} : events'[id] = events[id]
  BY <1>1, <1>2, <1>3 DEF Row
<1>5. events' \in Rows  BY <1>4, RowsAre DEF IndInv, Types
<1>6. Types'  BY <1>1, <1>2, <1>5 DEF IndInv, Types, storeVars, editVars
<1>7. Batches' /\ OneWriter'  BY <1>1 DEF IndInv, Batches, OneWriter, storeVars
<1>8. KnownIds' /\ NewerIds' /\ Cursors'
  BY <1>1, <1>4 DEF IndInv, KnownIds, NewerIds, NewIds, Cursors
<1>9. SameAck'  BY <1>1, <1>2, <1>4 DEF IndInv, SameAck
<1>10. Locks'
  <2> SUFFICES ASSUME NEW w \in Users, ack'[w] # 0
               PROVE  /\ ack'[w] \in DOMAIN events' /\ events'[ack'[w]].ack = NoUser
                      /\ \A p \in Pullers : ack'[w] \notin DOMAIN tx'[p].rows
                      /\ \A x \in Users : ack'[x] = ack'[w] => x = w
    BY DEF Locks
  <2>1. w # u /\ ack'[w] = ack[w]  BY <1>1, <1>2
  <2>2. ack[w] # e  BY <2>1, <1>2
  <2>3. /\ ack[w] \in DOMAIN events /\ events[ack[w]].ack = NoUser
        /\ \A p \in Pullers : ack[w] \notin DOMAIN tx[p].rows
        /\ \A x \in Users : ack[x] = ack[w] => x = w
    BY <2>1 DEF IndInv, Locks
  <2>4. \A x \in Users : ack'[x] = ack'[w] => x = w
    BY <1>1, <1>2, <2>1, <2>3
  <2> QED  BY <1>1, <1>4, <2>1, <2>2, <2>3, <2>4
<1> QED  BY <1>6, <1>7, <1>8, <1>9, <1>10 DEF IndInv

LEMMA AcknowledgeFailsStep ==
  ASSUME IndInv, NEW u \in Users, AcknowledgeFails(u)
  PROVE  IndInv'
<1>1. /\ ack' = [ack EXCEPT ![u] = 0] /\ faults' = faults + 1
      /\ UNCHANGED <<storeVars, editVars, alarmVars, tx, mail, tail>>
  BY DEF AcknowledgeFails, Fault
<1>2. ack \in [Users -> Nat]  BY DEF IndInv, Types
<1>3. Types'  BY <1>1, <1>2 DEF IndInv, Types, storeVars, editVars, alarmVars
<1>4. Batches' /\ OneWriter' /\ KnownIds' /\ NewerIds' /\ Cursors' /\ SameAck'
  BY <1>1 DEF IndInv, Batches, OneWriter, KnownIds, NewerIds, NewIds, Cursors, SameAck,
     storeVars, alarmVars
<1>5. Locks'
  BY <1>1, <1>2 DEF IndInv, Locks, alarmVars
<1> QED  BY <1>3, <1>4, <1>5 DEF IndInv

LEMMA ViewerStep ==
  ASSUME IndInv, NEW v \in Viewers, Watch(v) \/ Tick(v) \/ Leave(v)
  PROVE  IndInv'
<1>1. UNCHANGED <<storeVars, editVars, alarmVars, tx, mail, ack, faults>>
  BY DEF Watch, Tick, Leave
<1>2. tail \in [Viewers -> [on : BOOLEAN, cursor : Nat]]  BY DEF IndInv, Types
<1>3. \A id \in LatestAlarmEventID : id \in DOMAIN events \cup {0} /\ id \in Nat
  BY RowsAre DEF LatestAlarmEventID, Existing, IndInv, Types
<1>4. /\ tail' \in [Viewers -> [on : BOOLEAN, cursor : Nat]]
      /\ \A w \in Viewers \ {v} : tail'[w] = tail[w]
      /\ tail'[v].cursor \in DOMAIN events \cup {0}
  <2>2. CASE Watch(v)
    <3>1. PICK id \in LatestAlarmEventID :
            tail' = [tail EXCEPT ![v] = [on |-> TRUE, cursor |-> id]]
      BY <2>2 DEF Watch
    <3> QED  BY <3>1, <1>3, <1>2
  <2>3. CASE Tick(v)
    <3>1. PICK id \in LatestAlarmEventID : tail' = [tail EXCEPT ![v].cursor = id]
      BY <2>3 DEF Tick
    <3> QED  BY <3>1, <1>3, <1>2
  <2>4. CASE Leave(v)
    <3>1. tail' = [tail EXCEPT ![v] = [on |-> FALSE, cursor |-> 0]]
      BY <2>4 DEF Leave
    <3> QED  BY <3>1, <1>2
  <2> QED  BY <2>2, <2>3, <2>4
<1>5. Types'  BY <1>1, <1>4 DEF IndInv, Types, storeVars, editVars, alarmVars
<1>6. Cursors'  BY <1>1, <1>4 DEF IndInv, Cursors, alarmVars
<1> QED  BY <1>1, <1>5, <1>6, FrameStep DEF storeVars, alarmVars

LEMMA CrashStep ==
  ASSUME IndInv, PlatformCrashes
  PROVE  IndInv'
<1>1. /\ tx' = [p \in Pullers |-> Idle] /\ ack' = [u \in Users |-> 0]
      /\ tail' = [v \in Viewers |-> [on |-> FALSE, cursor |-> 0]]
      /\ faults' = faults + 1
      /\ UNCHANGED <<storeVars, editVars, alarmVars, mail>>
  BY DEF PlatformCrashes, Fault
<1>2. Types'  BY <1>1, IdleIs DEF IndInv, Types, storeVars, editVars, alarmVars
<1>3. \A p \in Pullers : tx'[p].phase = "idle" /\ tx'[p].at = 0 /\ tx'[p].last = 0
                         /\ DOMAIN tx'[p].rows = {}
  BY <1>1, IdleIs
<1>4. Batches' /\ OneWriter'  BY <1>3, BoundAssumption DEF Batches, OneWriter
<1>5. KnownIds' /\ NewerIds' /\ SameAck'
  BY <1>1, <1>3 DEF IndInv, KnownIds, NewerIds, NewIds, SameAck, alarmVars
<1>6. Cursors' /\ Locks'  BY <1>1 DEF Cursors, Locks
<1> QED  BY <1>2, <1>4, <1>5, <1>6 DEF IndInv

-----------------------------------------------------------------------------
LEMMA NextInv == IndInv /\ [Next]_vars => IndInv'
<1> SUFFICES ASSUME IndInv, [Next]_vars PROVE IndInv'  OBVIOUS
<1>1. ASSUME NEW p \in Pullers, IngestStep(p)  PROVE IndInv'
  <2>1. CASE \E l \in tx[p].listed : LeaveRule(p, l) \/ OpenRuleEvent(p, l) \/ ClearRuleEvent(p, l)
    BY <2>1, LeaveRuleStep, OpenRuleEventStep, ClearRuleEventStep
  <2>2. CASE Begin(p) \/ InsertReading(p)  BY <2>2, BeginStep, InsertStep
  <2>3. CASE JudgeMappings(p)  BY <2>3, JudgeMappingsStep
  <2>4. CASE Commit(p)  BY <2>4, CommitStep
  <2>5. CASE IngestFails(p)  BY <2>5, IngestFailsStep
  <2> QED  BY <1>1, <2>1, <2>2, <2>3, <2>4, <2>5 DEF IngestStep
<1>2. ASSUME NEW r \in Rules, RuleEdit(r)  PROVE IndInv'  BY <1>2, RuleEditStep
<1>3. CASE SaveProfileAddress  BY <1>3, SaveProfileAddressStep
<1>4. ASSUME NEW u \in Users, NEW id \in DOMAIN events, LockEvent(u, id)  PROVE IndInv'
  BY <1>4, LockEventStep
<1>5. ASSUME NEW u \in Users, Acknowledge(u) \/ AcknowledgeFails(u)  PROVE IndInv'
  BY <1>5, AcknowledgeStep, AcknowledgeFailsStep
<1>6. ASSUME NEW v \in Viewers, Watch(v) \/ Tick(v) \/ Leave(v)  PROVE IndInv'
  BY <1>6, ViewerStep
<1>7. CASE PlatformCrashes  BY <1>7, CrashStep
<1>8. CASE UNCHANGED vars
  <2>1. Types' /\ Cursors'
    BY <1>8 DEF vars, storeVars, editVars, alarmVars, peopleVars, IndInv, Types, Cursors
  <2> QED
    BY <1>8, <2>1, FrameStep DEF vars, storeVars, alarmVars, peopleVars
<1> QED  BY <1>1, <1>2, <1>3, <1>4, <1>5, <1>6, <1>7, <1>8 DEF Next

THEOREM Invariance == Spec => []IndInv
BY InitInv, NextInv, PTL DEF Spec

-----------------------------------------------------------------------------
(* Theorems.                                                                *)

LEMMA IndInvTypeOK == IndInv => TypeOK
<1> SUFFICES ASSUME IndInv PROVE TypeOK  OBVIOUS
<1>1. \A id \in DOMAIN events : events[id] \in Row  BY RowsAre DEF IndInv, Types
<1>2. ASSUME NEW p \in Pullers
      PROVE  /\ tx[p].phase \in Phases /\ tx[p].at \in Nat /\ tx[p].last \in Nat
             /\ tx[p].listed \subseteq Listed
             /\ DOMAIN tx[p].rows \subseteq 1..lastId
             /\ \A id \in DOMAIN tx[p].rows : tx[p].rows[id] \in Row
  <2>1. tx[p] \in Tx  BY DEF IndInv, Types
  <2>2. tx[p].rows \in Rows  BY <2>1 DEF Tx
  <2>3. \A id \in DOMAIN tx[p].rows : tx[p].rows[id] \in Row  BY <2>2, RowsAre
  <2> QED  BY <2>1, <2>3 DEF IndInv, KnownIds, Tx
<1>3. DOMAIN tx = Pullers  BY DEF IndInv, Types
<1>4. mail \subseteq 1..lastId /\ DOMAIN events \subseteq 1..lastId  BY DEF IndInv, KnownIds
<1> QED  BY <1>1, <1>2, <1>3, <1>4 DEF TypeOK, IndInv, Types

\* Every variable keeps its type: events and a transaction's rows are alarm_event rows
\* under ids the sequence has given out.
THEOREM TypeCorrect == Spec => []TypeOK
BY Invariance, IndInvTypeOK, PTL

\* evaluateAlarms gathers breaches before the commit and IngestRaw mails after it:
\* nothing is mailed about an event that was rolled back.
THEOREM MailIsHonest == Spec => []MailedIsCommitted
<1>1. IndInv => MailedIsCommitted  BY DEF IndInv, KnownIds, MailedIsCommitted
<1> QED  BY <1>1, Invariance, PTL

LEMMA CommitsBeyondTheTail ==
  ASSUME IndInv, [Next]_vars, NEW v \in Viewers, tail[v].on,
         NEW id \in DOMAIN events' \ DOMAIN events
  PROVE  id > tail[v].cursor
<1>1. PICK p \in Pullers : Committed(p)
  <2>1. ~UNCHANGED events  OBVIOUS
  <2>2. ASSUME NEW r \in Rules, DeleteAlarmRule(r)  PROVE FALSE
    BY <2>2 DEF DeleteAlarmRule
  <2>3. ASSUME NEW u \in Users, Acknowledge(u)  PROVE FALSE
    BY <2>3 DEF Acknowledge
  <2> QED
    BY <2>1, <2>2, <2>3 DEF Next, vars, alarmVars, IngestStep, RuleEdit, Begin, InsertReading,
       LeaveRule, OpenRuleEvent, ClearRuleEvent, JudgeMappings, Commit, IngestFails,
       CreateAlarmRule, UpdateAlarmRule, SaveProfileAddress, LockEvent, AcknowledgeFails,
       Watch, Tick, Leave, PlatformCrashes
<1>2. id \in NewIds(p)  BY <1>1, CommittedIs DEF NewIds
<1>3. id \in 1..lastId  BY <1>2 DEF NewIds, IndInv, KnownIds
<1>4. CASE tail[v].cursor = 0  BY <1>3, <1>4 DEF IndInv, Types
<1>5. CASE tail[v].cursor \in DOMAIN events
  BY <1>2, <1>3, <1>5 DEF IndInv, NewerIds, KnownIds, Types
<1> QED  BY <1>4, <1>5 DEF IndInv, Cursors

\* AlarmEventsSince resumes after the last id it sent: for any number of pullers of the
\* gateway, no commit puts an event at or before that id.
THEOREM TailMissesNothing == Spec => NothingBehindTheTail
<1>1. IndInv /\ [Next]_vars =>
        [\A v \in Viewers : tail[v].on =>
           \A id \in DOMAIN events' \ DOMAIN events : id > tail[v].cursor]_vars
  BY CommitsBeyondTheTail
<1> QED  BY <1>1, Invariance, PTL DEF Spec, NothingBehindTheTail

LEMMA KeepsAcknowledgement ==
  ASSUME IndInv, [Next]_vars, NEW id \in DOMAIN events, events[id].ack # NoUser
  PROVE  events'[id].ack = events[id].ack
<1>1. CASE UNCHANGED events  BY <1>1
<1>2. ASSUME NEW p \in Pullers, Committed(p)  PROVE events'[id].ack = events[id].ack
  BY <1>2, CommittedIs
<1>3. ASSUME NEW r \in Rules, DeleteAlarmRule(r)  PROVE events'[id].ack = events[id].ack
  <2>1. events[id] \in Row  BY RowsAre DEF IndInv, Types
  <2> QED  BY <1>3, <2>1 DEF DeleteAlarmRule, Row
<1>4. ASSUME NEW u \in Users, Acknowledge(u)  PROVE events'[id].ack = events[id].ack
  <2>1. ack[u] # id  BY <1>4 DEF Acknowledge, IndInv, Locks
  <2> QED  BY <1>4, <2>1 DEF Acknowledge
<1> QED
  BY <1>1, <1>2, <1>3, <1>4 DEF Next, vars, alarmVars, IngestStep, RuleEdit, Begin,
     InsertReading, LeaveRule, OpenRuleEvent, ClearRuleEvent, JudgeMappings, Commit, IngestFails,
     CreateAlarmRule, UpdateAlarmRule, SaveProfileAddress, LockEvent, AcknowledgeFails,
     Watch, Tick, Leave, PlatformCrashes

\* AcknowledgeAlarmEvent locks before it looks: whoever acknowledged first stays, for any
\* number of operators and whatever clears or deletes the event meanwhile.
THEOREM FirstAcknowledgeWins == Spec => FirstAcknowledgeStays
<1>1. IndInv /\ [Next]_vars =>
        [\A id \in DOMAIN events :
           events[id].ack # NoUser => events'[id].ack = events[id].ack]_vars
  BY KeepsAcknowledgement
<1> QED  BY <1>1, Invariance, PTL DEF Spec, FirstAcknowledgeStays
-----------------------------------------------------------------------------
(* Induction over the naturals.                                             *)

Less == {p \in Nat \X Nat : p[1] < p[2]}

LEMMA LeastNumber ==
  ASSUME NEW T, T \subseteq Nat, T # {} PROVE \E x \in T : \A y \in T : x <= y
<1>1. IsWellFoundedOn(Less, Nat)  BY NatLessThanWellFounded DEF Less, OpToRel
<1>2. PICK x \in T : \A y \in T : ~(<<y, x>> \in Less)  BY <1>1, WFMin
<1>3. ASSUME NEW y \in T PROVE x <= y
  <2>1. <<y, x>> \notin Less /\ x \in Nat /\ y \in Nat  BY <1>2
  <2> QED  BY <2>1 DEF Less
<1> QED  BY <1>3

LEMMA LargestNumber ==
  ASSUME NEW m \in Nat, NEW T, T \subseteq 0..m, T # {} PROVE \E x \in T : \A y \in T : y <= x
<1> DEFINE U == {z \in Nat : z <= m /\ m - z \in T}
<1>1. U # {}
  <2>1. PICK t \in T : TRUE  OBVIOUS
  <2>2. t \in 0..m  BY <2>1
  <2>3. m - t \in Nat /\ m - (m - t) = t /\ m - t <= m  BY <2>2
  <2> QED  BY <2>1, <2>3
<1>2. PICK x \in U : \A y \in U : x <= y
  <2>1. U \subseteq Nat  OBVIOUS
  <2> HIDE DEF U
  <2> QED  BY <1>1, <2>1, LeastNumber
<1>3. ASSUME NEW y \in T PROVE y <= m - x
  <2>1. y \in 0..m  BY <1>3
  <2>2. m - y \in Nat /\ m - (m - y) = y /\ m - y <= m  BY <2>1
  <2>3. x <= m - y  BY <1>2, <1>3, <2>2
  <2> QED  BY <2>1, <2>3, <1>2
<1> QED  BY <1>2, <1>3

LEMMA Counting ==
  ASSUME NEW T, 0 \in T, \A n \in Nat : n \in T => n + 1 \in T
  PROVE  Nat \subseteq T
<1> SUFFICES ASSUME Nat \ T # {} PROVE FALSE  OBVIOUS
<1>1. PICK x \in Nat \ T : \A y \in Nat \ T : x <= y  BY LeastNumber
<1>2. x - 1 \in Nat /\ x - 1 \in T  BY <1>1
<1> QED  BY <1>1, <1>2

-----------------------------------------------------------------------------
(* The logs: their recursions are well defined.                             *)

RuleFirst     == [ats |-> {}, open |-> FALSE]
RegisterFirst == [ats |-> {}, open |-> {}]

IsRuleLog(f, rule, rds) ==
  f = [k \in 0..MaxReadings |->
         IF k = 0 THEN RuleFirst ELSE RuleStep(rule, rds, k, f[k - 1])]

IsRegisterLog(f, d, rds, now) ==
  f = [k \in 0..MaxReadings |->
         IF k = 0 THEN RegisterFirst ELSE RegisterStep(d, rds, now, k, f[k - 1])]

LEMMA RuleLogExists ==
  ASSUME NEW rule, NEW rds PROVE \E f : IsRuleLog(f, rule, rds)
<1> DEFINE Log(f, n) == f = [k \in 0..n |->
                               IF k = 0 THEN RuleFirst ELSE RuleStep(rule, rds, k, f[k - 1])]
           T == {n \in Nat : \E f : Log(f, n)}
<1>1. 0 \in T
  <2>1. Log([k \in 0..0 |-> RuleFirst], 0)  OBVIOUS
  <2> QED  BY <2>1
<1>2. ASSUME NEW n \in Nat, n \in T PROVE n + 1 \in T
  <2>1. PICK f : Log(f, n)  BY <1>2
  <2> DEFINE g == [k \in 0..(n + 1) |->
                     IF k = 0 THEN RuleFirst ELSE RuleStep(rule, rds, k, f[k - 1])]
  <2>2. ASSUME NEW k \in 0..(n + 1), k # 0 PROVE g[k - 1] = f[k - 1]
    <3>1. k - 1 \in 0..n /\ k - 1 \in 0..(n + 1)  BY <2>2
    <3>2. f[k - 1] = IF k - 1 = 0 THEN RuleFirst
                     ELSE RuleStep(rule, rds, k - 1, f[k - 1 - 1])
      BY <2>1, <3>1
    <3> QED  BY <3>1, <3>2
  <2>3. Log(g, n + 1)  BY <2>2
  <2> HIDE DEF Log, g
  <2> QED  BY <2>3
<1> HIDE DEF T
<1>3. MaxReadings \in T  BY <1>1, <1>2, Counting, BoundAssumption
<1> QED  BY <1>3 DEF T, IsRuleLog

LEMMA RegisterLogExists ==
  ASSUME NEW d, NEW rds, NEW now PROVE \E f : IsRegisterLog(f, d, rds, now)
<1> DEFINE Log(f, n) == f = [k \in 0..n |->
                               IF k = 0 THEN RegisterFirst ELSE RegisterStep(d, rds, now, k, f[k - 1])]
           T == {n \in Nat : \E f : Log(f, n)}
<1>1. 0 \in T
  <2>1. Log([k \in 0..0 |-> RegisterFirst], 0)  OBVIOUS
  <2> QED  BY <2>1
<1>2. ASSUME NEW n \in Nat, n \in T PROVE n + 1 \in T
  <2>1. PICK f : Log(f, n)  BY <1>2
  <2> DEFINE g == [k \in 0..(n + 1) |->
                     IF k = 0 THEN RegisterFirst ELSE RegisterStep(d, rds, now, k, f[k - 1])]
  <2>2. ASSUME NEW k \in 0..(n + 1), k # 0 PROVE g[k - 1] = f[k - 1]
    <3>1. k - 1 \in 0..n /\ k - 1 \in 0..(n + 1)  BY <2>2
    <3>2. f[k - 1] = IF k - 1 = 0 THEN RegisterFirst
                     ELSE RegisterStep(d, rds, now, k - 1, f[k - 1 - 1])
      BY <2>1, <3>1
    <3> QED  BY <3>1, <3>2
  <2>3. Log(g, n + 1)  BY <2>2
  <2> HIDE DEF Log, g
  <2> QED  BY <2>3
<1> HIDE DEF T
<1>3. MaxReadings \in T  BY <1>1, <1>2, Counting, BoundAssumption
<1> QED  BY <1>3 DEF T, IsRegisterLog

LEMMA RuleLogOfIs ==
  ASSUME NEW rule, NEW rds
  PROVE  /\ RuleLogOf(rule, rds)[0] = RuleFirst
         /\ \A k \in 1..MaxReadings :
              RuleLogOf(rule, rds)[k] = RuleStep(rule, rds, k, RuleLogOf(rule, rds)[k - 1])
<1> DEFINE log == CHOOSE f : IsRuleLog(f, rule, rds)
<1>1. IsRuleLog(log, rule, rds)
  <2>1. \E f : IsRuleLog(f, rule, rds)  BY RuleLogExists
  <2> QED  BY <2>1
<1>2. RuleLogOf(rule, rds) = log  BY DEF RuleLogOf, RuleFirst, IsRuleLog
<1> HIDE DEF log
<1>3. /\ log[0] = RuleFirst
      /\ \A k \in 1..MaxReadings : log[k] = RuleStep(rule, rds, k, log[k - 1])
  BY <1>1, BoundAssumption DEF IsRuleLog
<1> QED  BY <1>2, <1>3

LEMMA RegisterLogOfIs ==
  ASSUME NEW d, NEW rds, NEW now
  PROVE  /\ RegisterLogOf(d, rds, now)[0] = RegisterFirst
         /\ \A k \in 1..MaxReadings :
              RegisterLogOf(d, rds, now)[k]
                = RegisterStep(d, rds, now, k, RegisterLogOf(d, rds, now)[k - 1])
<1> DEFINE log == CHOOSE f : IsRegisterLog(f, d, rds, now)
<1>1. IsRegisterLog(log, d, rds, now)
  <2>1. \E f : IsRegisterLog(f, d, rds, now)  BY RegisterLogExists
  <2> QED  BY <2>1
<1>2. RegisterLogOf(d, rds, now) = log  BY DEF RegisterLogOf, RegisterFirst, IsRegisterLog
<1> HIDE DEF log
<1>3. /\ log[0] = RegisterFirst
      /\ \A k \in 1..MaxReadings : log[k] = RegisterStep(d, rds, now, k, log[k - 1])
  BY <1>1, BoundAssumption DEF IsRegisterLog
<1> QED  BY <1>2, <1>3

-----------------------------------------------------------------------------
(* A table of events and the logs.  rls, rds and now stand for the rules,   *)
(* the readings and what the mappings match, which no step changes while    *)
(* nobody edits.                                                            *)

RuleMatches(t, r, log) ==
  /\ {t[id].at : id \in {i \in DOMAIN t : t[i].src = r}} = log.ats
  /\ (log.open = TRUE) <=> OpenOf(t, r) # {}
  /\ \A i, j \in OpenOf(t, r) : i = j

RegisterMatches(t, d, log) ==
  LET own == {id \in DOMAIN t : t[id].src \notin Rules /\ t[id].dev = d}
  IN  /\ {<<t[id].src, t[id].at>> : id \in own} = log.ats
      /\ {t[id].src : id \in OpenRegisterEvents(t, d)} = log.open

On(rls) == {r \in Rules : rls[r].state = "on"}

\* The table is what the first k readings call for.
Matches(rls, rds, now, t, k) ==
  /\ \A r \in On(rls) : RuleMatches(t, r, RuleLogOf(rls[r], rds)[k])
  /\ \A d \in Devices : RegisterMatches(t, d, RegisterLogOf(d, rds, now)[k])

\* The rules of listed, and the mappings, have not judged reading k yet.
Judging(rls, rds, now, t, k, listed) ==
  /\ \A l \in listed : /\ l.rule \in On(rls) /\ rls[l.rule].dev = rds[k].dev
                       /\ l.delay = rls[l.rule].delay /\ l.last \in LastBreach(t, l.rule)
  /\ \A r \in On(rls) :
       IF \E l \in listed : l.rule = r THEN RuleMatches(t, r, RuleLogOf(rls[r], rds)[k - 1])
       ELSE RuleMatches(t, r, RuleLogOf(rls[r], rds)[k])
  /\ \A d \in Devices : RegisterMatches(t, d, RegisterLogOf(d, rds, now)[k - 1])

Timely(t) == \A id \in DOMAIN t : t[id].state # "deleted" /\ t[id].at \in 1..MaxReadings

\* Two tables agree on rule r's events; on the mappings' of device d.
SameRule(t, u, r) ==
  /\ {id \in DOMAIN t : t[id].src = r} = {id \in DOMAIN u : u[id].src = r}
  /\ \A id \in {i \in DOMAIN t : t[i].src = r} :
       t[id].at = u[id].at /\ t[id].state = u[id].state

SameMappings(t, u, d) ==
  /\ {id \in DOMAIN t : t[id].src \notin Rules /\ t[id].dev = d}
       = {id \in DOMAIN u : u[id].src \notin Rules /\ u[id].dev = d}
  /\ \A id \in {i \in DOMAIN t : t[i].src \notin Rules /\ t[i].dev = d} :
       t[id].src = u[id].src /\ t[id].at = u[id].at /\ t[id].state = u[id].state

LEMMA RuleKept ==
  ASSUME NEW t, NEW u, NEW r, NEW log, SameRule(t, u, r)
  PROVE  /\ RuleMatches(t, r, log) => RuleMatches(u, r, log)
         /\ LastBreach(u, r) = LastBreach(t, r)
<1>1. PICK own : own = {id \in DOMAIN t : t[id].src = r} /\ own = {id \in DOMAIN u : u[id].src = r}
  BY DEF SameRule
<1>2. \A id \in own : t[id].at = u[id].at /\ t[id].state = u[id].state  BY <1>1 DEF SameRule
<1>3. OpenOf(t, r) = {id \in own : t[id].state = "open"}
      /\ OpenOf(u, r) = {id \in own : u[id].state = "open"}
  BY <1>1 DEF OpenOf
<1>4. OpenOf(t, r) = OpenOf(u, r)  BY <1>2, <1>3
<1>5. {t[id].at : id \in own} = {u[id].at : id \in own}  BY <1>2
<1>6. RuleMatches(t, r, log) => RuleMatches(u, r, log)
  BY <1>1, <1>4, <1>5 DEF RuleMatches
<1>7. {i \in DOMAIN t : t[i].src = r /\ t[i].state # "deleted"} = {i \in own : t[i].state # "deleted"}
      /\ {i \in DOMAIN u : u[i].src = r /\ u[i].state # "deleted"} = {i \in own : u[i].state # "deleted"}
  BY <1>1
<1>8. {i \in own : t[i].state # "deleted"} = {i \in own : u[i].state # "deleted"}  BY <1>2
<1>9. {t[i].at : i \in {j \in own : t[j].state # "deleted"}}
        = {u[i].at : i \in {j \in own : u[j].state # "deleted"}}
  BY <1>2
<1>10. LastBreach(u, r) = LastBreach(t, r)  BY <1>7, <1>9 DEF LastBreach
<1> QED  BY <1>6, <1>10

LEMMA MappingsKept ==
  ASSUME NEW t, NEW u, NEW d, NEW log, SameMappings(t, u, d), RegisterMatches(t, d, log)
  PROVE  RegisterMatches(u, d, log)
<1>1. PICK own : /\ own = {id \in DOMAIN t : t[id].src \notin Rules /\ t[id].dev = d}
                 /\ own = {id \in DOMAIN u : u[id].src \notin Rules /\ u[id].dev = d}
  BY DEF SameMappings
<1>2. \A id \in own : t[id].src = u[id].src /\ t[id].at = u[id].at /\ t[id].state = u[id].state
  BY <1>1 DEF SameMappings
<1>3. OpenRegisterEvents(t, d) = {id \in own : t[id].state = "open"}
      /\ OpenRegisterEvents(u, d) = {id \in own : u[id].state = "open"}
  BY <1>1 DEF OpenRegisterEvents
<1>4. {t[id].src : id \in OpenRegisterEvents(t, d)} = {u[id].src : id \in OpenRegisterEvents(u, d)}
  BY <1>2, <1>3
<1>5. {<<t[id].src, t[id].at>> : id \in own} = {<<u[id].src, u[id].at>> : id \in own}  BY <1>2
<1> QED  BY <1>1, <1>4, <1>5 DEF RegisterMatches

\* Two tables that differ in the acknowledgements at most.
SameEvents(t, u) ==
  /\ DOMAIN t = DOMAIN u
  /\ \A id \in DOMAIN t : /\ t[id].src = u[id].src /\ t[id].dev = u[id].dev
                          /\ t[id].at = u[id].at /\ t[id].state = u[id].state

LEMMA EventsKept ==
  ASSUME NEW t, NEW u, SameEvents(t, u), NEW rls, NEW rds, NEW now, NEW k, NEW listed
  PROVE  /\ Matches(rls, rds, now, t, k) => Matches(rls, rds, now, u, k)
         /\ Judging(rls, rds, now, t, k, listed) => Judging(rls, rds, now, u, k, listed)
         /\ Timely(t) => Timely(u)
<1>1. \A r : SameRule(t, u, r)  BY DEF SameEvents, SameRule
<1>2. \A d : SameMappings(t, u, d)  BY DEF SameEvents, SameMappings
<1>3. ASSUME NEW r, NEW log
      PROVE  /\ RuleMatches(t, r, log) => RuleMatches(u, r, log)
             /\ LastBreach(u, r) = LastBreach(t, r)
  BY <1>1, RuleKept
<1>4. ASSUME NEW d, NEW log, RegisterMatches(t, d, log) PROVE RegisterMatches(u, d, log)
  BY <1>2, <1>4, MappingsKept
<1>5. Timely(t) => Timely(u)  BY DEF SameEvents, Timely
<1>6. Matches(rls, rds, now, t, k) => Matches(rls, rds, now, u, k)
  BY <1>3, <1>4 DEF Matches
<1>7. Judging(rls, rds, now, t, k, listed) => Judging(rls, rds, now, u, k, listed)
  BY <1>3, <1>4 DEF Judging
<1> QED  BY <1>5, <1>6, <1>7

\* A rule's latest breach is one of its events, or 0, and there is exactly one latest.
LEMMA LastBreachIs ==
  ASSUME NEW t, Timely(t), NEW r
  PROVE  \E m \in Nat :
           /\ LastBreach(t, r) = {m}
           /\ m # 0 => \E id \in DOMAIN t : t[id].src = r /\ t[id].at = m
           /\ \A id \in DOMAIN t : t[id].src = r => t[id].at <= m
<1> DEFINE own == {i \in DOMAIN t : t[i].src = r /\ t[i].state # "deleted"}
           ats == {0} \cup {t[id].at : id \in own}
<1>1. ats \subseteq 0..MaxReadings /\ ats # {}
  BY BoundAssumption DEF Timely
<1>2. \A id \in DOMAIN t : t[id].src = r => t[id].at \in ats
  BY DEF Timely
<1>3. \A m \in ats : m # 0 => \E id \in DOMAIN t : t[id].src = r /\ t[id].at = m
  OBVIOUS
<1>4. LastBreach(t, r) = {x \in ats : \A y \in ats : y <= x}  BY DEF LastBreach
<1> HIDE DEF ats
<1>5. PICK m \in ats : \A y \in ats : y <= m
  BY <1>1, LargestNumber, BoundAssumption
<1>6. m \in Nat /\ \A y \in ats : y \in Nat  BY <1>1, BoundAssumption
<1>7. LastBreach(t, r) = {m}
  <2>1. m \in LastBreach(t, r)  BY <1>4, <1>5
  <2>2. ASSUME NEW x \in LastBreach(t, r) PROVE x = m
    <3>1. x \in ats /\ m <= x /\ x <= m  BY <1>4, <1>5, <2>2
    <3> QED  BY <3>1, <1>6
  <2> QED  BY <2>1, <2>2
<1> QED  BY <1>2, <1>3, <1>5, <1>6, <1>7

-----------------------------------------------------------------------------
(* Reading k is inserted, and judged.                                       *)

\* The rules listed for a reading are its device's, when each alarmed last.
LEMMA ListingTells ==
  ASSUME NEW rls, NEW rds, NEW now, NEW t, Timely(t), NEW k \in 1..MaxReadings,
         Matches(rls, rds, now, t, k - 1),
         NEW listed,
         listed = UNION {{[rule |-> r, delay |-> rls[r].delay, last |-> x] : x \in LastBreach(t, r)} :
                           r \in {q \in Rules : rls[q].state = "on" /\ rls[q].dev = rds[k].dev}}
  PROVE  Judging(rls, rds, now, t, k, listed)
<1>1. ASSUME NEW l \in listed
      PROVE  /\ l.rule \in On(rls) /\ rls[l.rule].dev = rds[k].dev
             /\ l.delay = rls[l.rule].delay /\ l.last \in LastBreach(t, l.rule)
  BY DEF On
<1>2. ASSUME NEW r \in On(rls), rls[r].dev = rds[k].dev
      PROVE  \E l \in listed : l.rule = r
  <2>1. PICK x : x \in LastBreach(t, r)  BY LastBreachIs
  <2>2. [rule |-> r, delay |-> rls[r].delay, last |-> x] \in listed
    BY <1>2, <2>1 DEF On
  <2> QED  BY <2>2
<1>3. ASSUME NEW r \in On(rls), rls[r].dev # rds[k].dev
      PROVE  RuleLogOf(rls[r], rds)[k] = RuleLogOf(rls[r], rds)[k - 1]
  <2>1. RuleLogOf(rls[r], rds)[k] = RuleStep(rls[r], rds, k, RuleLogOf(rls[r], rds)[k - 1])
    BY RuleLogOfIs
  <2> QED  BY <1>3, <2>1 DEF RuleStep
<1>4. ASSUME NEW r \in On(rls)
      PROVE  IF \E l \in listed : l.rule = r THEN RuleMatches(t, r, RuleLogOf(rls[r], rds)[k - 1])
             ELSE RuleMatches(t, r, RuleLogOf(rls[r], rds)[k])
  <2>1. RuleMatches(t, r, RuleLogOf(rls[r], rds)[k - 1])  BY DEF Matches
  <2>2. CASE rls[r].dev = rds[k].dev  BY <1>2, <2>1, <2>2
  <2>3. CASE rls[r].dev # rds[k].dev  BY <1>3, <2>1, <2>3
  <2> QED  BY <2>2, <2>3
<1> QED  BY <1>1, <1>4 DEF Judging, Matches

\* A rule's entry is the only one listed for it.
LEMMA OneEntry ==
  ASSUME NEW rls, NEW rds, NEW now, NEW t, Timely(t), NEW k, NEW listed \in SUBSET Listed,
         Judging(rls, rds, now, t, k, listed),
         NEW l \in listed, NEW m \in listed, l.rule = m.rule
  PROVE  l = m
<1>1. PICK x \in Nat : LastBreach(t, l.rule) = {x}  BY LastBreachIs
<1>2. l.last = x /\ m.last = x /\ l.delay = m.delay  BY <1>1 DEF Judging
<1> QED  BY <1>2 DEF Listed

\* The delay suppresses what the log's delay holds back.
LEMMA SuppressedIs ==
  ASSUME NEW t, Timely(t), NEW r, NEW was, RuleMatches(t, r, was),
         NEW last \in LastBreach(t, r), NEW delay \in Nat, NEW k \in Nat
  PROVE  (delay > 0 /\ last > 0 /\ k < last + delay)
           <=> (delay > 0 /\ \E x \in was.ats : k < x + delay)
<1>1. PICK m \in Nat :
        /\ LastBreach(t, r) = {m}
        /\ m # 0 => \E id \in DOMAIN t : t[id].src = r /\ t[id].at = m
        /\ \A id \in DOMAIN t : t[id].src = r => t[id].at <= m
  BY LastBreachIs
<1>2. last = m  BY <1>1
<1>3. was.ats = {t[id].at : id \in {i \in DOMAIN t : t[i].src = r}}  BY DEF RuleMatches
<1>4. m # 0 => m \in was.ats  BY <1>1, <1>3
<1>5. \A x \in was.ats : x \in Nat /\ x # 0 /\ x <= m  BY <1>1, <1>3, BoundAssumption DEF Timely
<1>6. ASSUME NEW x \in was.ats, k < x + delay PROVE m > 0 /\ k < m + delay
  BY <1>5, <1>6
<1> QED  BY <1>2, <1>4, <1>6

\* Table u is t with rule r's event n opened at k; with rule r's open events cleared.
OpensAt(t, u, n, r, k) ==
  /\ n \notin DOMAIN t /\ DOMAIN u = DOMAIN t \cup {n}
  /\ u[n].src = r /\ u[n].at = k /\ u[n].state = "open"
  /\ \A id \in DOMAIN t : u[id] = t[id]

Clears(t, u, r) ==
  /\ DOMAIN u = DOMAIN t
  /\ \A id \in OpenOf(t, r) : /\ u[id].src = t[id].src /\ u[id].dev = t[id].dev
                               /\ u[id].at = t[id].at /\ u[id].state = "cleared"
  /\ \A id \in DOMAIN t \ OpenOf(t, r) : u[id] = t[id]

LEMMA RuleOpens ==
  ASSUME NEW t, NEW r \in Rules, NEW was, RuleMatches(t, r, was), OpenOf(t, r) = {},
         NEW k, NEW n, NEW u, OpensAt(t, u, n, r, k)
  PROVE  /\ RuleMatches(u, r, [ats |-> was.ats \cup {k}, open |-> TRUE])
         /\ \A q : q # r => SameRule(t, u, q)
         /\ \A e : SameMappings(t, u, e)
<1>1. PICK own : own = {id \in DOMAIN t : t[id].src = r}  OBVIOUS
<1>2. {id \in DOMAIN u : u[id].src = r} = own \cup {n}  BY <1>1 DEF OpensAt
<1>3. {t[id].at : id \in own} = was.ats  BY <1>1 DEF RuleMatches
<1>4. {u[id].at : id \in own \cup {n}} = was.ats \cup {k}  BY <1>1, <1>3 DEF OpensAt
<1>5. OpenOf(u, r) = {n}  BY DEF OpenOf, OpensAt
<1>6. RuleMatches(u, r, [ats |-> was.ats \cup {k}, open |-> TRUE])
  BY <1>2, <1>4, <1>5 DEF RuleMatches
<1>7. \A q : q # r => SameRule(t, u, q)  BY DEF SameRule, OpensAt
<1>8. \A e : SameMappings(t, u, e)  BY DEF SameMappings, OpensAt
<1> QED  BY <1>6, <1>7, <1>8

LEMMA RuleClears ==
  ASSUME NEW t, NEW r \in Rules, NEW was, RuleMatches(t, r, was),
         NEW u, Clears(t, u, r)
  PROVE  /\ RuleMatches(u, r, [ats |-> was.ats, open |-> FALSE])
         /\ \A q : q # r => SameRule(t, u, q)
         /\ \A e : SameMappings(t, u, e)
<1>1. PICK own : own = {id \in DOMAIN t : t[id].src = r}  OBVIOUS
<1>2. {id \in DOMAIN u : u[id].src = r} = own  BY <1>1 DEF Clears
<1>3. {t[id].at : id \in own} = was.ats  BY <1>1 DEF RuleMatches
<1>4. \A id \in own : u[id].at = t[id].at  BY <1>1 DEF Clears
<1>5. {u[id].at : id \in own} = was.ats  BY <1>3, <1>4
<1>6. OpenOf(u, r) = {}  BY DEF OpenOf, Clears
<1>7. RuleMatches(u, r, [ats |-> was.ats, open |-> FALSE])
  BY <1>2, <1>5, <1>6 DEF RuleMatches
<1>8. \A id \in OpenOf(t, r) : t[id].src = r  BY DEF OpenOf
<1>9. \A q : q # r => SameRule(t, u, q)  BY <1>8 DEF SameRule, Clears
<1>10. \A e : SameMappings(t, u, e)  BY <1>8 DEF SameMappings, Clears
<1> QED  BY <1>7, <1>9, <1>10

\* Rule l.rule is judged, and the events of nothing else change.
LEMMA OneRuleJudged ==
  ASSUME NEW rls, NEW rds, NEW now, NEW t, Timely(t), NEW k, NEW listed \in SUBSET Listed,
         Judging(rls, rds, now, t, k, listed),
         NEW l \in listed, NEW u,
         RuleMatches(u, l.rule, RuleLogOf(rls[l.rule], rds)[k]),
         \A q : q # l.rule => SameRule(t, u, q),
         \A e : SameMappings(t, u, e)
  PROVE  Judging(rls, rds, now, u, k, listed \ {l})
<1>1. \A m \in listed \ {l} : m.rule # l.rule  BY OneEntry
<1>2. ASSUME NEW m \in listed \ {l}
      PROVE  /\ m.rule \in On(rls) /\ rls[m.rule].dev = rds[k].dev
             /\ m.delay = rls[m.rule].delay /\ m.last \in LastBreach(u, m.rule)
  <2>1. SameRule(t, u, m.rule)  BY <1>1
  <2>2. LastBreach(u, m.rule) = LastBreach(t, m.rule)  BY <2>1, RuleKept
  <2> QED  BY <2>2 DEF Judging
<1>3. ASSUME NEW r \in On(rls)
      PROVE  IF \E m \in listed \ {l} : m.rule = r
             THEN RuleMatches(u, r, RuleLogOf(rls[r], rds)[k - 1])
             ELSE RuleMatches(u, r, RuleLogOf(rls[r], rds)[k])
  <2>1. CASE r = l.rule  BY <1>1, <2>1
  <2>2. CASE r # l.rule
    <3>1. SameRule(t, u, r)  BY <2>2
    <3>2. \A log : RuleMatches(t, r, log) => RuleMatches(u, r, log)  BY <3>1, RuleKept
    <3>3. (\E m \in listed \ {l} : m.rule = r) <=> \E m \in listed : m.rule = r  BY <2>2
    <3> QED  BY <3>2, <3>3 DEF Judging
  <2> QED  BY <2>1, <2>2
<1>4. ASSUME NEW d \in Devices PROVE RegisterMatches(u, d, RegisterLogOf(d, rds, now)[k - 1])
  <2>1. SameMappings(t, u, d)  OBVIOUS
  <2>2. RegisterMatches(t, d, RegisterLogOf(d, rds, now)[k - 1])  BY DEF Judging
  <2> QED  BY <2>1, <2>2, MappingsKept
<1> QED  BY <1>2, <1>3, <1>4 DEF Judging

\* What the entry that is judged tells about its rule.
AtEntry(rls, rds, now, t, k, listed, l) ==
  /\ rls \in [Rules -> Rule] /\ rds \in [1..MaxReadings -> Reading] /\ k \in 1..MaxReadings
  /\ Timely(t) /\ listed \in SUBSET Listed /\ l \in listed
  /\ Judging(rls, rds, now, t, k, listed)

Held(l, k) == l.delay > 0 /\ l.last > 0 /\ k < l.last + l.delay

Verdict(rls, rds, t, k, l, was, is) ==
  /\ was = RuleLogOf(rls[l.rule], rds)[k - 1] /\ is = RuleLogOf(rls[l.rule], rds)[k]
  /\ l.rule \in Rules /\ NoValue \notin rls[l.rule].breach
  /\ RuleMatches(t, l.rule, was)
  /\ rds[k].value = NoValue => is = was
  /\ rds[k].value # NoValue /\ rds[k].value \notin rls[l.rule].breach
       => is = [ats |-> was.ats, open |-> FALSE]
  /\ rds[k].value \in rls[l.rule].breach
       => IF was.open = TRUE \/ Held(l, k) THEN is = was
          ELSE is = [ats |-> was.ats \cup {k}, open |-> TRUE]

LEMMA EntryTells ==
  ASSUME NEW rls, NEW rds, NEW now, NEW t, NEW k, NEW listed, NEW l,
         AtEntry(rls, rds, now, t, k, listed, l)
  PROVE  \E was, is : Verdict(rls, rds, t, k, l, was, is)
<1>1. PICK r, rule, was, is : r = l.rule /\ rule = rls[l.rule]
        /\ was = RuleLogOf(rule, rds)[k - 1] /\ is = RuleLogOf(rule, rds)[k]
  OBVIOUS
<1>2. /\ r \in Rules /\ rule \in Rule /\ rule.dev = rds[k].dev /\ k \in Nat
      /\ l.delay = rule.delay /\ l.last \in LastBreach(t, r) /\ l.delay \in Nat
  BY <1>1 DEF AtEntry, Judging, On, Listed
<1>3. RuleMatches(t, r, was)  BY <1>1, <1>2 DEF AtEntry, Judging
<1>4. NoValue \notin rule.breach  BY <1>2, NameAssumption DEF Rule
<1>5. Timely(t)  BY DEF AtEntry
<1>6. Held(l, k) <=> (l.delay > 0 /\ \E x \in was.ats : k < x + l.delay)
  BY <1>2, <1>3, <1>5, SuppressedIs DEF Held
<1>7. is = RuleStep(rule, rds, k, was)
  BY <1>1, RuleLogOfIs DEF AtEntry
<1>8. /\ rds[k].value = NoValue => is = was
      /\ rds[k].value # NoValue /\ rds[k].value \notin rule.breach
           => is = [ats |-> was.ats, open |-> FALSE]
      /\ rds[k].value \in rule.breach
           => IF was.open = TRUE \/ Held(l, k) THEN is = was
              ELSE is = [ats |-> was.ats \cup {k}, open |-> TRUE]
  BY <1>2, <1>4, <1>6, <1>7 DEF RuleStep
<1>9. Verdict(rls, rds, t, k, l, was, is)  BY <1>1, <1>2, <1>3, <1>4, <1>8 DEF Verdict
<1> QED  BY <1>9

LEMMA LeaveJudges ==
  ASSUME NEW rls, NEW rds, NEW now, NEW t, NEW k, NEW listed, NEW l,
         AtEntry(rls, rds, now, t, k, listed, l),
         \/ rds[k].value = NoValue
         \/ /\ rds[k].value \in rls[l.rule].breach
            /\ Held(l, k) \/ OpenOf(t, l.rule) # {}
  PROVE  Judging(rls, rds, now, t, k, listed \ {l})
<1>1. PICK was, is : Verdict(rls, rds, t, k, l, was, is)  BY EntryTells
<1>2. RuleMatches(t, l.rule, was)  BY <1>1 DEF Verdict
<1>3. is = was
  <2>1. OpenOf(t, l.rule) # {} => was.open = TRUE  BY <1>2 DEF RuleMatches
  <2> QED  BY <1>1, <2>1 DEF Verdict
<1>4. RuleMatches(t, l.rule, RuleLogOf(rls[l.rule], rds)[k])  BY <1>1, <1>2, <1>3 DEF Verdict
<1>5. (\A q : SameRule(t, t, q)) /\ (\A e : SameMappings(t, t, e))
  BY DEF SameRule, SameMappings
<1> QED  BY <1>4, <1>5, OneRuleJudged DEF AtEntry

LEMMA OpenJudges ==
  ASSUME NEW rls, NEW rds, NEW now, NEW t, NEW k, NEW listed, NEW l,
         AtEntry(rls, rds, now, t, k, listed, l),
         rds[k].value \in rls[l.rule].breach,
         ~Held(l, k),
         OpenOf(t, l.rule) = {},
         NEW n, NEW u, OpensAt(t, u, n, l.rule, k)
  PROVE  Judging(rls, rds, now, u, k, listed \ {l}) /\ Timely(u)
<1>1. PICK was, is : Verdict(rls, rds, t, k, l, was, is)  BY EntryTells
<1>2. RuleMatches(t, l.rule, was) /\ l.rule \in Rules  BY <1>1 DEF Verdict
<1>3. is = [ats |-> was.ats \cup {k}, open |-> TRUE]
  <2>1. was.open # TRUE  BY <1>2 DEF RuleMatches
  <2> QED  BY <1>1, <2>1 DEF Verdict
<1>4. /\ RuleMatches(u, l.rule, [ats |-> was.ats \cup {k}, open |-> TRUE])
      /\ \A q : q # l.rule => SameRule(t, u, q)
      /\ \A e : SameMappings(t, u, e)
  BY <1>2, RuleOpens
<1>5. Timely(u)  BY DEF Timely, AtEntry, OpensAt
<1>6. RuleMatches(u, l.rule, RuleLogOf(rls[l.rule], rds)[k])  BY <1>1, <1>3, <1>4 DEF Verdict
<1>7. Judging(rls, rds, now, u, k, listed \ {l})
  BY <1>4, <1>6, OneRuleJudged DEF AtEntry
<1> QED  BY <1>5, <1>7

LEMMA ClearJudges ==
  ASSUME NEW rls, NEW rds, NEW now, NEW t, NEW k, NEW listed, NEW l,
         AtEntry(rls, rds, now, t, k, listed, l),
         rds[k].value # NoValue, rds[k].value \notin rls[l.rule].breach,
         NEW u, Clears(t, u, l.rule)
  PROVE  Judging(rls, rds, now, u, k, listed \ {l}) /\ Timely(u)
<1>1. PICK was, is : Verdict(rls, rds, t, k, l, was, is)  BY EntryTells
<1>2. RuleMatches(t, l.rule, was) /\ l.rule \in Rules  BY <1>1 DEF Verdict
<1>3. is = [ats |-> was.ats, open |-> FALSE]
  BY <1>1 DEF Verdict
<1>4. /\ RuleMatches(u, l.rule, [ats |-> was.ats, open |-> FALSE])
      /\ \A q : q # l.rule => SameRule(t, u, q)
      /\ \A e : SameMappings(t, u, e)
  BY <1>2, RuleClears
<1>5. Timely(u)  BY DEF Timely, OpenOf, AtEntry, Clears
<1>6. RuleMatches(u, l.rule, RuleLogOf(rls[l.rule], rds)[k])  BY <1>1, <1>3, <1>4 DEF Verdict
<1>7. Judging(rls, rds, now, u, k, listed \ {l})
  BY <1>4, <1>6, OneRuleJudged DEF AtEntry
<1> QED  BY <1>5, <1>7

\* Table u is t when the mappings have judged reading k of device d, whose open events
\* are open: active are the mappings it matches, fresh the ids of new events.
FollowsMappings(t, u, open, fresh, active, d, k) ==
  /\ fresh \cap DOMAIN t = {} /\ \A i, j \in fresh : i = j
  /\ fresh = {} <=> active \ {t[id].src : id \in open} = {}
  /\ DOMAIN u = DOMAIN t \cup fresh
  /\ \A id \in fresh : /\ u[id].src \in active \ {t[i].src : i \in open}
                        /\ u[id].dev = d /\ u[id].at = k /\ u[id].state = "open"
  /\ \A id \in DOMAIN t :
       /\ u[id].src = t[id].src /\ u[id].dev = t[id].dev /\ u[id].at = t[id].at
       /\ u[id].state = IF id \in open /\ t[id].src \notin active THEN "cleared" ELSE t[id].state

\* The mappings judge reading k last: the table is what k readings call for.
LEMMA MappingsJudge ==
  ASSUME NEW rls, NEW rds \in [1..MaxReadings -> Reading], NEW now, NEW t, Timely(t),
         NEW k \in 1..MaxReadings, Judging(rls, rds, now, t, k, {}),
         now[k] \subseteq Nat \X Values, \A x, y \in now[k] : x = y,
         NEW d, d = rds[k].dev,
         NEW open, open = OpenRegisterEvents(t, d),
         NEW fresh, NEW u, FollowsMappings(t, u, open, fresh, now[k], d, k)
  PROVE  Matches(rls, rds, now, u, k) /\ Timely(u)
<1> /\ fresh \cap DOMAIN t = {} /\ \A i, j \in fresh : i = j
    /\ fresh = {} <=> now[k] \ {t[id].src : id \in open} = {}
    /\ DOMAIN u = DOMAIN t \cup fresh
    /\ \A id \in fresh : /\ u[id].src \in now[k] \ {t[i].src : i \in open}
                          /\ u[id].dev = d /\ u[id].at = k /\ u[id].state = "open"
    /\ \A id \in DOMAIN t :
         /\ u[id].src = t[id].src /\ u[id].dev = t[id].dev /\ u[id].at = t[id].at
         /\ u[id].state = IF id \in open /\ t[id].src \notin now[k] THEN "cleared" ELSE t[id].state
  BY DEF FollowsMappings
<1>1. PICK active : active = now[k]  OBVIOUS
<1>2. \A id \in open : id \in DOMAIN t /\ t[id].src \notin Rules /\ t[id].dev = d /\ t[id].state = "open"
  BY DEF OpenRegisterEvents
<1>3. \A id \in fresh : u[id].src \notin Rules  BY RuleAssumption
<1>4. ASSUME NEW r \in On(rls) PROVE RuleMatches(u, r, RuleLogOf(rls[r], rds)[k])
  <2>1. SameRule(t, u, r)  BY <1>2, <1>3 DEF SameRule, On
  <2>2. RuleMatches(t, r, RuleLogOf(rls[r], rds)[k])  BY DEF Judging
  <2> QED  BY <2>1, <2>2, RuleKept
<1>5. ASSUME NEW e \in Devices, e # d PROVE RegisterMatches(u, e, RegisterLogOf(e, rds, now)[k])
  <2>1. SameMappings(t, u, e)  BY <1>2, <1>5 DEF SameMappings
  <2>2. RegisterMatches(t, e, RegisterLogOf(e, rds, now)[k - 1])  BY DEF Judging
  <2>3. RegisterLogOf(e, rds, now)[k] = RegisterStep(e, rds, now, k, RegisterLogOf(e, rds, now)[k - 1])
    BY RegisterLogOfIs
  <2>4. RegisterLogOf(e, rds, now)[k] = RegisterLogOf(e, rds, now)[k - 1]
    BY <1>5, <2>3 DEF RegisterStep
  <2> QED  BY <2>1, <2>2, <2>4, MappingsKept
<1>6. RegisterMatches(u, d, RegisterLogOf(d, rds, now)[k])
  <2>1. PICK was : was = RegisterLogOf(d, rds, now)[k - 1]  OBVIOUS
  <2>2. RegisterMatches(t, d, was)  BY <2>1 DEF Judging, Reading
  <2>3. RegisterLogOf(d, rds, now)[k] = RegisterStep(d, rds, now, k, was)
    BY <2>1, RegisterLogOfIs
  <2>4. RegisterLogOf(d, rds, now)[k]
          = [ats |-> was.ats \cup {<<s, k>> : s \in active \ was.open}, open |-> active]
    BY <1>1, <2>3 DEF RegisterStep
  <2>5. PICK own : own = {id \in DOMAIN t : t[id].src \notin Rules /\ t[id].dev = d}  OBVIOUS
  <2>6. {id \in DOMAIN u : u[id].src \notin Rules /\ u[id].dev = d} = own \cup fresh
    BY <1>3, <2>5
  <2>7. {t[id].src : id \in open} = was.open /\ {<<t[id].src, t[id].at>> : id \in own} = was.ats
    BY <2>2, <2>5 DEF RegisterMatches
  <2>8. \A s \in active \ was.open : \E id \in fresh : u[id].src = s
    BY <1>1, <2>7
  <2>9. {<<u[id].src, u[id].at>> : id \in own \cup fresh}
          = was.ats \cup {<<s, k>> : s \in active \ was.open}
    <3>1. \A id \in own : u[id].src = t[id].src /\ u[id].at = t[id].at  BY <2>5
    <3>2. {<<u[id].src, u[id].at>> : id \in own} = was.ats  BY <3>1, <2>7
    <3>3. {<<u[id].src, u[id].at>> : id \in fresh} = {<<s, k>> : s \in active \ was.open}
      BY <1>1, <2>7, <2>8
    <3> QED  BY <3>2, <3>3
  <2>10. {u[id].src : id \in OpenRegisterEvents(u, d)} = active
    <3>1. ASSUME NEW s \in active PROVE \E id \in OpenRegisterEvents(u, d) : u[id].src = s
      <4>1. CASE s \in was.open
        <5>1. PICK id \in open : t[id].src = s  BY <4>1, <2>7
        <5>2. id \in OpenRegisterEvents(u, d)  BY <1>1, <1>2, <5>1 DEF OpenRegisterEvents
        <5> QED  BY <1>2, <5>1, <5>2
      <4>2. CASE s \notin was.open
        <5>1. PICK id \in fresh : u[id].src = s  BY <4>2, <2>8
        <5>2. id \in OpenRegisterEvents(u, d)  BY <1>3, <5>1 DEF OpenRegisterEvents
        <5> QED  BY <5>1, <5>2
      <4> QED  BY <4>1, <4>2
    <3>2. ASSUME NEW id \in OpenRegisterEvents(u, d) PROVE u[id].src \in active
      <4>1. id \in DOMAIN t \cup fresh /\ u[id].src \notin Rules /\ u[id].dev = d /\ u[id].state = "open"
        BY DEF OpenRegisterEvents
      <4>2. CASE id \in fresh  BY <1>1, <4>2
      <4>3. CASE id \in DOMAIN t
        <5>1. id \in open => t[id].src \in now[k]  BY <4>1, <4>3
        <5>2. id \in open  BY <4>1, <4>3 DEF OpenRegisterEvents
        <5> QED  BY <1>1, <4>3, <5>1, <5>2
      <4> QED  BY <4>1, <4>2, <4>3
    <3> QED  BY <3>1, <3>2
  <2> QED  BY <2>4, <2>6, <2>9, <2>10 DEF RegisterMatches
<1>7. Timely(u)  BY <1>2 DEF Timely
<1> QED  BY <1>4, <1>5, <1>6, <1>7 DEF Matches

-----------------------------------------------------------------------------
(* While nobody edits, the committed table and each transaction's view of   *)
(* it are what the readings call for.                                       *)

Tells(rls, rds, now, view, x) ==
  /\ Timely(view)
  /\ x.phase = "inserting" => Matches(rls, rds, now, view, x.at)
  /\ x.phase = "judging" => Judging(rls, rds, now, view, x.at, x.listed)

LogTells(rls, rds, now, table, k, txs) ==
  /\ Timely(table) /\ Matches(rls, rds, now, table, k)
  /\ \A p \in Pullers :
       txs[p].at # 0 => Tells(rls, rds, now, Over(txs[p].rows, table), txs[p])

LogInv == edits = 0 => LogTells(rules, readings, Matched, events, stored, tx)

LEMMA EndTells ==
  ASSUME NEW rls, NEW rds, NEW now, NEW table, NEW k, NEW txs,
         LogTells(rls, rds, now, table, k, txs),
         NEW new, \A p \in Pullers : new[p].at = 0 \/ new[p] = txs[p]
  PROVE  LogTells(rls, rds, now, table, k, new)
BY DEF LogTells

LEMMA WriteTells ==
  ASSUME NEW rls, NEW rds, NEW now, NEW table, NEW k, NEW txs,
         LogTells(rls, rds, now, table, k, txs),
         NEW new, NEW p \in Pullers, \A q \in Pullers \ {p} : new[q] = txs[q],
         Tells(rls, rds, now, Over(new[p].rows, table), new[p])
  PROVE  LogTells(rls, rds, now, table, k, new)
<1>1. ASSUME NEW q \in Pullers, new[q].at # 0
      PROVE  Tells(rls, rds, now, Over(new[q].rows, table), new[q])
  <2>1. CASE q = p  BY <2>1
  <2>2. CASE q # p
    <3>1. new[q] = txs[q]  BY <2>2
    <3> QED  BY <1>1, <3>1 DEF LogTells
  <2> QED  BY <2>1, <2>2
<1> QED  BY <1>1 DEF LogTells

LEMMA CommitTells ==
  ASSUME NEW rls, NEW rds, NEW now, NEW table, NEW k, NEW txs,
         LogTells(rls, rds, now, table, k, txs),
         NEW p \in Pullers, txs[p].at # 0, txs[p].phase = "inserting",
         NEW new, \A q \in Pullers : new[q].at = 0
  PROVE  LogTells(rls, rds, now, Over(txs[p].rows, table), txs[p].at, new)
BY DEF LogTells, Tells

LEMMA AcknowledgeTells ==
  ASSUME NEW rls, NEW rds, NEW now, NEW table, NEW k, NEW txs,
         LogTells(rls, rds, now, table, k, txs),
         NEW new, SameEvents(table, new),
         \A p \in Pullers : SameEvents(Over(txs[p].rows, table), Over(txs[p].rows, new))
  PROVE  LogTells(rls, rds, now, new, k, txs)
<1>1. Timely(new) /\ Matches(rls, rds, now, new, k)  BY EventsKept DEF LogTells
<1>2. ASSUME NEW p \in Pullers, txs[p].at # 0
      PROVE  Tells(rls, rds, now, Over(txs[p].rows, new), txs[p])
  <2>1. PICK v, w, at, listed : /\ v = Over(txs[p].rows, table) /\ w = Over(txs[p].rows, new)
                                /\ at = txs[p].at /\ listed = txs[p].listed
    OBVIOUS
  <2>2. SameEvents(v, w) /\ Tells(rls, rds, now, v, txs[p])  BY <1>2, <2>1 DEF LogTells
  <2>3. /\ Matches(rls, rds, now, v, at) => Matches(rls, rds, now, w, at)
        /\ Judging(rls, rds, now, v, at, listed) => Judging(rls, rds, now, w, at, listed)
        /\ Timely(v) => Timely(w)
    BY <2>2, EventsKept
  <2>4. Tells(rls, rds, now, w, txs[p])  BY <2>1, <2>2, <2>3 DEF Tells
  <2> QED  BY <2>1, <2>4
<1> QED  BY <1>1, <1>2 DEF LogTells

\* An empty table written over another one leaves it as it is.
LEMMA OverEmpty ==
  ASSUME NEW f, DOMAIN f = {}, NEW g \in Rows PROVE Over(f, g) = g
<1>1. g = [id \in DOMAIN g |-> g[id]]  BY RowsAre
<1> QED  BY <1>1 DEF Over

LEMMA LogInit == Init => LogInv
<1> SUFFICES ASSUME Init PROVE LogInv  OBVIOUS
<1>1. /\ events = Empty /\ stored = 0 /\ \A p \in Pullers : tx[p].at = 0
  BY IdleIs DEF Init
<1>2. Timely(Empty)  BY EmptyIs DEF Timely
<1>3. ASSUME NEW r PROVE RuleMatches(Empty, r, RuleFirst)
  BY EmptyIs DEF RuleMatches, OpenOf, RuleFirst
<1>4. ASSUME NEW d PROVE RegisterMatches(Empty, d, RegisterFirst)
  BY EmptyIs DEF RegisterMatches, OpenRegisterEvents, RegisterFirst
<1>5. ASSUME NEW rls, NEW rds, NEW now PROVE Matches(rls, rds, now, Empty, 0)
  BY <1>3, <1>4, RuleLogOfIs, RegisterLogOfIs DEF Matches
<1>6. LogTells(rules, readings, Matched, events, stored, tx)
  BY <1>1, <1>2, <1>5 DEF LogTells
<1> QED  BY <1>6 DEF LogInv

LEMMA InsertTells ==
  ASSUME IndInv, LogTells(rules, readings, Matched, events, stored, tx),
         NEW p \in Pullers, InsertReading(p)
  PROVE  LogTells(rules, readings, Matched, events, stored, tx')
<1> DEFINE k == NextNew(p)
           list == ListRules(p, readings[k].dev)
<1>t. /\ tx \in [Pullers -> Tx] /\ stored \in Nat /\ events \in Rows
      /\ tx[p].at \in Nat /\ tx[p].last \in Nat
  BY DEF IndInv, Types, Tx
<1>1. k \in 1..MaxReadings /\ k - 1 = (IF tx[p].at = 0 THEN stored ELSE tx[p].at)
  BY <1>t, BoundAssumption DEF NextNew, InsertReading, IndInv, Batches
<1> HIDE DEF k, list
<1>2. tx[p].phase = "inserting"
      /\ tx' = [tx EXCEPT ![p].phase = "judging", ![p].at = k, ![p].listed = list]
  BY DEF InsertReading, k, list
<1>3. /\ \A q \in Pullers \ {p} : tx'[q] = tx[q]
      /\ tx'[p].phase = "judging" /\ tx'[p].at = k /\ tx'[p].listed = list
      /\ tx'[p].rows = tx[p].rows
  BY <1>t, <1>2 DEF Tx
<1>4. PICK rls, rds, now, view, prev :
        /\ rls = rules /\ rds = readings /\ now = Matched /\ view = Visible(p) /\ prev = k - 1
  OBVIOUS
<1>5. Timely(view) /\ Matches(rls, rds, now, view, prev)
  <2>1. CASE tx[p].at = 0
    <3>1. view = events  BY <1>4, <1>t, <2>1, OverEmpty DEF Visible, IndInv, Batches
    <3> QED  BY <1>1, <1>4, <2>1, <3>1 DEF LogTells
  <2>2. CASE tx[p].at # 0
    <3>1. Tells(rls, rds, now, view, tx[p])  BY <1>4, <2>2 DEF LogTells, Visible
    <3>2. prev = tx[p].at  BY <1>1, <1>4, <2>2
    <3> QED  BY <1>2, <3>1, <3>2 DEF Tells
  <2> QED  BY <2>1, <2>2
<1>6. list = UNION {{[rule |-> r, delay |-> rls[r].delay, last |-> x] : x \in LastBreach(view, r)} :
                      r \in {q \in Rules : rls[q].state = "on" /\ rls[q].dev = rds[k].dev}}
  BY <1>4 DEF list, ListRules, ActiveRules
<1>7. PICK j, listed : j = k /\ listed = list  OBVIOUS
<1>8. Judging(rls, rds, now, view, j, listed)
  <2>1. j \in 1..MaxReadings /\ prev = j - 1  BY <1>1, <1>4, <1>7
  <2>2. listed = UNION {{[rule |-> r, delay |-> rls[r].delay, last |-> x] : x \in LastBreach(view, r)} :
                          r \in {q \in Rules : rls[q].state = "on" /\ rls[q].dev = rds[j].dev}}
    BY <1>6, <1>7
  <2>3. Matches(rls, rds, now, view, j - 1)  BY <1>5, <2>1
  <2> QED  BY <1>5, <2>1, <2>2, <2>3, ListingTells
<1>9. Tells(rls, rds, now, view, tx'[p])  BY <1>3, <1>5, <1>7, <1>8 DEF Tells
<1>10. Over(tx'[p].rows, events) = view  BY <1>3, <1>4 DEF Visible
<1>11. PICK txs, new, table, at :
         txs = tx /\ new = tx' /\ table = events /\ at = stored
  OBVIOUS
<1>12. LogTells(rls, rds, now, table, at, txs)  BY <1>4, <1>11
<1>13. Tells(rls, rds, now, Over(new[p].rows, table), new[p])  BY <1>9, <1>10, <1>11
<1>14. \A q \in Pullers \ {p} : new[q] = txs[q]  BY <1>3, <1>11
<1>15. LogTells(rls, rds, now, table, at, new)  BY <1>12, <1>13, <1>14, WriteTells
<1> QED  BY <1>4, <1>11, <1>15

\* What a transaction sees after it has written rows.
IsWritten(u, rows, v) ==
  /\ DOMAIN u = DOMAIN rows \cup DOMAIN v
  /\ \A id \in DOMAIN rows : u[id] = rows[id]
  /\ \A id \in DOMAIN v \ DOMAIN rows : u[id] = v[id]

LEMMA WrittenIs ==
  ASSUME NEW rows \in Rows, NEW mine \in Rows, NEW table \in Rows
  PROVE  IsWritten(Over(Over(rows, mine), table), rows, Over(mine, table))
<1>0. PICK u, v : u = Over(Over(rows, mine), table) /\ v = Over(mine, table)  OBVIOUS
<1>1. PICK both : both = Over(rows, mine)  OBVIOUS
<1>2. /\ both \in Rows /\ DOMAIN both = DOMAIN rows \cup DOMAIN mine
      /\ \A id \in DOMAIN rows : both[id] = rows[id]
      /\ \A id \in DOMAIN mine \ DOMAIN rows : both[id] = mine[id]
  BY <1>1, OverIs
<1>3. /\ DOMAIN u = DOMAIN both \cup DOMAIN table
      /\ \A id \in DOMAIN both : u[id] = both[id]
      /\ \A id \in DOMAIN table \ DOMAIN both : u[id] = table[id]
  <2>1. u = Over(both, table)  BY <1>0, <1>1
  <2>2. /\ DOMAIN Over(both, table) = DOMAIN both \cup DOMAIN table
        /\ \A id \in DOMAIN both : Over(both, table)[id] = both[id]
        /\ \A id \in DOMAIN table \ DOMAIN both : Over(both, table)[id] = table[id]
    BY <1>2, OverIs
  <2> QED  BY <2>1, <2>2
<1>4. /\ DOMAIN v = DOMAIN mine \cup DOMAIN table
      /\ \A id \in DOMAIN mine : v[id] = mine[id]
      /\ \A id \in DOMAIN table \ DOMAIN mine : v[id] = table[id]
  BY <1>0, OverIs
<1> QED  BY <1>0, <1>2, <1>3, <1>4 DEF IsWritten

\* A rule has been judged: what remains to be shown of the table.
LEMMA JudgedTells ==
  ASSUME IndInv, LogTells(rules, readings, Matched, events, stored, tx),
         NEW p \in Pullers, NEW l \in tx[p].listed, NEW rows \in Rows,
         AtRule(p, l), Judged(p, l, rows),
         NEW u, u = Over(Over(rows, tx[p].rows), events), Timely(u),
         Judging(rules, readings, Matched, u, tx[p].at, tx[p].listed \ {l})
  PROVE  LogTells(rules, readings, Matched, events, stored, tx')
<1>t. tx \in [Pullers -> Tx]  BY DEF IndInv, Types
<1> DEFINE list == tx[p].listed \ {l}
           all  == Over(rows, tx[p].rows)
<1>1. tx' = [tx EXCEPT ![p].listed = list, ![p].rows = all] /\ tx[p].phase = "judging"
  BY DEF Judged, AtRule
<1>2. PICK listed, both : listed = list /\ both = all  OBVIOUS
<1> HIDE DEF list, all
<1>3. /\ \A q \in Pullers \ {p} : tx'[q] = tx[q]
      /\ tx'[p].phase = "judging" /\ tx'[p].at = tx[p].at /\ tx'[p].listed = listed
      /\ tx'[p].rows = both
  BY <1>t, <1>1, <1>2 DEF Tx
<1>4. PICK rls, rds, now, txs, new, table, at :
        /\ rls = rules /\ rds = readings /\ now = Matched
        /\ txs = tx /\ new = tx' /\ table = events /\ at = stored
  OBVIOUS
<1>5. Judging(rls, rds, now, u, new[p].at, new[p].listed)  BY <1>2, <1>3, <1>4 DEF list
<1>6. u = Over(new[p].rows, table)  BY <1>2, <1>3, <1>4 DEF all
<1>7. Tells(rls, rds, now, Over(new[p].rows, table), new[p])
  BY <1>3, <1>4, <1>5, <1>6 DEF Tells
<1>8. LogTells(rls, rds, now, table, at, txs)  BY <1>4
<1>9. \A q \in Pullers \ {p} : new[q] = txs[q]  BY <1>3, <1>4
<1>10. LogTells(rls, rds, now, table, at, new)  BY <1>7, <1>8, <1>9, WriteTells
<1> QED  BY <1>4, <1>10

\* The rule's entry, with the transaction's view of the table.
LEMMA AtRuleTells ==
  ASSUME IndInv, LogTells(rules, readings, Matched, events, stored, tx),
         NEW p \in Pullers, NEW l \in tx[p].listed, AtRule(p, l)
  PROVE  AtEntry(rules, readings, Matched, Visible(p), tx[p].at, tx[p].listed, l)
<1>1. tx[p].phase = "judging" /\ tx[p].at # 0 /\ tx[p].at \in 1..MaxReadings
  BY BoundAssumption DEF AtRule, IndInv, Types, Tx, Batches
<1>2. Tells(rules, readings, Matched, Visible(p), tx[p])
  BY <1>1 DEF LogTells, Visible
<1>3. tx[p].listed \in SUBSET Listed /\ rules \in [Rules -> Rule]
      /\ readings \in [1..MaxReadings -> Reading]
  BY DEF IndInv, Types, Tx
<1> QED  BY <1>1, <1>2, <1>3 DEF AtEntry, Tells

LEMMA LeaveRuleTells ==
  ASSUME IndInv, LogTells(rules, readings, Matched, events, stored, tx),
         NEW p \in Pullers, NEW l \in tx[p].listed, LeaveRule(p, l)
  PROVE  LogTells(rules, readings, Matched, events, stored, tx')
<1>1. AtRule(p, l) /\ Judged(p, l, Empty)  BY DEF LeaveRule
<1>2. PICK rls, rds, now, view, k, listed, mine :
        /\ rls = rules /\ rds = readings /\ now = Matched /\ view = Visible(p)
        /\ k = tx[p].at /\ listed = tx[p].listed /\ mine = tx[p].rows
  OBVIOUS
<1>3. AtEntry(rls, rds, now, view, k, listed, l)  BY <1>1, <1>2, AtRuleTells
<1>4. \/ rds[k].value = NoValue
      \/ /\ rds[k].value \in rls[l.rule].breach
         /\ Held(l, k) \/ OpenOf(view, l.rule) # {}
  BY <1>2 DEF LeaveRule, Breaches, Suppressed, Held
<1>5. Judging(rls, rds, now, view, k, listed \ {l})  BY <1>3, <1>4, LeaveJudges
<1>6. Timely(view)  BY <1>3 DEF AtEntry
<1>7. mine \in Rows  BY <1>2 DEF IndInv, Types, Tx
<1>8. Over(Empty, mine) = mine  BY <1>7, EmptyIs, OverEmpty
<1>9. view = Over(Over(Empty, tx[p].rows), events)  BY <1>2, <1>8 DEF Visible
<1>10. Judging(rules, readings, Matched, view, tx[p].at, tx[p].listed \ {l})  BY <1>2, <1>5
<1> QED  BY <1>1, <1>6, <1>9, <1>10, EmptyIs, JudgedTells

LEMMA OpenRuleEventTells ==
  ASSUME IndInv, LogTells(rules, readings, Matched, events, stored, tx),
         NEW p \in Pullers, NEW l \in tx[p].listed, OpenRuleEvent(p, l)
  PROVE  LogTells(rules, readings, Matched, events, stored, tx')
<1>1. PICK rls, rds, now, view, k, listed, mine, n, table :
        /\ rls = rules /\ rds = readings /\ now = Matched /\ view = Visible(p)
        /\ k = tx[p].at /\ listed = tx[p].listed /\ mine = tx[p].rows /\ n = lastId + 1
        /\ table = events
  OBVIOUS
<1>v. PICK row : row = Opened(l.rule, rds[k].dev, k)  OBVIOUS
<1> DEFINE rows == [id \in {n} |-> row]
           u    == Over(Over(rows, mine), table)
<1>2. AtRule(p, l) /\ Judged(p, l, rows)  BY <1>1, <1>v DEF OpenRuleEvent
<1>3. AtEntry(rls, rds, now, view, k, listed, l)  BY <1>1, <1>2, AtRuleTells
<1>4. /\ rds[k].value \in rls[l.rule].breach /\ ~Held(l, k)
      /\ OpenOf(view, l.rule) = {}
  BY <1>1 DEF OpenRuleEvent, Breaches, Suppressed, Held
<1>5. mine \in Rows /\ table \in Rows /\ l.rule \in Sources /\ lastId \in Nat
      /\ view = Over(mine, table)
  BY <1>1 DEF IndInv, Types, Tx, Listed, Sources, Visible
<1>6. n \in Nat /\ n \notin DOMAIN view
  <2>1. DOMAIN view \subseteq 1..lastId  BY <1>1, VisibleIs DEF IndInv, KnownIds
  <2> QED  BY <1>1, <1>5, <2>1
<1>7. rows \in Rows
  <2>1. k \in Nat /\ rds[k].dev \in Devices  BY <1>1, <1>2, ReadingIs DEF AtRule
  <2>2. row \in Row  BY <1>5, <1>v, <2>1 DEF Opened, Row
  <2>3. rows \in [{n} -> Row] /\ {n} \in SUBSET Nat  BY <1>6, <2>2
  <2> QED  BY <2>3 DEF Rows
<1>8. DOMAIN rows = {n} /\ rows[n].src = l.rule /\ rows[n].at = k /\ rows[n].state = "open"
  BY <1>v DEF Opened
<1>u. u = Over(Over(rows, mine), table)  OBVIOUS
<1> HIDE DEF rows, u
<1>9. OpensAt(view, u, n, l.rule, k)
  <2>1. IsWritten(u, rows, view)  BY <1>5, <1>7, <1>u, WrittenIs
  <2> QED  BY <1>6, <1>8, <2>1 DEF IsWritten, OpensAt
<1>10. Judging(rls, rds, now, u, k, listed \ {l}) /\ Timely(u)
  BY <1>3, <1>4, <1>6, <1>9, OpenJudges
<1>11. Judging(rules, readings, Matched, u, tx[p].at, tx[p].listed \ {l})  BY <1>1, <1>10
<1>12. u = Over(Over(rows, tx[p].rows), events)  BY <1>1, <1>u
<1> QED  BY <1>2, <1>7, <1>10, <1>11, <1>12, JudgedTells

LEMMA ClearRuleEventTells ==
  ASSUME IndInv, LogTells(rules, readings, Matched, events, stored, tx),
         NEW p \in Pullers, NEW l \in tx[p].listed, ClearRuleEvent(p, l)
  PROVE  LogTells(rules, readings, Matched, events, stored, tx')
<1>1. PICK rls, rds, now, view, k, listed, mine, table :
        /\ rls = rules /\ rds = readings /\ now = Matched /\ view = Visible(p)
        /\ k = tx[p].at /\ listed = tx[p].listed /\ mine = tx[p].rows /\ table = events
  OBVIOUS
<1> DEFINE open == OpenOf(view, l.rule)
           rows == Cleared(view, open)
           u    == Over(Over(rows, mine), table)
<1>2. AtRule(p, l) /\ Judged(p, l, rows)  BY <1>1 DEF ClearRuleEvent
<1>3. AtEntry(rls, rds, now, view, k, listed, l)  BY <1>1, <1>2, AtRuleTells
<1>4. rds[k].value # NoValue /\ rds[k].value \notin rls[l.rule].breach
  BY <1>1 DEF ClearRuleEvent, Breaches
<1>5. mine \in Rows /\ table \in Rows /\ view = Over(mine, table)
  BY <1>1 DEF IndInv, Types, Tx, Visible
<1>6. view \in Rows /\ \A id \in DOMAIN view : view[id] \in Row
  BY <1>1, VisibleIs DEF IndInv
<1>7. open \in SUBSET DOMAIN view  BY DEF OpenOf
<1>8. rows \in Rows /\ DOMAIN rows = open  BY <1>6, <1>7, ClearedIs
<1>9. ASSUME NEW id \in open
      PROVE  /\ rows[id].src = view[id].src /\ rows[id].dev = view[id].dev
             /\ rows[id].at = view[id].at /\ rows[id].state = "cleared"
  BY <1>6, <1>7, ClearedRowIs
<1>u. u = Over(Over(rows, mine), table)  OBVIOUS
<1>o. open = OpenOf(view, l.rule)  OBVIOUS
<1> HIDE DEF rows, u, open
<1>10. IsWritten(u, rows, view)  BY <1>5, <1>8, <1>u, WrittenIs
<1>11. Clears(view, u, l.rule)  BY <1>7, <1>8, <1>9, <1>10, <1>o DEF IsWritten, Clears
<1>12. Judging(rls, rds, now, u, k, listed \ {l}) /\ Timely(u)
  BY <1>3, <1>4, <1>11, ClearJudges
<1>13. Judging(rules, readings, Matched, u, tx[p].at, tx[p].listed \ {l})  BY <1>1, <1>12
<1>14. u = Over(Over(rows, tx[p].rows), events)  BY <1>1, <1>u
<1> QED  BY <1>2, <1>8, <1>12, <1>13, <1>14, JudgedTells

LEMMA JudgeMappingsTells ==
  ASSUME IndInv, LogTells(rules, readings, Matched, events, stored, tx),
         NEW p \in Pullers, JudgeMappings(p)
  PROVE  LogTells(rules, readings, Matched, events, stored, tx')
<1>1. PICK rls, rds, now, view, k, mine, table, n, prof :
        /\ rls = rules /\ rds = readings /\ now = Matched /\ view = Visible(p)
        /\ k = tx[p].at /\ mine = tx[p].rows /\ table = events /\ n = lastId + 1
        /\ prof = profile
  OBVIOUS
<1>2. PICK d, active, open :
        /\ d = rds[k].dev /\ active = Active(readings[tx[p].at].value)
        /\ open = OpenRegisterEvents(view, d)
  OBVIOUS
<1>3. PICK toOpen : toOpen = active \ {view[id].src : id \in open}  OBVIOUS
<1>4. PICK toClose : toClose = {id \in open : view[id].src \notin active}  OBVIOUS
<1>5. PICK closed : closed = Cleared(view, open)  OBVIOUS
<1>6. PICK ids : ids = {i \in {n} : toOpen # {}}  OBVIOUS
<1>7. PICK row : row = Opened(CHOOSE s \in toOpen : TRUE, d, k)  OBVIOUS
<1> DEFINE held   == [id \in open |-> IF id \in toClose THEN closed[id] ELSE view[id]]
           new    == [id \in ids |-> row]
           writes == Over(new, held)
           u      == Over(Over(writes, mine), table)
<1>8. /\ tx[p].phase = "judging" /\ tx[p].listed = {}
      /\ tx' = [tx EXCEPT ![p].phase = "inserting", ![p].rows = Over(writes, @)]
  <2> DEFINE Open    == OpenRegisterEvents(Visible(p), readings[tx[p].at].dev)
             Now     == Active(readings[tx[p].at].value)
             Close   == {id \in Open : Visible(p)[id].src \notin Now}
             Begun   == Now \ {Visible(p)[id].src : id \in Open}
             Kept   == [id \in Open |-> IF id \in Close THEN Cleared(Visible(p), Open)[id]
                                         ELSE Visible(p)[id]]
             New     == [id \in {i \in {lastId + 1} : Begun # {}} |->
                           Opened(CHOOSE src \in Begun : TRUE, readings[tx[p].at].dev, tx[p].at)]
  <2>1. /\ tx[p].phase = "judging" /\ tx[p].listed = {}
        /\ tx' = [tx EXCEPT ![p].phase = "inserting", ![p].rows = Over(Over(New, Kept), @)]
    BY DEF JudgeMappings
  <2>2. Open = open /\ Now = active  BY <1>1, <1>2
  <2> HIDE DEF Open, Now
  <2>3. Close = toClose /\ Begun = toOpen  BY <1>1, <1>3, <1>4, <2>2
  <2> HIDE DEF Close, Begun
  <2>4. Kept = held  BY <1>1, <1>5, <2>2, <2>3
  <2>5. New = new  BY <1>1, <1>2, <1>6, <1>7, <2>3
  <2> HIDE DEF Kept, New, held, new
  <2> QED  BY <2>1, <2>4, <2>5
<1>9. /\ tx \in [Pullers -> Tx] /\ mine \in Rows /\ table \in Rows /\ lastId \in Nat
      /\ rds \in [1..MaxReadings -> Reading] /\ view = Over(mine, table)
      /\ prof \in [gen : Nat, alarms : SUBSET Values]
  BY <1>1 DEF IndInv, Types, Tx, Visible
<1>10. k \in 1..MaxReadings /\ k # 0
  BY <1>1, <1>8, BoundAssumption DEF IndInv, Types, Tx, Batches
<1>11. now[k] = active  BY <1>1, <1>2, <1>10 DEF Matched
<1>12. active \subseteq Nat \X Values /\ \A x, y \in active : x = y
  BY <1>1, <1>2, <1>9 DEF Active
<1>13. view \in Rows /\ \A id \in DOMAIN view : view[id] \in Row /\ id \in Nat
  BY <1>1, VisibleIs DEF IndInv
<1>14. open \in SUBSET DOMAIN view  BY <1>2 DEF OpenRegisterEvents
<1>15. n \in Nat /\ n \notin DOMAIN view
  <2>1. DOMAIN view \subseteq 1..lastId  BY <1>1, VisibleIs DEF IndInv, KnownIds
  <2> QED  BY <1>1, <1>9, <2>1
<1>16. ASSUME NEW id \in open
       PROVE  /\ closed[id] \in Row
              /\ closed[id].src = view[id].src /\ closed[id].dev = view[id].dev
              /\ closed[id].at = view[id].at /\ closed[id].state = "cleared"
  <2>1. closed \in Rows /\ DOMAIN closed = open  BY <1>5, <1>13, <1>14, ClearedIs
  <2>2. closed[id] \in Row  BY <2>1, RowsAre
  <2> QED  BY <1>5, <1>13, <1>14, <2>2, ClearedRowIs
<1>17. held \in Rows /\ DOMAIN held = open
  <2>1. held \in [open -> Row] /\ open \in SUBSET Nat  BY <1>13, <1>14, <1>16
  <2> QED  BY <2>1 DEF Rows
<1>18. /\ ids \subseteq {n} /\ (ids = {} <=> toOpen = {})
       /\ ids # {} => /\ row \in Row /\ row.src \in toOpen
                      /\ row.dev = d /\ row.at = k /\ row.state = "open"
  <2>1. ids \subseteq {n} /\ (ids = {} <=> toOpen = {})  BY <1>6
  <2>2. ASSUME toOpen # {}
        PROVE  /\ row \in Row /\ row.src \in toOpen
               /\ row.dev = d /\ row.at = k /\ row.state = "open"
    <3>1. PICK src : src = CHOOSE s \in toOpen : TRUE  OBVIOUS
    <3>2. src \in toOpen  BY <2>2, <3>1
    <3>3. src \in Sources  BY <3>2, <1>3, <1>12 DEF Sources
    <3>4. d \in Devices /\ k \in Nat  BY <1>2, <1>9, <1>10 DEF Reading
    <3>5. row = Opened(src, d, k)  BY <1>7, <3>1
    <3> QED  BY <3>2, <3>3, <3>4, <3>5 DEF Opened, Row
  <2> QED  BY <2>1, <2>2
<1>19. new \in Rows /\ DOMAIN new = ids
  <2>1. new \in [ids -> Row] /\ ids \in SUBSET Nat  BY <1>15, <1>18
  <2> QED  BY <2>1 DEF Rows
<1>20. /\ \A id \in ids : new[id] = row
       /\ \A id \in open : held[id] = IF id \in toClose THEN closed[id] ELSE view[id]
  OBVIOUS
<1> HIDE DEF new, held
<1>u. u = Over(Over(writes, mine), table)  OBVIOUS
<1>w. writes = Over(new, held)  OBVIOUS
<1> HIDE DEF writes, u
<1>21. /\ writes \in Rows /\ DOMAIN writes = ids \cup open
       /\ \A id \in ids : writes[id] = row
       /\ \A id \in open \ ids : writes[id] = IF id \in toClose THEN closed[id] ELSE view[id]
  <2>1. /\ Over(new, held) \in Rows /\ DOMAIN Over(new, held) = DOMAIN new \cup DOMAIN held
        /\ \A id \in DOMAIN new : Over(new, held)[id] = new[id]
        /\ \A id \in DOMAIN held \ DOMAIN new : Over(new, held)[id] = held[id]
    BY <1>17, <1>19, OverIs
  <2> QED  BY <1>17, <1>19, <1>20, <1>w, <2>1
<1>22. IsWritten(u, writes, view)  BY <1>9, <1>21, <1>u, WrittenIs
<1>23. FollowsMappings(view, u, open, ids, active, d, k)
  <2>1. ids \cap DOMAIN view = {} /\ \A i, j \in ids : i = j  BY <1>15, <1>18
  <2>2. ids = {} <=> active \ {view[id].src : id \in open} = {}  BY <1>3, <1>18
  <2>3. DOMAIN u = DOMAIN view \cup ids  BY <1>14, <1>21, <1>22 DEF IsWritten
  <2>4. ASSUME NEW id \in ids
        PROVE  /\ u[id].src \in active \ {view[i].src : i \in open}
               /\ u[id].dev = d /\ u[id].at = k /\ u[id].state = "open"
    <3>1. u[id] = row  BY <1>21, <1>22 DEF IsWritten
    <3> QED  BY <1>3, <1>18, <3>1
  <2>5. ASSUME NEW id \in DOMAIN view
        PROVE  /\ u[id].src = view[id].src /\ u[id].dev = view[id].dev /\ u[id].at = view[id].at
               /\ u[id].state = IF id \in open /\ view[id].src \notin active THEN "cleared"
                                ELSE view[id].state
    <3>1. id \notin ids  BY <1>15, <1>18
    <3>2. CASE id \in open
      <4>1. u[id] = IF id \in toClose THEN closed[id] ELSE view[id]
        BY <1>21, <1>22, <3>1, <3>2 DEF IsWritten
      <4> QED  BY <1>4, <1>16, <3>2, <4>1
    <3>3. CASE id \notin open
      <4>1. u[id] = view[id]  BY <1>21, <1>22, <3>1, <3>3 DEF IsWritten
      <4> QED  BY <3>3, <4>1
    <3> QED  BY <3>2, <3>3
  <2> QED  BY <2>1, <2>2, <2>3, <2>4, <2>5 DEF FollowsMappings
<1>24. Tells(rls, rds, now, view, tx[p])  BY <1>1, <1>10 DEF LogTells, Visible
<1>25. Timely(view) /\ Judging(rls, rds, now, view, k, {})  BY <1>1, <1>8, <1>24 DEF Tells
<1>26. FollowsMappings(view, u, open, ids, now[k], d, k)
       /\ now[k] \subseteq Nat \X Values /\ \A x, y \in now[k] : x = y
  BY <1>11, <1>12, <1>23
<1>27. Matches(rls, rds, now, u, k) /\ Timely(u)
  BY <1>2, <1>9, <1>10, <1>25, <1>26, MappingsJudge
<1>28. PICK both : both = Over(writes, mine)  OBVIOUS
<1>29. tx' = [tx EXCEPT ![p].phase = "inserting", ![p].rows = both]  BY <1>1, <1>8, <1>28
<1>30. /\ \A q \in Pullers \ {p} : tx'[q] = tx[q]
       /\ tx'[p].phase = "inserting" /\ tx'[p].at = tx[p].at /\ tx'[p].rows = both
  BY <1>9, <1>29 DEF Tx
<1>31. PICK txs, fresh, at : txs = tx /\ fresh = tx' /\ at = stored  OBVIOUS
<1>32. LogTells(rls, rds, now, table, at, txs)  BY <1>1, <1>31
<1>33. u = Over(fresh[p].rows, table)  BY <1>28, <1>30, <1>31, <1>u
<1>34. Tells(rls, rds, now, Over(fresh[p].rows, table), fresh[p])
  BY <1>1, <1>27, <1>30, <1>31, <1>33 DEF Tells
<1>35. \A q \in Pullers \ {p} : fresh[q] = txs[q]  BY <1>30, <1>31
<1>36. LogTells(rls, rds, now, table, at, fresh)  BY <1>32, <1>34, <1>35, WriteTells
<1> QED  BY <1>1, <1>31, <1>36

\* A transaction commits: its view becomes the committed table.
LEMMA CommittedTells ==
  ASSUME IndInv, LogTells(rules, readings, Matched, events, stored, tx),
         NEW p \in Pullers, tx[p].phase = "inserting", Committed(p),
         tx' = [tx EXCEPT ![p] = Idle]
  PROVE  LogTells(rules, readings, Matched, events', stored', tx')
<1>t. tx \in [Pullers -> Tx] /\ events \in Rows  BY DEF IndInv, Types
<1>1. tx'[p].at = 0 /\ \A q \in Pullers \ {p} : tx'[q] = tx[q]  BY <1>t, IdleIs
<1>2. PICK rls, rds, now, table, k, txs, new, mine, at :
        /\ rls = rules /\ rds = readings /\ now = Matched /\ table = events /\ k = stored
        /\ txs = tx /\ new = tx' /\ mine = tx[p].rows /\ at = tx[p].at
  OBVIOUS
<1>3. LogTells(rls, rds, now, table, k, txs)  BY <1>2
<1>4. events' = Over(txs[p].rows, table) /\ stored' = IF txs[p].at = 0 THEN k ELSE txs[p].at
  BY <1>2 DEF Committed
<1>5. CASE txs[p].at = 0
  <2>1. DOMAIN txs[p].rows = {}  BY <1>2, <1>5 DEF IndInv, Batches
  <2>2. events' = table /\ stored' = k
    BY <1>t, <1>2, <1>4, <1>5, <2>1, OverEmpty
  <2>3. \A q \in Pullers : new[q].at = 0 \/ new[q] = txs[q]  BY <1>1, <1>2
  <2>4. LogTells(rls, rds, now, table, k, new)  BY <1>3, <2>3, EndTells
  <2> QED  BY <1>2, <2>2, <2>4
<1>6. CASE txs[p].at # 0
  <2>1. \A q \in Pullers : new[q].at = 0
    <3>1. \A q \in Pullers \ {p} : tx[q].at = 0  BY <1>2, <1>6 DEF IndInv, OneWriter
    <3> QED  BY <1>1, <1>2, <3>1
  <2>2. txs[p].phase = "inserting"  BY <1>2
  <2>3. LogTells(rls, rds, now, Over(txs[p].rows, table), txs[p].at, new)
    BY <1>3, <1>6, <2>1, <2>2, CommitTells
  <2> QED  BY <1>2, <1>4, <1>6, <2>3
<1> QED  BY <1>5, <1>6

\* Transactions that begin, or end without a commit.
LEMMA FrameTells ==
  ASSUME LogTells(rules, readings, Matched, events, stored, tx),
         \A p \in Pullers : tx'[p].at = 0 \/ tx'[p] = tx[p], UNCHANGED <<events, stored>>
  PROVE  LogTells(rules, readings, Matched, events', stored', tx')
<1>1. PICK rls, rds, now, table, k, txs, new :
        /\ rls = rules /\ rds = readings /\ now = Matched /\ table = events /\ k = stored
        /\ txs = tx /\ new = tx'
  OBVIOUS
<1>2. LogTells(rls, rds, now, table, k, txs) /\ \A p \in Pullers : new[p].at = 0 \/ new[p] = txs[p]
  BY <1>1
<1>3. LogTells(rls, rds, now, table, k, new)  BY <1>2, EndTells
<1> QED  BY <1>1, <1>3

LEMMA BeginTells ==
  ASSUME IndInv, LogTells(rules, readings, Matched, events, stored, tx),
         NEW p \in Pullers, Begin(p)
  PROVE  LogTells(rules, readings, Matched, events', stored', tx')
<1>1. PICK last : tx' = [tx EXCEPT ![p] = [Idle EXCEPT !.phase = "inserting", !.last = last]]
  BY DEF Begin
<1>2. PICK new : new = [Idle EXCEPT !.phase = "inserting", !.last = last]  OBVIOUS
<1>3. new.at = 0  BY <1>2 DEF Idle
<1>4. tx' = [tx EXCEPT ![p] = new] /\ tx \in [Pullers -> Tx]
  BY <1>1, <1>2 DEF IndInv, Types
<1>5. \A q \in Pullers : tx'[q].at = 0 \/ tx'[q] = tx[q]  BY <1>3, <1>4
<1>6. UNCHANGED <<events, stored>>  BY DEF Begin, storeVars, alarmVars
<1> QED  BY <1>5, <1>6, FrameTells

LEMMA IngestFailsTells ==
  ASSUME IndInv, LogTells(rules, readings, Matched, events, stored, tx),
         NEW p \in Pullers, IngestFails(p)
  PROVE  LogTells(rules, readings, Matched, events', stored', tx')
<1>1. tx' = [tx EXCEPT ![p] = Idle] /\ tx \in [Pullers -> Tx]
  BY DEF IngestFails, IndInv, Types
<1>2. CASE UNCHANGED <<events, stored>>
  <2>1. \A q \in Pullers : tx'[q].at = 0 \/ tx'[q] = tx[q]  BY <1>1, IdleIs
  <2> QED  BY <1>2, <2>1, FrameTells
<1>3. CASE tx[p].phase = "inserting" /\ Committed(p)  BY <1>1, <1>3, CommittedTells
<1> QED  BY <1>2, <1>3 DEF IngestFails

LEMMA AcknowledgedTells ==
  ASSUME IndInv, LogTells(rules, readings, Matched, events, stored, tx),
         NEW u \in Users, Acknowledge(u)
  PROVE  LogTells(rules, readings, Matched, events', stored', tx')
<1>1. PICK rls, rds, now, table, k, txs, new, e :
        /\ rls = rules /\ rds = readings /\ now = Matched /\ table = events /\ k = stored
        /\ txs = tx /\ new = events' /\ e = ack[u]
  OBVIOUS
<1>2. /\ new = [table EXCEPT ![e].ack = u] /\ tx' = txs /\ stored' = k /\ e # 0
  BY <1>1 DEF Acknowledge, storeVars
<1>3. /\ table \in Rows /\ \A id \in DOMAIN table : table[id] \in Row
      /\ e \in DOMAIN table /\ \A p \in Pullers : e \notin DOMAIN txs[p].rows
  BY <1>1, <1>2, RowsAre DEF IndInv, Types, Locks
<1>4. /\ DOMAIN new = DOMAIN table
      /\ \A id \in DOMAIN table \ {e} : new[id] = table[id]
      /\ new[e].src = table[e].src /\ new[e].dev = table[e].dev
      /\ new[e].at = table[e].at /\ new[e].state = table[e].state
  <2>1. PICK row \in Row : row = table[e]  BY <1>3
  <2>2. new = [table EXCEPT ![e] = [row EXCEPT !.ack = u]]  BY <1>2, <2>1
  <2>3. PICK acked : acked = [row EXCEPT !.ack = u]  OBVIOUS
  <2>4. acked.src = row.src /\ acked.dev = row.dev /\ acked.at = row.at /\ acked.state = row.state
    BY <2>3 DEF Row
  <2>5. table = [id \in DOMAIN table |-> table[id]]  BY <1>3, RowsAre
  <2>6. /\ DOMAIN new = DOMAIN table /\ new[e] = acked
        /\ \A id \in DOMAIN table \ {e} : new[id] = table[id]
    BY <1>3, <2>2, <2>3, <2>5
  <2> QED  BY <2>1, <2>4, <2>6
<1>5. SameEvents(table, new)  BY <1>4 DEF SameEvents
<1>6. ASSUME NEW p \in Pullers
      PROVE  SameEvents(Over(txs[p].rows, table), Over(txs[p].rows, new))
  <2>1. PICK mine : mine = txs[p].rows  OBVIOUS
  <2>2. e \notin DOMAIN mine  BY <1>3, <2>1
  <2>3. SameEvents(Over(mine, table), Over(mine, new))
    BY <1>4, <2>2 DEF SameEvents, Over
  <2> QED  BY <2>1, <2>3
<1>7. LogTells(rls, rds, now, table, k, txs)  BY <1>1
<1>8. LogTells(rls, rds, now, new, k, txs)  BY <1>5, <1>6, <1>7, AcknowledgeTells
<1> QED  BY <1>1, <1>2, <1>8

LEMMA IngestTells ==
  ASSUME IndInv, LogTells(rules, readings, Matched, events, stored, tx),
         NEW p \in Pullers, IngestStep(p)
  PROVE  LogTells(rules, readings, Matched, events', stored', tx')
<1>1. CASE Begin(p)  BY <1>1, BeginTells
<1>2. CASE InsertReading(p)
  <2>1. UNCHANGED <<events, stored>>  BY <1>2 DEF InsertReading, storeVars, alarmVars
  <2>2. LogTells(rules, readings, Matched, events, stored, tx')  BY <1>2, InsertTells
  <2> QED  BY <2>1, <2>2
<1>3. ASSUME NEW l \in tx[p].listed, LeaveRule(p, l) \/ OpenRuleEvent(p, l) \/ ClearRuleEvent(p, l)
      PROVE  LogTells(rules, readings, Matched, events', stored', tx')
  <2>1. UNCHANGED <<events, stored>>
    BY <1>3 DEF LeaveRule, OpenRuleEvent, ClearRuleEvent, storeVars, alarmVars
  <2>2. LogTells(rules, readings, Matched, events, stored, tx')
    BY <1>3, LeaveRuleTells, OpenRuleEventTells, ClearRuleEventTells
  <2> QED  BY <2>1, <2>2
<1>4. CASE JudgeMappings(p)
  <2>1. UNCHANGED <<events, stored>>  BY <1>4 DEF JudgeMappings, storeVars
  <2>2. LogTells(rules, readings, Matched, events, stored, tx')  BY <1>4, JudgeMappingsTells
  <2> QED  BY <2>1, <2>2
<1>5. CASE Commit(p)
  <2>1. tx[p].phase = "inserting" /\ Committed(p) /\ tx' = [tx EXCEPT ![p] = Idle]
    BY <1>5 DEF Commit
  <2> QED  BY <2>1, CommittedTells
<1>6. CASE IngestFails(p)  BY <1>6, IngestFailsTells
<1>7. \/ Begin(p) \/ InsertReading(p)
      \/ \E l \in tx[p].listed : LeaveRule(p, l) \/ OpenRuleEvent(p, l) \/ ClearRuleEvent(p, l)
      \/ JudgeMappings(p) \/ Commit(p) \/ IngestFails(p)
  BY DEF IngestStep
<1> QED  BY <1>1, <1>2, <1>3, <1>4, <1>5, <1>6, <1>7

\* Nobody has edited, so nobody edits in this step.
LEMMA NoEdit ==
  ASSUME IndInv, [Next]_vars, edits' = 0
  PROVE  edits = 0 /\ UNCHANGED <<readings, rules, profile>>
<1>t. edits \in Nat  BY DEF IndInv, Types
<1>1. ASSUME UNCHANGED <<readings, editVars>>
      PROVE  edits = 0 /\ UNCHANGED <<readings, rules, profile>>
  BY <1>1 DEF editVars
<1>2. ASSUME NEW p \in Pullers, IngestStep(p)  PROVE UNCHANGED <<readings, editVars>>
  BY <1>2 DEF IngestStep, Begin, InsertReading, LeaveRule, OpenRuleEvent, ClearRuleEvent,
     JudgeMappings, Commit, IngestFails, storeVars
<1>3. ASSUME NEW r \in Rules, RuleEdit(r)  PROVE FALSE
  BY <1>t, <1>3 DEF RuleEdit, CreateAlarmRule, UpdateAlarmRule, DeleteAlarmRule, Edit
<1>4. ASSUME SaveProfileAddress  PROVE FALSE  BY <1>t, <1>4 DEF SaveProfileAddress, Edit
<1>5. ASSUME NEW u \in Users,
             (\E id \in DOMAIN events : LockEvent(u, id)) \/ Acknowledge(u) \/ AcknowledgeFails(u)
      PROVE  UNCHANGED <<readings, editVars>>
  BY <1>5 DEF LockEvent, Acknowledge, AcknowledgeFails, storeVars
<1>6. ASSUME NEW v \in Viewers, Watch(v) \/ Tick(v) \/ Leave(v)
      PROVE  UNCHANGED <<readings, editVars>>
  BY <1>6 DEF Watch, Tick, Leave, storeVars
<1>7. ASSUME PlatformCrashes  PROVE UNCHANGED <<readings, editVars>>
  BY <1>7 DEF PlatformCrashes, storeVars
<1>8. ASSUME UNCHANGED vars  PROVE UNCHANGED <<readings, editVars>>
  BY <1>8 DEF vars, storeVars
<1> QED  BY <1>1, <1>2, <1>3, <1>4, <1>5, <1>6, <1>7, <1>8 DEF Next

LEMMA LogNext == IndInv /\ LogInv /\ [Next]_vars => LogInv'
<1> SUFFICES ASSUME IndInv, LogInv, [Next]_vars, edits' = 0
             PROVE  LogTells(rules', readings', Matched', events', stored', tx')
  BY DEF LogInv
<1>1. edits = 0 /\ UNCHANGED <<readings, rules, profile>>  BY NoEdit
<1>2. Matched' = Matched  BY <1>1 DEF Matched, Active
<1>3. LogTells(rules, readings, Matched, events, stored, tx)  BY <1>1 DEF LogInv
<1>4. ASSUME UNCHANGED <<events, stored>>, tx' = tx \/ tx' = [p \in Pullers |-> Idle]
      PROVE  LogTells(rules, readings, Matched, events', stored', tx')
  <2>1. \A p \in Pullers : tx'[p].at = 0 \/ tx'[p] = tx[p]  BY <1>4, IdleIs
  <2> QED  BY <1>3, <1>4, <2>1, FrameTells
<1>5. ASSUME NEW p \in Pullers, IngestStep(p)
      PROVE  LogTells(rules, readings, Matched, events', stored', tx')
  BY <1>3, <1>5, IngestTells
<1>6. ASSUME NEW r \in Rules, RuleEdit(r)  PROVE FALSE
  BY <1>1, <1>6 DEF RuleEdit, CreateAlarmRule, UpdateAlarmRule, DeleteAlarmRule, Edit
<1>7. ASSUME SaveProfileAddress  PROVE FALSE  BY <1>1, <1>7 DEF SaveProfileAddress, Edit
<1>8. ASSUME NEW u \in Users,
             (\E id \in DOMAIN events : LockEvent(u, id)) \/ AcknowledgeFails(u)
      PROVE  UNCHANGED <<events, stored, tx>>
  BY <1>8 DEF LockEvent, AcknowledgeFails, storeVars, alarmVars
<1>9. ASSUME NEW u \in Users, Acknowledge(u)
      PROVE  LogTells(rules, readings, Matched, events', stored', tx')
  BY <1>3, <1>9, AcknowledgedTells
<1>10. ASSUME NEW v \in Viewers, Watch(v) \/ Tick(v) \/ Leave(v)
       PROVE  UNCHANGED <<events, stored, tx>>
  BY <1>10 DEF Watch, Tick, Leave, storeVars, alarmVars
<1>11. ASSUME PlatformCrashes
       PROVE  UNCHANGED <<events, stored>> /\ tx' = [p \in Pullers |-> Idle]
  BY <1>11 DEF PlatformCrashes, storeVars, alarmVars
<1>12. ASSUME UNCHANGED vars  PROVE UNCHANGED <<events, stored, tx>>
  BY <1>12 DEF vars, storeVars, alarmVars
<1>13. LogTells(rules, readings, Matched, events', stored', tx')
  BY <1>4, <1>5, <1>6, <1>7, <1>8, <1>9, <1>10, <1>11, <1>12 DEF Next
<1> QED  BY <1>1, <1>2, <1>13

LEMMA LogInvIsInvariant == Spec => []LogInv
<1>1. Init => LogInv  BY LogInit
<1>2. IndInv /\ LogInv /\ [Next]_vars => LogInv'  BY LogNext
<1> QED  BY <1>1, <1>2, Invariance, PTL DEF Spec

LEMMA LogInvShows == IndInv /\ LogInv => LogFollowsReadings
<1> SUFFICES ASSUME IndInv, LogInv, edits = 0
             PROVE  /\ \A r \in {q \in Rules : rules[q].state = "on"} :
                         /\ {events[id].at : id \in EventsOf(r)} = RuleLog(r)[stored].ats
                         /\ Cardinality(OpenOf(events, r))
                              = (IF RuleLog(r)[stored].open THEN 1 ELSE 0)
                    /\ \A d \in Devices :
                         LET own == {id \in DOMAIN events :
                                       events[id].src \notin Rules /\ events[id].dev = d}
                         IN  /\ {<<events[id].src, events[id].at>> : id \in own}
                                  = RegisterLog(d)[stored].ats
                             /\ {events[id].src : id \in OpenRegisterEvents(events, d)}
                                  = RegisterLog(d)[stored].open
  BY DEF LogFollowsReadings
<1>1. Matches(rules, readings, Matched, events, stored)  BY DEF LogInv, LogTells
<1>2. ASSUME NEW r \in Rules, rules[r].state = "on"
      PROVE  /\ {events[id].at : id \in EventsOf(r)} = RuleLog(r)[stored].ats
             /\ Cardinality(OpenOf(events, r)) = (IF RuleLog(r)[stored].open THEN 1 ELSE 0)
  <2>1. PICK log : log = RuleLog(r)[stored]  OBVIOUS
  <2>2. RuleMatches(events, r, log)  BY <1>1, <1>2, <2>1 DEF Matches, On, RuleLog
  <2>3. {events[id].at : id \in EventsOf(r)} = log.ats  BY <2>2 DEF RuleMatches, EventsOf
  <2>4. CASE OpenOf(events, r) = {}
    <3>1. log.open # TRUE  BY <2>2, <2>4 DEF RuleMatches
    <3>2. Cardinality(OpenOf(events, r)) = 0  BY <2>4, FS_EmptySet
    <3> QED  BY <2>1, <2>3, <3>1, <3>2
  <2>5. CASE OpenOf(events, r) # {}
    <3>1. log.open = TRUE  BY <2>2, <2>5 DEF RuleMatches
    <3>2. PICK e : OpenOf(events, r) = {e}
      <4>1. PICK e \in OpenOf(events, r) : TRUE  BY <2>5
      <4>2. OpenOf(events, r) = {e}  BY <2>2, <4>1 DEF RuleMatches
      <4> QED  BY <4>2
    <3>3. Cardinality(OpenOf(events, r)) = 1  BY <3>2, FS_Singleton
    <3> QED  BY <2>1, <2>3, <3>1, <3>3
  <2> QED  BY <2>4, <2>5
<1>3. ASSUME NEW d \in Devices
      PROVE  LET own == {id \in DOMAIN events :
                           events[id].src \notin Rules /\ events[id].dev = d}
             IN  /\ {<<events[id].src, events[id].at>> : id \in own} = RegisterLog(d)[stored].ats
                 /\ {events[id].src : id \in OpenRegisterEvents(events, d)}
                      = RegisterLog(d)[stored].open
  BY <1>1 DEF Matches, RegisterMatches, RegisterLog
<1> QED  BY <1>2, <1>3

\* With rules and profile left alone the alarm log is a function of the stored readings:
\* batches, redeliveries, rollbacks and the race of two pullers leave no trace in it.
THEOREM LogIsFunctionOfReadings == Spec => []LogFollowsReadings
<1>1. IndInv /\ LogInv => LogFollowsReadings  BY LogInvShows
<1> QED  BY <1>1, Invariance, LogInvIsInvariant, PTL
=============================================================================
