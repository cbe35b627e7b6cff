------------------------ MODULE TelemetryPull_proofs ------------------------
(***************************************************************************)
(* Proofs about TelemetryPull for every set of devices and connections,    *)
(* every batch and pipe size and every bound.                              *)
(***************************************************************************)
EXTENDS TelemetryPull, SequenceTheorems, FiniteSetTheorems, TLAPS

\* What every frame and puller carries: a command names only settled rows (a
\* drain names none), answers and batches name rows that exist, and a puller
\* about to acknowledge holds a settled batch.
Carried ==
  /\ \A i \in DOMAIN down : down[i].ids \subseteq Settled
  /\ \A k \in Conns : \A i \in DOMAIN up[k] : up[k][i].ids \subseteq RowIds
  /\ \A c \in Conns : puller[c].batch \subseteq RowIds
  /\ \A c \in Conns : puller[c].phase = "acking" => puller[c].batch \subseteq Settled

BatchesOfRows == \A p \in DOMAIN batches : p \subseteq RowIds

IndInv == TypeOK /\ Carried /\ BatchesOfRows /\ ReleasedAfterCommit /\ AcceptedCountsRows

-----------------------------------------------------------------------------
(* The operators.                                                           *)

\* A sequence mapped element by element is a sequence of the same length.
LEMMA MappedSeq ==
  ASSUME NEW S, NEW T, NEW s \in Seq(S), NEW t,
         t = [i \in DOMAIN s |-> t[i]], \A i \in DOMAIN s : t[i] \in T
  PROVE  t \in Seq(T) /\ DOMAIN t = DOMAIN s
<1>1. DOMAIN s = 1..Len(s) /\ Len(s) \in Nat  BY LenProperties
<1>2. t \in [1..Len(s) -> T]  BY <1>1
<1> QED  BY <1>1, <1>2, SeqDef

\* Orphaning a pipe's frames changes nothing but who waits for them.
LEMMA OrphanedFrames ==
  ASSUME NEW T \in {Command, Answer}, NEW s \in Seq(T), NEW C
  PROVE  /\ Orphaned(s, C) \in Seq(T)
         /\ DOMAIN Orphaned(s, C) = DOMAIN s
         /\ \A i \in DOMAIN s : Orphaned(s, C)[i].ids = s[i].ids
<1>1. \A i \in DOMAIN s : s[i] \in T  BY LenProperties, ElementOfSeq
<1>2. \A i \in DOMAIN s : Orphaned(s, C)[i] \in T  BY <1>1 DEF Orphaned, Command, Answer
<1>3. Orphaned(s, C) = [i \in DOMAIN s |-> Orphaned(s, C)[i]]  BY DEF Orphaned
<1>4. Orphaned(s, C) \in Seq(T) /\ DOMAIN Orphaned(s, C) = DOMAIN s
  BY <1>2, <1>3, MappedSeq
<1>5. \A i \in DOMAIN s : Orphaned(s, C)[i].ids = s[i].ids
  BY <1>1 DEF Orphaned, Command, Answer
<1> QED  BY <1>4, <1>5

\* The frames left after the first is read were there before.
LEMMA TailFrames ==
  ASSUME NEW T, NEW s \in Seq(T), s # <<>>
  PROVE  /\ Tail(s) \in Seq(T)
         /\ \A i \in DOMAIN Tail(s) : i + 1 \in DOMAIN s /\ Tail(s)[i] = s[i + 1]
         /\ 1 \in DOMAIN s /\ Head(s) = s[1] /\ Head(s) \in T
  BY HeadTailProperties, LenProperties

\* Appending a frame adds that frame and nothing else.
LEMMA AppendFrames ==
  ASSUME NEW T, NEW s \in Seq(T), NEW e \in T
  PROVE  /\ Append(s, e) \in Seq(T)
         /\ \A i \in DOMAIN Append(s, e) :
              Append(s, e)[i] = e \/ (i \in DOMAIN s /\ Append(s, e)[i] = s[i])
<1>1. /\ Append(s, e) \in Seq(T) /\ Len(Append(s, e)) = Len(s) + 1
      /\ \A i \in 1..Len(s) : Append(s, e)[i] = s[i]
      /\ Append(s, e)[Len(s) + 1] = e
  BY AppendProperties
<1>2. /\ DOMAIN Append(s, e) = 1..(Len(s) + 1)
      /\ DOMAIN s = 1..Len(s) /\ Len(s) \in Nat
  BY <1>1, LenProperties
<1> QED  BY <1>1, <1>2

\* Marking rows changes no id and no device, and each row's status stays legal.
LEMMA MarkedRows ==
  ASSUME TypeOK, NEW ids, NEW from, NEW to \in Statuses
  PROVE  /\ Marked(ids, from, to) \in Seq(Row)
         /\ DOMAIN Marked(ids, from, to) = RowIds
         /\ \A i \in RowIds : Marked(ids, from, to)[i].status =
              IF i \in ids /\ outbox[i].status \in from THEN to ELSE outbox[i].status
<1> DEFINE m == Marked(ids, from, to)
<1>0. outbox \in Seq(Row)  BY DEF TypeOK
<1>1. \A i \in RowIds : outbox[i] \in Row  BY <1>0, LenProperties, ElementOfSeq DEF RowIds
<1>2. \A i \in RowIds : m[i] \in Row  BY <1>1 DEF Marked, Row
<1>3. m = [i \in DOMAIN outbox |-> m[i]]  BY DEF Marked, RowIds
<1>4. m \in Seq(Row) /\ DOMAIN m = RowIds  BY <1>0, <1>2, <1>3, MappedSeq DEF RowIds
<1>5. \A i \in RowIds : m[i].status =
        IF i \in ids /\ outbox[i].status \in from THEN to ELSE outbox[i].status
  BY <1>1 DEF Marked, Row
<1> QED  BY <1>4, <1>5

\* Row ids are finitely many naturals, so every set of them can be counted.
LEMMA RowsFinite ==
  ASSUME TypeOK, NEW p \in SUBSET RowIds
  PROVE  p \subseteq Nat /\ IsFiniteSet(p) /\ Cardinality(p) \in Nat
<1>1. Len(outbox) \in Nat /\ RowIds = 1..Len(outbox)
  BY LenProperties DEF TypeOK, RowIds
<1>2. IsFiniteSet(RowIds)  BY <1>1, FS_Interval
<1>3. IsFiniteSet(p) /\ Cardinality(p) \in Nat  BY <1>2, FS_Subset, FS_CardinalityType
<1> QED  BY <1>1, <1>3

-----------------------------------------------------------------------------
(* The invariant holds initially and every step keeps it.                   *)

LEMMA InitInv == Init => IndInv
<1> SUFFICES ASSUME Init PROVE IndInv  OBVIOUS
<1> USE DEF Init
<1>1. TypeOK
  <2>1. outbox \in Seq(Row) /\ down \in Seq(Command) /\ up \in [Conns -> Seq(Answer)]
    BY EmptySeq
  <2>2. puller \in [Conns -> [phase : Phases, batch : SUBSET Nat]]  BY DEF Idle, Phases
  <2> QED  BY <2>1, <2>2 DEF TypeOK
<1>2. Carried /\ BatchesOfRows  BY DEF Carried, BatchesOfRows, RowIds, Idle
<1>3. ReleasedAfterCommit /\ AcceptedCountsRows
  BY DEF ReleasedAfterCommit, AcceptedCountsRows, RowIds
<1> QED  BY <1>1, <1>2, <1>3 DEF IndInv

\* What is settled and what is counted depends on the Platform's tables alone.
LEMMA SameTables ==
  ASSUME AcceptedCountsRows, UNCHANGED dbVars
  PROVE  Settled' = Settled /\ AcceptedCountsRows'
BY DEF dbVars, Settled, AcceptedCountsRows

LEMMA EnqueueInv == ASSUME IndInv, NEW d \in Devices, Enqueue(d) PROVE IndInv'
<1> USE DEF IndInv
<1> DEFINE row == [dev |-> d, status |-> "PENDING"]
<1>0. UNCHANGED <<dialled, down, up, handlers, hubConn, puller, blocked, batches, stored,
                  faults, toggles>>
  BY DEF Enqueue, wireVars, hubVars, dbVars, envVars
<1>1. outbox \in Seq(Row) /\ row \in Row /\ outbox' = Append(outbox, row)
  BY DEF Enqueue, TypeOK, Row, Statuses
<1>2. /\ outbox' \in Seq(Row)
      /\ RowIds' = 1..(Len(outbox) + 1) /\ RowIds = 1..Len(outbox) /\ Len(outbox) \in Nat
      /\ \A i \in RowIds : outbox'[i] = outbox[i]
      /\ outbox'[Len(outbox) + 1] = row
  BY <1>1, AppendProperties, LenProperties DEF RowIds
<1>3. TypeOK'  BY <1>0, <1>2 DEF TypeOK
<1>4. RowIds \subseteq RowIds'  BY <1>2
<1>5. Settled' = Settled /\ AcceptedCountsRows'  BY <1>0, SameTables DEF dbVars
<1>6. Carried'  BY <1>0, <1>4, <1>5 DEF Carried
<1>7. BatchesOfRows'  BY <1>0, <1>4 DEF BatchesOfRows
<1>8. ReleasedAfterCommit'  BY <1>2, <1>5 DEF ReleasedAfterCommit
<1> QED  BY <1>3, <1>5, <1>6, <1>7, <1>8

\* Marking rows keeps the invariant when whatever leaves PENDING is settled.
LEMMA MarkInv ==
  ASSUME IndInv, NEW ids, NEW from, NEW to \in Statuses, UNCHANGED dbVars,
         outbox' = Marked(ids, from, to),
         \A i \in RowIds : i \in ids /\ outbox[i].status \in from => i \in Settled
  PROVE  /\ outbox' \in Seq(Row)
         /\ RowIds' = RowIds
         /\ Settled' = Settled
         /\ BatchesOfRows' /\ ReleasedAfterCommit' /\ AcceptedCountsRows'
<1> USE DEF IndInv
<1>1. /\ outbox' \in Seq(Row) /\ RowIds' = RowIds
      /\ \A i \in RowIds : outbox'[i].status =
           IF i \in ids /\ outbox[i].status \in from THEN to ELSE outbox[i].status
  BY MarkedRows DEF RowIds
<1>2. Settled' = Settled /\ AcceptedCountsRows'  BY SameTables
<1>3. ReleasedAfterCommit'  BY <1>1, <1>2 DEF ReleasedAfterCommit
<1>4. BatchesOfRows'  BY <1>1 DEF BatchesOfRows, dbVars
<1> QED  BY <1>1, <1>2, <1>3, <1>4

LEMMA DeleteInv ==
  ASSUME IndInv, NEW ids \in SUBSET DeliveredRows, Delete(ids) PROVE IndInv'
<1> USE DEF IndInv
<1>1. outbox' = Marked(ids, {"DELIVERED"}, "GONE")  BY DEF Delete
<1>2. UNCHANGED <<dialled, down, up, handlers, hubConn, puller, blocked, batches, stored,
                  faults, toggles>>
  BY DEF Delete, wireVars, hubVars, dbVars, envVars
<1>3. \A i \in ids : i \in Settled  BY DEF ReleasedAfterCommit, DeliveredRows
<1>4. /\ outbox' \in Seq(Row) /\ RowIds' = RowIds /\ Settled' = Settled
      /\ BatchesOfRows' /\ ReleasedAfterCommit' /\ AcceptedCountsRows'
  <2>1. UNCHANGED dbVars /\ "GONE" \in Statuses  BY <1>2 DEF dbVars, Statuses
  <2> QED  BY <1>1, <1>3, <2>1, MarkInv
<1>5. TypeOK'  BY <1>2, <1>4 DEF TypeOK
<1>6. Carried'  BY <1>2, <1>4 DEF Carried
<1> QED  BY <1>4, <1>5, <1>6

-----------------------------------------------------------------------------
(* Steps that touch neither the outbox nor the tables.                      *)

PipesOK ==
  /\ down \in Seq(Command) /\ \A i \in DOMAIN down : down[i].ids \subseteq Settled
  /\ up \in [Conns -> Seq(Answer)]
  /\ \A k \in Conns : \A i \in DOMAIN up[k] : up[k][i].ids \subseteq RowIds

PullersOK ==
  /\ puller \in [Conns -> [phase : Phases, batch : SUBSET Nat]]
  /\ \A c \in Conns : puller[c].batch \subseteq RowIds
  /\ \A c \in Conns : puller[c].phase = "acking" => puller[c].batch \subseteq Settled

RestOK ==
  /\ dialled \in Conns \cup {NoConn} /\ hubConn \in Conns \cup {NoConn}
  /\ handlers \in SUBSET Conns /\ blocked \in SUBSET Devices
  /\ faults \in Nat /\ toggles \in Nat

LEMMA Parts == IndInv => PipesOK /\ PullersOK /\ RestOK
BY DEF IndInv, TypeOK, Carried, PipesOK, PullersOK, RestOK

LEMMA SameData ==
  ASSUME IndInv, UNCHANGED <<outbox, dbVars>>, PipesOK', PullersOK', RestOK'
  PROVE  IndInv'
<1>1. TypeOK'  BY DEF IndInv, TypeOK, PipesOK, PullersOK, RestOK, dbVars
<1>2. Settled' = Settled /\ AcceptedCountsRows'  BY SameTables DEF IndInv
<1>3. Carried'  BY DEF Carried, PipesOK, PullersOK
<1>4. ReleasedAfterCommit'  BY <1>2 DEF IndInv, ReleasedAfterCommit, RowIds
<1>5. BatchesOfRows'  BY DEF IndInv, BatchesOfRows, RowIds, dbVars
<1> QED  BY <1>1, <1>2, <1>3, <1>4, <1>5 DEF IndInv

\* The same rows and tables: a set of settled rows stays one.
LEMMA SameRows ==
  ASSUME UNCHANGED <<outbox, dbVars>> PROVE Settled' = Settled /\ RowIds' = RowIds
BY DEF dbVars, Settled, RowIds

\* A puller that goes idle carries nothing.
LEMMA IdlePullers ==
  ASSUME PullersOK, UNCHANGED <<outbox, dbVars>>, NEW C \in SUBSET Conns,
         NEW ph \in {"off", "waiting"},
         puller' = [c \in Conns |-> IF c \in C THEN Idle(ph) ELSE puller[c]]
  PROVE  PullersOK'
BY SameRows DEF PullersOK, Idle, Phases

\* Pipes stay sound when frames lose their caller or a pipe is emptied.
LEMMA OrphanedPipes ==
  ASSUME PipesOK, UNCHANGED <<outbox, dbVars>>, NEW C,
         down' = Orphaned(down, C),
         up' = [k \in Conns |-> IF k \in C THEN <<>> ELSE Orphaned(up[k], C)]
               \/ up' = [k \in Conns |-> Orphaned(up[k], C)]
  PROVE  PipesOK'
<1> USE SameRows DEF PipesOK
<1>1. /\ Orphaned(down, C) \in Seq(Command)
      /\ DOMAIN Orphaned(down, C) = DOMAIN down
      /\ \A i \in DOMAIN down : Orphaned(down, C)[i].ids = down[i].ids
  <2>1. down \in Seq(Command)  OBVIOUS
  <2> QED  BY <2>1, OrphanedFrames
<1>2. ASSUME NEW k \in Conns
      PROVE  up'[k] \in Seq(Answer) /\ \A i \in DOMAIN up'[k] : up'[k][i].ids \subseteq RowIds
  <2>1. CASE up'[k] = <<>>  BY <2>1, EmptySeq
  <2>2. CASE up'[k] = Orphaned(up[k], C)
    <3>1. up[k] \in Seq(Answer)  OBVIOUS
    <3>2. /\ Orphaned(up[k], C) \in Seq(Answer)
          /\ DOMAIN Orphaned(up[k], C) = DOMAIN up[k]
          /\ \A i \in DOMAIN up[k] : Orphaned(up[k], C)[i].ids = up[k][i].ids
      BY <3>1, OrphanedFrames
    <3> QED  BY <2>2, <3>2
  <2> QED  BY <2>1, <2>2
<1>3. up' \in [Conns -> Seq(Answer)]  BY <1>2
<1> QED  BY <1>1, <1>2, <1>3

LEMMA ConnectInv == ASSUME IndInv, NEW c \in Conns, Connect(c) PROVE IndInv'
<1> USE Parts DEF Connect, wireVars, dbVars, envVars
<1>1. PullersOK'  BY SameRows DEF PullersOK, Idle, Phases
<1>2. PipesOK'  BY SameRows DEF PipesOK
<1>3. RestOK'  BY DEF RestOK
<1> QED  BY <1>1, <1>2, <1>3, SameData

LEMMA MiddlewareDropsInv == ASSUME IndInv, MiddlewareDrops PROVE IndInv'
<1> USE Parts DEF MiddlewareDrops, HangUp, Fault, hubVars, dbVars
<1>1. PullersOK'  BY SameRows DEF PullersOK
<1>2. PipesOK'  BY SameRows, EmptySeq DEF PipesOK
<1>3. RestOK'  BY DEF RestOK
<1> QED  BY <1>1, <1>2, <1>3, SameData

LEMMA PlatformDropsInv == ASSUME IndInv, NEW c \in Conns, PlatformDrops(c) PROVE IndInv'
<1> USE Parts DEF PlatformDrops, Unregister, Fault, mwVars, dbVars
<1>1. PullersOK'  BY SameRows DEF PullersOK, Idle, Phases
<1>2. PipesOK'
  <2>1. /\ UNCHANGED <<outbox, dbVars>> /\ PipesOK
        /\ down' = Orphaned(down, {c})
        /\ up' = [k \in Conns |-> IF k \in {c} THEN <<>> ELSE Orphaned(up[k], {c})]
    OBVIOUS
  <2> HIDE DEF PlatformDrops, Unregister, mwVars, dbVars
  <2> QED  BY <2>1, OrphanedPipes
<1>3. RestOK'  BY DEF RestOK
<1> QED  BY <1>1, <1>2, <1>3, SameData

LEMMA PlatformCrashesInv == ASSUME IndInv, PlatformCrashes PROVE IndInv'
<1> USE Parts DEF PlatformCrashes, Fault, mwVars, dbVars
<1>1. PullersOK'  BY SameRows DEF PullersOK, Idle, Phases
<1>2. PipesOK'
  <2>1. /\ UNCHANGED <<outbox, dbVars>> /\ PipesOK
        /\ down' = Orphaned(down, Conns)
        /\ up' = [k \in Conns |-> IF k \in Conns THEN <<>> ELSE Orphaned(up[k], Conns)]
    OBVIOUS
  <2> HIDE DEF PlatformCrashes, mwVars, dbVars
  <2> QED  BY <2>1, OrphanedPipes
<1>3. RestOK'  BY DEF RestOK
<1> QED  BY <1>1, <1>2, <1>3, SameData

LEMMA TimeoutInv == ASSUME IndInv, NEW c \in Conns, Timeout(c) PROVE IndInv'
<1> USE Parts DEF Timeout, Fault, mwVars, hubVars, dbVars
<1>1. PullersOK'  BY SameRows DEF PullersOK, Idle, Phases
<1>2. PipesOK'
  <2>1. /\ UNCHANGED <<outbox, dbVars>> /\ PipesOK
        /\ down' = Orphaned(down, {c})
        /\ up' = [k \in Conns |-> Orphaned(up[k], {c})]
    BY DEF GiveUp
  <2> HIDE DEF Timeout, mwVars, dbVars
  <2> QED  BY <2>1, OrphanedPipes
<1>3. RestOK'  BY DEF RestOK
<1> QED  BY <1>1, <1>2, <1>3, SameData

LEMMA AckOfflineInv == ASSUME IndInv, NEW c \in Conns, AckOffline(c) PROVE IndInv'
<1> USE Parts DEF AckOffline, mwVars, wireVars, hubVars, dbVars, envVars
<1>1. PullersOK'  BY SameRows DEF PullersOK, Idle, Phases
<1>2. PipesOK' /\ RestOK'  BY SameRows DEF PipesOK, RestOK
<1> QED  BY <1>1, <1>2, SameData

LEMMA ToggleInv == ASSUME IndInv, NEW d \in Devices, Toggle(d) PROVE IndInv'
<1> USE Parts DEF Toggle, mwVars, wireVars, hubVars, dbVars
<1>1. PullersOK' /\ PipesOK'  BY SameRows DEF PullersOK, PipesOK
<1>2. RestOK'  BY DEF RestOK
<1> QED  BY <1>1, <1>2, SameData

\* A command names settled rows: none for a drain, the committed batch for an ack.
LEMMA SendInv ==
  ASSUME IndInv, NEW c \in Conns, NEW kind \in {"drain", "ack"}, NEW ids \in SUBSET Nat,
         NEW next \in {"draining", "awaitAck"}, ids \subseteq Settled,
         Send(c, kind, ids, next)
  PROVE  IndInv'
<1> DEFINE f == [kind |-> kind, caller |-> c, ids |-> ids]
<1> USE Parts DEF Send, mwVars, hubVars, dbVars, envVars
<1>1. PullersOK'  BY SameRows DEF PullersOK, Phases
<1>2. down' = down \/ down' = Append(down, f)  OBVIOUS
<1>3. f \in Command /\ down \in Seq(Command)  BY DEF Command, PipesOK
<1>4. down' \in Seq(Command) /\ \A i \in DOMAIN down' : down'[i].ids \subseteq Settled
  <2>1. CASE down' = down  BY <2>1 DEF PipesOK
  <2>2. CASE down' = Append(down, f)
    <3>1. /\ Append(down, f) \in Seq(Command)
          /\ \A i \in DOMAIN Append(down, f) : Append(down, f)[i] = f
               \/ (i \in DOMAIN down /\ Append(down, f)[i] = down[i])
      BY <1>3, AppendFrames
    <3>2. f.ids \subseteq Settled /\ \A i \in DOMAIN down : down[i].ids \subseteq Settled
      BY DEF PipesOK
    <3> HIDE DEF f
    <3> QED  BY <2>2, <3>1, <3>2
  <2> QED  BY <1>2, <2>1, <2>2
<1>5. PipesOK'  BY <1>4, SameRows DEF PipesOK
<1>6. RestOK'  BY DEF RestOK
<1> QED  BY <1>1, <1>5, <1>6, SameData

LEMMA SendDrainInv == ASSUME IndInv, NEW c \in Conns, SendDrain(c) PROVE IndInv'
BY SendInv DEF SendDrain

LEMMA SendAckInv == ASSUME IndInv, NEW c \in Conns, SendAck(c) PROVE IndInv'
<1>1. puller[c].batch \in SUBSET Nat /\ puller[c].batch \subseteq Settled
  BY Parts DEF PullersOK, SendAck
<1> QED  BY <1>1, SendInv DEF SendAck

\* Answering a command: the pipes stay sound if the answer names rows that exist.
LEMMA ReplyPipes ==
  ASSUME PipesOK, RestOK, down # <<>>, NEW ids \in SUBSET Nat, NEW ok \in BOOLEAN,
         Reply(Head(down), ids, ok), ids \subseteq RowIds,
         Settled' = Settled, RowIds' = RowIds
  PROVE  PipesOK'
<1> DEFINE f == Head(down)
           a == [kind |-> f.kind, caller |-> f.caller, ids |-> ids, ok |-> ok]
<1> USE DEF PipesOK
<1>0. down \in Seq(Command)  OBVIOUS
<1>1. down' = Tail(down)  BY DEF Reply
<1>2. /\ Tail(down) \in Seq(Command)
      /\ \A i \in DOMAIN Tail(down) : i + 1 \in DOMAIN down /\ Tail(down)[i] = down[i + 1]
      /\ f \in Command
  BY <1>0, TailFrames
<1>3. down' \in Seq(Command) /\ \A i \in DOMAIN down' : down'[i].ids \subseteq Settled
  BY <1>1, <1>2
<1>4. a \in Answer  BY <1>2 DEF Answer, Command
<1>5. \/ up' = up
      \/ dialled \in Conns /\ up' = [up EXCEPT ![dialled] = Append(@, a)]
  BY DEF Reply, RestOK
<1>6. CASE up' = up  BY <1>3, <1>6
<1>7. CASE dialled \in Conns /\ up' = [up EXCEPT ![dialled] = Append(@, a)]
  <2> DEFINE u == up[dialled]
  <2>1. u \in Seq(Answer) /\ a.ids \subseteq RowIds  BY <1>7
  <2>2. /\ Append(u, a) \in Seq(Answer)
        /\ \A i \in DOMAIN Append(u, a) : Append(u, a)[i] = a
             \/ (i \in DOMAIN u /\ Append(u, a)[i] = u[i])
    BY <1>4, <2>1, AppendFrames
  <2>3. /\ up' \in [Conns -> Seq(Answer)] /\ up'[dialled] = Append(u, a)
        /\ \A k \in Conns \ {dialled} : up'[k] = up[k]
    BY <1>7, <2>2
  <2>4. \A i \in DOMAIN u : u[i].ids \subseteq RowIds  BY <1>7
  <2>5. \A i \in DOMAIN Append(u, a) : Append(u, a)[i].ids \subseteq RowIds
    <3> HIDE DEF a, u
    <3> QED  BY <2>1, <2>2, <2>4
  <2>6. \A k \in Conns : \A i \in DOMAIN up'[k] : up'[k][i].ids \subseteq RowIds
    <3> HIDE DEF a, u
    <3> QED  BY <2>3, <2>5
  <2> QED  BY <1>3, <2>3, <2>6
<1> QED  BY <1>5, <1>6, <1>7

LEMMA HandleDrainInv == ASSUME IndInv, HandleDrain PROVE IndInv'
<1> USE Parts DEF HandleDrain
<1>0. /\ UNCHANGED <<outbox, dbVars, faults>> /\ down # <<>>
      /\ UNCHANGED <<dialled, hubVars, puller, blocked, dbVars, toggles>>
  BY DEF Reply
<1>1. Ready(BatchSize) \subseteq RowIds /\ Ready(BatchSize) \in SUBSET Nat
  BY RowsFinite DEF Ready, Pending, IndInv
<1>2. PipesOK'
  <2>1. Reply(Head(down), Ready(BatchSize), TRUE)  OBVIOUS
  <2>2. Settled' = Settled /\ RowIds' = RowIds  BY <1>0, SameRows
  <2> QED  BY <1>0, <1>1, <2>1, <2>2, ReplyPipes
<1>3. PullersOK' /\ RestOK'  BY <1>0, SameRows DEF PullersOK, RestOK, hubVars
<1> QED  BY <1>0, <1>2, <1>3, SameData

\* An ack marks settled rows, all of them or, if the store fails, some.
LEMMA AckedInv ==
  ASSUME IndInv, down # <<>>, NEW ids \in SUBSET Head(down).ids, NEW ok \in BOOLEAN,
         outbox' = Delivered(ids), Reply(Head(down), {}, ok), faults' \in Nat
  PROVE  IndInv'
<1> USE Parts
<1>0. UNCHANGED <<dialled, hubVars, puller, blocked, dbVars, toggles>>  BY DEF Reply
<1>1. Head(down).ids \subseteq Settled
  <2>1. down \in Seq(Command) /\ \A i \in DOMAIN down : down[i].ids \subseteq Settled
    BY DEF PipesOK
  <2> QED  BY <2>1, TailFrames
<1>2. /\ outbox' \in Seq(Row) /\ RowIds' = RowIds /\ Settled' = Settled
      /\ BatchesOfRows' /\ ReleasedAfterCommit' /\ AcceptedCountsRows'
  <2>1. outbox' = Marked(ids, {"PENDING", "DELIVERED"}, "DELIVERED")  BY DEF Delivered
  <2>2. "DELIVERED" \in Statuses /\ UNCHANGED dbVars  BY <1>0 DEF Statuses
  <2>3. \A i \in ids : i \in Settled  BY <1>1
  <2> QED  BY <2>1, <2>2, <2>3, MarkInv
<1>3. PipesOK'
  <2>1. {} \in SUBSET Nat /\ {} \subseteq RowIds  OBVIOUS
  <2> QED  BY <1>2, <2>1, ReplyPipes
<1>4. PullersOK' /\ RestOK'  BY <1>0, <1>2 DEF PullersOK, RestOK, hubVars
<1>5. TypeOK'
  BY <1>0, <1>2, <1>3, <1>4 DEF IndInv, TypeOK, PipesOK, PullersOK, RestOK, dbVars
<1>6. Carried'  BY <1>3, <1>4 DEF Carried, PipesOK, PullersOK
<1> QED  BY <1>2, <1>5, <1>6 DEF IndInv

LEMMA HandleAckInv == ASSUME IndInv, HandleAck PROVE IndInv'
<1>1. faults' \in Nat  BY Parts DEF HandleAck, RestOK
<1>2. /\ down # <<>> /\ outbox' = Delivered(Head(down).ids)
      /\ Reply(Head(down), {}, TRUE)
  BY DEF HandleAck
<1>3. Head(down).ids \in SUBSET Head(down).ids  OBVIOUS
<1> QED  BY <1>1, <1>2, <1>3, AckedInv

LEMMA HandleFailsInv == ASSUME IndInv, HandleFails PROVE IndInv'
<1> USE Parts
<1>1. down # <<>> /\ faults' \in Nat /\ Reply(Head(down), {}, FALSE)
  <2>1. down # <<>> /\ Fault /\ Reply(Head(down), {}, FALSE)  BY DEF HandleFails
  <2>2. faults' \in Nat  BY <2>1 DEF Fault, RestOK
  <2> QED  BY <2>1, <2>2
<1>2. CASE UNCHANGED outbox
  <2>1. UNCHANGED <<outbox, dbVars>> /\ UNCHANGED <<dialled, hubVars, puller, blocked, toggles>>
    BY <1>1, <1>2 DEF Reply
  <2>2. PipesOK'
    <3>1. {} \in SUBSET Nat /\ {} \subseteq RowIds  OBVIOUS
    <3>2. Settled' = Settled /\ RowIds' = RowIds  BY <2>1, SameRows
    <3> QED  BY <1>1, <3>1, <3>2, ReplyPipes
  <2>3. PullersOK' /\ RestOK'  BY <1>1, <2>1, SameRows DEF PullersOK, RestOK, hubVars
  <2> QED  BY <2>1, <2>2, <2>3, SameData
<1>3. CASE \E at \in Head(down).ids : outbox' = Delivered({i \in Head(down).ids : i < at})
  <2>1. PICK at \in Head(down).ids : outbox' = Delivered({i \in Head(down).ids : i < at})
    BY <1>3
  <2>2. {i \in Head(down).ids : i < at} \in SUBSET Head(down).ids  OBVIOUS
  <2> QED  BY <1>1, <2>1, <2>2, AckedInv
<1> QED  BY <1>2, <1>3 DEF HandleFails

LEMMA ResolveInv == ASSUME IndInv, NEW k \in Conns, Resolve(k) PROVE IndInv'
<1> USE Parts DEF Resolve, mwVars, hubVars, dbVars, envVars
<1> DEFINE f == Head(up[k])
<1>0. UNCHANGED <<outbox, dbVars>> /\ UNCHANGED <<down, dialled, handlers, hubConn, blocked,
                                                faults, toggles>>
  OBVIOUS
<1>1. up[k] \in Seq(Answer) /\ up[k] # <<>>  BY DEF PipesOK
<1>2. /\ Tail(up[k]) \in Seq(Answer)
      /\ \A i \in DOMAIN Tail(up[k]) : i + 1 \in DOMAIN up[k] /\ Tail(up[k])[i] = up[k][i + 1]
      /\ 1 \in DOMAIN up[k] /\ f = up[k][1] /\ f \in Answer
  BY <1>1, TailFrames
<1>3. PipesOK'
  <2>1. up' = [up EXCEPT ![k] = Tail(@)]  OBVIOUS
  <2> HIDE DEF Resolve
  <2> QED  BY <1>0, <1>2, <2>1, SameRows DEF PipesOK
<1>4. PullersOK'
  <2>1. f.ids \subseteq RowIds /\ f.ids \in SUBSET Nat /\ f.caller \in Conns \cup {NoConn}
    BY <1>2 DEF PipesOK, Answer
  <2>2. \/ puller' = puller
        \/ /\ f.caller \in Conns
           /\ \/ puller' = [puller EXCEPT ![f.caller] = [phase |-> "ingesting", batch |-> f.ids]]
              \/ puller' = [puller EXCEPT ![f.caller] = Idle("waiting")]
    BY <2>1
  <2> HIDE DEF Resolve, f
  <2> QED  BY <1>0, <2>1, <2>2, SameRows DEF PullersOK, Phases, Idle
<1>5. RestOK'  BY DEF RestOK
<1> QED  BY <1>0, <1>3, <1>4, <1>5, SameData

-----------------------------------------------------------------------------
(* Ingesting.                                                               *)

\* The stored result of a batch of existing rows is a triple of counts.
LEMMA OutcomeType ==
  ASSUME IndInv, NEW p \in SUBSET RowIds
  PROVE  Outcome(p) \in Result
<1>1. Accepted(p) \in SUBSET RowIds /\ Duplicates(p) \in SUBSET RowIds
      /\ Refused(p) \in SUBSET RowIds
  BY DEF Accepted, Duplicates, Refused
<1>2. /\ Cardinality(Accepted(p)) \in Nat /\ Cardinality(Duplicates(p)) \in Nat
      /\ Cardinality(Refused(p)) \in Nat
  BY <1>1, RowsFinite DEF IndInv
<1> QED  BY <1>2 DEF Outcome, Result, IndInv, TypeOK

\* Committing a batch keeps the tables sound: nothing stored or settled is lost,
\* a batch that made progress is settled, and a reading stays with its batch.
LEMMA CommitTables ==
  ASSUME IndInv, NEW p \in SUBSET RowIds, CommitBatch(p), UNCHANGED outbox
  PROVE  /\ DOMAIN batches' \in SUBSET (SUBSET Nat)
         /\ \A q \in DOMAIN batches' : batches'[q] \in Result
         /\ DOMAIN stored' \in SUBSET Nat
         /\ \A r \in DOMAIN stored' : stored'[r] \in DOMAIN batches'
         /\ Settled \subseteq Settled'
         /\ Progress(Outcome(p)) => p \subseteq Settled'
         /\ BatchesOfRows' /\ ReleasedAfterCommit' /\ AcceptedCountsRows'
<1> USE DEF IndInv
<1>1. /\ DOMAIN batches' = DOMAIN batches \cup {p}
      /\ batches'[p] = Outcome(p)
      /\ \A q \in DOMAIN batches : batches'[q] = batches[q]
  BY DEF CommitBatch, Outcome
<1>2. p \in SUBSET Nat /\ Outcome(p) \in Result  BY RowsFinite, OutcomeType
<1>3. Accepted(p) \subseteq p /\ Accepted(p) \cap DOMAIN stored = {}  BY DEF Accepted
<1>4. \A r \in DOMAIN stored : stored'[r] = stored[r] /\ r \in DOMAIN stored'
  BY DEF CommitBatch
<1>5. /\ DOMAIN stored' \in SUBSET Nat
      /\ \A r \in DOMAIN stored' : stored'[r] \in DOMAIN batches'
  BY <1>1, <1>2, <1>3 DEF CommitBatch, TypeOK
<1>6. Settled \subseteq Settled' /\ (Progress(Outcome(p)) => p \subseteq Settled')
  BY <1>1 DEF Settled, Progress
<1>7. BatchesOfRows'  BY <1>1 DEF BatchesOfRows, RowIds
<1>8. ReleasedAfterCommit'  BY <1>6 DEF ReleasedAfterCommit, RowIds
<1>9. AcceptedCountsRows'
  <2>1. CASE p \in DOMAIN batches
    <3>1. stored' = stored /\ DOMAIN batches' = DOMAIN batches
          /\ \A q \in DOMAIN batches : batches'[q] = batches[q]
      BY <1>1, <2>1 DEF CommitBatch
    <3> QED  BY <3>1 DEF AcceptedCountsRows
  <2>2. CASE p \notin DOMAIN batches
    <3>1. stored' = [r \in DOMAIN stored \cup Accepted(p) |->
                       IF r \in DOMAIN stored THEN stored[r] ELSE p]
      BY <2>2 DEF CommitBatch
    <3>2. \A r \in DOMAIN stored : stored[r] # p  BY <2>2 DEF TypeOK
    <3>3. {r \in DOMAIN stored' : stored'[r] = p} = Accepted(p)  BY <1>3, <3>1, <3>2
    <3>4. batches'[p].accepted = Cardinality(Accepted(p))  BY <1>1, <2>2 DEF Outcome
    <3>5. ASSUME NEW q \in DOMAIN batches, q # p
          PROVE  {r \in DOMAIN stored' : stored'[r] = q} = {r \in DOMAIN stored : stored[r] = q}
      BY <3>1, <3>5
    <3>6. ASSUME NEW q \in DOMAIN batches'
          PROVE  batches'[q].accepted = Cardinality({r \in DOMAIN stored' : stored'[r] = q})
      <4>1. CASE q = p  BY <3>3, <3>4, <4>1
      <4>2. CASE q # p  BY <1>1, <3>5, <4>2 DEF AcceptedCountsRows
      <4> QED  BY <4>1, <4>2
    <3> QED  BY <3>6 DEF AcceptedCountsRows
  <2> QED  BY <2>1, <2>2
<1>10. /\ DOMAIN batches' \in SUBSET (SUBSET Nat)
       /\ \A q \in DOMAIN batches' : batches'[q] \in Result
  BY <1>1, <1>2 DEF TypeOK
<1> QED  BY <1>5, <1>6, <1>7, <1>8, <1>9, <1>10

\* A committed batch and a puller that acknowledges only if it made progress.
LEMMA CommitInv ==
  ASSUME IndInv, NEW c \in Conns, CommitBatch(puller[c].batch),
         UNCHANGED <<outbox, dialled, down, up, handlers, hubConn, blocked, toggles>>,
         faults' \in Nat,
         \/ puller' = [puller EXCEPT ![c] = Idle("waiting")]
         \/ /\ Progress(Outcome(puller[c].batch))
            /\ puller' = [puller EXCEPT ![c].phase = "acking"]
  PROVE  IndInv'
<1> DEFINE p == puller[c].batch
<1>1. p \in SUBSET RowIds  BY Parts DEF PullersOK
<1>2. /\ DOMAIN batches' \in SUBSET (SUBSET Nat)
      /\ \A q \in DOMAIN batches' : batches'[q] \in Result
      /\ DOMAIN stored' \in SUBSET Nat
      /\ \A r \in DOMAIN stored' : stored'[r] \in DOMAIN batches'
      /\ Settled \subseteq Settled'
      /\ Progress(Outcome(p)) => p \subseteq Settled'
      /\ BatchesOfRows' /\ ReleasedAfterCommit' /\ AcceptedCountsRows'
  <2>1. CommitBatch(p) /\ UNCHANGED outbox  OBVIOUS
  <2> HIDE DEF p
  <2> QED  BY <1>1, <2>1, CommitTables
<1>3. RowIds' = RowIds  BY DEF RowIds
<1>4. PullersOK'
  <2>1. PullersOK  BY Parts
  <2>2. CASE puller' = [puller EXCEPT ![c] = Idle("waiting")]
    BY <1>2, <1>3, <2>1, <2>2 DEF PullersOK, Idle, Phases
  <2>3. CASE /\ Progress(Outcome(p))
             /\ puller' = [puller EXCEPT ![c].phase = "acking"]
    BY <1>2, <1>3, <2>1, <2>3 DEF PullersOK, Phases
  <2> QED  BY <2>2, <2>3
<1>5. PipesOK' /\ RestOK'  BY Parts, <1>2, <1>3 DEF PipesOK, RestOK
<1>6. TypeOK'  BY <1>2, <1>4, <1>5 DEF IndInv, TypeOK, PipesOK, PullersOK, RestOK
<1>7. Carried'  BY <1>4, <1>5 DEF Carried, PipesOK, PullersOK
<1> QED  BY <1>2, <1>6, <1>7 DEF IndInv

LEMMA IngestInv == ASSUME IndInv, NEW c \in Conns, Ingest(c) PROVE IndInv'
<1>1. /\ CommitBatch(puller[c].batch)
      /\ UNCHANGED <<outbox, dialled, down, up, handlers, hubConn, blocked, toggles, faults>>
      /\ \/ puller' = [puller EXCEPT ![c] = Idle("waiting")]
         \/ /\ Progress(Outcome(puller[c].batch))
            /\ puller' = [puller EXCEPT ![c].phase = "acking"]
  BY DEF Ingest, mwVars, wireVars, hubVars, envVars
<1>2. faults' \in Nat  BY <1>1 DEF IndInv, TypeOK
<1> QED  BY <1>1, <1>2, CommitInv

LEMMA IngestFailsInv == ASSUME IndInv, NEW c \in Conns, IngestFails(c) PROVE IndInv'
<1>1. /\ UNCHANGED <<outbox, dialled, down, up, handlers, hubConn, blocked, toggles>>
      /\ puller' = [puller EXCEPT ![c] = Idle("waiting")]
      /\ Fault
      /\ UNCHANGED dbVars \/ CommitBatch(puller[c].batch)
  BY DEF IngestFails, mwVars, wireVars, hubVars
<1>2. faults' \in Nat  BY <1>1 DEF IndInv, TypeOK, Fault
<1>3. CASE UNCHANGED dbVars
  <2>1. UNCHANGED <<outbox, dbVars>>  BY <1>1, <1>3
  <2>2. PullersOK' /\ PipesOK' /\ RestOK'
    BY <1>1, <1>2, <2>1, Parts, SameRows DEF PullersOK, PipesOK, RestOK, Idle, Phases
  <2> QED  BY <2>1, <2>2, SameData
<1>4. CASE CommitBatch(puller[c].batch)  BY <1>1, <1>2, <1>4, CommitInv
<1> QED  BY <1>1, <1>3, <1>4

-----------------------------------------------------------------------------
(* Theorems.                                                                *)

LEMMA StutterInv == ASSUME IndInv, UNCHANGED vars PROVE IndInv'
<1>1. UNCHANGED <<outbox, dbVars>> /\ PipesOK' /\ PullersOK' /\ RestOK'
  BY Parts DEF vars, mwVars, wireVars, hubVars, dbVars, envVars, PipesOK, PullersOK, RestOK,
     Settled, RowIds
<1> QED  BY <1>1, SameData

LEMMA NextInv == IndInv /\ [Next]_vars => IndInv'
<1> SUFFICES ASSUME IndInv, [Next]_vars PROVE IndInv'  OBVIOUS
<1>1. ASSUME NEW d \in Devices, Enqueue(d) PROVE IndInv'  BY <1>1, EnqueueInv
<1>2. ASSUME NEW d \in Devices, Toggle(d) PROVE IndInv'  BY <1>2, ToggleInv
<1>3. CASE ClearDeliveryLogs \/ CleanupOld
  BY <1>3, DeleteInv DEF ClearDeliveryLogs, CleanupOld
<1>4. ASSUME NEW c \in Conns, Connect(c) PROVE IndInv'  BY <1>4, ConnectInv
<1>5. CASE MiddlewareDrops  BY <1>5, MiddlewareDropsInv
<1>6. ASSUME NEW c \in Conns, PlatformDrops(c) PROVE IndInv'  BY <1>6, PlatformDropsInv
<1>7. CASE PlatformCrashes  BY <1>7, PlatformCrashesInv
<1>8. ASSUME NEW c \in Conns, PullerStep(c) PROVE IndInv'
  BY <1>8, SendDrainInv, SendAckInv, AckOfflineInv, TimeoutInv, IngestInv DEF PullerStep
<1>9. CASE CommandLoop  BY <1>9, HandleDrainInv, HandleAckInv DEF CommandLoop
<1>10. CASE HandleFails  BY <1>10, HandleFailsInv
<1>11. ASSUME NEW c \in Conns, Resolve(c) PROVE IndInv'  BY <1>11, ResolveInv
<1>12. ASSUME NEW c \in Conns, IngestFails(c) PROVE IndInv'  BY <1>12, IngestFailsInv
<1>13. CASE UNCHANGED vars  BY <1>13, StutterInv
<1> QED
  BY <1>1, <1>2, <1>3, <1>4, <1>5, <1>6, <1>7, <1>8, <1>9, <1>10, <1>11, <1>12, <1>13 DEF Next

\* The inductive invariant holds in every reachable state.
THEOREM Invariance == Spec => []IndInv
BY InitInv, NextInv, PTL DEF Spec

\* Every variable keeps its type, for any number of rows, faults and pullers.
THEOREM TypeCorrect == Spec => []TypeOK
<1>1. IndInv => TypeOK  BY DEF IndInv
<1> QED  BY <1>1, Invariance, PTL

\* No row leaves the outbox before the Platform committed a batch holding it.
THEOREM ReleaseIsSafe == Spec => []ReleasedAfterCommit
<1>1. IndInv => ReleasedAfterCommit  BY DEF IndInv
<1> QED  BY <1>1, Invariance, PTL

\* However often rows are offered, each batch counts exactly the readings it stored.
THEOREM CountsAreExact == Spec => []AcceptedCountsRows
<1>1. IndInv => AcceptedCountsRows  BY DEF IndInv
<1> QED  BY <1>1, Invariance, PTL

-----------------------------------------------------------------------------
(* Nothing of a device that is never refused is lost.                       *)

\* Every reading of these devices that a committed batch holds is stored.
CommittedIsStored(D) ==
  \A p \in DOMAIN batches : \A i \in p : outbox[i].dev \in D => i \in DOMAIN stored

\* The released readings of these devices are in the database.
ReleasedIsStoredOf(D) ==
  \A i \in RowIds : outbox[i].dev \in D /\ outbox[i].status # "PENDING" => i \in DOMAIN stored

\* No row ever changes its device.
SameDevices == \A i \in RowIds : i \in RowIds' /\ outbox'[i].dev = outbox[i].dev

LEMMA MarkKeepsDevices ==
  ASSUME TypeOK, NEW ids, NEW from, NEW to \in Statuses, outbox' = Marked(ids, from, to)
  PROVE  SameDevices
<1>1. \A i \in RowIds : outbox[i] \in Row  BY LenProperties, ElementOfSeq DEF RowIds, TypeOK
<1>2. \A i \in RowIds : outbox'[i].dev = outbox[i].dev  BY <1>1 DEF Marked, Row
<1> QED  BY <1>2, MarkedRows DEF SameDevices, RowIds

LEMMA EnqueueKeepsDevices ==
  ASSUME TypeOK, NEW d \in Devices, Enqueue(d) PROVE SameDevices
<1>1. outbox \in Seq(Row) /\ [dev |-> d, status |-> "PENDING"] \in Row
  BY DEF TypeOK, Row, Statuses
<1> QED
  BY <1>1, AppendProperties, LenProperties DEF Enqueue, SameDevices, RowIds

\* What a step does to the rows and the tables: the rows keep their devices, and
\* the tables change only by committing a batch of rows.
LEMMA StepShape ==
  ASSUME IndInv, [Next]_vars
  PROVE  /\ SameDevices
         /\ \/ UNCHANGED dbVars
            \/ UNCHANGED outbox /\ \E p \in SUBSET RowIds : CommitBatch(p)
<1>0. TypeOK  BY DEF IndInv
<1>1. UNCHANGED outbox => SameDevices  BY DEF SameDevices, RowIds
<1>2. \A c \in Conns : puller[c].batch \in SUBSET RowIds  BY Parts DEF PullersOK
<1>3. ASSUME NEW d \in Devices, Enqueue(d) \/ Toggle(d)
      PROVE  SameDevices /\ UNCHANGED dbVars
  BY <1>0, <1>1, <1>3, EnqueueKeepsDevices DEF Enqueue, Toggle, mwVars
<1>4. CASE ClearDeliveryLogs \/ CleanupOld
  <2>1. PICK ids : outbox' = Marked(ids, {"DELIVERED"}, "GONE") /\ UNCHANGED dbVars
    BY <1>4 DEF ClearDeliveryLogs, CleanupOld, Delete
  <2>2. "GONE" \in Statuses  BY DEF Statuses
  <2> QED  BY <1>0, <2>1, <2>2, MarkKeepsDevices
<1>5. CASE CommandLoop \/ HandleFails
  <2>1. UNCHANGED dbVars
    BY <1>5 DEF CommandLoop, HandleDrain, HandleAck, HandleFails, Reply
  <2>2. UNCHANGED outbox \/ \E ids : outbox' = Delivered(ids)
    BY <1>5 DEF CommandLoop, HandleDrain, HandleAck, HandleFails
  <2>3. "DELIVERED" \in Statuses  BY DEF Statuses
  <2>4. ASSUME NEW ids, outbox' = Delivered(ids) PROVE SameDevices
    BY <1>0, <2>3, <2>4, MarkKeepsDevices DEF Delivered
  <2> QED  BY <1>1, <2>1, <2>2, <2>4
<1>6. ASSUME NEW c \in Conns, Ingest(c) \/ IngestFails(c)
      PROVE  UNCHANGED outbox /\ (UNCHANGED dbVars \/ CommitBatch(puller[c].batch))
  BY <1>6 DEF Ingest, IngestFails, mwVars
<1>7. CASE \/ MiddlewareDrops \/ PlatformCrashes \/ UNCHANGED vars
           \/ \E c \in Conns : \/ Connect(c) \/ PlatformDrops(c) \/ Resolve(c)
                               \/ SendDrain(c) \/ SendAck(c) \/ AckOffline(c) \/ Timeout(c)
  <2>1. UNCHANGED outbox /\ UNCHANGED dbVars
    BY <1>7 DEF MiddlewareDrops, HangUp, PlatformCrashes, vars, Connect, PlatformDrops,
       Unregister, Resolve, SendDrain, SendAck, Send, AckOffline, Timeout, mwVars
  <2> QED  BY <1>1, <2>1
<1> QED  BY <1>1, <1>2, <1>3, <1>4, <1>5, <1>6, <1>7 DEF Next, PullerStep

\* A batch committed while these devices are accepted stores all they have in it.
LEMMA CommitStores ==
  ASSUME IndInv, [Next]_vars, NEW D, D \cap blocked = {}, CommittedIsStored(D)
  PROVE  CommittedIsStored(D)'
<1>1. \A p \in DOMAIN batches : p \subseteq RowIds  BY DEF IndInv, BatchesOfRows
<1>2. SameDevices  BY StepShape
<1>3. CASE UNCHANGED dbVars
  BY <1>1, <1>2, <1>3 DEF SameDevices, CommittedIsStored, dbVars
<1>4. ASSUME UNCHANGED outbox, NEW p \in SUBSET RowIds, CommitBatch(p)
      PROVE  CommittedIsStored(D)'
  <2>1. /\ DOMAIN batches' = DOMAIN batches \cup {p}
        /\ DOMAIN stored' = IF p \in DOMAIN batches THEN DOMAIN stored
                            ELSE DOMAIN stored \cup Accepted(p)
    BY <1>4 DEF CommitBatch
  <2>2. \A i \in p : outbox[i].dev \in D /\ i \notin DOMAIN stored => i \in Accepted(p)
    BY DEF Accepted
  <2> QED  BY <1>4, <2>1, <2>2 DEF CommittedIsStored
<1> QED  BY <1>3, <1>4, StepShape

LEMMA InitStores == ASSUME NEW D PROVE Init => CommittedIsStored(D)
BY DEF Init, CommittedIsStored

LEMMA CommittedRows ==
  ASSUME IndInv, NEW D, CommittedIsStored(D) PROVE ReleasedIsStoredOf(D)
BY DEF IndInv, ReleasedAfterCommit, Settled, CommittedIsStored, ReleasedIsStoredOf

\* As long as a set of devices is never refused, whatever happens to the others,
\* each of its readings that left the outbox is stored: a batch is
\* acknowledged only once committed, and its transaction stores what it accepts.
THEOREM AcceptedDevicesLoseNothing ==
  ASSUME NEW D \in SUBSET Devices
  PROVE  Spec /\ [](D \cap blocked = {}) => []ReleasedIsStoredOf(D)
<1>1. Init => CommittedIsStored(D)  BY InitStores
<1>2. IndInv /\ D \cap blocked = {} /\ CommittedIsStored(D) /\ [Next]_vars
        => CommittedIsStored(D)'
  BY CommitStores
<1>3. IndInv /\ CommittedIsStored(D) => ReleasedIsStoredOf(D)  BY CommittedRows
<1> QED  BY <1>1, <1>2, <1>3, Invariance, PTL DEF Spec

\* With nothing refused, no reading leaves the outbox before it is stored.
THEOREM NothingRefusedNothingLost == Spec /\ [](blocked = {}) => []ReleasedIsStored
<1>1. Init => CommittedIsStored(Devices)  BY InitStores
<1>2. IndInv /\ blocked = {} /\ CommittedIsStored(Devices) /\ [Next]_vars
        => CommittedIsStored(Devices)'
  BY CommitStores
<1>3. ASSUME IndInv, CommittedIsStored(Devices) PROVE ReleasedIsStored
  <2>1. outbox \in Seq(Row) /\ ReleasedIsStoredOf(Devices)
    BY <1>3, CommittedRows DEF IndInv, TypeOK
  <2>2. \A i \in RowIds : outbox[i] \in Row
    BY <2>1, LenProperties, ElementOfSeq DEF RowIds
  <2> QED  BY <2>1, <2>2 DEF ReleasedIsStoredOf, ReleasedIsStored, Row
<1>4. IndInv /\ CommittedIsStored(Devices) => ReleasedIsStored  BY <1>3
<1> QED  BY <1>1, <1>2, <1>4, Invariance, PTL DEF Spec

-----------------------------------------------------------------------------
(* TelemetryPull implements TwoPhaseHandoff.                                *)

LEMMA HandoffInit == Init => Handoff!Init
BY DEF Init, Handoff!Init, Pending, Settled, RowIds

\* Steps that keep the rows and the tables are stutters of the handoff.
LEMMA HandoffStutter ==
  ASSUME UNCHANGED <<outbox, dbVars>> PROVE UNCHANGED Handoff!vars
BY DEF Handoff!vars, Pending, Settled, RowIds, dbVars

LEMMA HandoffEnqueue ==
  ASSUME IndInv, NEW d \in Devices, Enqueue(d) PROVE [Handoff!Next]_(Handoff!vars)
<1> DEFINE i == Len(outbox) + 1
           row == [dev |-> d, status |-> "PENDING"]
<1>1. outbox \in Seq(Row) /\ row \in Row /\ outbox' = Append(outbox, row)
  BY DEF Enqueue, IndInv, TypeOK, Row, Statuses
<1>2. /\ RowIds' = 1..i /\ RowIds = 1..Len(outbox) /\ Len(outbox) \in Nat
      /\ \A j \in RowIds : outbox'[j] = outbox[j]
      /\ outbox'[i] = row
  BY <1>1, AppendProperties, LenProperties DEF RowIds
<1>3. Pending' = Pending \cup {i} /\ i \notin RowIds  BY <1>2 DEF Pending
<1>4. (RowIds \ Pending)' = RowIds \ Pending  BY <1>2, <1>3
<1>5. Settled' = Settled  BY DEF Enqueue, dbVars, Settled
<1>6. i \in 1..MaxRows  BY <1>2, BoundAssumption DEF Enqueue
<1>7. Handoff!Buffer(i)  BY <1>3, <1>4, <1>5 DEF Handoff!Buffer, Pending
<1> QED  BY <1>6, <1>7 DEF Handoff!Next

\* Rows marked: those that leave PENDING are the ones released.
LEMMA HandoffMark ==
  ASSUME IndInv, NEW ids, NEW from, NEW to \in {"DELIVERED", "GONE"}, UNCHANGED dbVars,
         outbox' = Marked(ids, from, to),
         \A i \in RowIds : i \in ids /\ outbox[i].status \in from => i \in Settled
  PROVE  [Handoff!Next]_(Handoff!vars)
<1> DEFINE S == {i \in Pending : i \in ids /\ "PENDING" \in from}
<1>0. TypeOK /\ to \in Statuses  BY DEF IndInv, Statuses
<1>1. /\ RowIds' = RowIds
      /\ \A i \in RowIds : outbox'[i].status =
           IF i \in ids /\ outbox[i].status \in from THEN to ELSE outbox[i].status
  BY <1>0, MarkedRows DEF RowIds
<1>2. Pending' = Pending \ S  BY <1>1 DEF Pending
<1>3. (RowIds \ Pending)' = (RowIds \ Pending) \cup S  BY <1>1, <1>2 DEF Pending
<1>4. Settled' = Settled  BY DEF dbVars, Settled
<1>5. S \subseteq Pending \cap Settled  BY DEF Pending
<1>6. Handoff!Release(S)  BY <1>2, <1>3, <1>4, <1>5 DEF Handoff!Release
<1> QED  BY <1>5, <1>6 DEF Handoff!Next

LEMMA HandoffAck ==
  ASSUME IndInv, down # <<>>, NEW ids \in SUBSET Head(down).ids,
         outbox' = Delivered(ids), UNCHANGED dbVars
  PROVE  [Handoff!Next]_(Handoff!vars)
<1>1. down \in Seq(Command) /\ \A i \in DOMAIN down : down[i].ids \subseteq Settled
  BY Parts DEF PipesOK
<1>2. Head(down).ids \subseteq Settled  BY <1>1, TailFrames
<1>3. outbox' = Marked(ids, {"PENDING", "DELIVERED"}, "DELIVERED")  BY DEF Delivered
<1>4. \A i \in ids : i \in Settled  BY <1>2
<1> QED  BY <1>3, <1>4, HandoffMark

\* Committing a batch settles it if it made progress, and otherwise nothing.
LEMMA HandoffCommit ==
  ASSUME IndInv, NEW p \in SUBSET RowIds, CommitBatch(p), UNCHANGED outbox
  PROVE  [Handoff!Next]_(Handoff!vars)
<1> DEFINE S == IF Progress(Outcome(p)) THEN p ELSE {}
<1>1. /\ DOMAIN batches' = DOMAIN batches \cup {p}
      /\ batches'[p] = Outcome(p)
      /\ \A q \in DOMAIN batches : batches'[q] = batches[q]
  BY DEF CommitBatch, Outcome
<1>2. Settled' = Settled \cup S  BY <1>1 DEF Settled, Progress
<1>3. Pending' = Pending /\ RowIds' = RowIds  BY DEF Pending, RowIds
<1>4. S \in SUBSET (Pending \cup (RowIds \ Pending))  OBVIOUS
<1>5. Handoff!Settle(S)  BY <1>2, <1>3, <1>4 DEF Handoff!Settle
<1> QED  BY <1>4, <1>5 DEF Handoff!Next

LEMMA HandoffNext == IndInv /\ [Next]_vars => [Handoff!Next]_(Handoff!vars)
<1> SUFFICES ASSUME IndInv, [Next]_vars PROVE [Handoff!Next]_(Handoff!vars)  OBVIOUS
<1>1. ASSUME UNCHANGED <<outbox, dbVars>> PROVE [Handoff!Next]_(Handoff!vars)
  BY <1>1, HandoffStutter
<1>2. \A c \in Conns : puller[c].batch \in SUBSET RowIds  BY Parts DEF PullersOK
<1>3. ASSUME NEW d \in Devices, Enqueue(d) \/ Toggle(d)
      PROVE  [Handoff!Next]_(Handoff!vars)
  BY <1>1, <1>3, HandoffEnqueue DEF Toggle, mwVars
<1>4. CASE ClearDeliveryLogs \/ CleanupOld
  <2>1. PICK ids \in SUBSET DeliveredRows :
          outbox' = Marked(ids, {"DELIVERED"}, "GONE") /\ UNCHANGED dbVars
    BY <1>4 DEF ClearDeliveryLogs, CleanupOld, Delete
  <2>2. \A i \in RowIds : i \in ids /\ outbox[i].status \in {"DELIVERED"} => i \in Settled
    BY DEF IndInv, ReleasedAfterCommit
  <2> QED  BY <2>1, <2>2, HandoffMark
<1>5. ASSUME NEW c \in Conns, Connect(c) \/ PlatformDrops(c) \/ Resolve(c)
      PROVE  [Handoff!Next]_(Handoff!vars)
  BY <1>1, <1>5 DEF Connect, PlatformDrops, Unregister, Resolve, mwVars
<1>6. CASE MiddlewareDrops \/ PlatformCrashes
  BY <1>1, <1>6 DEF MiddlewareDrops, HangUp, PlatformCrashes, mwVars
<1>7. ASSUME NEW c \in Conns, PullerStep(c) PROVE [Handoff!Next]_(Handoff!vars)
  <2>1. CASE SendDrain(c) \/ SendAck(c) \/ AckOffline(c) \/ Timeout(c)
    BY <1>1, <2>1 DEF SendDrain, SendAck, Send, AckOffline, Timeout, mwVars
  <2>2. CASE Ingest(c)  BY <1>2, <2>2, HandoffCommit DEF Ingest, mwVars
  <2> QED  BY <1>7, <2>1, <2>2 DEF PullerStep
<1>8. CASE HandleDrain  BY <1>1, <1>8 DEF HandleDrain, Reply
<1>9. CASE HandleAck
  <2>1. /\ down # <<>> /\ outbox' = Delivered(Head(down).ids) /\ UNCHANGED dbVars
        /\ Head(down).ids \in SUBSET Head(down).ids
    BY <1>9 DEF HandleAck, Reply
  <2> QED  BY <2>1, HandoffAck
<1>10. CASE HandleFails
  <2>1. down # <<>> /\ UNCHANGED dbVars  BY <1>10 DEF HandleFails, Reply
  <2>2. CASE UNCHANGED outbox  BY <1>1, <2>1, <2>2
  <2>3. CASE \E at \in Head(down).ids :
               outbox' = Delivered({i \in Head(down).ids : i < at})
    <3>1. PICK at \in Head(down).ids :
            outbox' = Delivered({i \in Head(down).ids : i < at})
      BY <2>3
    <3>2. {i \in Head(down).ids : i < at} \in SUBSET Head(down).ids  OBVIOUS
    <3> QED  BY <2>1, <3>1, <3>2, HandoffAck
  <2> QED  BY <1>10, <2>2, <2>3 DEF HandleFails
<1>11. ASSUME NEW c \in Conns, IngestFails(c) PROVE [Handoff!Next]_(Handoff!vars)
  BY <1>1, <1>2, <1>11, HandoffCommit DEF IngestFails, mwVars
<1>12. CASE UNCHANGED vars  BY <1>1, <1>12 DEF vars, mwVars
<1> QED
  BY <1>3, <1>4, <1>5, <1>6, <1>7, <1>8, <1>9, <1>10, <1>11, <1>12 DEF Next, CommandLoop

\* The pull, with all its faults and stale pullers, implements the two-phase handoff.
THEOREM PullImplementsHandoff == Spec => TwoPhase
BY HandoffInit, HandoffNext, Invariance, PTL DEF Spec, TwoPhase, Handoff!Spec
=============================================================================
