-------------------------- MODULE ConfigPush_proofs --------------------------
(***************************************************************************)
(* Proofs about ConfigPush for every set of admins and connections, every  *)
(* pipe size and every bound.                                              *)
(***************************************************************************)
EXTENDS ConfigPush, SequenceTheorems, TLAPS

-----------------------------------------------------------------------------
(* The operators.                                                           *)

\* The elements left after the first is read were there before, in that order.
LEMMA TailElements ==
  ASSUME NEW T, NEW s \in Seq(T), s # <<>>
  PROVE  /\ Tail(s) \in Seq(T) /\ Len(Tail(s)) = Len(s) - 1
         /\ \A i \in DOMAIN Tail(s) : i + 1 \in DOMAIN s /\ Tail(s)[i] = s[i + 1]
         /\ 1 \in DOMAIN s /\ Head(s) = s[1] /\ Head(s) \in T
         /\ DOMAIN s = 1..Len(s) /\ Len(s) \in Nat
         /\ DOMAIN Tail(s) = 1..(Len(s) - 1)
  BY HeadTailProperties, LenProperties

\* Appending adds one element, at the end, and nothing else.
LEMMA AppendElements ==
  ASSUME NEW T, NEW s \in Seq(T), NEW e \in T
  PROVE  /\ Append(s, e) \in Seq(T) /\ Len(Append(s, e)) = Len(s) + 1
         /\ DOMAIN s = 1..Len(s) /\ Len(s) \in Nat
         /\ DOMAIN Append(s, e) = 1..(Len(s) + 1)
         /\ \A i \in DOMAIN s : Append(s, e)[i] = s[i]
         /\ Append(s, e)[Len(s) + 1] = e
<1>1. /\ Append(s, e) \in Seq(T) /\ Len(Append(s, e)) = Len(s) + 1
      /\ \A i \in 1..Len(s) : Append(s, e)[i] = s[i]
      /\ Append(s, e)[Len(s) + 1] = e
  BY AppendProperties
<1> QED  BY <1>1, LenProperties

\* Setting a row's status keeps the versions and what they hold.
LEMMA StatusSet ==
  ASSUME TypeOK, NEW v, NEW status \in {"SENT"} \cup Outcomes, SetStatus(v, status)
  PROVE  /\ DOMAIN history' = DOMAIN history
         /\ \A w \in DOMAIN history :
              /\ history'[w] \in [content : Nat, status : {"PENDING", "SENT"} \cup Outcomes]
              /\ history'[w].content = history[w].content
  BY DEF TypeOK, SetStatus, Outcomes

-----------------------------------------------------------------------------
(* Types.  One lemma for the Platform's and one for the Middleware's side.  *)

PlatformTypes ==
  /\ registry \in Nat
  /\ rowLock \in Pushers \cup {NoPusher}
  /\ pusher \in [Pushers -> [phase : {"idle", "built", "committed", "sent"}, snap : Snapshot]]
  /\ client \in [version : Nat, snapshot : Nat, applied : Nat]
  /\ DOMAIN history = 1..client.version
  /\ \A v \in DOMAIN history :
       history[v] \in [content : Nat, status : {"PENDING", "SENT"} \cup Outcomes]
  /\ up \in [Conns -> Seq(Ack)]
  /\ handlers \in SUBSET Conns
  /\ hubConn \in Conns \cup {NoConn}

SiteTypes ==
  /\ dialled \in Conns \cup {NoConn}
  /\ down \in Seq(Snapshot) /\ Len(down) <= PipeSize
  /\ conf \in Snapshot
  /\ mwHistory \in Seq([version : Nat, status : Outcomes])
  /\ mw \in [phase : {"reading", "applied", "answering"}, snap : Snapshot, ok : BOOLEAN]
  /\ faults \in Nat

LEMMA Types == TypeOK <=> PlatformTypes /\ SiteTypes
BY DEF TypeOK, PlatformTypes, SiteTypes

LEMMA InitTypes == Init => TypeOK
<1> SUFFICES ASSUME Init PROVE TypeOK  OBVIOUS
<1> USE DEF Init
<1>1. Idle \in [phase : {"idle", "built", "committed", "sent"}, snap : Snapshot]
  BY DEF Idle, NoSnapshot, Snapshot
<1>2. Reading \in [phase : {"reading", "applied", "answering"}, snap : Snapshot, ok : BOOLEAN]
  BY DEF Reading, NoSnapshot, Snapshot
<1>3. conf \in Snapshot  BY DEF NoSnapshot, Snapshot
<1>4. /\ down \in Seq(Snapshot) /\ Len(down) = 0
      /\ up \in [Conns -> Seq(Ack)]
      /\ mwHistory \in Seq([version : Nat, status : Outcomes])
  BY EmptySeq
<1>5. PlatformTypes  BY <1>1, <1>4 DEF PlatformTypes
<1>6. SiteTypes  BY <1>2, <1>3, <1>4, BoundAssumption DEF SiteTypes
<1> QED  BY <1>5, <1>6, Types

\* Every step keeps the Platform's types.
LEMMA PlatformStep == TypeOK /\ [Next]_vars => PlatformTypes'
<1> SUFFICES ASSUME TypeOK, [Next]_vars PROVE PlatformTypes'  OBVIOUS
<1> USE DEF pushVars, dbVars, wireVars, hubVars, mwVars
<1>0. PlatformTypes /\ SiteTypes  BY Types
<1>i. Idle \in [phase : {"idle", "built", "committed", "sent"}, snap : Snapshot]
  BY DEF Idle, NoSnapshot, Snapshot
<1>1. CASE EditRegistry  BY <1>0, <1>1 DEF EditRegistry, PlatformTypes
<1>2. ASSUME NEW p \in Pushers, LockAndBuild(p) PROVE PlatformTypes'
  BY <1>0, <1>2 DEF LockAndBuild, BuildConfigSnapshot, PlatformTypes, Snapshot
<1>3. ASSUME NEW p \in Pushers, CommitPush(p) PROVE PlatformTypes'
  <2>1. client.version + 1 \in Nat /\ pusher[p].snap \in Snapshot
    BY <1>0 DEF PlatformTypes
  <2>2. /\ pusher' \in [Pushers -> [phase : {"idle", "built", "committed", "sent"}, snap : Snapshot]]
        /\ rowLock' \in Pushers \cup {NoPusher}
    BY <1>0, <1>3, <2>1 DEF CommitPush, PlatformTypes, Snapshot
  <2>3. client' \in [version : Nat, snapshot : Nat, applied : Nat]
        /\ client'.version = client.version + 1
    BY <1>0, <1>3, <2>1 DEF CommitPush, PlatformTypes, Snapshot
  <2>4. DOMAIN history' = 1..client'.version
    BY <1>0, <1>3, <2>1, <2>3 DEF CommitPush, PlatformTypes
  <2>5. \A v \in DOMAIN history' :
          history'[v] \in [content : Nat, status : {"PENDING", "SENT"} \cup Outcomes]
    BY <1>0, <1>3, <2>1 DEF CommitPush, PlatformTypes, Snapshot
  <2> QED  BY <1>0, <1>3, <2>2, <2>3, <2>4, <2>5 DEF CommitPush, PlatformTypes
<1>4. ASSUME NEW p \in Pushers, AbortPush(p) PROVE PlatformTypes'
  BY <1>0, <1>i, <1>4 DEF AbortPush, PlatformTypes
<1>5. ASSUME NEW p \in Pushers, SendPush(p) PROVE PlatformTypes'
  BY <1>0, <1>i, <1>5 DEF SendPush, PlatformTypes
<1>6. ASSUME NEW p \in Pushers, MarkSent(p) PROVE PlatformTypes'
  <2>1. SetStatus(pusher[p].snap.version, "SENT")  BY <1>6 DEF MarkSent
  <2>2. /\ DOMAIN history' = DOMAIN history
        /\ \A w \in DOMAIN history :
             history'[w] \in [content : Nat, status : {"PENDING", "SENT"} \cup Outcomes]
    BY <2>1, StatusSet
  <2> QED  BY <1>0, <1>i, <1>6, <2>2 DEF MarkSent, PlatformTypes
<1>7. ASSUME NEW p \in Pushers, MarkSentFails(p) PROVE PlatformTypes'
  BY <1>0, <1>i, <1>7 DEF MarkSentFails, PlatformTypes
<1>8. ASSUME NEW c \in Conns, RecordAck(c) PROVE PlatformTypes'
  <2> DEFINE ack == Head(up[c])
  <2>1. up[c] \in Seq(Ack) /\ up[c] # <<>>  BY <1>0, <1>8 DEF RecordAck, PlatformTypes
  <2>2. ack \in Ack /\ Tail(up[c]) \in Seq(Ack)  BY <2>1, TailElements
  <2>3. /\ DOMAIN history' = DOMAIN history
        /\ \A w \in DOMAIN history :
             history'[w] \in [content : Nat, status : {"PENDING", "SENT"} \cup Outcomes]
    BY <1>8, <2>2, StatusSet DEF RecordAck, Ack
  <2>4. client' \in [version : Nat, snapshot : Nat, applied : Nat] /\ client'.version = client.version
    BY <1>0, <1>8, <2>2 DEF RecordAck, PlatformTypes, Ack
  <2> QED  BY <1>0, <1>8, <2>2, <2>3, <2>4 DEF RecordAck, PlatformTypes
<1>9. ASSUME NEW c \in Conns, RecordAckFails(c) PROVE PlatformTypes'
  <2>1. up[c] \in Seq(Ack) /\ up[c] # <<>>  BY <1>0, <1>9 DEF RecordAckFails, PlatformTypes
  <2>2. Tail(up[c]) \in Seq(Ack)  BY <2>1, TailElements
  <2> QED  BY <1>0, <1>9, <2>2 DEF RecordAckFails, PlatformTypes
<1>10. ASSUME NEW c \in Conns, Connect(c) PROVE PlatformTypes'
  BY <1>0, <1>10 DEF Connect, PlatformTypes
<1>11. ASSUME NEW c \in Conns, HandlerEnds(c) PROVE PlatformTypes'
  <2>1. <<>> \in Seq(Ack)  BY EmptySeq
  <2> QED  BY <1>0, <1>11, <2>1 DEF HandlerEnds, PlatformTypes
<1>12. CASE Disconnect  BY <1>0, <1>12 DEF Disconnect, PlatformTypes
<1>13. CASE MiddlewareCrashes  BY <1>0, <1>13 DEF MiddlewareCrashes, PlatformTypes
<1>14. CASE PlatformCrashes
  <2>1. <<>> \in Seq(Ack)  BY EmptySeq
  <2> QED  BY <1>0, <1>i, <1>14, <2>1 DEF PlatformCrashes, PlatformTypes
<1>15. CASE ApplySnapshot \/ RefuseSnapshot \/ RecordHistory \/ RecordHistoryFails \/ SaveLocally
  BY <1>0, <1>15
     DEF ApplySnapshot, RefuseSnapshot, RecordHistory, RecordHistoryFails, SaveLocally,
         PlatformTypes
<1>16. CASE SendAck
  <2> DEFINE ack == [version |-> 0, appliedVersion |-> mw.snap.version, status |-> Status(mw.ok)]
  <2>1. ack \in Ack  BY <1>0 DEF SiteTypes, Snapshot, Ack, Status, Outcomes
  <2>2. \A c \in Conns : Append(up[c], ack) \in Seq(Ack)
    BY <1>0, <2>1, AppendElements DEF PlatformTypes
  <2> HIDE DEF ack
  <2>3. up' = IF dialled \in handlers THEN [up EXCEPT ![dialled] = Append(@, ack)] ELSE up
    BY <1>16 DEF SendAck, ack
  <2>4. up' \in [Conns -> Seq(Ack)]  BY <1>0, <2>2, <2>3 DEF PlatformTypes
  <2> QED  BY <1>0, <1>16, <2>4 DEF SendAck, PlatformTypes
<1>17. CASE UNCHANGED vars  BY <1>0, <1>17 DEF vars, PlatformTypes
<1> QED
  BY <1>1, <1>2, <1>3, <1>4, <1>5, <1>6, <1>7, <1>8, <1>9, <1>10, <1>11, <1>12, <1>13,
     <1>14, <1>15, <1>16, <1>17 DEF Next, PushStep, SnapshotStep

\* Handing a snapshot to the hub leaves the pipe as it was or adds it at the end.
LEMMA HubPushed ==
  ASSUME TypeOK, NEW snap \in Snapshot, NEW delivered \in BOOLEAN, HubPush(snap, delivered)
  PROVE  /\ down' \in Seq(Snapshot) /\ Len(down') <= PipeSize
         /\ down' = down \/ down' = Append(down, snap)
<1>1. down \in Seq(Snapshot) /\ Len(down) <= PipeSize /\ Len(down) \in Nat
  BY LenProperties DEF TypeOK
<1>2. CASE down' = down  BY <1>1, <1>2
<1>3. CASE down' = Append(down, snap) /\ Len(down) < PipeSize
  <2>1. Append(down, snap) \in Seq(Snapshot) /\ Len(Append(down, snap)) = Len(down) + 1
    BY <1>1, AppendElements
  <2> QED  BY <1>1, <1>3, <2>1, BoundAssumption
<1> QED  BY <1>2, <1>3 DEF HubPush

\* Every step keeps the Middleware's types.
LEMMA SiteStep == TypeOK /\ [Next]_vars => SiteTypes'
<1> SUFFICES ASSUME TypeOK, [Next]_vars PROVE SiteTypes'  OBVIOUS
<1> USE DEF pushVars, dbVars, wireVars, hubVars, mwVars
<1>0. PlatformTypes /\ SiteTypes  BY Types
<1>f. Fault => faults' \in Nat  BY <1>0 DEF Fault, SiteTypes
<1>e. <<>> \in Seq(Snapshot) /\ Len(<<>>) = 0 /\ 0 <= PipeSize
  BY EmptySeq, BoundAssumption
<1>r. Reading \in [phase : {"reading", "applied", "answering"}, snap : Snapshot, ok : BOOLEAN]
  BY DEF Reading, NoSnapshot, Snapshot
<1>1. CASE EditRegistry  BY <1>0, <1>1 DEF EditRegistry, SiteTypes
<1>2. ASSUME NEW p \in Pushers, LockAndBuild(p) \/ CommitPush(p) \/ MarkSent(p) PROVE SiteTypes'
  BY <1>0, <1>2 DEF LockAndBuild, CommitPush, MarkSent, SiteTypes
<1>3. ASSUME NEW p \in Pushers, AbortPush(p) \/ MarkSentFails(p) PROVE SiteTypes'
  BY <1>0, <1>3, <1>f DEF AbortPush, MarkSentFails, SiteTypes
<1>4. ASSUME NEW p \in Pushers, SendPush(p) PROVE SiteTypes'
  <2>1. pusher[p].snap \in Snapshot  BY <1>0 DEF PlatformTypes
  <2>2. down' \in Seq(Snapshot) /\ Len(down') <= PipeSize
    BY <1>4, <2>1, HubPushed DEF SendPush
  <2> QED  BY <1>0, <1>4, <2>2 DEF SendPush, SiteTypes
<1>5. ASSUME NEW c \in Conns, Connect(c) \/ RecordAck(c) PROVE SiteTypes'
  BY <1>0, <1>5 DEF Connect, RecordAck, SiteTypes
<1>6. ASSUME NEW c \in Conns, RecordAckFails(c) PROVE SiteTypes'
  BY <1>0, <1>6, <1>f DEF RecordAckFails, SiteTypes
<1>7. ASSUME NEW c \in Conns, HandlerEnds(c) PROVE SiteTypes'
  BY <1>0, <1>7, <1>f DEF HandlerEnds, SiteTypes
<1>8. CASE Disconnect  BY <1>0, <1>8, <1>e, <1>f DEF Disconnect, SiteTypes
<1>9. CASE MiddlewareCrashes  BY <1>0, <1>9, <1>e, <1>f, <1>r DEF MiddlewareCrashes, SiteTypes
<1>10. CASE PlatformCrashes  BY <1>0, <1>10, <1>f DEF PlatformCrashes, SiteTypes
<1>11. CASE ApplySnapshot \/ RefuseSnapshot
  <2>1. down \in Seq(Snapshot) /\ down # <<>> /\ Len(down) <= PipeSize
    BY <1>0, <1>11 DEF ApplySnapshot, RefuseSnapshot, SiteTypes
  <2>2. /\ Head(down) \in Snapshot /\ Tail(down) \in Seq(Snapshot)
        /\ Len(Tail(down)) = Len(down) - 1 /\ Len(down) \in Nat
    BY <2>1, TailElements
  <2>3. Len(Tail(down)) <= PipeSize  BY <2>1, <2>2, BoundAssumption
  <2>4. /\ down' = Tail(down) /\ conf' \in {conf, Head(down)}
        /\ UNCHANGED <<dialled, mwHistory, faults>>
    BY <1>11 DEF ApplySnapshot, RefuseSnapshot
  <2> DEFINE h == Head(down)
  <2>5. \E ok \in BOOLEAN : mw' = [phase |-> "applied", snap |-> h, ok |-> ok]
    BY <1>11 DEF ApplySnapshot, RefuseSnapshot
  <2>6. h \in Snapshot  BY <2>2
  <2> HIDE DEF h
  <2>7. mw' \in [phase : {"reading", "applied", "answering"}, snap : Snapshot, ok : BOOLEAN]
    BY <2>5, <2>6
  <2> QED  BY <1>0, <2>2, <2>3, <2>4, <2>7 DEF SiteTypes
<1>12. CASE RecordHistory
  <2> DEFINE row == [version |-> mw.snap.version, status |-> Status(mw.ok)]
  <2>1. row \in [version : Nat, status : Outcomes]
    BY <1>0 DEF SiteTypes, Snapshot, Status, Outcomes
  <2>2. Append(mwHistory, row) \in Seq([version : Nat, status : Outcomes])
    BY <1>0, <2>1, AppendElements DEF SiteTypes
  <2> HIDE DEF row
  <2>3. mwHistory' = Append(mwHistory, row)  BY <1>12 DEF RecordHistory, row
  <2> QED  BY <1>0, <1>12, <2>2, <2>3 DEF RecordHistory, SiteTypes
<1>13. CASE RecordHistoryFails  BY <1>0, <1>13, <1>f DEF RecordHistoryFails, SiteTypes
<1>14. CASE SendAck  BY <1>0, <1>14, <1>r DEF SendAck, SiteTypes
<1>15. CASE SaveLocally
  <2>1. Local \in Nat  BY BoundAssumption DEF Local
  <2> QED  BY <1>0, <1>15, <2>1 DEF SaveLocally, SiteTypes, Snapshot
<1>16. CASE UNCHANGED vars  BY <1>0, <1>16 DEF vars, SiteTypes
<1> QED
  BY <1>1, <1>2, <1>3, <1>4, <1>5, <1>6, <1>7, <1>8, <1>9, <1>10, <1>11, <1>12, <1>13,
     <1>14, <1>15, <1>16 DEF Next, PushStep, SnapshotStep

LEMMA NextTypes == TypeOK /\ [Next]_vars => TypeOK'
<1> SUFFICES ASSUME TypeOK, [Next]_vars PROVE TypeOK'  OBVIOUS
<1>1. PlatformTypes' /\ SiteTypes'  BY PlatformStep, SiteStep
<1> QED  BY <1>1 DEF TypeOK, PlatformTypes, SiteTypes

\* THEOREM: every variable keeps its type, the history has exactly the versions
\* 1..config_version and the pipe never holds more than its buffer.
THEOREM TypeCorrect == Spec => []TypeOK
<1>1. Init => TypeOK  BY InitTypes
<1>2. TypeOK /\ [Next]_vars => TypeOK'  BY NextTypes
<1> QED  BY <1>1, <1>2, PTL DEF Spec

-----------------------------------------------------------------------------
(* What the row lock protects.  A request that has built its snapshot holds *)
(* the lock, so no version is committed before its own, and the registry it *)
(* read was at least as new as any version's.                               *)

LockOK ==
  /\ \A p \in Pushers : pusher[p].phase = "built" => rowLock = p
  /\ \A p \in Pushers : pusher[p].phase = "built" =>
       /\ pusher[p].snap.content <= registry
       /\ \A v \in DOMAIN history : history[v].content <= pusher[p].snap.content
  /\ \A v \in DOMAIN history : history[v].content <= registry

OrderInv == TypeOK /\ LockOK /\ VersionsFollowRegistry

LEMMA InitOrder == Init => OrderInv
<1> SUFFICES ASSUME Init PROVE OrderInv  OBVIOUS
<1>1. DOMAIN history = {} /\ \A p \in Pushers : pusher[p].phase = "idle"  BY DEF Init, Idle
<1> QED  BY <1>1, InitTypes DEF OrderInv, LockOK, VersionsFollowRegistry

\* Only the request's own steps, edits and acks touch what OrderInv is about.
LEMMA NextOrder == OrderInv /\ [Next]_vars => OrderInv'
<1> SUFFICES ASSUME OrderInv, [Next]_vars PROVE OrderInv'  OBVIOUS
<1> USE DEF pushVars, dbVars, wireVars, hubVars, mwVars
<1>0. /\ PlatformTypes /\ TypeOK /\ TypeOK'
      /\ LockOK /\ VersionsFollowRegistry
  BY NextTypes, Types DEF OrderInv
<1>h. ASSUME DOMAIN history' = DOMAIN history,
             \A v \in DOMAIN history : history'[v].content = history[v].content
      PROVE  VersionsFollowRegistry'
  BY <1>0, <1>h DEF VersionsFollowRegistry
<1>1. CASE EditRegistry
  <2>1. registry \in Nat /\ registry' = registry + 1  BY <1>0, <1>1 DEF PlatformTypes, EditRegistry
  <2>2. \A v \in DOMAIN history : history[v].content \in Nat  BY <1>0 DEF PlatformTypes
  <2>3. \A p \in Pushers : pusher[p].snap.content \in Nat  BY <1>0 DEF PlatformTypes, Snapshot
  <2>4. LockOK'  BY <1>0, <1>1, <2>1, <2>2, <2>3 DEF LockOK, EditRegistry
  <2> QED  BY <1>0, <1>1, <2>4, <1>h DEF OrderInv, EditRegistry
<1>2. ASSUME NEW p \in Pushers, LockAndBuild(p) PROVE OrderInv'
  <2>1. \A q \in Pushers : pusher[q].phase # "built"
    BY <1>0, <1>2, NameAssumption DEF LockOK, LockAndBuild
  <2>2. LockOK'
    BY <1>0, <1>2, <2>1
       DEF LockOK, LockAndBuild, BuildConfigSnapshot, PlatformTypes, Snapshot
  <2> QED  BY <1>0, <1>2, <2>2, <1>h DEF OrderInv, LockAndBuild
<1>3. ASSUME NEW p \in Pushers, CommitPush(p) PROVE OrderInv'
  <2> DEFINE n == client.version + 1
             x == pusher[p].snap.content
  <2>1. /\ n \in Nat /\ DOMAIN history = 1..client.version /\ client.version \in Nat
        /\ x \in Nat /\ \A v \in DOMAIN history : history[v].content \in Nat
    BY <1>0 DEF PlatformTypes, Snapshot
  <2>2. /\ DOMAIN history' = DOMAIN history \cup {n}
        /\ history'[n].content = x
        /\ \A v \in DOMAIN history : history'[v] = history[v]
    BY <1>3, <2>1 DEF CommitPush
  <2>3. \A v \in DOMAIN history : history[v].content <= x /\ v < n
    BY <1>0, <1>3, <2>1 DEF LockOK, CommitPush
  <2>4. \A q \in Pushers : pusher'[q].phase # "built"
    BY <1>0, <1>3 DEF LockOK, CommitPush, PlatformTypes
  <2>5. x <= registry /\ registry' = registry  BY <1>0, <1>3 DEF LockOK, CommitPush
  <2> HIDE DEF n, x
  <2>6. LockOK'  BY <1>0, <2>2, <2>4, <2>5 DEF LockOK
  <2>7. VersionsFollowRegistry'  BY <1>0, <2>1, <2>2, <2>3 DEF VersionsFollowRegistry
  <2> QED  BY <1>0, <2>6, <2>7 DEF OrderInv
<1>4. ASSUME NEW p \in Pushers, AbortPush(p) \/ SendPush(p) \/ MarkSentFails(p) PROVE OrderInv'
  <2>1. \A q \in Pushers : pusher'[q].phase = "built" =>
          pusher[q].phase = "built" /\ pusher'[q] = pusher[q] /\ q # p
    BY <1>0, <1>4 DEF AbortPush, SendPush, MarkSentFails, PlatformTypes, Idle
  <2>2. rowLock' = rowLock \/ (rowLock = p /\ rowLock' = NoPusher)
    BY <1>0, <1>4 DEF AbortPush, SendPush, MarkSentFails, LockOK
  <2>3. registry' = registry /\ history' = history
    BY <1>4 DEF AbortPush, SendPush, MarkSentFails
  <2>4. LockOK'  BY <1>0, <2>1, <2>2, <2>3 DEF LockOK
  <2> QED  BY <1>0, <2>3, <2>4, <1>h DEF OrderInv
<1>5. ASSUME NEW p \in Pushers, MarkSent(p) PROVE OrderInv'
  <2>1. /\ DOMAIN history' = DOMAIN history
        /\ \A w \in DOMAIN history : history'[w].content = history[w].content
    BY <1>0, <1>5, StatusSet DEF MarkSent
  <2>2. \A q \in Pushers : pusher'[q].phase = "built" =>
          pusher[q].phase = "built" /\ pusher'[q] = pusher[q]
    BY <1>0, <1>5 DEF MarkSent, PlatformTypes, Idle
  <2>3. LockOK'  BY <1>0, <1>5, <2>1, <2>2 DEF LockOK, MarkSent
  <2> QED  BY <1>0, <2>1, <2>3, <1>h DEF OrderInv
<1>6. ASSUME NEW c \in Conns, RecordAck(c) PROVE OrderInv'
  <2>1. up[c] \in Seq(Ack) /\ up[c] # <<>>  BY <1>0, <1>6 DEF RecordAck, PlatformTypes
  <2>2. Head(up[c]) \in Ack  BY <2>1, TailElements
  <2>3. /\ DOMAIN history' = DOMAIN history
        /\ \A w \in DOMAIN history : history'[w].content = history[w].content
    BY <1>0, <1>6, <2>2, StatusSet DEF RecordAck, Ack
  <2>4. LockOK'  BY <1>0, <1>6, <2>3 DEF LockOK, RecordAck
  <2> QED  BY <1>0, <2>3, <2>4, <1>h DEF OrderInv
<1>7. CASE PlatformCrashes
  <2>1. \A p \in Pushers : pusher'[p].phase # "built"  BY <1>7 DEF PlatformCrashes, Idle
  <2>2. registry' = registry /\ history' = history  BY <1>7 DEF PlatformCrashes
  <2>3. LockOK'  BY <1>0, <2>1, <2>2 DEF LockOK
  <2> QED  BY <1>0, <2>2, <2>3, <1>h DEF OrderInv
<1>8. ASSUME UNCHANGED <<registry, pushVars, dbVars>> PROVE OrderInv'
  <2>1. LockOK'  BY <1>0, <1>8 DEF LockOK
  <2> QED  BY <1>0, <1>8, <2>1, <1>h DEF OrderInv
<1>9. ASSUME NEW c \in Conns, Connect(c) \/ HandlerEnds(c) \/ RecordAckFails(c) PROVE OrderInv'
  BY <1>8, <1>9 DEF Connect, HandlerEnds, RecordAckFails
<1>10. CASE Disconnect \/ MiddlewareCrashes \/ SnapshotStep \/ RecordHistoryFails \/ SaveLocally
            \/ UNCHANGED vars
  BY <1>8, <1>10 DEF Disconnect, MiddlewareCrashes, SnapshotStep, RecordHistoryFails,
     SaveLocally, ApplySnapshot, RefuseSnapshot, RecordHistory, SendAck, vars
<1> QED
  BY <1>1, <1>2, <1>3, <1>4, <1>5, <1>6, <1>7, <1>9, <1>10 DEF Next, PushStep

\* THEOREM: for any number of admins pushing and editing at once, a later
\* version never holds an older registry.
THEOREM VersionsInOrder == Spec => []VersionsFollowRegistry
<1>1. Init => OrderInv  BY InitOrder
<1>2. OrderInv /\ [Next]_vars => OrderInv'  BY NextOrder
<1>3. OrderInv => VersionsFollowRegistry  BY DEF OrderInv
<1> QED  BY <1>1, <1>2, <1>3, PTL DEF Spec

-----------------------------------------------------------------------------
(* What a site runs.  Everything on its way to a site is a row of the       *)
(* history, and a row's content never changes once committed; what a push   *)
(* installed stays so until the site's own page writes over it.             *)

IsRow(s) == s.version \in DOMAIN history /\ s.content = history[s.version].content

SnapsOK ==
  /\ client.version > 0 => client.snapshot = history[client.version].content
  /\ \A p \in Pushers : pusher[p].phase \in {"committed", "sent"} => IsRow(pusher[p].snap)
  /\ \A i \in DOMAIN down : IsRow(down[i])
  /\ conf.version > 0 => conf.version \in DOMAIN history
                         /\ conf.content \in {history[conf.version].content, Local}

\* The history only grows.
HistoryKept == \A v \in DOMAIN history :
                 v \in DOMAIN history' /\ history'[v].content = history[v].content

LEMMA HistoryGrows == TypeOK /\ [Next]_vars => HistoryKept
<1> SUFFICES ASSUME TypeOK, [Next]_vars PROVE HistoryKept  OBVIOUS
<1> USE DEF pushVars, dbVars, wireVars, hubVars, mwVars
<1>0. PlatformTypes  BY Types
<1>1. ASSUME NEW p \in Pushers, CommitPush(p) PROVE HistoryKept
  <2>1. DOMAIN history = 1..client.version /\ client.version \in Nat  BY <1>0 DEF PlatformTypes
  <2> QED  BY <1>1, <2>1 DEF CommitPush, HistoryKept
<1>2. ASSUME NEW p \in Pushers, MarkSent(p) PROVE HistoryKept
  BY <1>2, StatusSet DEF MarkSent, HistoryKept
<1>3. ASSUME NEW c \in Conns, RecordAck(c) PROVE HistoryKept
  <2>1. up[c] \in Seq(Ack) /\ up[c] # <<>>  BY <1>0, <1>3 DEF RecordAck, PlatformTypes
  <2>2. Head(up[c]) \in Ack  BY <2>1, TailElements
  <2> QED  BY <1>3, <2>2, StatusSet DEF RecordAck, Ack, HistoryKept
<1>4. ASSUME UNCHANGED history PROVE HistoryKept  BY <1>4 DEF HistoryKept
<1>5. ASSUME NEW p \in Pushers,
             LockAndBuild(p) \/ AbortPush(p) \/ SendPush(p) \/ MarkSentFails(p)
      PROVE  HistoryKept
  BY <1>4, <1>5 DEF LockAndBuild, AbortPush, SendPush, MarkSentFails
<1>6. ASSUME NEW c \in Conns, Connect(c) \/ HandlerEnds(c) \/ RecordAckFails(c)
      PROVE  HistoryKept
  BY <1>4, <1>6 DEF Connect, HandlerEnds, RecordAckFails
<1>7. CASE EditRegistry \/ Disconnect \/ MiddlewareCrashes \/ PlatformCrashes
  BY <1>4, <1>7 DEF EditRegistry, Disconnect, MiddlewareCrashes, PlatformCrashes
<1>8. CASE SnapshotStep \/ RecordHistoryFails \/ SaveLocally \/ UNCHANGED vars
  BY <1>4, <1>8 DEF SnapshotStep, RecordHistoryFails, SaveLocally, ApplySnapshot, RefuseSnapshot,
     RecordHistory, SendAck, vars
<1> QED  BY <1>1, <1>2, <1>3, <1>5, <1>6, <1>7, <1>8 DEF Next, PushStep

\* So whatever was a row of the history still is.
LEMMA RowsKept == ASSUME HistoryKept, NEW s, IsRow(s)
                  PROVE  s.version \in DOMAIN history' /\ s.content = history'[s.version].content
BY DEF HistoryKept, IsRow

\* The pipe after a step holds snapshots it held before, or one being sent.
PipeKept == \A i \in DOMAIN down' :
              \/ \E j \in DOMAIN down : down'[i] = down[j]
              \/ \E p \in Pushers : pusher[p].phase = "committed" /\ down'[i] = pusher[p].snap

LEMMA PipeGrows == TypeOK /\ [Next]_vars => PipeKept
<1> SUFFICES ASSUME TypeOK, [Next]_vars PROVE PipeKept  OBVIOUS
<1> USE DEF pushVars, dbVars, wireVars, hubVars, mwVars
<1>0. PlatformTypes /\ SiteTypes /\ down \in Seq(Snapshot)  BY Types DEF SiteTypes
<1>1. ASSUME NEW p \in Pushers, SendPush(p) PROVE PipeKept
  <2>1. pusher[p].snap \in Snapshot  BY <1>0 DEF PlatformTypes
  <2>2. down' = down \/ down' = Append(down, pusher[p].snap)
    BY <1>1, <2>1, HubPushed DEF SendPush
  <2>3. CASE down' = down  BY <2>3 DEF PipeKept
  <2>4. CASE down' = Append(down, pusher[p].snap)
    <3>1. /\ DOMAIN down' = 1..(Len(down) + 1) /\ DOMAIN down = 1..Len(down) /\ Len(down) \in Nat
          /\ \A i \in DOMAIN down : down'[i] = down[i]
          /\ down'[Len(down) + 1] = pusher[p].snap
      BY <1>0, <2>1, <2>4, AppendElements
    <3> QED  BY <1>1, <3>1 DEF PipeKept, SendPush
  <2> QED  BY <2>2, <2>3, <2>4
<1>2. CASE ApplySnapshot \/ RefuseSnapshot
  <2>1. down' = Tail(down) /\ down # <<>>  BY <1>2 DEF ApplySnapshot, RefuseSnapshot
  <2> QED  BY <1>0, <2>1, TailElements DEF PipeKept
<1>3. CASE Disconnect \/ MiddlewareCrashes
  <2>1. DOMAIN down' = {}  BY <1>3 DEF Disconnect, MiddlewareCrashes
  <2> QED  BY <2>1 DEF PipeKept
<1>4. ASSUME UNCHANGED down PROVE PipeKept  BY <1>4 DEF PipeKept
<1>5. ASSUME NEW p \in Pushers,
             LockAndBuild(p) \/ CommitPush(p) \/ AbortPush(p) \/ MarkSent(p) \/ MarkSentFails(p)
      PROVE  PipeKept
  BY <1>4, <1>5 DEF LockAndBuild, CommitPush, AbortPush, MarkSent, MarkSentFails
<1>6. ASSUME NEW c \in Conns, Connect(c) \/ HandlerEnds(c) \/ RecordAck(c) \/ RecordAckFails(c)
      PROVE  PipeKept
  BY <1>4, <1>6 DEF Connect, HandlerEnds, RecordAck, RecordAckFails
<1>7. CASE EditRegistry \/ PlatformCrashes \/ RecordHistory \/ RecordHistoryFails \/ SendAck
           \/ SaveLocally \/ UNCHANGED vars
  BY <1>4, <1>7 DEF EditRegistry, PlatformCrashes, RecordHistory, RecordHistoryFails, SendAck,
     SaveLocally, vars
<1> QED  BY <1>1, <1>2, <1>3, <1>5, <1>6, <1>7 DEF Next, PushStep, SnapshotStep

\* A site's configuration changes only to the oldest snapshot in its pipe, or
\* its content through the site's own page.
LEMMA ConfSteps ==
  TypeOK /\ [Next]_vars =>
    \/ UNCHANGED conf
    \/ down # <<>> /\ conf' = Head(down) /\ down' = Tail(down)
       /\ UNCHANGED <<client, history, pusher>>
    \/ conf' = [conf EXCEPT !.content = Local] /\ UNCHANGED <<client, history, pusher, down>>
BY DEF Next, PushStep, SnapshotStep, SaveLocally, EditRegistry, LockAndBuild, CommitPush, AbortPush,
   SendPush, MarkSent, MarkSentFails, RecordAck, RecordAckFails, Connect, HandlerEnds,
   Disconnect, MiddlewareCrashes, PlatformCrashes, ApplySnapshot, RefuseSnapshot,
   RecordHistory, RecordHistoryFails, SendAck, vars, pushVars, dbVars, wireVars, hubVars, mwVars

\* A request past its commit is a row: it has just committed it, or was one.
CommittedKept == \A p \in Pushers : pusher'[p].phase \in {"committed", "sent"} =>
                   \/ pusher[p].phase \in {"committed", "sent"} /\ pusher'[p].snap = pusher[p].snap
                   \/ CommitPush(p)

LEMMA CommittedSteps == TypeOK /\ [Next]_vars => CommittedKept
<1> SUFFICES ASSUME TypeOK, [Next]_vars PROVE CommittedKept  OBVIOUS
<1> USE DEF pushVars, dbVars, wireVars, hubVars, mwVars
<1>0. PlatformTypes  BY Types
<1>1. ASSUME NEW p \in Pushers,
             LockAndBuild(p) \/ CommitPush(p) \/ AbortPush(p) \/ SendPush(p) \/ MarkSent(p)
             \/ MarkSentFails(p)
      PROVE  CommittedKept
  <2>1. \A q \in Pushers : q # p => pusher'[q] = pusher[q]
    BY <1>0, <1>1 DEF LockAndBuild, CommitPush, AbortPush, SendPush, MarkSent, MarkSentFails,
       PlatformTypes
  <2>2. CASE LockAndBuild(p)
    <3>1. pusher'[p].phase = "built"  BY <1>0, <2>2 DEF LockAndBuild, PlatformTypes
    <3> QED  BY <2>1, <3>1 DEF CommittedKept
  <2>3. CASE CommitPush(p)  BY <2>1, <2>3 DEF CommittedKept
  <2>4. CASE SendPush(p)
    <3>1. \/ pusher'[p].phase = "idle"
          \/ pusher[p].phase = "committed" /\ pusher'[p].snap = pusher[p].snap
      BY <1>0, <2>4 DEF SendPush, PlatformTypes, Idle
    <3> QED  BY <2>1, <3>1 DEF CommittedKept
  <2>5. CASE AbortPush(p) \/ MarkSent(p) \/ MarkSentFails(p)
    <3>1. pusher'[p].phase = "idle"
      BY <1>0, <2>5 DEF AbortPush, MarkSent, MarkSentFails, PlatformTypes, Idle
    <3> QED  BY <2>1, <3>1 DEF CommittedKept
  <2> QED  BY <1>1, <2>2, <2>3, <2>4, <2>5
<1>2. CASE PlatformCrashes  BY <1>2 DEF PlatformCrashes, Idle, CommittedKept
<1>3. ASSUME UNCHANGED pusher PROVE CommittedKept  BY <1>3 DEF CommittedKept
<1>4. ASSUME NEW c \in Conns, Connect(c) \/ HandlerEnds(c) \/ RecordAck(c) \/ RecordAckFails(c)
      PROVE  CommittedKept
  BY <1>3, <1>4 DEF Connect, HandlerEnds, RecordAck, RecordAckFails
<1>5. CASE EditRegistry \/ Disconnect \/ MiddlewareCrashes \/ SnapshotStep \/ RecordHistoryFails
           \/ SaveLocally \/ UNCHANGED vars
  BY <1>3, <1>5 DEF EditRegistry, Disconnect, MiddlewareCrashes, SnapshotStep,
     RecordHistoryFails, SaveLocally, ApplySnapshot, RefuseSnapshot, RecordHistory, SendAck, vars
<1> QED  BY <1>1, <1>2, <1>4, <1>5 DEF Next, PushStep

LEMMA NextSnaps == TypeOK /\ SnapsOK /\ [Next]_vars => SnapsOK'
<1> SUFFICES ASSUME TypeOK, SnapsOK, [Next]_vars PROVE SnapsOK'  OBVIOUS
<1>0. /\ PlatformTypes /\ SiteTypes /\ HistoryKept /\ PipeKept /\ CommittedKept
      /\ DOMAIN history = 1..client.version /\ client.version \in Nat
  BY Types, HistoryGrows, PipeGrows, CommittedSteps DEF PlatformTypes
<1>c. ASSUME NEW p \in Pushers, CommitPush(p)
      PROVE  /\ client'.version = client.version + 1
             /\ pusher'[p].snap.version = client'.version
             /\ client'.snapshot = history'[client'.version].content
             /\ pusher'[p].snap.content = history'[client'.version].content
             /\ client'.version \in DOMAIN history'
  BY <1>0, <1>c DEF CommitPush, PlatformTypes, Snapshot
<1>1. client'.version > 0 => client'.snapshot = history'[client'.version].content
  <2>1. CASE UNCHANGED <<client.version, client.snapshot>>
    BY <1>0, <2>1 DEF SnapsOK, HistoryKept
  <2>2. ASSUME NEW c \in Conns, RecordAck(c) PROVE UNCHANGED <<client.version, client.snapshot>>
    BY <1>0, <2>2 DEF RecordAck, PlatformTypes
  <2>3. (\E p \in Pushers : CommitPush(p)) \/ (\E c \in Conns : RecordAck(c)) \/ UNCHANGED client
    BY DEF Next, PushStep, SnapshotStep, SaveLocally, EditRegistry, LockAndBuild, AbortPush,
       SendPush, MarkSent, MarkSentFails, RecordAckFails, Connect, HandlerEnds,
       Disconnect, MiddlewareCrashes, PlatformCrashes, ApplySnapshot, RefuseSnapshot,
       RecordHistory, RecordHistoryFails, SendAck, vars, dbVars
  <2> QED  BY <1>c, <2>1, <2>2, <2>3
<1>2. \A p \in Pushers : pusher'[p].phase \in {"committed", "sent"} =>
        pusher'[p].snap.version \in DOMAIN history'
        /\ pusher'[p].snap.content = history'[pusher'[p].snap.version].content
  BY <1>0, <1>c, RowsKept DEF SnapsOK, CommittedKept
<1>3. \A i \in DOMAIN down' :
        down'[i].version \in DOMAIN history' /\ down'[i].content = history'[down'[i].version].content
  BY <1>0, RowsKept DEF SnapsOK, PipeKept
<1>4. conf'.version > 0 =>
        /\ conf'.version \in DOMAIN history'
        /\ conf'.content \in {history'[conf'.version].content, Local}
  <2>1. CASE UNCHANGED conf  BY <1>0, <2>1 DEF SnapsOK, HistoryKept
  <2>2. CASE down # <<>> /\ conf' = Head(down)
    <3>1. 1 \in DOMAIN down /\ conf' = down[1]
      BY <1>0, <2>2, TailElements DEF SiteTypes
    <3> QED  BY <1>0, <3>1, RowsKept DEF SnapsOK
  <2>3. CASE conf' = [conf EXCEPT !.content = Local]
    <3>1. conf'.version = conf.version /\ conf'.content = Local
      BY <1>0, <2>3 DEF SiteTypes, Snapshot
    <3> QED  BY <1>0, <3>1 DEF SnapsOK, HistoryKept
  <2> QED  BY <2>1, <2>2, <2>3, ConfSteps
<1> QED  BY <1>1, <1>2, <1>3, <1>4 DEF SnapsOK, IsRow

LEMMA InitSnaps == Init => SnapsOK
<1> SUFFICES ASSUME Init PROVE SnapsOK  OBVIOUS
<1>1. /\ DOMAIN down = {} /\ client.version = 0 /\ conf.version = 0
      /\ \A p \in Pushers : pusher[p].phase = "idle"
  BY DEF Init, Idle, NoSnapshot
<1> QED  BY <1>1 DEF SnapsOK

\* THEOREM: what a push installed is a version of the Platform's history, and its
\* content exactly, until the site's own page writes the tables.
THEOREM InstalledInHistory == Spec => []InstalledIsRecorded
<1>1. Init => TypeOK /\ SnapsOK  BY InitTypes, InitSnaps
<1>2. TypeOK /\ SnapsOK /\ [Next]_vars => (TypeOK /\ SnapsOK)'  BY NextTypes, NextSnaps
<1>3. SnapsOK => InstalledIsRecorded  BY DEF SnapsOK, IsRow, InstalledIsRecorded
<1> QED  BY <1>1, <1>2, <1>3, PTL DEF Spec

-----------------------------------------------------------------------------
(* Acks.  The site's history only grows, so an APPLIED row outlives its ack. *)

RecordedAfter(v) == \E i \in DOMAIN mwHistory' :
                      mwHistory'[i] = [version |-> v, status |-> "APPLIED"]

LEMMA RecordedKept == TypeOK /\ [Next]_vars => \A v : Recorded(v) => RecordedAfter(v)
<1> SUFFICES ASSUME TypeOK, [Next]_vars, NEW v, Recorded(v) PROVE RecordedAfter(v)  OBVIOUS
<1> USE DEF pushVars, dbVars, wireVars, hubVars, mwVars
<1>0. mwHistory \in Seq([version : Nat, status : Outcomes]) /\ SiteTypes
  BY Types DEF SiteTypes
<1>1. CASE RecordHistory
  <2> DEFINE row == [version |-> mw.snap.version, status |-> Status(mw.ok)]
  <2>1. row \in [version : Nat, status : Outcomes]
    BY <1>0 DEF SiteTypes, Snapshot, Status, Outcomes
  <2> HIDE DEF row
  <2>2. mwHistory' = Append(mwHistory, row)  BY <1>1 DEF RecordHistory, row
  <2>3. \A i \in DOMAIN mwHistory : i \in DOMAIN mwHistory' /\ mwHistory'[i] = mwHistory[i]
    BY <1>0, <2>1, <2>2, AppendElements
  <2> QED  BY <2>3 DEF Recorded, RecordedAfter
<1>2. RecordHistory \/ UNCHANGED mwHistory
  BY DEF Next, PushStep, SnapshotStep, EditRegistry, LockAndBuild, CommitPush, AbortPush,
     SendPush, MarkSent, MarkSentFails, RecordAck, RecordAckFails, Connect, HandlerEnds,
     Disconnect, MiddlewareCrashes, PlatformCrashes, ApplySnapshot, RefuseSnapshot,
     RecordHistoryFails, SendAck, SaveLocally, vars
<1> QED  BY <1>1, <1>2 DEF Recorded, RecordedAfter

\* An ack on the wire after a step was there before, or is the handler's own.
AcksKept ==
  \A c \in Conns : \A i \in DOMAIN up'[c] :
    \/ \E j \in DOMAIN up[c] : up'[c][i] = up[c][j]
    \/ SendAck /\ up'[c][i] = [version |-> 0, appliedVersion |-> mw.snap.version,
                               status |-> Status(mw.ok)]

LEMMA AckSteps == TypeOK /\ [Next]_vars => AcksKept
<1> SUFFICES ASSUME TypeOK, [Next]_vars PROVE AcksKept  OBVIOUS
<1> USE DEF pushVars, dbVars, wireVars, hubVars, mwVars
<1>0. PlatformTypes /\ SiteTypes  BY Types
<1>1. CASE SendAck
  <2> DEFINE ack == [version |-> 0, appliedVersion |-> mw.snap.version, status |-> Status(mw.ok)]
  <2>1. ack \in Ack  BY <1>0 DEF SiteTypes, Snapshot, Ack, Status, Outcomes
  <2>2. up' = IF dialled \in handlers THEN [up EXCEPT ![dialled] = Append(@, ack)] ELSE up
    BY <1>1 DEF SendAck
  <2>3. AcksKept <=> \A c \in Conns : \A i \in DOMAIN up'[c] :
                       (\E j \in DOMAIN up[c] : up'[c][i] = up[c][j]) \/ up'[c][i] = ack
    BY <1>1 DEF AcksKept
  <2> HIDE DEF ack
  <2>4. ASSUME NEW c \in Conns, NEW i \in DOMAIN up'[c]
        PROVE  (\E j \in DOMAIN up[c] : up'[c][i] = up[c][j]) \/ up'[c][i] = ack
    <3>1. up[c] \in Seq(Ack)  BY <1>0 DEF PlatformTypes
    <3>2. up'[c] = up[c] \/ up'[c] = Append(up[c], ack)  BY <1>0, <2>2 DEF PlatformTypes
    <3>3. CASE up'[c] = up[c]  BY <2>4, <3>3
    <3>4. CASE up'[c] = Append(up[c], ack)
      <4>1. /\ DOMAIN up'[c] = 1..(Len(up[c]) + 1) /\ DOMAIN up[c] = 1..Len(up[c])
            /\ \A j \in DOMAIN up[c] : up'[c][j] = up[c][j]
            /\ up'[c][Len(up[c]) + 1] = ack /\ Len(up[c]) \in Nat
        BY <2>1, <3>1, <3>4, AppendElements
      <4>2. i \in DOMAIN up[c] \/ i = Len(up[c]) + 1  BY <2>4, <4>1
      <4> QED  BY <4>1, <4>2
    <3> QED  BY <3>2, <3>3, <3>4
  <2> QED  BY <2>3, <2>4
<1>2. ASSUME NEW k \in Conns, RecordAck(k) \/ RecordAckFails(k) PROVE AcksKept
  <2>1. up[k] \in Seq(Ack) /\ up[k] # <<>> /\ up' = [up EXCEPT ![k] = Tail(@)]
    BY <1>0, <1>2 DEF RecordAck, RecordAckFails, PlatformTypes
  <2>2. \A i \in DOMAIN Tail(up[k]) : \E j \in DOMAIN up[k] : Tail(up[k])[i] = up[k][j]
    BY <2>1, TailElements
  <2>3. \A c \in Conns : up'[c] = IF c = k THEN Tail(up[k]) ELSE up[c]
    BY <1>0, <2>1 DEF PlatformTypes
  <2> QED  BY <2>2, <2>3 DEF AcksKept
<1>3. CASE PlatformCrashes
  <2>1. \A c \in Conns : DOMAIN up'[c] = {}  BY <1>3 DEF PlatformCrashes
  <2> QED  BY <2>1 DEF AcksKept
<1>4. ASSUME NEW k \in Conns, HandlerEnds(k) PROVE AcksKept
  <2>1. \A c \in Conns : up'[c] = IF c = k THEN <<>> ELSE up[c]
    BY <1>0, <1>4 DEF HandlerEnds, PlatformTypes
  <2>2. DOMAIN <<>> = {}  OBVIOUS
  <2> QED  BY <2>1, <2>2 DEF AcksKept
<1>5. ASSUME UNCHANGED up PROVE AcksKept  BY <1>5 DEF AcksKept
<1>6. ASSUME NEW p \in Pushers,
             LockAndBuild(p) \/ CommitPush(p) \/ AbortPush(p) \/ SendPush(p) \/ MarkSent(p)
             \/ MarkSentFails(p)
      PROVE  AcksKept
  BY <1>5, <1>6 DEF LockAndBuild, CommitPush, AbortPush, SendPush, MarkSent, MarkSentFails
<1>7. ASSUME NEW c \in Conns, Connect(c) PROVE AcksKept  BY <1>5, <1>7 DEF Connect
<1>8. CASE EditRegistry \/ Disconnect \/ MiddlewareCrashes \/ ApplySnapshot \/ RefuseSnapshot
           \/ RecordHistory \/ RecordHistoryFails \/ SaveLocally \/ UNCHANGED vars
  BY <1>5, <1>8 DEF EditRegistry, Disconnect, MiddlewareCrashes, ApplySnapshot,
     RefuseSnapshot, RecordHistory, RecordHistoryFails, SaveLocally, vars
<1> QED
  BY <1>1, <1>2, <1>3, <1>4, <1>6, <1>7, <1>8 DEF Next, PushStep, SnapshotStep

\* The handler answers "applied" only right after its row was inserted.
LEMMA AnsweringSteps ==
  TypeOK /\ [Next]_vars =>
    (mw'.phase = "answering" /\ mw'.ok =>
       \/ mw.phase = "answering" /\ mw.ok /\ mw'.snap = mw.snap
       \/ RecordHistory /\ mw.ok /\ mw'.snap = mw.snap)
<1> SUFFICES ASSUME TypeOK, [Next]_vars, mw'.phase = "answering", mw'.ok
             PROVE  \/ mw.phase = "answering" /\ mw.ok /\ mw'.snap = mw.snap
                    \/ RecordHistory /\ mw.ok /\ mw'.snap = mw.snap
  OBVIOUS
<1>0. SiteTypes  BY Types
<1>1. ~ (ApplySnapshot \/ RefuseSnapshot \/ MiddlewareCrashes \/ SendAck \/ RecordHistoryFails)
  <2>1. ~ ApplySnapshot /\ ~ RefuseSnapshot  BY DEF ApplySnapshot, RefuseSnapshot
  <2>2. ~ MiddlewareCrashes /\ ~ SendAck  BY DEF MiddlewareCrashes, SendAck, Reading
  <2>3. RecordHistoryFails => mw'.ok = FALSE  BY <1>0 DEF RecordHistoryFails, SiteTypes
  <2> QED  BY <2>1, <2>2, <2>3
<1>2. RecordHistory \/ UNCHANGED mw
  BY <1>1 DEF Next, PushStep, SnapshotStep, EditRegistry, LockAndBuild, CommitPush, AbortPush,
     SendPush, MarkSent, MarkSentFails, RecordAck, RecordAckFails, Connect, HandlerEnds,
     Disconnect, PlatformCrashes, SaveLocally, vars, mwVars
<1>3. CASE RecordHistory  BY <1>0, <1>3 DEF RecordHistory, SiteTypes
<1> QED  BY <1>2, <1>3

LEMMA NextAcks == TypeOK /\ AppliedAckIsRecorded /\ [Next]_vars => AppliedAckIsRecorded'
<1> SUFFICES ASSUME TypeOK, AppliedAckIsRecorded, [Next]_vars PROVE AppliedAckIsRecorded'
  OBVIOUS
<1>0. PlatformTypes /\ SiteTypes /\ AcksKept  BY Types, AckSteps
<1>1. ASSUME mw'.phase = "answering", mw'.ok PROVE RecordedAfter(mw'.snap.version)
  <2>1. CASE mw.phase = "answering" /\ mw.ok /\ mw'.snap = mw.snap
    BY <2>1, RecordedKept DEF AppliedAckIsRecorded
  <2>2. CASE RecordHistory /\ mw.ok /\ mw'.snap = mw.snap
    <3> DEFINE row == [version |-> mw.snap.version, status |-> "APPLIED"]
    <3>1. row \in [version : Nat, status : Outcomes]  BY <1>0 DEF SiteTypes, Snapshot, Outcomes
    <3>2. mwHistory' = Append(mwHistory, row)  BY <2>2 DEF RecordHistory, Status
    <3> HIDE DEF row
    <3>3. Len(mwHistory) + 1 \in DOMAIN mwHistory' /\ mwHistory'[Len(mwHistory) + 1] = row
      BY <1>0, <3>1, <3>2, AppendElements DEF SiteTypes
    <3> QED  BY <2>2, <3>3 DEF RecordedAfter, row
  <2> QED  BY <1>1, <2>1, <2>2, AnsweringSteps
<1>2. ASSUME NEW c \in Conns, NEW i \in DOMAIN up'[c], up'[c][i].status = "APPLIED"
      PROVE  RecordedAfter(up'[c][i].appliedVersion)
  <2>1. CASE \E j \in DOMAIN up[c] : up'[c][i] = up[c][j]
    BY <1>2, <2>1, RecordedKept DEF AppliedAckIsRecorded
  <2>2. CASE SendAck /\ up'[c][i] = [version |-> 0, appliedVersion |-> mw.snap.version,
                                     status |-> Status(mw.ok)]
    <3>1. mw.ok /\ mw.phase = "answering"
      BY <1>0, <1>2, <2>2 DEF SendAck, Status, SiteTypes
    <3>2. Recorded(mw.snap.version)  BY <3>1 DEF AppliedAckIsRecorded
    <3> QED  BY <2>2, <3>2, RecordedKept
  <2> QED  BY <1>0, <2>1, <2>2 DEF AcksKept
<1> QED  BY <1>1, <1>2 DEF AppliedAckIsRecorded, Recorded, RecordedAfter

\* THEOREM: an APPLIED ack, in the making or on the wire, has its APPLIED row.
THEOREM AckIsHonest == Spec => []AppliedAckIsRecorded
<1>1. Init => TypeOK /\ AppliedAckIsRecorded
  <2> SUFFICES ASSUME Init PROVE AppliedAckIsRecorded  BY InitTypes
  <2>1. mw.phase = "reading" /\ \A c \in Conns : DOMAIN up[c] = {}  BY DEF Init, Reading
  <2> QED  BY <2>1 DEF AppliedAckIsRecorded
<1>2. TypeOK /\ AppliedAckIsRecorded /\ [Next]_vars => (TypeOK /\ AppliedAckIsRecorded)'
  BY NextTypes, NextAcks
<1> QED  BY <1>1, <1>2, PTL DEF Spec

-----------------------------------------------------------------------------
(* One admin at a time: the pipe, and what is about to enter it, is newer   *)
(* than what the site runs and in order.                                    *)

OneAdmin == \A p, q \in Pushers : p = q

PipeOrdered ==
  /\ \A i, j \in DOMAIN down : i < j => down[i].version < down[j].version
  /\ \A i \in DOMAIN down : conf.version < down[i].version /\ down[i].version <= client.version
  /\ conf.version <= client.version
  /\ \A p \in Pushers : pusher[p].phase = "committed" =>
       /\ conf.version < pusher[p].snap.version
       /\ pusher[p].snap.version <= client.version
       /\ \A i \in DOMAIN down : down[i].version < pusher[p].snap.version

LEMMA NextOrdered ==
  ASSUME OneAdmin, TypeOK, PipeOrdered, [Next]_vars PROVE PipeOrdered'
<1> USE DEF pushVars, dbVars, wireVars, hubVars, mwVars
<1>0. /\ PlatformTypes /\ SiteTypes /\ down \in Seq(Snapshot)
      /\ client.version \in Nat /\ conf.version \in Nat
      /\ \A p \in Pushers : pusher[p].snap \in Snapshot /\ pusher[p].snap.version \in Nat
      /\ \A i \in DOMAIN down : down[i].version \in Nat
  <2>1. PlatformTypes /\ SiteTypes /\ down \in Seq(Snapshot)  BY Types DEF SiteTypes
  <2>2. \A i \in DOMAIN down : down[i] \in Snapshot  BY <2>1, LenProperties, ElementOfSeq
  <2> QED  BY <2>1, <2>2 DEF PlatformTypes, SiteTypes, Snapshot
<1>1. ASSUME NEW p \in Pushers, CommitPush(p) PROVE PipeOrdered'
  <2>1. /\ client'.version = client.version + 1 /\ UNCHANGED <<down, conf>>
        /\ pusher'[p].snap.version = client.version + 1
    BY <1>0, <1>1 DEF CommitPush, PlatformTypes, Snapshot
  <2>2. \A q \in Pushers : q = p  BY OneAdmin DEF OneAdmin
  <2>3. \A q \in Pushers : pusher'[q].snap.version = client.version + 1  BY <2>1, <2>2
  <2> QED  BY <1>0, <2>1, <2>3 DEF PipeOrdered
<1>2. ASSUME NEW p \in Pushers, SendPush(p) PROVE PipeOrdered'
  <2>1. UNCHANGED <<conf, client>> /\ \E d \in BOOLEAN : HubPush(pusher[p].snap, d)
    BY <1>2 DEF SendPush
  <2>2. \A q \in Pushers : pusher'[q].phase # "committed"
    BY <1>0, <1>2 DEF SendPush, PlatformTypes, Idle, OneAdmin
  <2>3. down' = down \/ down' = Append(down, pusher[p].snap)  BY <1>0, <2>1, HubPushed
  <2>4. CASE down' = down  BY <2>1, <2>2, <2>4 DEF PipeOrdered
  <2>5. CASE down' = Append(down, pusher[p].snap)
    <3>1. /\ DOMAIN down' = 1..(Len(down) + 1) /\ DOMAIN down = 1..Len(down) /\ Len(down) \in Nat
          /\ \A i \in DOMAIN down : down'[i] = down[i]
          /\ down'[Len(down) + 1] = pusher[p].snap
      BY <1>0, <2>5, AppendElements
    <3>2. /\ conf.version < pusher[p].snap.version /\ pusher[p].snap.version <= client.version
          /\ \A i \in DOMAIN down : down[i].version < pusher[p].snap.version
      BY <1>2 DEF PipeOrdered, SendPush
    <3>3. ASSUME NEW i \in DOMAIN down', NEW j \in DOMAIN down', i < j
          PROVE  down'[i].version < down'[j].version
      <4>1. i \in DOMAIN down /\ (j \in DOMAIN down \/ j = Len(down) + 1)  BY <3>1, <3>3
      <4> QED  BY <3>1, <3>2, <3>3, <4>1 DEF PipeOrdered
    <3>4. ASSUME NEW i \in DOMAIN down'
          PROVE  conf.version < down'[i].version /\ down'[i].version <= client.version
      <4>1. i \in DOMAIN down \/ i = Len(down) + 1  BY <3>1
      <4> QED  BY <3>1, <3>2, <4>1 DEF PipeOrdered
    <3> QED  BY <2>1, <2>2, <3>3, <3>4 DEF PipeOrdered
  <2> QED  BY <2>3, <2>4, <2>5
<1>3. CASE ApplySnapshot \/ RefuseSnapshot
  <2>1. /\ down # <<>> /\ down' = Tail(down) /\ conf' \in {conf, Head(down)}
        /\ UNCHANGED <<client, pusher>>
    BY <1>3 DEF ApplySnapshot, RefuseSnapshot
  <2>2. /\ DOMAIN down = 1..Len(down) /\ Len(down) \in Nat /\ 1 \in DOMAIN down
        /\ DOMAIN down' = 1..(Len(down) - 1) /\ Head(down) = down[1]
        /\ \A i \in DOMAIN down' : i + 1 \in DOMAIN down /\ down'[i] = down[i + 1]
    BY <1>0, <2>1, TailElements
  <2>3. \A i \in DOMAIN down' : down[1].version < down'[i].version
    BY <2>2 DEF PipeOrdered
  <2>4. conf'.version \in {conf.version, down[1].version}  BY <2>1, <2>2
  <2>5. \A i, j \in DOMAIN down' : i < j => down'[i].version < down'[j].version
    BY <2>2 DEF PipeOrdered
  <2>6. \A i \in DOMAIN down' : conf'.version < down'[i].version /\ down'[i].version <= client'.version
    BY <2>1, <2>2, <2>3, <2>4 DEF PipeOrdered
  <2>7. conf'.version <= client'.version  BY <2>1, <2>2, <2>4 DEF PipeOrdered
  <2>8. \A p \in Pushers : pusher'[p].phase = "committed" =>
          /\ conf'.version < pusher'[p].snap.version
          /\ pusher'[p].snap.version <= client'.version
          /\ \A i \in DOMAIN down' : down'[i].version < pusher'[p].snap.version
    BY <2>1, <2>2, <2>4 DEF PipeOrdered
  <2> QED  BY <2>5, <2>6, <2>7, <2>8 DEF PipeOrdered
<1>4. ASSUME conf'.version = conf.version, client'.version = client.version,
             down' = down \/ DOMAIN down' = {},
             \A p \in Pushers : pusher'[p].phase = "committed" => pusher'[p] = pusher[p]
      PROVE  PipeOrdered'
  BY <1>4 DEF PipeOrdered
<1>5. CASE Disconnect \/ MiddlewareCrashes
  <2>1. DOMAIN down' = {} /\ UNCHANGED <<conf, client, pusher>>
    BY <1>5 DEF Disconnect, MiddlewareCrashes
  <2> QED  BY <1>4, <2>1
<1>6. ASSUME NEW p \in Pushers,
             LockAndBuild(p) \/ AbortPush(p) \/ MarkSent(p) \/ MarkSentFails(p)
      PROVE  PipeOrdered'
  <2>1. \A q \in Pushers : pusher'[q].phase # "committed" \/ pusher'[q] = pusher[q]
    BY <1>0, <1>6 DEF LockAndBuild, AbortPush, MarkSent, MarkSentFails, PlatformTypes, Idle
  <2>2. UNCHANGED <<down, conf, client>>
    BY <1>6 DEF LockAndBuild, AbortPush, MarkSent, MarkSentFails
  <2> QED  BY <1>4, <2>1, <2>2
<1>7. CASE PlatformCrashes
  <2>1. \A q \in Pushers : pusher'[q].phase # "committed"  BY <1>7 DEF PlatformCrashes, Idle
  <2>2. UNCHANGED <<down, conf, client>>  BY <1>7 DEF PlatformCrashes
  <2> QED  BY <1>4, <2>1, <2>2
<1>8. ASSUME NEW c \in Conns, Connect(c) \/ HandlerEnds(c) \/ RecordAck(c) \/ RecordAckFails(c)
      PROVE  PipeOrdered'
  <2>1. UNCHANGED <<down, conf, pusher>> /\ client'.version = client.version
    BY <1>0, <1>8 DEF Connect, HandlerEnds, RecordAck, RecordAckFails, PlatformTypes
  <2> QED  BY <1>4, <2>1
<1>9. CASE EditRegistry \/ RecordHistory \/ RecordHistoryFails \/ SendAck \/ UNCHANGED vars
  <2>1. UNCHANGED <<down, conf, pusher, client>>
    BY <1>9 DEF EditRegistry, RecordHistory, RecordHistoryFails, SendAck, vars
  <2> QED  BY <1>4, <2>1
<1>10. CASE SaveLocally
  <2>1. UNCHANGED <<down, pusher, client>> /\ conf'.version = conf.version
    BY <1>0, <1>10 DEF SaveLocally, SiteTypes, Snapshot
  <2> QED  BY <1>4, <2>1
<1> QED
  BY <1>1, <1>2, <1>3, <1>5, <1>6, <1>7, <1>8, <1>9, <1>10 DEF Next, PushStep, SnapshotStep

\* THEOREM: with one admin at a time, an apply never takes a site back to an
\* older version, whatever connections and processes fail.
THEOREM OneAdminInOrder == ASSUME OneAdmin PROVE Spec => AppliedInOrder
<1>1. Init => TypeOK /\ PipeOrdered
  <2> SUFFICES ASSUME Init PROVE PipeOrdered  BY InitTypes
  <2>1. /\ DOMAIN down = {} /\ client.version = 0 /\ conf.version = 0
        /\ \A p \in Pushers : pusher[p].phase = "idle"
    BY DEF Init, Idle, NoSnapshot
  <2> QED  BY <2>1 DEF PipeOrdered
<1>2. TypeOK /\ PipeOrdered /\ [Next]_vars => (TypeOK /\ PipeOrdered)'
  BY OneAdmin, NextTypes, NextOrdered
<1>3. TypeOK /\ PipeOrdered /\ [Next]_vars
        => [conf' # conf /\ conf'.content # Local => conf'.version > conf.version]_conf
  <2> SUFFICES ASSUME TypeOK, PipeOrdered, [Next]_vars, conf' # conf, conf'.content # Local
               PROVE  conf'.version > conf.version
    OBVIOUS
  <2>1. down \in Seq(Snapshot) /\ conf.version \in Nat /\ conf \in Snapshot
    BY DEF TypeOK, Snapshot
  <2>2. down # <<>> /\ conf' = Head(down)  BY <2>1, ConfSteps DEF Snapshot
  <2>3. 1 \in DOMAIN down /\ conf' = down[1] /\ down[1] \in Snapshot  BY <2>1, <2>2, TailElements
  <2> QED  BY <2>1, <2>3 DEF PipeOrdered, Snapshot
<1> QED  BY <1>1, <1>2, <1>3, PTL DEF Spec, AppliedInOrder

-----------------------------------------------------------------------------
(* Push Config implements PublishedConfig: a commit publishes, an apply     *)
(* installs, the site's own page edits, and every other step changes        *)
(* nothing the specification sees.                                          *)

RefInv == OrderInv /\ SnapsOK /\ registry <= MaxEdits

LEMMA RegistryBounded == TypeOK /\ registry <= MaxEdits /\ [Next]_vars => registry' <= MaxEdits
<1> SUFFICES ASSUME TypeOK, registry <= MaxEdits, [Next]_vars PROVE registry' <= MaxEdits
  OBVIOUS
<1>1. CASE EditRegistry  BY <1>1, BoundAssumption DEF EditRegistry, TypeOK
<1>2. EditRegistry \/ UNCHANGED registry
  BY DEF Next, PushStep, SnapshotStep, LockAndBuild, CommitPush, AbortPush,
     SendPush, MarkSent, MarkSentFails, RecordAck, RecordAckFails, Connect, HandlerEnds,
     Disconnect, MiddlewareCrashes, PlatformCrashes, ApplySnapshot, RefuseSnapshot,
     RecordHistory, RecordHistoryFails, SendAck, SaveLocally, vars
<1> QED  BY <1>1, <1>2

LEMMA InitRefines == Init => Register!Init
<1> SUFFICES ASSUME Init PROVE Register!Init  OBVIOUS
<1>1. client.version = 0 /\ conf = [version |-> 0, content |-> 0] /\ DOMAIN history = {}
  BY DEF Init, NoSnapshot
<1>2. [v \in DOMAIN history |-> history[v].content] = [v \in {} |-> 0]  BY <1>1
<1> QED  BY <1>1, <1>2 DEF Register!Init

LEMMA NextRefines == RefInv /\ [Next]_vars => [Register!Next]_Register!vars
<1> SUFFICES ASSUME RefInv, [Next]_vars PROVE Register!Next \/ UNCHANGED Register!vars
  BY DEF Register!vars
<1> USE DEF pushVars, dbVars, wireVars, hubVars, mwVars
<1>0. PlatformTypes /\ SiteTypes /\ TypeOK /\ LockOK /\ SnapsOK /\ registry <= MaxEdits
  BY Types DEF RefInv, OrderInv
<1>d. DOMAIN history = 1..client.version /\ client.version \in Nat  BY <1>0 DEF PlatformTypes
<1> DEFINE shown  == [v \in DOMAIN history |-> history[v].content]
           shown1 == [v \in DOMAIN history' |-> history'[v].content]
<1>1. ASSUME NEW p \in Pushers, CommitPush(p) PROVE Register!Next
  <2> DEFINE x == pusher[p].snap.content
             n == client.version + 1
  <2>1. x \in 0..MaxEdits /\ \A v \in 1..client.version : shown[v] <= x
    BY <1>0, <1>1, <1>d, BoundAssumption DEF CommitPush, LockOK, PlatformTypes, Snapshot
  <2>2. client'.version = n  BY <1>0, <1>1 DEF CommitPush, PlatformTypes
  <2>3. /\ DOMAIN history' = 1..n /\ history'[n].content = x
        /\ \A v \in DOMAIN history : v # n /\ history'[v] = history[v]
    BY <1>1, <1>d DEF CommitPush
  <2>4. shown1 = [v \in 1..n |-> IF v = n THEN x ELSE shown[v]]
    BY <1>d, <2>3
  <2>5. conf' = conf  BY <1>1 DEF CommitPush
  <2> QED  BY <2>1, <2>2, <2>4, <2>5 DEF Register!Publish, Register!Next
<1>2. CASE ApplySnapshot
  <2>1. down \in Seq(Snapshot) /\ down # <<>>  BY <1>0, <1>2 DEF ApplySnapshot, SiteTypes
  <2>2. /\ 1 \in DOMAIN down /\ Head(down) = down[1] /\ down[1] \in Snapshot
    BY <2>1, TailElements
  <2>3. down[1].version \in DOMAIN history /\ down[1].content = history[down[1].version].content
    BY <1>0, <2>2 DEF SnapsOK, IsRow
  <2>4. conf' = [version |-> down[1].version, content |-> shown[down[1].version]]
    BY <1>2, <2>2, <2>3 DEF ApplySnapshot, Snapshot
  <2>5. UNCHANGED <<client, history>>  BY <1>2 DEF ApplySnapshot
  <2>6. Register!Install(down[1].version)  BY <2>4, <2>5 DEF Register!Install
  <2> QED  BY <1>d, <2>3, <2>6 DEF Register!Next
<1>3. ASSUME UNCHANGED conf, client'.version = client.version,
             DOMAIN history' = DOMAIN history,
             \A v \in DOMAIN history : history'[v].content = history[v].content
      PROVE  UNCHANGED Register!vars
  <2>1. shown1 = shown  BY <1>3
  <2> QED  BY <1>3, <2>1 DEF Register!vars
<1>4. ASSUME NEW p \in Pushers, MarkSent(p) PROVE UNCHANGED Register!vars
  <2>1. UNCHANGED <<conf, client>>  BY <1>4 DEF MarkSent
  <2> QED  BY <1>0, <1>3, <1>4, <2>1, StatusSet DEF MarkSent
<1>5. ASSUME NEW c \in Conns, RecordAck(c) PROVE UNCHANGED Register!vars
  <2>1. up[c] \in Seq(Ack) /\ up[c] # <<>>  BY <1>0, <1>5 DEF RecordAck, PlatformTypes
  <2>2. Head(up[c]) \in Ack  BY <2>1, TailElements
  <2>3. UNCHANGED conf /\ client'.version = client.version
    BY <1>0, <1>5 DEF RecordAck, PlatformTypes
  <2>4. SetStatus(Head(up[c]).version, Head(up[c]).status) /\ Head(up[c]).status \in Outcomes
    BY <1>5, <2>2 DEF RecordAck, Ack
  <2> QED  BY <1>0, <1>3, <2>3, <2>4, StatusSet
<1>6. ASSUME UNCHANGED <<conf, client, history>> PROVE UNCHANGED Register!vars
  BY <1>3, <1>6
<1>7. ASSUME NEW p \in Pushers,
             LockAndBuild(p) \/ AbortPush(p) \/ SendPush(p) \/ MarkSentFails(p)
      PROVE  UNCHANGED Register!vars
  BY <1>6, <1>7 DEF LockAndBuild, AbortPush, SendPush, MarkSentFails
<1>8. ASSUME NEW c \in Conns, Connect(c) \/ HandlerEnds(c) \/ RecordAckFails(c)
      PROVE  UNCHANGED Register!vars
  BY <1>6, <1>8 DEF Connect, HandlerEnds, RecordAckFails
<1>9. CASE EditRegistry \/ Disconnect \/ MiddlewareCrashes \/ PlatformCrashes
  BY <1>6, <1>9 DEF EditRegistry, Disconnect, MiddlewareCrashes, PlatformCrashes
<1>10. CASE RefuseSnapshot \/ RecordHistory \/ SendAck \/ RecordHistoryFails \/ UNCHANGED vars
  BY <1>6, <1>10 DEF RefuseSnapshot, RecordHistory, SendAck, RecordHistoryFails, vars
<1>11. CASE SaveLocally
  <2>1. UNCHANGED <<client, history>> /\ conf' = [conf EXCEPT !.content = Local]
    BY <1>11 DEF SaveLocally
  <2>2. Register!EditLocally  BY <2>1 DEF Register!EditLocally
  <2> QED  BY <2>2 DEF Register!Next
<1> QED
  BY <1>1, <1>2, <1>4, <1>5, <1>7, <1>8, <1>9, <1>10, <1>11 DEF Next, PushStep, SnapshotStep

\* THEOREM: Push Config publishes versions in registry order and a site installs
\* only published ones, with exactly their content.
THEOREM PushImplementsRegister == Spec => PublishedInOrder
<1>1. Init => RefInv
  <2> SUFFICES ASSUME Init PROVE RefInv  OBVIOUS
  <2>1. registry = 0  BY DEF Init
  <2> QED  BY <2>1, InitOrder, InitSnaps, BoundAssumption DEF RefInv
<1>2. RefInv /\ [Next]_vars => RefInv'
  BY NextOrder, NextSnaps, RegistryBounded DEF RefInv, OrderInv
<1>3. Init => Register!Init  BY InitRefines
<1>4. RefInv /\ [Next]_vars => [Register!Next]_Register!vars  BY NextRefines
<1> QED  BY <1>1, <1>2, <1>3, <1>4, PTL DEF Spec, PublishedInOrder, Register!Spec
=============================================================================
