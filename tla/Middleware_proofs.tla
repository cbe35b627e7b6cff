-------------------------- MODULE Middleware_proofs --------------------------
(***************************************************************************)
(* What holds of the two components every Middleware process runs side by  *)
(* side, whatever the sets and bounds are.  Of the configuration cache: a  *)
(* swap shows what its actor wrote, and who works alone leaves the cache   *)
(* as SQLite is.  Of the poll sweep: the types, the token of the           *)
(* maintenance gate, the baselines of the idle filter, the outcome of      *)
(* every connection, the blocks its registers are read in and what becomes *)
(* of each register.                                                       *)
(***************************************************************************)
EXTENDS ConfigCache, Poller, FiniteSetTheorems, SequenceTheorems, WellFoundedInduction,
        TLAPS

(* The configuration cache.                                                 *)

\* The phases in which a rebuild has already read a table.
Has(t, p) ==
  \/ t = "sets"    /\ p \in {"conns", "version", "swap"}
  \/ t = "conns"   /\ p \in {"version", "swap"}
  \/ t = "version" /\ p = "swap"

\* SQLite holds what each actor wrote or what replaced it ...
Kept == \A a \in Actors, t \in Tables : own[a][t] <= store[t].at

\* ... every commit so far is older than the next one ...
Counted == \A t \in Tables : store[t].at <= commits

\* ... and so does what a rebuild has read, since its actor wrote before it.
ReadSince ==
  \A a \in Actors, t \in Tables : Has(t, phase[a]) => own[a][t] <= read[a][t].at

IndInv == TypeOK /\ Kept /\ Counted /\ ReadSince

-----------------------------------------------------------------------------
LEMMA InitInv == Init => IndInv
BY DEF Init, IndInv, TypeOK, Config, Stamp, Phases, Settings, Empty, NothingOf, Kept,
       Counted, ReadSince, Has, Tables, Actors

\* A commit writes stamps newer than any other, and nothing of another actor's.
LEMMA WriteStep ==
  ASSUME IndInv, NEW a \in Actors, NEW T \in SUBSET Tables, NEW push \in [Tables -> Nat],
         Write(a, T, push)
  PROVE  /\ store' \in Config
         /\ own' \in [Actors -> [Tables -> Nat]]
         /\ commits' \in Nat /\ commits < commits'
         /\ Kept' /\ Counted'
         /\ \A b \in Actors \ {a} : own'[b] = own[b]
<1> USE DEF IndInv, TypeOK, Write, Commit
<1>1. commits \in Nat /\ commits' = commits + 1  OBVIOUS
<1> QED  BY <1>1 DEF Config, Stamp, Kept, Counted

\* A step that writes nothing and swaps nothing keeps the three bounds as long
\* as every rebuild has read no more tables than before.
LEMMA QuietStep ==
  ASSUME IndInv, UNCHANGED <<store, own, read, commits>>,
         \A a \in Actors, t \in Tables : Has(t, phase'[a]) => Has(t, phase[a])
  PROVE  Kept' /\ Counted' /\ ReadSince'
BY DEF IndInv, Kept, Counted, ReadSince

LEMMA NextInv == IndInv /\ [Next]_cacheVars => IndInv'
<1> SUFFICES ASSUME IndInv, [Next]_cacheVars PROVE IndInv'  OBVIOUS
<1> USE DEF Actors
<1>t. TypeOK  BY DEF IndInv
<1>1. ASSUME NEW e \in Editors, NEW t \in {"sets", "conns"}, SaveRows(e, t)  PROVE IndInv'
  <2>1. /\ e \in Actors /\ {t} \in SUBSET Tables
        /\ [u \in Tables |-> store[u].push] \in [Tables -> Nat]
        /\ Write(e, {t}, [u \in Tables |-> store[u].push])
    BY <1>1, <1>t DEF TypeOK, Config, Stamp, Tables, SaveRows
  <2>2. ReadSince'
    BY <1>1, <2>1, WriteStep DEF IndInv, ReadSince, Has, SaveRows, TypeOK
  <2>3. TypeOK'
    BY <1>1, <1>t, <2>1, WriteStep DEF SaveRows, TypeOK, gatewayVars, Phases
  <2> QED  BY <2>1, <2>2, <2>3, WriteStep DEF IndInv
<1>2. ASSUME NEW e \in Editors, SavesDone(e) \/ SavesFail(e)  PROVE IndInv'
  BY <1>2, <1>t, QuietStep DEF SavesDone, SavesFail, Goes, Failure, IndInv, TypeOK, Phases,
     Has, configVars, gatewayVars
<1>3. ASSUME NEW e \in Editors, NEW i \in 0..commits, SaveGatewayForm(e, i)  PROVE IndInv'
  <2>1. commits \in Nat /\ commits' = commits + 1  BY <1>3, <1>t DEF TypeOK, SaveGatewayForm, Commit
  <2>2. TypeOK'
    BY <1>3, <1>t, <2>1 DEF SaveGatewayForm, TypeOK, Settings, configVars, actorVars
  <2>3. Kept' /\ Counted' /\ ReadSince'
    BY <1>3, <1>t, <2>1 DEF IndInv, Kept, Counted, ReadSince, SaveGatewayForm, TypeOK, Config,
       Stamp, configVars, actorVars
  <2> QED  BY <2>2, <2>3 DEF IndInv
<1>4. CASE ApplySnapshot
  <2>1. /\ Pusher \in Actors /\ {"sets", "conns"} \in SUBSET Tables
        /\ [t \in Tables |-> pushes'] \in [Tables -> Nat]
        /\ Write(Pusher, {"sets", "conns"}, [t \in Tables |-> pushes'])
    BY <1>4, <1>t DEF TypeOK, Tables, ApplySnapshot
  <2>2. ReadSince'
    BY <1>4, <2>1, WriteStep DEF IndInv, ReadSince, Has, ApplySnapshot, Goes, TypeOK
  <2>3. TypeOK'
    BY <1>4, <1>t, <2>1, WriteStep DEF ApplySnapshot, Goes, TypeOK, gatewayVars, Phases
  <2> QED  BY <2>1, <2>2, <2>3, WriteStep DEF IndInv
<1>5. CASE RecordHistory
  <2>1. /\ Pusher \in Actors /\ {"version"} \in SUBSET Tables
        /\ [t \in Tables |-> pushes] \in [Tables -> Nat]
        /\ Write(Pusher, {"version"}, [t \in Tables |-> pushes])
    BY <1>5, <1>t DEF TypeOK, Tables, RecordHistory
  <2>2. ReadSince'
    BY <1>5, <2>1, WriteStep DEF IndInv, ReadSince, Has, RecordHistory, Goes, TypeOK
  <2>3. TypeOK'
    BY <1>5, <1>t, <2>1, WriteStep DEF RecordHistory, Goes, TypeOK, gatewayVars, Phases
  <2> QED  BY <2>1, <2>2, <2>3, WriteStep DEF IndInv
<1>6. CASE RecordHistoryFails
  BY <1>6, <1>t, QuietStep DEF RecordHistoryFails, Goes, Failure, IndInv, TypeOK, Phases, Has,
     configVars, gatewayVars
<1>7. CASE ReadGateway \/ KeepGateway
  BY <1>7, <1>t, QuietStep DEF ReadGateway, KeepGateway, Goes, IndInv, TypeOK, Phases, Has,
     configVars, gatewayVars
<1>8. CASE SaveGateway
  <2>1. commits \in Nat /\ commits' = commits + 1  BY <1>8, <1>t DEF TypeOK, SaveGateway, Commit
  <2>2. TypeOK'
    BY <1>8, <1>t, <2>1 DEF SaveGateway, Goes, TypeOK, Settings, Phases, configVars
  <2>3. Kept' /\ Counted' /\ ReadSince'
    BY <1>8, <1>t, <2>1 DEF IndInv, Kept, Counted, ReadSince, Has, SaveGateway, Goes, TypeOK,
       Config, Stamp, configVars
  <2> QED  BY <2>2, <2>3 DEF IndInv
<1>9. ASSUME NEW a \in Actors, NEW t \in Tables, ReadTable(a, t)  PROVE IndInv'
  <2>1. TypeOK'
    BY <1>9, <1>t DEF ReadTable, Goes, After, TypeOK, Config, Tables, Phases, configVars, gatewayVars
  <2>2. Kept' /\ Counted'
    BY <1>9 DEF IndInv, Kept, Counted, ReadTable, configVars
  <2>3. ReadSince'
    BY <1>9, <1>t DEF IndInv, ReadSince, Kept, Has, ReadTable, Goes, After, TypeOK, Config, Tables,
       configVars
  <2> QED  BY <2>1, <2>2, <2>3 DEF IndInv
<1>10. ASSUME NEW a \in Actors, Swap(a)  PROVE IndInv'
  BY <1>10, <1>t, QuietStep DEF Swap, Goes, Refreshed, IndInv, TypeOK, Phases, Has, gatewayVars
<1>11. ASSUME NEW a \in Actors, RebuildFails(a)  PROVE IndInv'
  BY <1>11, <1>t, QuietStep DEF RebuildFails, Refreshed, Failure, IndInv, TypeOK, Phases, Has,
     configVars, gatewayVars
<1>12. CASE ProcessRestarts
  BY <1>12, <1>t, QuietStep DEF ProcessRestarts, IndInv, TypeOK, Phases, Has, gatewayVars
<1>13. CASE UNCHANGED cacheVars
  BY <1>13, <1>t, QuietStep DEF cacheVars, configVars, actorVars, gatewayVars, IndInv, TypeOK
<1> QED
  BY <1>1, <1>2, <1>3, <1>4, <1>5, <1>6, <1>7, <1>8, <1>9, <1>10, <1>11, <1>12, <1>13 DEF Next

LEMMA CacheInvariance == Spec => []IndInv
BY InitInv, NextInv, PTL DEF Spec

\* The variables keep their types.
THEOREM CacheTypeCorrect == Spec => []TypeOK
BY CacheInvariance, PTL DEF IndInv

\* However requests, pushes and restarts interleave, a swap shows what the
\* actor that makes it has written.
THEOREM SwapShowsOwnWrites == Spec => OwnWritesVisible
<1>1. IndInv /\ [Next]_cacheVars =>
        [\A a \in Actors : Swap(a) => \A t \in Tables : cache'[t].at >= own[a][t]]_cacheVars
  BY DEF IndInv, ReadSince, Swap, Goes, Has, Tables, TypeOK, Config, Stamp
<1> QED  BY <1>1, CacheInvariance, PTL DEF Spec, OwnWritesVisible

-----------------------------------------------------------------------------
(* One request or push at a time.                                           *)

Settled == {"idle", "settings", "saving"}

\* What a rebuild has read is what SQLite holds, and nobody who is past his
\* rebuild, or writes nothing that is rebuilt, leaves the cache behind.
SerialInv ==
  /\ \A a \in Actors, t \in Tables : Has(t, phase[a]) => read[a][t] = store[t]
  /\ (\A a \in Actors : phase[a] \in Settled) => cache = store

LEMMA SerialStep ==
  ASSUME TypeOK, OneAtATime, OneAtATime', SerialInv, [Next]_cacheVars
  PROVE  SerialInv'
<1> USE DEF Actors
<1>1. failures = 0 /\ failures' = 0 /\ Pusher \in Actors  BY DEF OneAtATime
<1>2. \A a, b \in Actors : phase[a] # "idle" /\ phase[b] # "idle" => a = b  BY DEF OneAtATime
<1>3. \A a, b \in Actors : phase'[a] # "idle" /\ phase'[b] # "idle" => a = b  BY DEF OneAtATime
<1>4. phase \in [Actors -> Phases] /\ cache \in Config /\ store \in Config /\ read \in [Actors -> Config]
  BY DEF TypeOK
\* An actor that writes is alone, and before its rebuild.
<1>5. ASSUME NEW a \in Actors, phase'[a] \in {"writing", "sets"},
             \A b \in Actors \ {a} : phase'[b] = phase[b]
      PROVE  SerialInv'
  <2>1. \A b \in Actors \ {a} : phase'[b] = "idle"  BY <1>3, <1>5
  <2> QED  BY <1>5, <2>1 DEF SerialInv, Has, Settled
<1>6. ASSUME NEW e \in Editors, NEW t \in {"sets", "conns"}, SaveRows(e, t)  PROVE SerialInv'
  BY <1>4, <1>5, <1>6 DEF SaveRows
<1>7. ASSUME NEW e \in Editors, SavesDone(e)  PROVE SerialInv'
  BY <1>4, <1>5, <1>7 DEF SavesDone, Goes
<1>8. ASSUME NEW e \in Editors, NEW i, SaveGatewayForm(e, i)  PROVE SerialInv'
  BY <1>8 DEF SaveGatewayForm, configVars, actorVars, SerialInv
<1>9. CASE ApplySnapshot  BY <1>1, <1>4, <1>5, <1>9 DEF ApplySnapshot, Goes
<1>10. CASE RecordHistory  BY <1>1, <1>4, <1>5, <1>10 DEF RecordHistory, Goes
<1>11. CASE ReadGateway \/ SaveGateway \/ KeepGateway
  <2>1. /\ UNCHANGED <<store, cache, read>>
        /\ phase[Pusher] \in Settled /\ phase'[Pusher] \in Settled
        /\ \A a \in Actors \ {Pusher} : phase'[a] = phase[a]
    BY <1>1, <1>4, <1>11 DEF ReadGateway, SaveGateway, KeepGateway, Goes, configVars, Settled
  <2>2. \A a \in Actors, t \in Tables : Has(t, phase'[a]) => Has(t, phase[a])
    BY <2>1 DEF Has, Settled
  <2>3. (\A a \in Actors : phase'[a] \in Settled) => \A a \in Actors : phase[a] \in Settled
    BY <2>1
  <2> QED  BY <2>1, <2>2, <2>3 DEF SerialInv
<1>12. ASSUME NEW a \in Actors, NEW t \in Tables, ReadTable(a, t)  PROVE SerialInv'
  <2>1. /\ phase[a] = t /\ phase' = [phase EXCEPT ![a] = After[t]]
        /\ read' = [read EXCEPT ![a][t] = store[t]] /\ UNCHANGED <<store, cache>>
    BY <1>12 DEF ReadTable, Goes, configVars
  <2>2. phase'[a] = After[t] /\ \A b \in Actors \ {a} : phase'[b] = phase[b] /\ read'[b] = read[b]
    BY <1>4, <2>1
  <2>3. After[t] \notin Settled  BY DEF After, Tables, Settled
  <2>4. ASSUME NEW u \in Tables, Has(u, phase'[a])  PROVE read'[a][u] = store[u]
    <3>1. CASE u = t  BY <1>4, <2>1, <3>1 DEF Config
    <3>2. CASE u # t
      <4>1. Has(u, phase[a])  BY <2>1, <2>2, <2>4, <3>2 DEF Has, After, Tables
      <4> QED  BY <1>4, <2>1, <3>2, <4>1 DEF SerialInv, Config
    <3> QED  BY <3>1, <3>2
  <2> QED  BY <2>1, <2>2, <2>3, <2>4 DEF SerialInv
<1>13. ASSUME NEW a \in Actors, Swap(a)  PROVE SerialInv'
  <2>1. /\ phase[a] = "swap" /\ phase' = [phase EXCEPT ![a] = Refreshed(a)]
        /\ cache' = read[a] /\ UNCHANGED <<store, read>>
    BY <1>13 DEF Swap, Goes
  <2>2. \A t \in Tables : read[a][t] = store[t]  BY <2>1 DEF SerialInv, Has, Tables
  <2>3. cache' = store'  BY <1>4, <2>1, <2>2 DEF Config
  <2>4. \A b \in Actors, t \in Tables : Has(t, phase'[b]) => Has(t, phase[b])
    BY <1>4, <2>1 DEF Has, Refreshed
  <2> QED  BY <2>1, <2>3, <2>4 DEF SerialInv
<1>14. CASE ProcessRestarts  BY <1>14 DEF ProcessRestarts, SerialInv, Has
<1>15. /\ \A e \in Editors : ~SavesFail(e)
       /\ \A a \in Actors : ~RebuildFails(a)
       /\ ~RecordHistoryFails
  BY <1>1 DEF SavesFail, RebuildFails, RecordHistoryFails, Failure
<1>16. CASE UNCHANGED cacheVars
  BY <1>16 DEF cacheVars, configVars, actorVars, SerialInv
<1> QED
  BY <1>6, <1>7, <1>8, <1>9, <1>10, <1>11, <1>12, <1>13, <1>14, <1>15, <1>16 DEF Next

\* As long as requests and pushes come one at a time and none fails half-way,
\* every answered request, every push and every restart leaves the poller with
\* what SQLite holds.
THEOREM OneRequestAtATime == Spec => SerialMeansFresh
<1>1. Init => SerialInv
  BY DEF Init, SerialInv, Has
<1>2. TypeOK /\ OneAtATime /\ OneAtATime' /\ SerialInv /\ [Next]_cacheVars => SerialInv'
  BY SerialStep
<1>3. SerialInv => QuietMeansFresh  BY DEF SerialInv, QuietMeansFresh, Settled
<1> QED  BY <1>1, <1>2, <1>3, CacheTypeCorrect, PTL DEF Spec, SerialMeansFresh

-----------------------------------------------------------------------------
(* The poll sweep.                                                          *)

InHandOK ==
  sweep.at \in {"filter", "store"} => sweep.connection \in Connections /\ sweep.reading \in Reading

\* What is being stored is the baseline of its device already.
StoringIsBaseline ==
  sweep.at = "store" => baseline[sweep.connection] = Taken(sweep.reading)

\* A connection is still to be polled or an outcome is logged for it.
PolledOrTodo ==
  sweep.at # "idle" => \A c \in Connections : c \in sweep.todo \/ log[c] # None

Inductive ==
  PollerTypeOK /\ InHandOK /\ GateHasHolder /\ StoringIsBaseline /\ BaselineIsStored /\ PolledOrTodo

\* What a poll that ends does to the sweep and its log (Logged).
LEMMA LoggedOK ==
  ASSUME PollerTypeOK, NEW c \in Connections, NEW status \in {"error", "queued", "unchanged"},
         Logged(c, status), PolledOrTodo, sweep.at # "idle"
  PROVE  /\ sweep' \in [at : {"next"}, todo : SUBSET Connections, connection : {None}, reading : {None}]
         /\ sweep'.at = "next" /\ sweep'.todo = sweep.todo \ {c}
         /\ log' \in [Connections -> {None, "error", "queued", "unchanged"}]
         /\ \A d \in Connections : log'[d] = IF d = c THEN status ELSE log[d]
         /\ PolledOrTodo'
<1>1. /\ sweep' \in [at : {"next"}, todo : SUBSET Connections, connection : {None}, reading : {None}]
      /\ sweep'.at = "next" /\ sweep'.todo = sweep.todo \ {c}
  BY DEF Logged, Nothing, PollerTypeOK
<1>2. log' \in [Connections -> {None, "error", "queued", "unchanged"}]
  BY DEF Logged, PollerTypeOK
<1>3. \A d \in Connections : log'[d] = IF d = c THEN status ELSE log[d]
  BY DEF Logged, PollerTypeOK
<1>4. status # None
  BY PollerAssumption
<1>5. PolledOrTodo'
  BY <1>1, <1>3, <1>4 DEF PolledOrTodo
<1> QED
  BY <1>1, <1>2, <1>3, <1>5

\* Where the token is after EndPoll, when a sweep had it (EndPoll).
LEMMA EndPollOK ==
  ASSUME PollerTypeOK, GateHasHolder, sweep.at # "idle", EndPoll, sweep'.at = "idle"
  PROVE  gate' \in 0..1 /\ stage' \in {"idle", "waiting", "holding"} /\ GateHasHolder'
<1>1. gate = 0 /\ stage # "holding"
  BY DEF PollerTypeOK, GateHasHolder
<1>2. CASE stage = "waiting"
  BY <1>1, <1>2 DEF EndPoll, GateHasHolder, PollerTypeOK
<1>3. CASE stage # "waiting"
  BY <1>1, <1>3 DEF EndPoll, GateHasHolder, PollerTypeOK
<1> QED
  BY <1>2, <1>3

\* Nothing in hand, and how it is when a sweep begins (Nothing).
LEMMA NothingOK ==
  /\ Nothing \in [at : {"idle"}, todo : SUBSET Connections, connection : {None}, reading : {None}]
  /\ Nothing.at = "idle"
  BY DEF Nothing

\* PollerInit establishes the invariant (NewService).
LEMMA InitOK == PollerInit => Inductive
<1> SUFFICES ASSUME PollerInit PROVE Inductive
  OBVIOUS
<1>1. sweep.at = "idle" /\ sweep \in [at : {"idle"}, todo : SUBSET Connections, connection : {None}, reading : {None}]
  BY NothingOK DEF PollerInit
<1>2. PollerTypeOK
  BY <1>1 DEF PollerInit, PollerTypeOK
<1>3. GateHasHolder
  BY <1>1 DEF PollerInit, GateHasHolder
<1>4. InHandOK /\ StoringIsBaseline /\ PolledOrTodo
  BY <1>1 DEF InHandOK, StoringIsBaseline, PolledOrTodo
<1>5. BaselineIsStored
  BY DEF PollerInit, BaselineIsStored
<1> QED
  BY <1>2, <1>3, <1>4, <1>5 DEF Inductive

\* Readings and rows are typed by what a poll may yield, which stays (PollerInit).
LEMMA SameTypes == ASSUME UNCHANGED yields PROVE Reading' = Reading /\ Row' = Row
  BY DEF Reading, Row

-----------------------------------------------------------------------------
\* A sweep begins (TryBeginPoll).
LEMMA TryBeginPollKeeps == Inductive /\ TryBeginPoll => Inductive'
<1> SUFFICES ASSUME Inductive, TryBeginPoll PROVE Inductive'
  OBVIOUS
<1>1. /\ sweep' \in [at : {"next"}, todo : SUBSET Connections, connection : {None}, reading : {None}]
      /\ sweep'.at = "next" /\ sweep'.todo = Connections
  BY DEF TryBeginPoll, Nothing
<1>2. PollerTypeOK'
  BY <1>1, SameTypes, PollerAssumption DEF Inductive, TryBeginPoll, PollerTypeOK, outbox
<1>3. GateHasHolder'
  BY <1>1 DEF Inductive, TryBeginPoll, GateHasHolder, PollerTypeOK
<1>4. InHandOK' /\ StoringIsBaseline' /\ PolledOrTodo'
  BY <1>1 DEF InHandOK, StoringIsBaseline, PolledOrTodo
<1>5. BaselineIsStored'
  BY DEF Inductive, TryBeginPoll, BaselineIsStored, outbox, InHand, GateHasHolder, PollerTypeOK
<1> QED
  BY <1>2, <1>3, <1>4, <1>5 DEF Inductive

\* The configuration cannot be read and the sweep ends (SweepFails).
LEMMA SweepFailsKeeps == Inductive /\ SweepFails => Inductive'
<1> SUFFICES ASSUME Inductive, SweepFails PROVE Inductive'
  OBVIOUS
<1>1. /\ sweep' \in [at : {"idle"}, todo : SUBSET Connections, connection : {None}, reading : {None}]
      /\ sweep'.at = "idle"
  BY NothingOK DEF SweepFails
<1>2. gate' \in 0..1 /\ stage' \in {"idle", "waiting", "holding"} /\ GateHasHolder'
  BY <1>1, EndPollOK DEF Inductive, SweepFails, TokenBack
<1>3. PollerTypeOK'
  BY <1>1, <1>2, SameTypes DEF Inductive, SweepFails, PollerTypeOK, outbox
<1>4. InHandOK' /\ StoringIsBaseline' /\ PolledOrTodo'
  BY <1>1 DEF InHandOK, StoringIsBaseline, PolledOrTodo
<1>5. BaselineIsStored'
  BY DEF Inductive, SweepFails, BaselineIsStored, outbox, InHand
<1> QED
  BY <1>2, <1>3, <1>4, <1>5 DEF Inductive

\* The last connection has been polled (SweepEnds).
LEMMA SweepEndsKeeps == Inductive /\ SweepEnds => Inductive'
<1> SUFFICES ASSUME Inductive, SweepEnds PROVE Inductive'
  OBVIOUS
<1>1. /\ sweep' \in [at : {"idle"}, todo : SUBSET Connections, connection : {None}, reading : {None}]
      /\ sweep'.at = "idle"
  BY NothingOK DEF SweepEnds
<1>2. gate' \in 0..1 /\ stage' \in {"idle", "waiting", "holding"} /\ GateHasHolder'
  BY <1>1, EndPollOK DEF Inductive, SweepEnds
<1>3. PollerTypeOK'
  BY <1>1, <1>2, SameTypes DEF Inductive, SweepEnds, PollerTypeOK, outbox
<1>4. InHandOK' /\ StoringIsBaseline' /\ PolledOrTodo'
  BY <1>1 DEF InHandOK, StoringIsBaseline, PolledOrTodo
<1>5. BaselineIsStored'
  BY DEF Inductive, SweepEnds, BaselineIsStored, outbox, InHand
<1> QED
  BY <1>2, <1>3, <1>4, <1>5 DEF Inductive

\* A poll yields nothing (PollConnectionFails).
LEMMA PollConnectionFailsKeeps ==
  ASSUME Inductive, NEW c \in Connections, PollConnectionFails(c) PROVE Inductive'
<1>1. Logged(c, "error") /\ sweep.at = "next"
  BY DEF PollConnectionFails, PollError
<1>2. /\ sweep' \in [at : {"next"}, todo : SUBSET Connections, connection : {None}, reading : {None}]
      /\ sweep'.at = "next" /\ PolledOrTodo'
      /\ log' \in [Connections -> {None, "error", "queued", "unchanged"}]
  BY <1>1, LoggedOK DEF Inductive
<1>3. PollerTypeOK'
  BY <1>2, SameTypes DEF Inductive, PollConnectionFails, PollerTypeOK, outbox
<1>4. GateHasHolder'
  BY <1>1, <1>2 DEF Inductive, PollConnectionFails, GateHasHolder
<1>5. InHandOK' /\ StoringIsBaseline'
  BY <1>2 DEF InHandOK, StoringIsBaseline
<1>6. BaselineIsStored'
  BY <1>1 DEF Inductive, PollConnectionFails, BaselineIsStored, outbox, InHand
<1> QED
  BY <1>2, <1>3, <1>4, <1>5, <1>6 DEF Inductive

\* A poll yields a reading (PollConnection).
LEMMA PollConnectionKeeps ==
  ASSUME Inductive, NEW c \in Connections, PollConnection(c) PROVE Inductive'
<1>0. sweep.at = "next" /\ UNCHANGED <<gate, stage, log, baseline, heartbeat, last, taken, yields>>
  BY DEF PollConnection, outbox
<1>1. PICK content \in Contents, outcome \in yields :
        sweep' = [sweep EXCEPT !.at = "filter", !.connection = c,
            !.reading = [addresses |-> outcome.addresses, content |-> content,
                         at |-> clock, failures |-> outcome.failures]]
  BY DEF PollConnection
<1> DEFINE r == [addresses |-> outcome.addresses, content |-> content,
                 at |-> clock, failures |-> outcome.failures]
<1>2. r \in Reading
  BY DEF Inductive, PollerTypeOK, Reading
<1> HIDE DEF r
<1>3. sweep' = [sweep EXCEPT !.at = "filter", !.connection = c, !.reading = r]
  BY <1>1 DEF r
<1>4. /\ sweep' \in [at : {"filter"}, todo : SUBSET Connections, connection : Connections, reading : Reading]
      /\ sweep'.at = "filter" /\ sweep'.todo = sweep.todo
  BY <1>2, <1>3 DEF Inductive, PollerTypeOK
<1>5. PollerTypeOK'
  <2>1. clock' \in Nat
    BY DEF Inductive, PollConnection, PollerTypeOK
  <2> QED
    BY <2>1, <1>0, <1>4, SameTypes DEF Inductive, PollerTypeOK
<1>6. GateHasHolder'
  BY <1>0, <1>4 DEF Inductive, GateHasHolder
<1>7. InHandOK' /\ StoringIsBaseline' /\ PolledOrTodo'
  BY <1>0, <1>4, SameTypes DEF Inductive, InHandOK, StoringIsBaseline, PolledOrTodo
<1>8. BaselineIsStored'
  BY <1>0 DEF Inductive, BaselineIsStored, InHand
<1> QED
  BY <1>5, <1>6, <1>7, <1>8 DEF Inductive

\* A reading is left out (SkipUnchanged).
LEMMA SkipUnchangedKeeps == Inductive /\ SkipUnchanged => Inductive'
<1> SUFFICES ASSUME Inductive, SkipUnchanged PROVE Inductive'
  OBVIOUS
<1>1. Logged(sweep.connection, "unchanged") /\ sweep.at = "filter" /\ sweep.connection \in Connections
  BY DEF SkipUnchanged, InHand, Inductive, InHandOK
<1>2. /\ sweep' \in [at : {"next"}, todo : SUBSET Connections, connection : {None}, reading : {None}]
      /\ sweep'.at = "next" /\ PolledOrTodo'
      /\ log' \in [Connections -> {None, "error", "queued", "unchanged"}]
  BY <1>1, LoggedOK DEF Inductive
<1>3. PollerTypeOK'
  BY <1>2, SameTypes DEF Inductive, SkipUnchanged, PollerTypeOK, outbox
<1>4. GateHasHolder'
  BY <1>1, <1>2 DEF Inductive, SkipUnchanged, GateHasHolder
<1>5. InHandOK' /\ StoringIsBaseline'
  BY <1>2 DEF InHandOK, StoringIsBaseline
<1>6. BaselineIsStored'
  BY <1>1 DEF Inductive, SkipUnchanged, BaselineIsStored, outbox, InHand
<1> QED
  BY <1>2, <1>3, <1>4, <1>5, <1>6 DEF Inductive

\* A reading becomes the baseline (SetBaseline).
LEMMA SetBaselineKeeps == Inductive /\ SetBaseline => Inductive'
<1> SUFFICES ASSUME Inductive, SetBaseline PROVE Inductive'
  OBVIOUS
<1>1. sweep.at = "filter" /\ sweep.connection \in Connections /\ sweep.reading \in Reading
  BY DEF SetBaseline, Inductive, InHandOK
<1>2. Taken(sweep.reading) \in Row
  BY <1>1 DEF Taken, Row, Reading
<1>3. /\ sweep' \in [at : {"store"}, todo : SUBSET Connections, connection : Connections, reading : Reading]
      /\ sweep'.at = "store" /\ sweep'.todo = sweep.todo
      /\ sweep'.connection = sweep.connection /\ sweep'.reading = sweep.reading
  BY <1>1 DEF SetBaseline, Inductive, PollerTypeOK
<1>4. PollerTypeOK'
  BY <1>2, <1>3, SameTypes DEF Inductive, SetBaseline, PollerTypeOK, outbox, InHand
<1>5. GateHasHolder'
  BY <1>1, <1>3 DEF Inductive, SetBaseline, GateHasHolder
<1>6. InHandOK' /\ PolledOrTodo'
  BY <1>1, <1>3, SameTypes DEF Inductive, SetBaseline, InHandOK, PolledOrTodo
<1>7. StoringIsBaseline'
  BY <1>1, <1>3 DEF Inductive, SetBaseline, StoringIsBaseline, PollerTypeOK, InHand, Taken
<1>8. BaselineIsStored'
  BY <1>1, <1>3 DEF Inductive, SetBaseline, BaselineIsStored, PollerTypeOK, outbox, InHand
<1> QED
  BY <1>4, <1>5, <1>6, <1>7, <1>8 DEF Inductive

\* A reading is a new row of the outbox (StoreCreates).
LEMMA StoreCreatesKeeps == Inductive /\ StoreCreates => Inductive'
<1> SUFFICES ASSUME Inductive, StoreCreates PROVE Inductive'
  OBVIOUS
<1>1. /\ Logged(sweep.connection, "queued") /\ sweep.at = "store"
      /\ sweep.connection \in Connections /\ sweep.reading \in Reading
  BY DEF StoreCreates, InHand, Inductive, InHandOK
<1>2. /\ sweep' \in [at : {"next"}, todo : SUBSET Connections, connection : {None}, reading : {None}]
      /\ sweep'.at = "next" /\ PolledOrTodo'
      /\ log' \in [Connections -> {None, "error", "queued", "unchanged"}]
  BY <1>1, LoggedOK DEF Inductive
<1>3. Taken(sweep.reading) \in Row /\ sweep.reading.at \in Nat
  BY <1>1 DEF Taken, Row, Reading
<1>4. last' \in [Connections -> Row \cup {None}] /\ last' = [last EXCEPT ![sweep.connection] = Taken(sweep.reading)]
  BY <1>1, <1>3 DEF Inductive, StoreCreates, PollerTypeOK, InHand
<1>5. taken' \subseteq Connections \X Nat
  BY <1>1, <1>3 DEF Inductive, StoreCreates, PollerTypeOK, InHand, Key
<1>6. PollerTypeOK'
  BY <1>2, <1>4, <1>5, SameTypes DEF Inductive, StoreCreates, PollerTypeOK
<1>7. GateHasHolder'
  BY <1>1, <1>2 DEF Inductive, StoreCreates, GateHasHolder
<1>8. InHandOK' /\ StoringIsBaseline'
  BY <1>2 DEF InHandOK, StoringIsBaseline
<1>9. BaselineIsStored'
  BY <1>1, <1>4 DEF Inductive, StoreCreates, BaselineIsStored, StoringIsBaseline, PollerTypeOK, InHand
<1> QED
  BY <1>2, <1>6, <1>7, <1>8, <1>9 DEF Inductive

\* A reading is not stored (StoreRejects).
LEMMA StoreRejectsKeeps ==
  ASSUME Inductive, NEW status \in {"unchanged", "error"}, StoreRejects(status) PROVE Inductive'
<1>1. /\ Logged(sweep.connection, status) /\ sweep.at = "store" /\ sweep.connection \in Connections
  BY DEF StoreRejects, InHand, Inductive, InHandOK
<1>2. /\ sweep' \in [at : {"next"}, todo : SUBSET Connections, connection : {None}, reading : {None}]
      /\ sweep'.at = "next" /\ PolledOrTodo'
      /\ log' \in [Connections -> {None, "error", "queued", "unchanged"}]
  BY <1>1, LoggedOK DEF Inductive
<1>3. baseline' = [baseline EXCEPT ![sweep.connection] = None] /\ baseline' \in [Connections -> Row \cup {None}]
  BY <1>1 DEF Inductive, StoreRejects, ForgetEnqueued, PollerTypeOK, InHand
<1>4. PollerTypeOK'
  BY <1>2, <1>3, SameTypes DEF Inductive, StoreRejects, PollerTypeOK, outbox
<1>5. GateHasHolder'
  BY <1>1, <1>2 DEF Inductive, StoreRejects, GateHasHolder
<1>6. InHandOK' /\ StoringIsBaseline'
  BY <1>2 DEF InHandOK, StoringIsBaseline
<1>7. BaselineIsStored'
  BY <1>1, <1>3 DEF Inductive, StoreRejects, BaselineIsStored, PollerTypeOK, outbox, InHand
<1> QED
  BY <1>2, <1>4, <1>5, <1>6, <1>7 DEF Inductive

\* A stage waits, takes the gate, gives up or releases (stageUpdate).
LEMMA MaintenanceKeeps ==
  Inductive /\ (BeginMaintenance \/ MaintenanceExpires \/ Release) => Inductive'
<1> SUFFICES ASSUME Inductive, BeginMaintenance \/ MaintenanceExpires \/ Release PROVE Inductive'
  OBVIOUS
<1>1. UNCHANGED <<sweep, log, baseline, heartbeat, last, taken, yields, clock>>
  BY DEF BeginMaintenance, MaintenanceExpires, Release, memory, outbox
<1>2. gate' \in 0..1 /\ stage' \in {"idle", "waiting", "holding"} /\ GateHasHolder'
  BY <1>1 DEF Inductive, BeginMaintenance, MaintenanceExpires, Release, GateHasHolder, PollerTypeOK
<1>3. PollerTypeOK'
  BY <1>1, <1>2, SameTypes DEF Inductive, PollerTypeOK
<1>4. InHandOK' /\ StoringIsBaseline' /\ PolledOrTodo' /\ BaselineIsStored'
  BY <1>1, SameTypes DEF Inductive, InHandOK, StoringIsBaseline, PolledOrTodo, BaselineIsStored, InHand, Taken
<1> QED
  BY <1>2, <1>3, <1>4 DEF Inductive

\* The system clock is set back (time.Now).
LEMMA ClockStepsBackKeeps == Inductive /\ ClockStepsBack => Inductive'
<1> SUFFICES ASSUME Inductive, ClockStepsBack PROVE Inductive'
  OBVIOUS
<1>1. UNCHANGED <<sweep, log, baseline, heartbeat, last, taken, yields, gate, stage>>
  BY DEF ClockStepsBack, memory, outbox
<1>2. clock' \in Nat
  BY DEF Inductive, ClockStepsBack, PollerTypeOK
<1>3. PollerTypeOK'
  BY <1>1, <1>2, SameTypes DEF Inductive, PollerTypeOK
<1>4. InHandOK' /\ StoringIsBaseline' /\ PolledOrTodo' /\ BaselineIsStored' /\ GateHasHolder'
  BY <1>1, SameTypes
  DEF Inductive, InHandOK, StoringIsBaseline, PolledOrTodo, BaselineIsStored, GateHasHolder, InHand, Taken
<1> QED
  BY <1>3, <1>4 DEF Inductive

\* The process starts again (main, NewService).
LEMMA RestartKeeps == Inductive /\ Restart => Inductive'
<1> SUFFICES ASSUME Inductive, Restart PROVE Inductive'
  OBVIOUS
<1>1. /\ sweep' \in [at : {"idle"}, todo : SUBSET Connections, connection : {None}, reading : {None}]
      /\ sweep'.at = "idle"
  BY NothingOK DEF Restart
<1>2. PollerTypeOK'
  BY <1>1, SameTypes DEF Inductive, Restart, PollerTypeOK, outbox
<1>3. GateHasHolder'
  BY <1>1 DEF Restart, GateHasHolder
<1>4. InHandOK' /\ StoringIsBaseline' /\ PolledOrTodo'
  BY <1>1 DEF InHandOK, StoringIsBaseline, PolledOrTodo
<1>5. BaselineIsStored'
  BY DEF Restart, BaselineIsStored
<1> QED
  BY <1>2, <1>3, <1>4, <1>5 DEF Inductive

\* A step of another part of the Middleware changes nothing here.
LEMMA StutterKeeps == Inductive /\ UNCHANGED vars => Inductive'
<1> SUFFICES ASSUME Inductive, UNCHANGED vars PROVE Inductive'
  OBVIOUS
<1>1. UNCHANGED <<sweep, log, baseline, heartbeat, last, taken, yields, gate, stage, clock>>
  BY DEF vars, memory, outbox
<1>2. PollerTypeOK'
  BY <1>1, SameTypes DEF Inductive, PollerTypeOK
<1>3. InHandOK' /\ StoringIsBaseline' /\ PolledOrTodo' /\ BaselineIsStored' /\ GateHasHolder'
  BY <1>1, SameTypes
  DEF Inductive, InHandOK, StoringIsBaseline, PolledOrTodo, BaselineIsStored, GateHasHolder, InHand, Taken
<1> QED
  BY <1>2, <1>3 DEF Inductive

\* Every step of the poller keeps the invariant (PollerNext).
LEMMA NextKeeps == Inductive /\ [PollerNext]_vars => Inductive'
<1> SUFFICES ASSUME Inductive, [PollerNext]_vars PROVE Inductive'
  OBVIOUS
<1>1. CASE SweepStep
  BY <1>1, SweepFailsKeeps, SweepEndsKeeps, PollConnectionKeeps, PollConnectionFailsKeeps,
     SkipUnchangedKeeps, SetBaselineKeeps, StoreCreatesKeeps, StoreRejectsKeeps
  DEF SweepStep
<1> QED
  BY <1>1, TryBeginPollKeeps, MaintenanceKeeps, ClockStepsBackKeeps, RestartKeeps, StutterKeeps
  DEF PollerNext

\* The invariant holds in every state (PollEnabledConnections, Enqueue).
LEMMA PollerInvariance == PollerSpec => []Inductive
  BY InitOK, NextKeeps, PTL DEF PollerSpec

-----------------------------------------------------------------------------
\* The variables keep their types (Service, Poller, maintenance gate).
THEOREM PollerTypeCorrect == PollerSpec => []PollerTypeOK
<1>1. Inductive => PollerTypeOK
  BY DEF Inductive
<1> QED
  BY <1>1, PollerInvariance, PTL

\* The gate's token is in the channel, with a sweep or with a stage
\* (BeginMaintenance, endPoll, Release).
THEOREM OneHolder == PollerSpec => []GateHasHolder
<1>1. Inductive => GateHasHolder
  BY DEF Inductive
<1> QED
  BY <1>1, PollerInvariance, PTL

\* The baseline of a device is the row stored last for it (skipUnchanged,
\* Enqueue).
THEOREM BaselinesAreRows == PollerSpec => []BaselineIsStored
<1>1. Inductive => BaselineIsStored
  BY DEF Inductive
<1> QED
  BY <1>1, PollerInvariance, PTL

\* A sweep that ends has an outcome for every connection
\* (PollEnabledConnections).
THEOREM NoneLeftOut == PollerSpec => EveryConnectionPolled
<1>1. Inductive /\ [PollerNext]_vars =>
        [SweepEnds => \A c \in Connections : log[c] # None]_vars
  BY DEF Inductive, PolledOrTodo, SweepEnds
<1> QED
  BY <1>1, PollerInvariance, PTL DEF PollerSpec, EveryConnectionPolled

\* Only skipUnchanged, or a key the clock has given twice, makes an outcome
\* "unchanged" (skipUnchanged, Enqueue).
LEMMA WhoSkips ==
  ASSUME Inductive, [PollerNext]_vars, NEW c \in Connections,
         log'[c] = "unchanged", log[c] = None, Key \notin taken
  PROVE  SkipUnchanged /\ c = sweep.connection
<1>1. log' # log /\ None # "unchanged"
  BY PollerAssumption
<1> PollerTypeOK /\ PolledOrTodo
  BY DEF Inductive
<1>2. PollerNext
  BY <1>1 DEF vars
<1>3. CASE SweepFails \/ SweepEnds \/ Restart \/ TryBeginPoll \/ BeginMaintenance \/ MaintenanceExpires
           \/ Release \/ ClockStepsBack \/ SetBaseline
  BY <1>1, <1>3
  DEF SweepFails, SweepEnds, Restart, TryBeginPoll, BeginMaintenance, MaintenanceExpires, Release,
      ClockStepsBack, SetBaseline
<1>4. ASSUME NEW d \in Connections, PollConnection(d) \/ PollConnectionFails(d) PROVE FALSE
  <2>1. CASE PollConnection(d)
    BY <1>1, <2>1 DEF PollConnection
  <2>2. CASE PollConnectionFails(d)
    <3>1. Logged(d, "error") /\ sweep.at # "idle"
      BY <2>2 DEF PollConnectionFails, PollError
    <3>2. log'[c] = IF c = d THEN "error" ELSE log[c]
      BY <3>1, LoggedOK
    <3> QED
      BY <1>1, <3>2
  <2> QED
    BY <1>4, <2>1, <2>2
<1>5. CASE StoreCreates
  <2>1. Logged(sweep.connection, "queued") /\ sweep.at # "idle" /\ sweep.connection \in Connections
    BY <1>5 DEF StoreCreates, InHand, Inductive, InHandOK
  <2>2. log'[c] = IF c = sweep.connection THEN "queued" ELSE log[c]
    BY <2>1, LoggedOK
  <2> QED
    BY <1>1, <2>2
<1>6. ASSUME NEW status \in {"unchanged", "error"}, StoreRejects(status) PROVE FALSE
  <2>1. Logged(sweep.connection, status) /\ sweep.at # "idle" /\ sweep.connection \in Connections
    BY <1>6 DEF StoreRejects, InHand, Inductive, InHandOK
  <2>2. log'[c] = IF c = sweep.connection THEN status ELSE log[c]
    BY <2>1, LoggedOK
  <2>3. status # "unchanged"
    BY <1>6 DEF StoreRejects
  <2> QED
    BY <1>1, <2>2, <2>3
<1>7. CASE SkipUnchanged
  <2>1. Logged(sweep.connection, "unchanged") /\ sweep.at # "idle" /\ sweep.connection \in Connections
    BY <1>7 DEF SkipUnchanged, InHand, Inductive, InHandOK
  <2>2. log'[c] = IF c = sweep.connection THEN "unchanged" ELSE log[c]
    BY <2>1, LoggedOK
  <2> QED
    BY <1>1, <1>7, <2>2
<1> QED
  BY <1>2, <1>3, <1>4, <1>5, <1>6, <1>7 DEF PollerNext, SweepStep

\* What is left out as unchanged repeats the row stored last, and that row is
\* younger than the heartbeat (skipUnchanged).
THEOREM SkippedIsStored == PollerSpec => SkippedIsSpokenFor
<1>1. ASSUME Inductive, [PollerNext]_vars, NEW c \in Connections,
             log'[c] = "unchanged", log[c] = None, Key \notin taken
      PROVE  /\ last[c] # None /\ SameValues(last[c], sweep.reading)
             /\ sweep.reading.at - last[c].at \in 0..(Due - 1)
  <2>1. SkipUnchanged /\ c = sweep.connection
    BY <1>1, WhoSkips
  <2>2. sweep.at = "filter" /\ Repeats(c, sweep.reading) /\ sweep.reading \in Reading
    BY <2>1, <1>1 DEF SkipUnchanged, InHand, Inductive, InHandOK
  <2>3. last[c] = baseline[c] /\ baseline[c] # None
    BY <2>2, <1>1 DEF Inductive, BaselineIsStored, Repeats
  <2>4. baseline[c].at \in Nat /\ sweep.reading.at \in Nat
    BY <2>2, <2>3, <1>1 DEF Inductive, PollerTypeOK, Row, Reading
  <2>5. Due \in Nat
    BY <1>1, PollerAssumption DEF Due, Inductive, PollerTypeOK
  <2> QED
    BY <2>2, <2>3, <2>4, <2>5 DEF Repeats
<1>2. Inductive /\ [PollerNext]_vars =>
        [\A c \in Connections : log'[c] = "unchanged" /\ log[c] = None /\ Key \notin taken =>
           /\ last[c] # None /\ SameValues(last[c], sweep.reading)
           /\ sweep.reading.at - last[c].at \in 0..(Due - 1)]_vars
  BY <1>1
<1> QED
  BY <1>2, PollerInvariance, PTL DEF PollerSpec, SkippedIsSpokenFor

-----------------------------------------------------------------------------
(* The blocks of a device set.                                              *)

\* Induction over the naturals, from the least element of a set.
Less == {p \in Nat \X Nat : p[1] < p[2]}

LEMMA Counting ==
  ASSUME NEW T, 0 \in T, \A n \in Nat : n \in T => n + 1 \in T
  PROVE  Nat \subseteq T
<1> SUFFICES ASSUME Nat \ T # {} PROVE FALSE  OBVIOUS
<1>1. PICK x \in Nat \ T : \A y \in Nat \ T : x <= y
  <2>1. IsWellFoundedOn(Less, Nat)  BY NatLessThanWellFounded DEF Less, OpToRel
  <2>2. PICK x \in Nat \ T : \A y \in Nat \ T : ~(<<y, x>> \in Less)  BY <2>1, WFMin
  <2>3. ASSUME NEW y \in Nat \ T PROVE x <= y
    <3>1. <<y, x>> \notin Less /\ x \in Nat /\ y \in Nat  BY <2>2
    <3> QED  BY <3>1 DEF Less
  <2> QED  BY <2>3
<1>2. x - 1 \in Nat /\ x - 1 \in T  BY <1>1
<1> QED  BY <1>1, <1>2

\* The recursion of Stages is well defined (BuildBlocks' loop).
IsStages(f, p, order) ==
  f = [n \in 0..Len(order) |-> IF n = 0 THEN <<>> ELSE Added(f[n - 1], order[n], Limit(p))]

LEMMA StagesExist ==
  ASSUME NEW p, NEW order, Len(order) \in Nat PROVE \E f : IsStages(f, p, order)
<1> DEFINE Upto(f, m) == f = [n \in 0..m |-> IF n = 0 THEN <<>> ELSE Added(f[n - 1], order[n], Limit(p))]
           T == {m \in Nat : \E f : Upto(f, m)}
<1>1. 0 \in T
  <2>1. Upto([n \in 0..0 |-> <<>>], 0)  OBVIOUS
  <2> QED  BY <2>1
<1>2. ASSUME NEW m \in Nat, m \in T PROVE m + 1 \in T
  <2>1. PICK f : Upto(f, m)  BY <1>2
  <2> DEFINE g == [n \in 0..(m + 1) |->
                     IF n = 0 THEN <<>> ELSE Added(f[n - 1], order[n], Limit(p))]
  <2>2. ASSUME NEW n \in 0..(m + 1), n # 0 PROVE g[n - 1] = f[n - 1]
    <3>1. n - 1 \in 0..m /\ n - 1 \in 0..(m + 1)  BY <2>2
    <3>2. f[n - 1] = IF n - 1 = 0 THEN <<>> ELSE Added(f[n - 1 - 1], order[n - 1], Limit(p))
      BY <2>1, <3>1
    <3> QED  BY <3>1, <3>2
  <2>3. Upto(g, m + 1)  BY <2>2
  <2> HIDE DEF Upto, g
  <2> QED  BY <2>3
<1> HIDE DEF T
<1>3. Len(order) \in T  BY <1>1, <1>2, Counting
<1> QED  BY <1>3 DEF T, IsStages

LEMMA StagesAre ==
  ASSUME NEW p, NEW order, Len(order) \in Nat
  PROVE  /\ Stages(p, order)[0] = <<>>
         /\ \A n \in 1..Len(order) :
              Stages(p, order)[n] = Added(Stages(p, order)[n - 1], order[n], Limit(p))
<1> DEFINE built == CHOOSE f : IsStages(f, p, order)
<1>1. IsStages(built, p, order)
  <2>1. \E f : IsStages(f, p, order)  BY StagesExist
  <2> QED  BY <2>1
<1>2. Stages(p, order) = built  BY DEF Stages, IsStages
<1> HIDE DEF built
<1>3. /\ built[0] = <<>>
      /\ \A n \in 1..Len(order) : built[n] = Added(built[n - 1], order[n], Limit(p))
  BY <1>1 DEF IsStages
<1> QED  BY <1>2, <1>3

\* An order of the sort lists the entries, every one of them (sort.Slice).
LEMMA OrdersList ==
  ASSUME NEW p, IsFiniteSet(p.registers), NEW order \in Orders(p)
  PROVE  /\ Len(order) \in Nat /\ DOMAIN order = 1..Len(order)
         /\ Entries(p) = {order[i] : i \in 1..Len(order)}
         /\ \A i, j \in 1..Len(order) : i < j => Before(order[i], order[j]) /\ order[i] # order[j]
<1> DEFINE on == {r \in p.registers : r.enabled}
           S == Entries(p)
           N == Cardinality(S)
           f == [d \in on |-> EntryOf(p, d)]
<1>1. IsFiniteSet(S)
  <2>1. IsFiniteSet(on)
    <3>1. on \in SUBSET p.registers  OBVIOUS
    <3> HIDE DEF on
    <3> QED  BY <3>1, FS_Subset
  <2>2. f \in Surjection(on, S)
    BY DEF Surjection, Entries
  <2> HIDE DEF on, S, f
  <2> QED  BY <2>1, <2>2, FS_Surjection
<1>2. N \in Nat  BY <1>1, FS_CardinalityType
<1>3. /\ order \in [1..N -> S] /\ \A i, j \in 1..N : i # j => order[i] # order[j]
      /\ \A i, j \in DOMAIN order : i < j => Before(order[i], order[j])
  BY DEF Orders, SetToSeqs
<1>4. order \in Injection(1..N, S)
  BY <1>3 DEF Injection, IsInjective
<1>5. order \in Surjection(1..N, S)
  <2>1. IsFiniteSet(1..N) /\ Cardinality(1..N) = N
    BY <1>2, FS_Interval
  <2> HIDE DEF N, S
  <2> QED  BY <1>1, <1>4, <2>1, FS_Injection DEF N
<1>6. Len(order) = N /\ DOMAIN order = 1..N
  <2> HIDE DEF N, S
  <2> QED  BY <1>2, <1>3
<1>7. S = {order[i] : i \in 1..N}
  <2> HIDE DEF N, S
  <2> QED  BY <1>3, <1>5 DEF Surjection
<1> HIDE DEF N, S
<1> QED  BY <1>2, <1>3, <1>6, <1>7 DEF S

\* A block reads its entries: they lie in it, its first and its last register are
\* theirs, and so is every one between.
Cut(p) == [fc : {3, 4}, start : Nat, quantity : Nat, entries : SUBSET Entries(p)]

WellCut(p, b) ==
  /\ \A e \in b.entries : e.fc = b.fc /\ b.start <= e.offset /\ End(e) <= b.start + b.quantity
  /\ \E e \in b.entries : e.offset = b.start
  /\ \E e \in b.entries : End(e) = b.start + b.quantity
  /\ \A a \in b.start..(b.start + b.quantity - 1) :
       \E e \in b.entries : a \in e.offset..(End(e) - 1)
  /\ b.quantity <= Limit(p) \/ \E e \in b.entries : b.quantity = e.length

\* The blocks read the entries in S and no other, and decode each in one of them.
WellPlanned(p, blocks, S) ==
  /\ blocks \in Seq(Cut(p))
  /\ \A i \in 1..Len(blocks) : WellCut(p, blocks[i]) /\ blocks[i].entries \subseteq S
  /\ \A e \in S : \E i \in 1..Len(blocks) : e \in blocks[i].entries
  /\ \A i, j \in 1..Len(blocks) : i # j => blocks[i].entries \cap blocks[j].entries = {}

\* What the range check leaves of an entry (BuildBlocks).
LEMMA EntryInRange ==
  ASSUME NEW p, Readable(p), NEW e \in Entries(p)
  PROVE  e.fc \in {3, 4} /\ e.offset \in Nat /\ e.length \in Nat /\ e.length >= 1
         /\ End(e) \in Nat /\ End(e) = e.offset + e.length /\ End(e) <= 65536
<1>1. e.length \in 1..125 /\ e.fc \in {3, 4} /\ e.offset \in Nat /\ End(e) <= 65536
  BY DEF Readable
<1>2. End(e) = e.offset + e.length  BY DEF End
<1> QED  BY <1>1, <1>2

LEMMA NewBlockWellCut ==
  ASSUME NEW p, Readable(p), NEW e \in Entries(p)
  PROVE  NewBlock(e) \in Cut(p) /\ WellCut(p, NewBlock(e)) /\ NewBlock(e).entries = {e}
<1>1. e.fc \in {3, 4} /\ e.offset \in Nat /\ e.length \in Nat /\ e.length >= 1
      /\ End(e) = e.offset + e.length
  BY EntryInRange
<1>2. NewBlock(e) \in Cut(p)  BY <1>1 DEF NewBlock, Cut
<1>3. /\ NewBlock(e).fc = e.fc /\ NewBlock(e).start = e.offset
      /\ NewBlock(e).quantity = e.length /\ NewBlock(e).entries = {e}
  BY DEF NewBlock
<1> QED  BY <1>1, <1>2, <1>3 DEF WellCut

LEMMA JoinedWellCut ==
  ASSUME NEW p, Readable(p), NEW e \in Entries(p), NEW b \in Cut(p), WellCut(p, b),
         Fits(b, e, Limit(p)), \A f \in b.entries : Before(f, e)
  PROVE  Joined(b, e) \in Cut(p) /\ WellCut(p, Joined(b, e)) /\ Joined(b, e).entries = b.entries \cup {e}
<1> DEFINE j == Joined(b, e)
<1>1. /\ e.fc \in {3, 4} /\ e.offset \in Nat /\ e.length \in Nat /\ e.length >= 1
      /\ End(e) \in Nat /\ End(e) = e.offset + e.length
  BY EntryInRange
<1>2. b.fc \in {3, 4} /\ b.start \in Nat /\ b.quantity \in Nat /\ b.entries \subseteq Entries(p)
  BY DEF Cut
<1>3. b.fc = e.fc /\ e.offset <= b.start + b.quantity /\ End(e) - b.start <= Limit(p)
  BY DEF Fits
<1>4. b.start <= e.offset
  <2>1. PICK f \in b.entries : f.offset = b.start  BY DEF WellCut
  <2>2. f.fc = b.fc /\ Before(f, e)  BY <2>1 DEF WellCut
  <2> QED  BY <1>1, <1>2, <1>3, <2>1, <2>2 DEF Before
<1>5. /\ j.fc = b.fc /\ j.start = b.start /\ j.entries = b.entries \cup {e}
      /\ j.quantity = IF End(e) - b.start > b.quantity THEN End(e) - b.start ELSE b.quantity
  BY <1>2 DEF Joined, Cut
<1>6. j \in Cut(p)
  <2>1. j = [fc |-> b.fc, start |-> b.start, quantity |-> j.quantity, entries |-> j.entries]
    <3>1. b = [fc |-> b.fc, start |-> b.start, quantity |-> b.quantity, entries |-> b.entries]
      BY DEF Cut
    <3> DEFINE q == j.quantity
    <3>2. Joined(b, e) = [b EXCEPT !.quantity = q, !.entries = b.entries \cup {e}]
      BY <1>5 DEF Joined
    <3> HIDE DEF j, q
    <3>3. Joined(b, e) = [fc |-> b.fc, start |-> b.start, quantity |-> q, entries |-> b.entries \cup {e}]
      BY <3>1, <3>2
    <3> QED  BY <1>5, <3>3 DEF q, j
  <2> HIDE DEF j
  <2>2. j.entries \subseteq Entries(p)  BY <1>2, <1>5
  <2>3. j.quantity \in Nat
    <3> DEFINE end == End(e)
    <3>1. end \in Nat /\ j.quantity = IF end - b.start > b.quantity THEN end - b.start ELSE b.quantity
      BY <1>1, <1>5
    <3> HIDE DEF end
    <3> QED  BY <1>2, <3>1
  <2> QED  BY <1>2, <2>1, <2>2, <2>3 DEF Cut
<1> HIDE DEF j
<1>7. j.quantity \in Nat /\ j.quantity >= b.quantity /\ End(e) <= j.start + j.quantity
  BY <1>1, <1>2, <1>4, <1>5
<1>8. \A f \in b.entries : f.offset \in Nat /\ End(f) \in Nat /\ f.fc = b.fc /\ b.start <= f.offset
                           /\ End(f) <= b.start + b.quantity
  BY <1>2, EntryInRange DEF WellCut
<1>9. \A f \in j.entries : f.fc = j.fc /\ j.start <= f.offset /\ End(f) <= j.start + j.quantity
  BY <1>1, <1>2, <1>3, <1>4, <1>5, <1>7, <1>8
<1>10. \E f \in j.entries : f.offset = j.start
  BY <1>5 DEF WellCut
<1>11. CASE End(e) - b.start > b.quantity
  <2>1. j.quantity = End(e) - b.start  BY <1>5, <1>11
  <2>2. \E f \in j.entries : End(f) = j.start + j.quantity
    BY <1>1, <1>2, <1>5, <2>1
  <2>3. ASSUME NEW a \in j.start..(j.start + j.quantity - 1)
        PROVE  \E f \in j.entries : a \in f.offset..(End(f) - 1)
    <3>1. CASE a <= b.start + b.quantity - 1
      <4>1. a \in b.start..(b.start + b.quantity - 1)  BY <1>2, <1>5, <1>7, <3>1
      <4>2. PICK f \in b.entries : a \in f.offset..(End(f) - 1)  BY <4>1 DEF WellCut
      <4> QED  BY <1>5, <4>2
    <3>2. CASE ~(a <= b.start + b.quantity - 1)
      <4>1. a \in e.offset..(End(e) - 1)  BY <1>1, <1>2, <1>3, <1>5, <2>1, <3>2
      <4> QED  BY <1>5, <4>1
    <3> QED  BY <3>1, <3>2
  <2> QED  BY <1>3, <1>5, <1>6, <1>9, <1>10, <2>1, <2>2, <2>3 DEF WellCut, j
<1>12. CASE ~(End(e) - b.start > b.quantity)
  <2>1. j.quantity = b.quantity  BY <1>5, <1>12
  <2>2. \E f \in j.entries : End(f) = j.start + j.quantity
    BY <1>5, <2>1 DEF WellCut
  <2>3. ASSUME NEW a \in j.start..(j.start + j.quantity - 1)
        PROVE  \E f \in j.entries : a \in f.offset..(End(f) - 1)
    BY <1>5, <2>1 DEF WellCut
  <2>4. j.quantity <= Limit(p) \/ \E f \in j.entries : j.quantity = f.length
    BY <1>5, <2>1 DEF WellCut
  <2> QED  BY <1>5, <1>6, <1>9, <1>10, <2>2, <2>3, <2>4 DEF WellCut, j
<1> QED  BY <1>11, <1>12

LEMMA AddedWellPlanned ==
  ASSUME NEW p, Readable(p), NEW S, NEW blocks, WellPlanned(p, blocks, S),
         NEW e \in Entries(p), \A f \in S : Before(f, e) /\ f # e
  PROVE  WellPlanned(p, Added(blocks, e, Limit(p)), S \cup {e})
<1> DEFINE n == Len(blocks)
           final == blocks[n]
<1>1. blocks \in Seq(Cut(p)) /\ n \in Nat  BY LenProperties DEF WellPlanned
<1>2. CASE blocks # <<>> /\ Fits(blocks[Len(blocks)], e, Limit(p))
  <2>1. n \in 1..n
    <3>1. n \in Nat \ {0}  BY <1>1, <1>2, EmptySeq
    <3> QED  BY <3>1
  <2>2. final \in Cut(p) /\ WellCut(p, final) /\ final.entries \subseteq S
    BY <1>1, <2>1, ElementOfSeq DEF WellPlanned
  <2>3. Fits(final, e, Limit(p)) /\ \A f \in final.entries : Before(f, e)
    BY <1>2, <2>2
  <2> DEFINE j == Joined(final, e)
             new == [blocks EXCEPT ![n] = j]
  <2>4. j \in Cut(p) /\ WellCut(p, j) /\ j.entries = final.entries \cup {e}
    <3> HIDE DEF final
    <3> QED  BY <2>2, <2>3, JoinedWellCut
  <2>5. Added(blocks, e, Limit(p)) = new
    BY <1>1, <1>2, <2>1 DEF Added
  <2> HIDE DEF j
  <2>6. /\ new \in Seq(Cut(p)) /\ Len(new) = n
        /\ \A i \in 1..n : new[i] = IF i = n THEN j ELSE blocks[i]
    BY <1>1, <2>1, <2>4, ExceptSeq
  <2> HIDE DEF new
  <2>7. ASSUME NEW i \in 1..Len(new)
        PROVE  WellCut(p, new[i]) /\ new[i].entries \subseteq S \cup {e}
    <3>1. CASE i = n  BY <2>2, <2>4, <2>6, <3>1
    <3>2. CASE i # n  BY <2>6, <3>2 DEF WellPlanned
    <3> QED  BY <3>1, <3>2
  <2>8. ASSUME NEW f \in S \cup {e}
        PROVE  \E i \in 1..Len(new) : f \in new[i].entries
    <3>1. CASE f = e  BY <2>1, <2>4, <2>6, <3>1
    <3>2. CASE f # e
      <4>1. PICK i \in 1..n : f \in blocks[i].entries  BY <3>2, <2>8 DEF WellPlanned
      <4>2. f \in new[i].entries  BY <4>1, <2>4, <2>6
      <4> QED  BY <4>1, <4>2, <2>6
    <3> QED  BY <3>1, <3>2
  <2>9. ASSUME NEW i \in 1..Len(new), NEW k \in 1..Len(new), i # k
        PROVE  new[i].entries \cap new[k].entries = {}
    <3>1. \A l \in 1..n : e \notin blocks[l].entries  BY DEF WellPlanned
    <3>2. blocks[i].entries \cap blocks[k].entries = {}  BY <2>6, <2>9 DEF WellPlanned
    <3> QED  BY <2>1, <2>4, <2>6, <2>9, <3>1, <3>2
  <2> QED  BY <2>5, <2>6, <2>7, <2>8, <2>9 DEF WellPlanned
<1>3. CASE ~(blocks # <<>> /\ Fits(blocks[Len(blocks)], e, Limit(p)))
  <2> DEFINE j == NewBlock(e)
             new == Append(blocks, j)
  <2>1. j \in Cut(p) /\ WellCut(p, j) /\ j.entries = {e}  BY NewBlockWellCut
  <2>2. Added(blocks, e, Limit(p)) = new  BY <1>3 DEF Added
  <2> HIDE DEF j
  <2>3. /\ new \in Seq(Cut(p)) /\ Len(new) = n + 1
        /\ \A i \in 1..n : new[i] = blocks[i]
        /\ new[n + 1] = j
    BY <1>1, <2>1, AppendProperties
  <2> HIDE DEF new
  <2>4. ASSUME NEW i \in 1..Len(new)
        PROVE  WellCut(p, new[i]) /\ new[i].entries \subseteq S \cup {e}
    <3>1. CASE i = n + 1  BY <2>1, <2>3, <3>1
    <3>2. CASE i # n + 1
      <4>1. i \in 1..n  BY <1>1, <2>3, <3>2
      <4> QED  BY <2>3, <4>1 DEF WellPlanned
    <3> QED  BY <3>1, <3>2
  <2>5. ASSUME NEW f \in S \cup {e}
        PROVE  \E i \in 1..Len(new) : f \in new[i].entries
    <3>1. CASE f = e
      <4>1. n + 1 \in 1..Len(new)  BY <1>1, <2>3
      <4> QED  BY <2>1, <2>3, <3>1, <4>1
    <3>2. CASE f # e
      <4>1. PICK i \in 1..n : f \in blocks[i].entries  BY <3>2, <2>5 DEF WellPlanned
      <4>2. i \in 1..Len(new)  BY <1>1, <2>3
      <4> QED  BY <4>1, <4>2, <2>3
    <3> QED  BY <3>1, <3>2
  <2>6. ASSUME NEW i \in 1..Len(new), NEW k \in 1..Len(new), i < k
        PROVE  new[i].entries \cap new[k].entries = {}
    <3>1. i \in 1..n /\ (k \in 1..n \/ k = n + 1)  BY <1>1, <2>3, <2>6
    <3>2. CASE k \in 1..n
      <4>1. blocks[i].entries \cap blocks[k].entries = {}  BY <2>6, <3>1, <3>2 DEF WellPlanned
      <4> QED  BY <2>3, <3>1, <3>2, <4>1
    <3>3. CASE k = n + 1
      <4>1. e \notin blocks[i].entries  BY <3>1 DEF WellPlanned
      <4> QED  BY <2>1, <2>3, <3>1, <3>3, <4>1
    <3> QED  BY <3>1, <3>2, <3>3
  <2>7. \A i, k \in 1..Len(new) : i # k => new[i].entries \cap new[k].entries = {}
    <3>1. \A i, k \in 1..Len(new) : i # k => i < k \/ k < i  BY <1>1, <2>3
    <3> QED  BY <2>6, <3>1
  <2> QED  BY <2>2, <2>3, <2>4, <2>5, <2>7 DEF WellPlanned
<1> QED  BY <1>2, <1>3

LEMMA BuiltWellPlanned ==
  ASSUME NEW p, IsFiniteSet(p.registers), Readable(p), NEW order \in Orders(p)
  PROVE  WellPlanned(p, BuildBlocks(p, order), Entries(p))
<1> DEFINE N == Len(order)
           first(n) == {order[i] : i \in 1..n}
           T == {n \in Nat : n <= N => WellPlanned(p, Stages(p, order)[n], first(n))}
<1>1. /\ N \in Nat /\ Entries(p) = first(N)
      /\ \A i, j \in 1..N : i < j => Before(order[i], order[j]) /\ order[i] # order[j]
  BY OrdersList
<1>2. /\ Stages(p, order)[0] = <<>>
      /\ \A n \in 1..N : Stages(p, order)[n] = Added(Stages(p, order)[n - 1], order[n], Limit(p))
  BY <1>1, StagesAre
<1>3. 0 \in T
  <2>1. WellPlanned(p, <<>>, {})  BY EmptySeq DEF WellPlanned
  <2>2. first(0) = {}  OBVIOUS
  <2> QED  BY <1>2, <2>1, <2>2
<1>4. ASSUME NEW n \in Nat, n \in T PROVE n + 1 \in T
  <2> SUFFICES ASSUME n + 1 <= N
               PROVE  WellPlanned(p, Stages(p, order)[n + 1], first(n + 1))
    OBVIOUS
  <2> DEFINE e == order[n + 1]
             before == Stages(p, order)[n]
  <2>1. WellPlanned(p, before, first(n))  BY <1>1, <1>4
  <2>2. n + 1 \in 1..N /\ n + 1 - 1 = n  BY <1>1
  <2>3. Stages(p, order)[n + 1] = Added(before, e, Limit(p))  BY <1>2, <2>2
  <2>4. e \in Entries(p)  BY <1>1, <2>2
  <2>5. ASSUME NEW f \in first(n) PROVE Before(f, e) /\ f # e
    <3>1. PICK i \in 1..n : f = order[i]  BY <2>5
    <3>2. i \in 1..N /\ i < n + 1  BY <1>1, <2>2, <3>1
    <3> QED  BY <1>1, <2>2, <3>1, <3>2
  <2>6. first(n + 1) = first(n) \cup {e}
    <3>1. 1..(n + 1) = 1..n \cup {n + 1}  OBVIOUS
    <3> QED  BY <3>1
  <2> HIDE DEF e, before, first
  <2> QED  BY <2>1, <2>3, <2>4, <2>5, <2>6, AddedWellPlanned
<1> HIDE DEF T
<1>5. N \in T  BY <1>1, <1>3, <1>4, Counting
<1> HIDE DEF first
<1> QED  BY <1>1, <1>5 DEF T, BuildBlocks

\* What BlocksPlan says of a plan, for blocks that are well cut.
LEMMA WellCutSpan ==
  ASSUME NEW p, Readable(p), NEW b \in Cut(p), WellCut(p, b)
  PROVE  /\ b.start + b.quantity <= 65536
         /\ Span(b, b.start, b.quantity) = UNION {Span(e, e.offset, e.length) : e \in b.entries}
<1>1. b.start \in Nat /\ b.quantity \in Nat /\ b.entries \subseteq Entries(p)
  BY DEF Cut
<1>2. \A e \in b.entries : /\ e.offset \in Nat /\ e.length \in Nat /\ End(e) \in Nat
                           /\ End(e) = e.offset + e.length /\ End(e) <= 65536
  BY <1>1, EntryInRange
<1>3. b.start + b.quantity <= 65536
  BY <1>2 DEF WellCut
<1>4. ASSUME NEW x \in Span(b, b.start, b.quantity)
      PROVE  \E e \in b.entries : x \in Span(e, e.offset, e.length)
  <2>1. PICK a \in b.start..(b.start + b.quantity - 1) : x = <<b.fc, a>>
    BY <1>4 DEF Span
  <2>2. PICK e \in b.entries : a \in e.offset..(End(e) - 1)
    BY <2>1 DEF WellCut
  <2>3. e.fc = b.fc /\ End(e) - 1 = e.offset + e.length - 1
    BY <1>2, <2>2 DEF WellCut
  <2> QED  BY <2>1, <2>2, <2>3 DEF Span
<1>5. ASSUME NEW e \in b.entries, NEW x \in Span(e, e.offset, e.length)
      PROVE  x \in Span(b, b.start, b.quantity)
  <2>1. PICK a \in e.offset..(e.offset + e.length - 1) : x = <<e.fc, a>>
    BY <1>5 DEF Span
  <2>2. e.fc = b.fc /\ b.start <= e.offset /\ End(e) <= b.start + b.quantity
    BY DEF WellCut
  <2>3. a \in b.start..(b.start + b.quantity - 1)
    BY <1>1, <1>2, <2>1, <2>2
  <2> QED  BY <2>1, <2>2, <2>3 DEF Span
<1> QED  BY <1>3, <1>4, <1>5

\* The plan is one of the device set's, and what a poll may yield follows from it.
PlanInv ==
  /\ profile \in Profiles /\ plan \in Plans(profile)
  /\ yields = IF profile \in Swept THEN Outcomes(profile, plan) ELSE {}

LEMMA PlanStays == PollerSpec => []PlanInv
<1>1. PollerInit => PlanInv  BY DEF PollerInit, PlanInv
<1>2. PlanInv /\ [PollerNext]_vars => PlanInv'
  <2>1. [PollerNext]_vars => UNCHANGED <<profile, plan, yields>>
    BY DEF PollerNext, vars, SweepStep, TryBeginPoll, SweepFails, SweepEnds, PollConnection,
           PollConnectionFails, SkipUnchanged, SetBaseline, StoreCreates, StoreRejects,
           BeginMaintenance, MaintenanceExpires, Release, ClockStepsBack, Restart
  <2> QED  BY <2>1 DEF PlanInv
<1> QED  BY <1>1, <1>2, PTL DEF PollerSpec

LEMMA PlanIsWell ==
  ASSUME PlanInv, Readable(profile) PROVE WellPlanned(profile, plan, Entries(profile))
<1>1. PICK order \in Orders(profile) : plan = BuildBlocks(profile, order)
  BY DEF PlanInv, Plans
<1>2. IsFiniteSet(profile.registers)  BY PollerAssumption DEF PlanInv
<1> QED  BY <1>1, <1>2, BuiltWellPlanned

\* Whatever registers a device set has, its blocks read every enabled one and
\* nothing else, within the limit, and decode each in one block (BuildBlocks).
THEOREM BlocksReadWhatTheyShould == PollerSpec => []BlocksPlan
<1>1. ASSUME PlanInv, Readable(profile) PROVE BlocksPlan
  <2> DEFINE blocks == {plan[i] : i \in DOMAIN plan}
  <2>1. WellPlanned(profile, plan, Entries(profile))  BY <1>1, PlanIsWell
  <2>2. plan \in Seq(Cut(profile)) /\ DOMAIN plan = 1..Len(plan)
    BY <2>1, LenProperties DEF WellPlanned
  <2>3. ASSUME NEW b \in blocks
        PROVE  b \in Cut(profile) /\ WellCut(profile, b) /\ b.entries \subseteq Entries(profile)
    <3>1. PICK i \in 1..Len(plan) : b = plan[i]  BY <2>2
    <3> QED  BY <2>1, <2>2, <3>1, ElementOfSeq DEF WellPlanned
  <2>4. UNION {b.entries : b \in blocks} = Entries(profile)
    <3>1. \A e \in Entries(profile) : \E i \in DOMAIN plan : e \in plan[i].entries
      BY <2>1, <2>2 DEF WellPlanned
    <3>2. \A e \in Entries(profile) : \E b \in blocks : e \in b.entries
      BY <3>1
    <3> HIDE DEF blocks
    <3> QED  BY <2>3, <3>2
  <2>5. ASSUME NEW b \in blocks
        PROVE  /\ b.start + b.quantity <= 65536
               /\ b.quantity <= Limit(profile) \/ \E e \in b.entries : b.quantity = e.length
               /\ Span(b, b.start, b.quantity) = UNION {Span(e, e.offset, e.length) : e \in b.entries}
    <3>1. b \in Cut(profile) /\ WellCut(profile, b)  BY <2>3
    <3>2. b.quantity <= Limit(profile) \/ \E e \in b.entries : b.quantity = e.length
      BY <3>1 DEF WellCut
    <3> HIDE DEF blocks
    <3>3. /\ b.start + b.quantity <= 65536
          /\ Span(b, b.start, b.quantity) = UNION {Span(e, e.offset, e.length) : e \in b.entries}
      BY <1>1, <3>1, WellCutSpan
    <3> QED  BY <3>2, <3>3
  <2>6. \A i, j \in DOMAIN plan : i # j => plan[i].entries \cap plan[j].entries = {}
    BY <2>1, <2>2 DEF WellPlanned
  <2> QED  BY <2>4, <2>5, <2>6 DEF BlocksPlan
<1>2. PlanInv => BlocksPlan
  <2>1. ASSUME ~Readable(profile) PROVE BlocksPlan  BY <2>1 DEF BlocksPlan
  <2> QED  BY <1>1, <2>1
<1> QED  BY <1>2, PlanStays, PTL

\* However the reads end, an entry of a block is in the outcome's addresses or its
\* own read is among the failures (PollConnection, decodeEntry).
LEMMA OutcomeAccounts ==
  ASSUME NEW blocks, NEW got, NEW sentinel, NEW b \in blocks, NEW e \in b.entries,
         Alone(b) => BlockRequest(b) = Request(e)
  PROVE  \/ e.address \in Outcome(blocks, got, sentinel).addresses
         \/ Request(e) \in Outcome(blocks, got, sentinel).failures
<1> DEFINE whole  == UNION {{<<c.start, got[BlockRequest(c)], f>> : f \in c.entries} :
                              c \in {c \in blocks : got[BlockRequest(c)] # Failed}}
           again  == UNION {Retried(c, got) : c \in blocks}
           single == {<<f.offset, got[Request(f)], f>> : f \in {f \in again : got[Request(f)] # Failed}}
           good   == {r \in whole \cup single : Decoded(r[3], r[1], r[2], sentinel)}
           addresses == {r[3].address : r \in good}
           blockFailed == {BlockRequest(c) : c \in {c \in blocks : got[BlockRequest(c)] = Failed}}
           entryFailed == {Request(f) : f \in {f \in again : got[Request(f)] = Failed}}
           noValue == {Request(r[3]) : r \in (whole \cup single) \ good}
<1>1. /\ Outcome(blocks, got, sentinel).addresses = addresses
      /\ Outcome(blocks, got, sentinel).failures = blockFailed \cup entryFailed \cup noValue
  BY DEF Outcome
<1>2. ASSUME NEW r \in whole \cup single, r[3] = e PROVE e.address \in addresses \/ Request(e) \in noValue
  <2>1. CASE r \in good
    <3> HIDE DEF good
    <3> QED  BY <1>2, <2>1
  <2>2. CASE r \notin good
    <3> HIDE DEF good, whole, single
    <3> QED  BY <1>2, <2>2
  <2> QED  BY <2>1, <2>2
<1>3. CASE got[BlockRequest(b)] # Failed
  <2> DEFINE r == <<b.start, got[BlockRequest(b)], e>>
  <2>1. r \in whole  BY <1>3
  <2>2. r[3] = e  OBVIOUS
  <2> HIDE DEF r, whole, single, addresses, noValue
  <2> QED  BY <1>1, <1>2, <2>1, <2>2
<1>4. CASE got[BlockRequest(b)] = Failed /\ Alone(b)
  <2>1. BlockRequest(b) \in blockFailed  BY <1>4
  <2> HIDE DEF blockFailed, entryFailed, noValue
  <2> QED  BY <1>1, <1>4, <2>1
<1>5. CASE got[BlockRequest(b)] = Failed /\ ~Alone(b)
  <2>1. e \in again  BY <1>5 DEF Retried
  <2>2. CASE got[Request(e)] = Failed
    <3>1. Request(e) \in entryFailed
      <4> HIDE DEF again
      <4> QED  BY <2>1, <2>2
    <3> HIDE DEF blockFailed, entryFailed, noValue
    <3> QED  BY <1>1, <3>1
  <2>3. CASE got[Request(e)] # Failed
    <3> DEFINE r == <<e.offset, got[Request(e)], e>>
    <3>1. r \in single
      <4> HIDE DEF again
      <4> QED  BY <2>1, <2>3
    <3>2. r[3] = e  OBVIOUS
    <3> HIDE DEF r, whole, single, addresses, noValue
    <3> QED  BY <1>1, <1>2, <3>1, <3>2
  <2> QED  BY <2>2, <2>3
<1> QED  BY <1>3, <1>4, <1>5

LEMMA PlanAccounts ==
  ASSUME NEW p, Readable(p), NEW q, WellPlanned(p, q, Entries(p)),
         NEW o \in Outcomes(p, q), NEW e \in Entries(p)
  PROVE  e.address \in o.addresses \/ Request(e) \in o.failures
<1> DEFINE blocks == {q[i] : i \in DOMAIN q}
<1>1. \E got, sentinel : o = Outcome(blocks, got, sentinel)
  <2> DEFINE requests == {BlockRequest(b) : b \in blocks} \cup {Request(f) : f \in Entries(p)}
             answers  == UNION {{[r \in requests |-> IF r \in bad THEN worse[r] ELSE r.quantity] :
                                   worse \in [bad -> {Failed, 1}]} :
                                  bad \in {s \in SUBSET requests : Cardinality(s) <= MaxReads}}
             sentinels == {{}} \cup {{f} : f \in Entries(p)}
  <2>1. Outcomes(p, q) = {x \in {Outcome(blocks, got, sentinel) : got \in answers, sentinel \in sentinels} :
                            x.addresses # {}}
    BY DEF Outcomes
  <2> HIDE DEF blocks, answers, sentinels
  <2> QED  BY <2>1
<1>2. q \in Seq(Cut(p)) /\ DOMAIN q = 1..Len(q)
  BY LenProperties DEF WellPlanned
<1>3. PICK i \in 1..Len(q) : e \in q[i].entries
  BY DEF WellPlanned
<1> DEFINE b == q[i]
<1>4. b \in blocks /\ e \in b.entries /\ WellCut(p, b)
  BY <1>2, <1>3 DEF WellPlanned
<1>5. Alone(b) => BlockRequest(b) = Request(e)
  <2> SUFFICES ASSUME Alone(b) PROVE BlockRequest(b) = Request(e)
    OBVIOUS
  <2>1. b.entries = {e} /\ b.quantity = e.length
    BY <1>4 DEF Alone
  <2>2. e.fc = b.fc /\ e.offset = b.start
    BY <1>4, <2>1 DEF WellCut
  <2> QED  BY <2>1, <2>2 DEF BlockRequest, Request
<1> HIDE DEF b, blocks
<1>6. PICK got, sentinel : o = Outcome(blocks, got, sentinel)
  BY <1>1
<1> QED  BY <1>4, <1>5, <1>6, OutcomeAccounts

\* What the sweep has in hand is one outcome of the plan.
ReadingIsOutcome ==
  sweep.reading # None =>
    /\ Readable(profile)
    /\ \E o \in yields : sweep.reading.addresses = o.addresses /\ sweep.reading.failures = o.failures

LEMMA ReadingStays == PollerSpec => []ReadingIsOutcome
<1>1. PollerInit => ReadingIsOutcome
  BY DEF PollerInit, ReadingIsOutcome, Nothing
<1>2. PollerTypeOK /\ ReadingIsOutcome /\ [PollerNext]_vars => ReadingIsOutcome'
  <2> SUFFICES ASSUME PollerTypeOK, ReadingIsOutcome, [PollerNext]_vars PROVE ReadingIsOutcome'
    OBVIOUS
  <2>1. UNCHANGED <<profile, plan, yields>>
    BY DEF PollerNext, vars, SweepStep, TryBeginPoll, SweepFails, SweepEnds, PollConnection,
           PollConnectionFails, SkipUnchanged, SetBaseline, StoreCreates, StoreRejects,
           BeginMaintenance, MaintenanceExpires, Release, ClockStepsBack, Restart
  <2>2. CASE sweep'.reading = None
    BY <2>2 DEF ReadingIsOutcome
  <2>3. CASE sweep'.reading = sweep.reading
    <3>1. Readable(profile)' = Readable(profile)
      BY <2>1 DEF Readable, Entries, EntryOf, ModbusAddress, End
    <3> QED  BY <2>1, <2>3, <3>1 DEF ReadingIsOutcome
  <2>4. ASSUME NEW c \in Connections, PollConnection(c) PROVE ReadingIsOutcome'
    <3>1. Readable(profile) /\ profile' = profile /\ yields' = yields
      BY <2>4 DEF PollConnection
    <3>2. PICK content \in Contents, o \in yields :
            sweep' = [sweep EXCEPT !.at = "filter", !.connection = c,
              !.reading = [addresses |-> o.addresses, content |-> content,
                           at |-> clock, failures |-> o.failures]]
      BY <2>4 DEF PollConnection
    <3>3. sweep'.reading.addresses = o.addresses /\ sweep'.reading.failures = o.failures
      BY <3>2 DEF PollerTypeOK
    <3> QED  BY <3>1, <3>3 DEF ReadingIsOutcome
  <2>5. ASSUME NEW c, NEW status, Logged(c, status) PROVE sweep'.reading = None
    BY <2>5 DEF Logged, Nothing
  <2>6. CASE TryBeginPoll \/ SweepFails \/ SweepEnds \/ Restart
    <3>1. CASE TryBeginPoll
      <4>1. sweep'.reading = None  BY <3>1 DEF TryBeginPoll, Nothing
      <4> QED  BY <2>2, <4>1
    <3>2. CASE SweepFails \/ SweepEnds \/ Restart
      <4>1. sweep' = Nothing  BY <3>2 DEF SweepFails, SweepEnds, Restart
      <4> QED  BY <2>2, <4>1 DEF Nothing
    <3> QED  BY <2>6, <3>1, <3>2
  <2>7. ASSUME NEW c \in Connections, PollConnectionFails(c) PROVE ReadingIsOutcome'
    BY <2>7, <2>2, <2>5 DEF PollConnectionFails, PollError
  <2>8. CASE SkipUnchanged \/ StoreCreates \/ \E status \in {"unchanged", "error"} : StoreRejects(status)
    BY <2>8, <2>2, <2>5 DEF SkipUnchanged, StoreCreates, StoreRejects
  <2>9. CASE SetBaseline
    <3>1. sweep'.reading = sweep.reading
      BY <2>9 DEF SetBaseline, PollerTypeOK
    <3> QED  BY <2>3, <3>1
  <2>10. CASE BeginMaintenance \/ MaintenanceExpires \/ Release \/ ClockStepsBack \/ UNCHANGED vars
    <3>1. sweep' = sweep
      BY <2>10 DEF BeginMaintenance, MaintenanceExpires, Release, ClockStepsBack, vars, memory
    <3> QED  BY <2>3, <3>1
  <2> QED
    BY <2>4, <2>6, <2>7, <2>8, <2>9, <2>10 DEF PollerNext, SweepStep
<1> QED  BY <1>1, <1>2, PollerTypeCorrect, PTL DEF PollerSpec

\* Whatever reads fail, an enabled register is in the reading or the warning names
\* its own read (PollConnection).
THEOREM NoRegisterUnaccounted == PollerSpec => []EveryRegisterAccounted
<1>1. ASSUME PlanInv, ReadingIsOutcome PROVE EveryRegisterAccounted
  <2> SUFFICES ASSUME sweep.reading # None, NEW e \in Entries(profile)
               PROVE  e.address \in sweep.reading.addresses \/ Request(e) \in sweep.reading.failures
    BY DEF EveryRegisterAccounted
  <2>1. Readable(profile)  BY <1>1 DEF ReadingIsOutcome
  <2>2. PICK o \in yields :
          sweep.reading.addresses = o.addresses /\ sweep.reading.failures = o.failures
    BY <1>1 DEF ReadingIsOutcome
  <2>3. o \in Outcomes(profile, plan)  BY <1>1, <2>2 DEF PlanInv
  <2>4. WellPlanned(profile, plan, Entries(profile))  BY <1>1, <2>1, PlanIsWell
  <2>5. e.address \in o.addresses \/ Request(e) \in o.failures
    BY <2>1, <2>3, <2>4, PlanAccounts
  <2> QED  BY <2>2, <2>5
<1> QED  BY <1>1, PlanStays, ReadingStays, PTL
=============================================================================
