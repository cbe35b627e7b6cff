---------------------------- MODULE ConfigCache ----------------------------
(***************************************************************************)
(* The configuration inside one Middleware: SQLite, the cache the poller   *)
(* and the local pages read, and the goroutines that change both.  Every   *)
(* HTTP request of the local web UI runs in a goroutine of its own; the    *)
(* realtime client's read loop applies pushed snapshots one after another. *)
(* A change is written to SQLite first; then the whole configuration is    *)
(* read back, one query per table and no transaction around them, and the  *)
(* result replaces the cache in one pointer swap.                          *)
(*                                                                         *)
(* A table is named by its last commit: the number of that commit, and the *)
(* push the table's rows were first brought in by.  "version" stands for   *)
(* config_history, "sets" for brands, device sets and their addresses, and *)
(* "conns" for connections and plants.                                     *)
(***************************************************************************)
EXTENDS Naturals

CONSTANTS
  Editors,     \* requests of the local web UI that may run at the same time
  Pusher,      \* the realtime client's read loop
  MaxCommits,  \* BOUND: commits of configuration and settings
  MaxPushes,   \* BOUND: snapshots pushed
  MaxFailures,   \* BOUND: SQLite errors and refused statements
  MaxCrashes   \* BOUND: restarts of the process

ASSUME ActorAssumption == Pusher \notin Editors
ASSUME BoundAssumption == {MaxCommits, MaxPushes, MaxFailures, MaxCrashes} \subseteq Nat

VARIABLES
  store,    \* SQLite: table -> its last commit
  cache,    \* configcache.Cache: table -> the commit the active Config holds
  phase,    \* where each actor stands
  own,      \* the last commit each actor made to each table
  read,     \* the Config each actor is rebuilding
  gateway,  \* gateway_config: commits that last set the endpoint, the interval
  form,     \* the gateway_config row the push handler read
  commits, pushes, failures, crashes

configVars  == <<store, cache>>
actorVars   == <<phase, own, read>>
gatewayVars == <<gateway, form>>
cacheVars == <<configVars, actorVars, gatewayVars, commits, pushes, failures, crashes>>

Actors == Editors \cup {Pusher}
Tables == {"sets", "conns", "version"}
Stamp  == [push : Nat, at : Nat]
Config == [Tables -> Stamp]
Phases == {"idle", "writing", "sets", "conns", "version", "swap", "settings", "saving"}
Settings == [endpoint : Nat, interval : Nat]

TypeOK ==
  /\ store \in Config
  /\ cache \in Config
  /\ phase \in [Actors -> Phases]
  /\ own \in [Actors -> [Tables -> Nat]]
  /\ read \in [Actors -> Config]
  /\ gateway \in Settings
  /\ form \in Settings
  /\ {commits, pushes, failures, crashes} \subseteq Nat

Empty     == [t \in Tables |-> [push |-> 0, at |-> 0]]
NothingOf == [t \in Tables |-> 0]

Init ==
  /\ store = Empty
  /\ cache = Empty
  /\ phase = [a \in Actors |-> "idle"]
  /\ own = [a \in Actors |-> NothingOf]
  /\ read = [a \in Actors |-> Empty]
  /\ gateway = [endpoint |-> 0, interval |-> 0]
  /\ form = [endpoint |-> 0, interval |-> 0]
  /\ commits = 0 /\ pushes = 0 /\ failures = 0 /\ crashes = 0

Goes(a, from, to) == phase[a] = from /\ phase' = [phase EXCEPT ![a] = to]

Commit == commits < MaxCommits /\ commits' = commits + 1

Failure == failures < MaxFailures /\ failures' = failures + 1

\* The commit in hand replaces the given tables, whose rows push[t] brought in.
Write(a, tables, push) ==
  /\ Commit
  /\ store' = [t \in Tables |-> IF t \in tables THEN [push |-> push[t], at |-> commits']
                                ELSE store[t]]
  /\ own' = [own EXCEPT ![a] = [t \in Tables |-> IF t \in tables THEN commits' ELSE @[t]]]

-----------------------------------------------------------------------------
(* Requests of the local web UI.                                            *)

\* One committed statement or transaction of a handler: a save or delete of a
\* device set, brand, plant or connection.  Saving a connection takes two, an
\* import of settings or CSV rows as many as it has rows.
SaveRows(e, t) ==
  /\ phase[e] \in {"idle", "writing"}
  /\ phase' = [phase EXCEPT ![e] = "writing"]
  /\ Write(e, {t}, [u \in Tables |-> store[u].push])
  /\ UNCHANGED <<cache, read, gatewayVars, pushes, failures, crashes>>

\* Mutant: a handler that forgets refreshCache.
SavesDoneUnseen(e) ==
  /\ Goes(e, "writing", "idle")
  /\ UNCHANGED <<configVars, own, read, gatewayVars, commits, pushes, failures, crashes>>

\* Every row is saved: the handler calls refreshCache.
SavesDone(e) ==
  /\ Goes(e, "writing", "sets")
  /\ UNCHANGED <<configVars, own, read, gatewayVars, commits, pushes, failures, crashes>>

\* A later row is refused: the handler answers 400 and returns.
SavesFail(e) ==
  /\ Goes(e, "writing", "idle")
  /\ Failure
  /\ UNCHANGED <<configVars, own, read, gatewayVars, commits, pushes, crashes>>

\* POST of the gateway settings page: the whole row, as the form holds it.
SaveGatewayForm(e, interval) ==
  /\ phase[e] = "idle"
  /\ Commit
  /\ gateway' = [endpoint |-> commits', interval |-> interval]
  /\ UNCHANGED <<configVars, actorVars, form, pushes, failures, crashes>>

-----------------------------------------------------------------------------
(* A pushed snapshot.                                                       *)

\* applyConfigSnapshotTx replaces every table in one transaction.
ApplySnapshot ==
  /\ Goes(Pusher, "idle", "writing")
  /\ pushes < MaxPushes
  /\ pushes' = pushes + 1
  /\ Write(Pusher, {"sets", "conns"}, [t \in Tables |-> pushes'])
  /\ UNCHANGED <<cache, read, gatewayVars, failures, crashes>>

\* The APPLIED row of config_history, a statement of its own.
RecordHistory ==
  /\ Goes(Pusher, "writing", "sets")
  /\ Write(Pusher, {"version"}, [t \in Tables |-> pushes])
  /\ UNCHANGED <<cache, read, gatewayVars, pushes, failures, crashes>>

\* The INSERT fails: the ack is FAILED and the handler touches no cache.
RecordHistoryFails ==
  /\ Goes(Pusher, "writing", "idle")
  /\ Failure
  /\ UNCHANGED <<configVars, own, read, gatewayVars, commits, pushes, crashes>>

\* The row the pushed interval is merged into is read ...
ReadGateway ==
  /\ Goes(Pusher, "settings", "saving")
  /\ form' = gateway
  /\ UNCHANGED <<configVars, own, read, gateway, commits, pushes, failures, crashes>>

\* ... and written back, every column of it, if the push changes it.
SaveGateway ==
  /\ Goes(Pusher, "saving", "idle")
  /\ Commit
  /\ gateway' = [form EXCEPT !.interval = commits']
  /\ UNCHANGED <<configVars, own, read, form, pushes, failures, crashes>>

\* The push changes no setting, or SQLite refuses: the handler goes on to ack.
KeepGateway ==
  /\ phase[Pusher] \in {"settings", "saving"}
  /\ phase' = [phase EXCEPT ![Pusher] = "idle"]
  /\ UNCHANGED <<configVars, own, read, gatewayVars, commits, pushes, failures, crashes>>

-----------------------------------------------------------------------------
(* RebuildFromStore and Swap, by whoever wrote.                             *)

After == [sets |-> "conns", conns |-> "version", version |-> "swap"]

\* What an actor does once the cache is as it left it.
Refreshed(a) == IF a = Pusher THEN "settings" ELSE "idle"

\* Mutant: a rebuild that keeps the active Config's table instead of reading it.
ReadFromCache(a, t) ==
  /\ Goes(a, t, After[t])
  /\ read' = [read EXCEPT ![a][t] = cache[t]]
  /\ UNCHANGED <<configVars, own, gatewayVars, commits, pushes, failures, crashes>>

\* One query of RebuildFromStore.
ReadTable(a, t) ==
  /\ Goes(a, t, After[t])
  /\ read' = [read EXCEPT ![a][t] = store[t]]
  /\ UNCHANGED <<configVars, own, gatewayVars, commits, pushes, failures, crashes>>

Swap(a) ==
  /\ Goes(a, "swap", Refreshed(a))
  /\ cache' = read[a]
  /\ UNCHANGED <<store, own, read, gatewayVars, commits, pushes, failures, crashes>>

\* A query fails: the error is logged and the cache stays as it is.
RebuildFails(a) ==
  /\ phase[a] \in Tables
  /\ phase' = [phase EXCEPT ![a] = Refreshed(a)]
  /\ Failure
  /\ UNCHANGED <<configVars, own, read, gatewayVars, commits, pushes, crashes>>

\* The process restarts: every request is gone and main loads the cache before
\* anything polls, dials or serves.
ProcessRestarts ==
  /\ crashes < MaxCrashes
  /\ crashes' = crashes + 1
  /\ phase' = [a \in Actors |-> "idle"]
  /\ cache' = store
  /\ UNCHANGED <<store, own, read, gatewayVars, commits, pushes, failures>>

-----------------------------------------------------------------------------

Next ==
  \/ \E e \in Editors : \/ \E t \in {"sets", "conns"} : SaveRows(e, t)
                        \/ SavesDone(e) \/ SavesFail(e)
                        \/ \E i \in 0..commits : SaveGatewayForm(e, i)
  \/ ApplySnapshot \/ RecordHistory \/ RecordHistoryFails
  \/ ReadGateway \/ SaveGateway \/ KeepGateway
  \/ \E a \in Actors : (\E t \in Tables : ReadTable(a, t)) \/ Swap(a) \/ RebuildFails(a)
  \/ ProcessRestarts

Spec == Init /\ [][Next]_cacheVars

-----------------------------------------------------------------------------
(* Properties.                                                              *)

\* "A local edit is immediately visible to the poller and other requests"
\* (refreshCache): whoever's swap it is, the Config it installs holds all that
\* actor wrote, or what replaced it since, however the others interleave.
OwnWritesVisible ==
  [][\A a \in Actors : Swap(a) => \A t \in Tables : cache'[t].at >= own[a][t]]_cacheVars

\* RebuildFromStore is there "so the cache and SQLite never silently diverge":
\* with every request answered, the cache holds what SQLite holds.
QuietMeansFresh == (\A a \in Actors : phase[a] = "idle") => cache = store

\* Requests and pushes come one at a time and none fails half-way.
OneAtATime ==
  /\ \A a, b \in Actors : phase[a] # "idle" /\ phase[b] # "idle" => a = b
  /\ failures = 0

\* As long as that is so, the cache does not diverge, restarts or not; requests
\* that overlap may leave it behind for good (refreshCache takes no lock).
SerialMeansFresh == []OneAtATime => []QuietMeansFresh
=============================================================================
