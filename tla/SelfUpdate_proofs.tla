-------------------------- MODULE SelfUpdate_proofs --------------------------
(***************************************************************************)
(* What holds of an update whatever the patches, batches and bounds are.   *)
(* The state falls into four parts, and an invariant is proved of each:    *)
(* the batches and the goroutines that serve them, the command a call      *)
(* waits for, the files at the site, and the types of the rest.            *)
(***************************************************************************)
EXTENDS SelfUpdate, SequenceTheorems, TLAPS

-----------------------------------------------------------------------------
(* Batches and their goroutines.                                            *)

\* A goroutine at work serves an item of a batch that is there.
WorkHasJob ==
  \A w \in Workers : work[w].at # "idle" => jobs[w[1]] # None /\ w[2] \in DOMAIN List(w[1])

\* While it is at work its item is not over, unless another one shares it.
ItemIsOpen ==
  \A w \in Workers : work[w].at # "idle" /\ List(w[1]) # <<"site", "site">> =>
    jobs[w[1]].items[Site(w)] \in {"pending", "running"}

SiteIsItem == \A j \in Jobs : jobs[j] # None => jobs[j].items["site"] # None

JobInv ==
  /\ work \in [Callers -> Work] /\ jobs \in [Jobs -> {None} \cup Job]
  /\ WorkHasJob /\ ItemIsOpen /\ SiteIsItem /\ JobTellsItems

\* Callers are an item of a batch each, or the operator (gatewayUpdateWorker).
LEMMA WorkerIs ==
  /\ Operator \notin Workers /\ Workers \subseteq Callers /\ Operator \in Callers
  /\ \A w \in Workers : w = <<w[1], w[2]>> /\ w[1] \in Jobs /\ w[2] \in {1, 2}
  /\ \A c \in Callers : c # Operator => c \in Workers
BY CallerAssumption DEF Workers, Callers

\* A batch lists one site or two (CreateMiddlewareUpdateBatch).
LEMMA ListIs ==
  ASSUME NEW list \in Lists
  PROVE  /\ DOMAIN list \subseteq {1, 2} /\ \A i \in DOMAIN list : list[i] \in Sites
         /\ \E i \in DOMAIN list : list[i] = "site"
         /\ list # <<"site", "site">> =>
              \A i, k \in DOMAIN list : list[i] = list[k] => i = k
BY DEF Lists, Sites

\* None is not a job and not the status of an item.
LEMMA NoneIs == None \notin Job /\ None \notin Statuses /\ None \notin Command
BY NoneAssumption

\* The state of a batch's goroutine that has nothing to do (Quiet).
LEMMA QuietIs ==
  ASSUME NEW at \in {"idle", "new", "calling", "waiting"}, NEW kind \in Kinds
  PROVE  Quiet(at, kind) \in Work
BY BoundAssumption DEF Quiet, Work

\* The status finishItem derives tells what the items say (recomputeStatus).
LEMMA StatusTells ==
  ASSUME NEW items \in [Sites -> Statuses \cup {None}], items["site"] # None, NEW status
  PROVE  StatusOf(items, status) \in Statuses /\ Tells(StatusOf(items, status), items)
<1> DEFINE statuses == {items[s] : s \in Sites} \ {None}
<1>1. "site" \in Sites /\ items["site"] \in statuses
  BY DEF Sites
<1>2. statuses \subseteq {"pending", "running", "succeeded", "failed"}
  BY DEF Statuses
<1>3. None \notin {"pending", "running", "succeeded", "failed"}
  BY NoneIs DEF Statuses
<1>4. CASE \E s \in Sites : items[s] \in {"pending", "running"}
  <2>1. PICK s \in Sites : items[s] \in {"pending", "running"}
    BY <1>4
  <2>2. items[s] \in statuses
    BY <2>1, <1>3
  <2> QED
    BY <1>4, <2>1, <2>2 DEF StatusOf, Statuses, Tells
<1>5. CASE ~(\E s \in Sites : items[s] \in {"pending", "running"}) /\ \E s \in Sites : items[s] = "failed"
  <2>1. "failed" \in statuses
    BY <1>5, <1>3
  <2>2. statuses \cap {"pending", "running"} = {}
    BY <1>5
  <2> QED
    BY <1>5, <2>1, <2>2 DEF StatusOf, Statuses, Tells
<1>6. CASE ~(\E s \in Sites : items[s] \in {"pending", "running", "failed"})
  <2>1. statuses = {"succeeded"}
    BY <1>6, <1>1, <1>2
  <2> QED
    BY <1>6, <2>1 DEF StatusOf, Statuses, Tells
<1> QED
  BY <1>4, <1>5, <1>6

\* What the end of a call does: finishItem for a worker (Over).
LEMMA OverOK ==
  ASSUME JobInv, NEW c \in Callers, work[c].at # "idle", NEW ok \in BOOLEAN, Over(c, ok)
  PROVE  /\ JobInv'
         /\ work'[c].at = "idle" /\ work'[c].link = 0
         /\ \A d \in Callers \ {c} : work'[d] = work[d]
         /\ c # Operator /\ ~ok => jobs'[c[1]].items[Site(c)] = "failed"
<1>1. work' \in [Callers -> Work] /\ work'[c].at = "idle" /\ work'[c].link = 0
  <2>1. work[c].try \in Nat
    BY DEF JobInv, Work
  <2>2. [Quiet("idle", "stage") EXCEPT !.try = IF c = Operator THEN work[c].try + 1 ELSE 1] \in Work
    BY <2>1, BoundAssumption DEF Quiet, Work, Kinds
  <2> QED
    BY <2>2 DEF Over, JobInv, Quiet
<1>2. \A d \in Callers \ {c} : work'[d] = work[d]
  BY DEF Over, JobInv
<1>3. CASE c = Operator
  <2>1. jobs' = jobs
    BY <1>3 DEF Over
  <2>2. \A w \in Workers : work'[w] = work[w] /\ List(w[1])' = List(w[1]) /\ Site(w)' = Site(w)
    BY <1>2, <1>3, <2>1, WorkerIs DEF List, Site
  <2>3. WorkHasJob' /\ ItemIsOpen'
    BY <2>1, <2>2 DEF JobInv, WorkHasJob, ItemIsOpen
  <2>4. SiteIsItem' /\ JobTellsItems'
    BY <2>1 DEF JobInv, SiteIsItem, JobTellsItems, List
  <2>5. jobs' \in [Jobs -> {None} \cup Job]
    BY <2>1 DEF JobInv
  <2>6. JobInv'
    BY <1>1, <2>3, <2>4, <2>5 DEF JobInv
  <2> QED
    BY <1>1, <1>2, <1>3, <2>6
<1>4. CASE c # Operator
  <2> DEFINE status == IF ok THEN "succeeded" ELSE "failed"
             items  == [jobs[c[1]].items EXCEPT ![Site(c)] = status]
  <2>1. c \in Workers /\ c[1] \in Jobs /\ jobs[c[1]] \in Job /\ c[2] \in DOMAIN List(c[1])
    BY <1>4, WorkerIs DEF JobInv, WorkHasJob
  <2>2. List(c[1]) \in Lists /\ Site(c) = List(c[1])[c[2]] /\ Site(c) \in Sites
    BY <1>4, <2>1, ListIs DEF Job, List, Site
  <2>3. items \in [Sites -> Statuses \cup {None}] /\ items["site"] # None
    BY <2>1, <2>2, NoneIs DEF Job, Statuses, JobInv, SiteIsItem
  <2>4. jobs' = [jobs EXCEPT ![c[1]].items = items, ![c[1]].status = StatusOf(items, status)]
    BY <1>4 DEF Over
  <2>5. /\ jobs'[c[1]] = [list |-> List(c[1]), status |-> StatusOf(items, status), items |-> items]
        /\ \A j \in Jobs \ {c[1]} : jobs'[j] = jobs[j]
    BY <2>1, <2>4 DEF JobInv, Job, List
  <2>6. ~ok => jobs'[c[1]].items[Site(c)] = "failed"
    BY <2>1, <2>2, <2>5 DEF Job
  <2> HIDE DEF items, status
  <2>7. jobs'[c[1]] \in Job /\ jobs'[c[1]] # None
    BY <2>2, <2>3, <2>5, NoneIs, StatusTells DEF Job
  <2>8. jobs' \in [Jobs -> {None} \cup Job]
    BY <2>4, <2>5, <2>7 DEF JobInv
  <2>9. /\ \A j \in Jobs : jobs[j] # None => List(j)' = List(j)
        /\ \A w \in Workers : jobs[w[1]] # None => Site(w)' = Site(w)
    BY <2>5, WorkerIs DEF List, Site
  <2>10. WorkHasJob'
    BY <1>1, <1>2, <2>5, <2>7, <2>9, WorkerIs DEF WorkHasJob, JobInv
  <2>11. ItemIsOpen'
    <3> SUFFICES ASSUME NEW w \in Workers, work'[w].at # "idle", List(w[1])' # <<"site", "site">>
                 PROVE  jobs'[w[1]].items[Site(w)'] \in {"pending", "running"}
      BY DEF ItemIsOpen
    <3>1. w # c /\ w \in Callers /\ work[w].at # "idle"
      BY <1>1, <1>2, WorkerIs
    <3>2. jobs[w[1]] # None /\ w[2] \in DOMAIN List(w[1]) /\ List(w[1])' = List(w[1]) /\ Site(w)' = Site(w)
      BY <3>1, <2>9, WorkerIs DEF JobInv, WorkHasJob
    <3>3. jobs[w[1]].items[Site(w)] \in {"pending", "running"}
      BY <3>1, <3>2 DEF JobInv, ItemIsOpen
    <3>4. CASE w[1] = c[1]
      <4>1. w[2] # c[2]
        BY <3>1, <3>4, <2>1, WorkerIs
      <4>2. Site(w) = List(c[1])[w[2]]
        BY <3>4, WorkerIs DEF Site
      <4>3. Site(w) # Site(c)
        BY <2>1, <2>2, <3>2, <3>4, <4>1, <4>2, ListIs
      <4>4. Site(w) \in Sites
        BY <2>2, <3>2, <3>4, <4>2, ListIs
      <4> QED
        BY <2>1, <2>5, <3>2, <3>3, <3>4, <4>3, <4>4 DEF Job, items
    <3>5. CASE w[1] # c[1]
      BY <2>5, <3>2, <3>3, <3>5, WorkerIs
    <3> QED
      BY <3>4, <3>5
  <2>12. SiteIsItem'
    <3> SUFFICES ASSUME NEW j \in Jobs, jobs'[j] # None PROVE jobs'[j].items["site"] # None
      BY DEF SiteIsItem
    <3>1. CASE j = c[1]
      BY <2>3, <2>5, <3>1
    <3>2. CASE j # c[1]
      BY <2>5, <3>2 DEF SiteIsItem, JobInv
    <3> QED
      BY <3>1, <3>2
  <2>13. JobTellsItems'
    <3> SUFFICES ASSUME NEW j \in Jobs, jobs'[j] # None, List(j)' # <<"site", "site">>
                 PROVE  Tells(jobs'[j].status, jobs'[j].items)
      BY DEF JobTellsItems
    <3>1. CASE j = c[1]
      <4>1. jobs'[j].status = StatusOf(items, status) /\ jobs'[j].items = items
        BY <2>5, <3>1
      <4> QED
        BY <2>3, <4>1, StatusTells
    <3>2. CASE j # c[1]
      <4>1. jobs'[j] = jobs[j] /\ List(j)' = List(j)
        BY <2>5, <3>2 DEF List
      <4> QED
        BY <4>1 DEF JobInv, JobTellsItems
    <3> QED
      BY <3>1, <3>2
  <2> QED
    BY <1>1, <1>2, <2>8, <2>10, <2>11, <2>12, <2>13, <2>6 DEF JobInv
<1> QED
  BY <1>3, <1>4

\* What a step does that moves one call on and leaves the batches alone (Goes).
LEMMA GoesOK ==
  ASSUME JobInv, NEW c \in Callers, work[c].at # "idle" \/ c = Operator, NEW rest \in Work,
         work' = [work EXCEPT ![c] = rest], UNCHANGED jobs
  PROVE  JobInv' /\ work'[c] = rest /\ \A d \in Callers \ {c} : work'[d] = work[d]
<1>1. work' \in [Callers -> Work] /\ work'[c] = rest /\ \A d \in Callers \ {c} : work'[d] = work[d]
  BY DEF JobInv
<1>2. \A w \in Workers : work'[w].at # "idle" => work[w].at # "idle"
  BY <1>1, WorkerIs
<1>3. \A w \in Workers : List(w[1])' = List(w[1]) /\ Site(w)' = Site(w)
  BY WorkerIs DEF List, Site
<1>4. WorkHasJob' /\ ItemIsOpen'
  BY <1>2, <1>3 DEF JobInv, WorkHasJob, ItemIsOpen
<1>5. SiteIsItem' /\ JobTellsItems'
  BY DEF JobInv, SiteIsItem, JobTellsItems, List
<1>6. jobs' \in [Jobs -> {None} \cup Job]
  BY DEF JobInv
<1>7. JobInv'
  BY <1>1, <1>4, <1>5, <1>6 DEF JobInv
<1> QED
  BY <1>1, <1>7

\* What an answer does: it moves the call that waits for it, or nothing (resolve).
LEMMA ReplyOK ==
  ASSUME JobInv, NEW of, NEW error, Reply(of, error)
  PROVE  /\ JobInv'
         /\ \A d \in Callers :
              IF link.up /\ of.link = link.no /\ IsPending(of, d)
              THEN work'[d].at # "waiting" /\ work'[d].link \in {0, work[d].link}
              ELSE work'[d] = work[d]
<1> DEFINE Waits(d) == link.up /\ of.link = link.no /\ IsPending(of, d)
<1>1. CASE \A c \in Callers : ~Waits(c)
  <2>1. UNCHANGED jobVars
    BY <1>1 DEF Reply
  <2>2. JobInv'
    BY <2>1 DEF JobInv, WorkHasJob, ItemIsOpen, SiteIsItem, JobTellsItems, List, Site, jobVars
  <2> QED
    BY <1>1, <2>1, <2>2 DEF jobVars
<1>2. CASE \E c \in Callers : Waits(c)
  <2>1. PICK c \in Callers :
          Waits(c) /\ IF Again(c, error)
                      THEN /\ Goes(c, "waiting", [work[c] EXCEPT !.at = "calling", !.try = 2])
                           /\ UNCHANGED jobs
                      ELSE Over(c, error = "")
    BY <1>2 DEF Reply
  <2>2. work[c].at = "waiting" /\ \A d \in Callers \ {c} : ~Waits(d)
    BY <2>1 DEF IsPending
  <2>3. CASE Again(c, error)
    <3> DEFINE rest == [work[c] EXCEPT !.at = "calling", !.try = 2]
    <3>1. rest \in Work /\ rest.at = "calling" /\ rest.link = work[c].link
      BY DEF JobInv, Work
    <3>2. work' = [work EXCEPT ![c] = rest] /\ UNCHANGED jobs
      BY <2>1, <2>3 DEF Goes
    <3> HIDE DEF rest
    <3>3. JobInv' /\ work'[c] = rest /\ \A d \in Callers \ {c} : work'[d] = work[d]
      BY <2>2, <3>1, <3>2, GoesOK
    <3> QED
      BY <2>1, <2>2, <3>1, <3>3
  <2>4. CASE ~Again(c, error)
    <3>1. Over(c, error = "") /\ (error = "") \in BOOLEAN
      BY <2>1, <2>4
    <3>2. /\ JobInv'
          /\ work'[c].at = "idle" /\ work'[c].link = 0
          /\ \A d \in Callers \ {c} : work'[d] = work[d]
      BY <2>2, <3>1, OverOK
    <3> QED
      BY <2>1, <2>2, <3>2
  <2> QED
    BY <2>3, <2>4
<1> QED
  BY <1>1, <1>2

\* A batch is created and its goroutines start (CreateMiddlewareUpdateBatch).
LEMMA CreateOK ==
  ASSUME JobInv, NEW j \in Jobs, NEW list \in Lists, NEW action \in {"stage", "apply"},
         uploads \in 0..MaxUploads, CreateMiddlewareUpdateBatch(j, action, list)
  PROVE  /\ JobInv'
         /\ \A d \in Callers : work'[d] = work[d] \/ (work'[d].at = "new" /\ work'[d].link = 0)
<1> DEFINE mine == {<<j, i>> : i \in DOMAIN list}
<1>1. PICK q \in IF action = "stage" THEN 1..uploads ELSE {0} :
        work' = [c \in Callers |-> IF c \in mine
                                   THEN [Quiet("new", action) EXCEPT !.patch = q] ELSE work[c]]
  BY DEF CreateMiddlewareUpdateBatch
<1> DEFINE rest == [Quiet("new", action) EXCEPT !.patch = q]
<1>2. rest \in Work /\ rest.at = "new" /\ rest.link = 0
  BY BoundAssumption DEF Quiet, Work, Kinds
<1> HIDE DEF rest
<1>3. /\ work' \in [Callers -> Work]
      /\ \A d \in Callers : work'[d] = IF d \in mine THEN rest ELSE work[d]
  BY <1>1, <1>2 DEF JobInv, rest
<1> DEFINE job == [list |-> list, status |-> "running",
                   items |-> [s \in Sites |-> IF \E i \in DOMAIN list : list[i] = s THEN "pending" ELSE None]]
<1>4. job \in Job /\ job # None
  BY NoneIs DEF Job, Statuses
<1>5. job.items["site"] = "pending" /\ \A i \in DOMAIN list : job.items[list[i]] = "pending"
  BY ListIs DEF Sites
<1>6. Tells(job.status, job.items)
  <2>1. "pending" # None /\ "pending" \in {job.items[s] : s \in Sites}
    BY <1>5, NoneIs DEF Sites, Statuses
  <2> QED
    BY <2>1 DEF Tells
<1>7. job.list = list
  OBVIOUS
<1>8. jobs' = [jobs EXCEPT ![j] = job] /\ jobs[j] = None
  BY DEF CreateMiddlewareUpdateBatch
<1> HIDE DEF job
<1>9. jobs' \in [Jobs -> {None} \cup Job] /\ jobs'[j] = job /\ \A k \in Jobs \ {j} : jobs'[k] = jobs[k]
  BY <1>4, <1>8 DEF JobInv
<1>10. \A w \in Workers : w[1] = j => work'[w].at = "idle" \/ w \in mine
  BY <1>3, <1>8, WorkerIs DEF JobInv, WorkHasJob
<1>11. \A w \in Workers : w \in mine => w[1] = j /\ w[2] \in DOMAIN list
  OBVIOUS
<1>12. ASSUME NEW w \in Workers, work'[w].at # "idle"
       PROVE  /\ jobs'[w[1]] # None /\ w[2] \in DOMAIN List(w[1])'
              /\ List(w[1])' # <<"site", "site">> => jobs'[w[1]].items[Site(w)'] \in {"pending", "running"}
  <2>1. CASE w[1] = j
    <3>1. w[2] \in DOMAIN list /\ List(w[1])' = list /\ Site(w)' = list[w[2]]
      BY <2>1, <1>7, <1>9, <1>10, <1>11, <1>12, WorkerIs DEF List, Site
    <3> QED
      BY <2>1, <3>1, <1>4, <1>5, <1>9
  <2>2. CASE w[1] # j
    <3>1. work[w].at # "idle" /\ jobs'[w[1]] = jobs[w[1]]
      BY <2>2, <1>3, <1>9, <1>11, <1>12, WorkerIs
    <3>2. List(w[1])' = List(w[1]) /\ Site(w)' = Site(w)
      BY <3>1, WorkerIs DEF List, Site
    <3> QED
      BY <3>1, <3>2 DEF JobInv, WorkHasJob, ItemIsOpen
  <2> QED
    BY <2>1, <2>2
<1>13. WorkHasJob' /\ ItemIsOpen'
  BY <1>12 DEF WorkHasJob, ItemIsOpen
<1>14. SiteIsItem'
  <2> SUFFICES ASSUME NEW k \in Jobs, jobs'[k] # None PROVE jobs'[k].items["site"] # None
    BY DEF SiteIsItem
  <2>1. "pending" # None
    BY NoneIs DEF Statuses
  <2> QED
    BY <2>1, <1>5, <1>9 DEF JobInv, SiteIsItem
<1>15. JobTellsItems'
  <2> SUFFICES ASSUME NEW k \in Jobs, jobs'[k] # None, List(k)' # <<"site", "site">>
               PROVE  Tells(jobs'[k].status, jobs'[k].items)
    BY DEF JobTellsItems
  <2> QED
    BY <1>6, <1>9 DEF JobInv, JobTellsItems, List
<1> QED
  BY <1>2, <1>3, <1>9, <1>13, <1>14, <1>15 DEF JobInv

\* A goroutine takes its item up (markRunning).
LEMMA StartItemOK ==
  ASSUME JobInv, NEW w \in Workers, StartItem(w)
  PROVE  /\ JobInv'
         /\ work'[w].at = "calling" /\ work'[w].link = work[w].link
         /\ \A d \in Callers \ {w} : work'[d] = work[d]
<1> DEFINE rest == [work[w] EXCEPT !.at = "calling"]
<1>1. rest \in Work /\ rest.at = "calling" /\ rest.link = work[w].link
  BY WorkerIs DEF JobInv, Work
<1>2. work[w].at = "new" /\ work' = [work EXCEPT ![w] = rest]
  BY DEF StartItem, Goes
<1> HIDE DEF rest
<1>3. /\ work' \in [Callers -> Work] /\ work'[w] = rest
      /\ \A d \in Callers \ {w} : work'[d] = work[d]
  BY <1>1, <1>2, WorkerIs DEF JobInv
<1>4. w[1] \in Jobs /\ jobs[w[1]] \in Job /\ w[2] \in DOMAIN List(w[1])
  BY <1>2, WorkerIs DEF JobInv, WorkHasJob
<1>5. List(w[1]) \in Lists /\ Site(w) \in Sites
  BY <1>4, WorkerIs, ListIs DEF Job, List, Site
<1> DEFINE items == [jobs[w[1]].items EXCEPT ![Site(w)] = "running"]
<1>6. /\ items \in [Sites -> Statuses \cup {None}] /\ items["site"] # None
      /\ items[Site(w)] = "running"
      /\ \A s \in Sites \ {Site(w)} : items[s] = jobs[w[1]].items[s]
      /\ jobs' = [jobs EXCEPT ![w[1]] = [jobs[w[1]] EXCEPT !.items = items]]
  BY <1>4, <1>5, NoneIs DEF Job, Statuses, JobInv, SiteIsItem, StartItem
<1> HIDE DEF items
<1>7. /\ jobs'[w[1]] = [list |-> List(w[1]), status |-> jobs[w[1]].status, items |-> items]
      /\ \A j \in Jobs \ {w[1]} : jobs'[j] = jobs[j]
      /\ jobs' \in [Jobs -> {None} \cup Job] /\ jobs'[w[1]] \in Job
  <2> DEFINE job == [list |-> List(w[1]), status |-> jobs[w[1]].status, items |-> items]
  <2>1. job \in Job
    BY <1>4, <1>5, <1>6 DEF Job
  <2>2. [jobs[w[1]] EXCEPT !.items = items] = job
    BY <1>4 DEF Job, List
  <2> HIDE DEF job
  <2>3. jobs' \in [Jobs -> {None} \cup Job] /\ jobs'[w[1]] = job /\ \A j \in Jobs \ {w[1]} : jobs'[j] = jobs[j]
    BY <1>6, <2>1, <2>2, <1>4 DEF JobInv
  <2> QED
    BY <2>1, <2>3 DEF job
<1>8. jobs'[w[1]] # None
  BY <1>7, NoneIs
<1>9. /\ \A j \in Jobs : jobs[j] # None => List(j)' = List(j)
      /\ \A v \in Workers : jobs[v[1]] # None => Site(v)' = Site(v)
  BY <1>7, WorkerIs DEF List, Site
<1>10. ASSUME NEW v \in Workers, work'[v].at # "idle"
       PROVE  /\ work[v].at # "idle" /\ jobs[v[1]] # None /\ v[2] \in DOMAIN List(v[1])
              /\ jobs'[v[1]] # None
              /\ List(v[1])' # <<"site", "site">> => jobs'[v[1]].items[Site(v)'] \in {"pending", "running"}
  <2>1. work[v].at # "idle" /\ jobs[v[1]] # None /\ v[2] \in DOMAIN List(v[1])
    BY <1>2, <1>3, <1>10, WorkerIs DEF JobInv, WorkHasJob
  <2>2. jobs'[v[1]] # None /\ List(v[1])' = List(v[1]) /\ Site(v)' = Site(v)
    BY <2>1, <1>7, <1>8, <1>9, WorkerIs
  <2>3. List(v[1]) # <<"site", "site">> => jobs[v[1]].items[Site(v)] \in {"pending", "running"}
    BY <2>1 DEF JobInv, ItemIsOpen
  <2>4. List(v[1]) \in Lists /\ Site(v) \in Sites
    BY <2>1, WorkerIs, ListIs DEF JobInv, Job, List, Site
  <2>5. CASE v[1] = w[1]
    BY <2>1, <2>2, <2>3, <2>4, <2>5, <1>6, <1>7
  <2>6. CASE v[1] # w[1]
    BY <2>1, <2>2, <2>3, <2>6, <1>7, WorkerIs
  <2> QED
    BY <2>5, <2>6
<1>11. WorkHasJob' /\ ItemIsOpen'
  BY <1>9, <1>10, WorkerIs DEF WorkHasJob, ItemIsOpen
<1>12. SiteIsItem'
  BY <1>6, <1>7 DEF JobInv, SiteIsItem
<1>13. JobTellsItems'
  <2> SUFFICES ASSUME NEW j \in Jobs, jobs'[j] # None, List(j)' # <<"site", "site">>
               PROVE  Tells(jobs'[j].status, jobs'[j].items)
    BY DEF JobTellsItems
  <2>1. CASE j = w[1]
    <3>1. List(j) # <<"site", "site">> /\ jobs'[j].status = jobs[j].status /\ jobs'[j].items = items
      BY <2>1, <1>4, <1>7, <1>9, NoneIs
    <3>2. Tells(jobs[j].status, jobs[j].items) /\ jobs[j].items[Site(w)] \in {"pending", "running"}
      BY <2>1, <3>1, <1>2, <1>4, NoneIs DEF JobInv, JobTellsItems, ItemIsOpen
    <3>3. None \notin {"pending", "running"}
      BY NoneIs DEF Statuses
    <3>4. jobs[j].status = "running"
      BY <3>2, <3>3, <1>5 DEF Tells
    <3>5. "running" \in {items[s] : s \in Sites} \ {None}
      BY <3>3, <1>5, <1>6
    <3> QED
      BY <3>1, <3>4, <3>5 DEF Tells
  <2>2. CASE j # w[1]
    BY <2>2, <1>7 DEF JobInv, JobTellsItems, List
  <2> QED
    BY <2>1, <2>2
<1> QED
  BY <1>1, <1>3, <1>7, <1>11, <1>12, <1>13 DEF JobInv

\* A step that leaves batches and goroutines alone keeps what holds of them.
LEMMA JobsStay == ASSUME JobInv, UNCHANGED jobVars PROVE JobInv'
BY DEF JobInv, WorkHasJob, ItemIsOpen, SiteIsItem, JobTellsItems, List, Site, jobVars

\* A restart of the Platform forgets them all (PlatformRestarts).
LEMMA PlatformRestartsOK ==
  ASSUME JobInv, PlatformRestarts
  PROVE  /\ JobInv'
         /\ \A c \in Callers : work'[c].at = "idle" /\ work'[c].link = 0
         /\ \A j \in Jobs : jobs'[j] = None
<1> DEFINE Fresh(c) == [Quiet("idle", "stage") EXCEPT !.try = IF c = Operator THEN work[c].try ELSE 1]
<1>1. \A c \in Callers : Fresh(c) \in Work /\ Fresh(c).at = "idle" /\ Fresh(c).link = 0
  BY BoundAssumption DEF Quiet, Work, Kinds, JobInv
<1>2. work' = [c \in Callers |-> Fresh(c)] /\ jobs' = [j \in Jobs |-> None]
  BY DEF PlatformRestarts
<1> HIDE DEF Fresh
<1>3. work' \in [Callers -> Work] /\ \A c \in Callers : work'[c].at = "idle" /\ work'[c].link = 0
  BY <1>1, <1>2
<1>4. WorkHasJob' /\ ItemIsOpen'
  BY <1>3, WorkerIs DEF WorkHasJob, ItemIsOpen
<1>5. SiteIsItem' /\ JobTellsItems'
  BY <1>2 DEF SiteIsItem, JobTellsItems
<1>6. jobs' \in [Jobs -> {None} \cup Job] /\ \A j \in Jobs : jobs'[j] = None
  BY <1>2
<1>7. JobInv'
  BY <1>3, <1>4, <1>5, <1>6 DEF JobInv
<1> QED
  BY <1>3, <1>6, <1>7

\* A caller's own step changes nobody else (Call, CallFails, CallTimesOut).
LEMMA CallerOK ==
  ASSUME JobInv, link.no \in Nat, NEW c \in Callers, CallFails(c) \/ CallTimesOut(c) \/ Call(c)
  PROVE  /\ JobInv'
         /\ \A d \in Callers \ {c} : work'[d] = work[d]
         /\ Call(c) => /\ work'[c].at = "waiting" /\ work'[c].link = link.no
                       /\ work'[c].try = work[c].try
         /\ ~Call(c) => /\ work'[c].at = "idle" /\ work'[c].link = 0
                        /\ c # Operator => jobs'[c[1]].items[Site(c)] = "failed"
<1>1. CASE Call(c)
  <2> DEFINE rest == [work[c] EXCEPT !.at = "waiting", !.link = link.no]
  <2>1. rest \in Work /\ rest.at = "waiting" /\ rest.link = link.no /\ rest.try = work[c].try
    BY <1>1 DEF JobInv, Work
  <2>2. work' = [work EXCEPT ![c] = rest] /\ UNCHANGED jobs /\ work[c].at # "idle"
    BY <1>1 DEF Call, Goes
  <2> HIDE DEF rest
  <2> QED
    BY <1>1, <2>1, <2>2, GoesOK
<1>2. CASE ~Call(c)
  <2>1. Over(c, FALSE) /\ work[c].at # "idle"
    BY <1>2 DEF CallFails, CallTimesOut
  <2> QED
    BY <1>2, <2>1, OverOK
<1> QED
  BY <1>1, <1>2

-----------------------------------------------------------------------------
(* The types of what is not about batches.                                  *)

SiteTypes ==
  /\ patch \in {None} \cup [id : 1..uploads, package : Packages] /\ uploads \in 0..MaxUploads
  /\ link \in [up : BOOLEAN, no : Nat]
  /\ calls \in Seq(Command)
  /\ stage \in [Stagers -> [step : Steps, package : Packages \cup {None}, of : {None} \cup Command]]
  /\ staged \in [binary : Binaries \cup {None}, manifest : Packages \cup {None}]
  /\ backups \in Seq(Binaries)
  /\ script \in [step : {"none", "sleep", "stopped", "installed"},
                 source : {"staged", "backup", "exe"}, backup : 0..Len(backups)]
  /\ script.step # "none" /\ script.source = "backup" => script.backup # 0
  /\ exe \in Binaries /\ running \in Packages \cup {None}

\* Together with the types of the batches these are the types of the component.
LEMMA TypesAre == JobInv /\ SiteTypes => SelfUpdateTypeOK
BY DEF JobInv, SiteTypes, SelfUpdateTypeOK

\* A step that leaves the site and the connection alone keeps their types.
LEMMA SiteStays ==
  ASSUME SiteTypes, UNCHANGED <<patchVars, linkVars, stageVars, serviceVars>>
  PROVE  SiteTypes'
BY DEF SiteTypes, patchVars, linkVars, stageVars, serviceVars

\* The end of a connection (Closed).
LEMMA ClosedOK ==
  ASSUME SiteTypes, Closed
  PROVE  link' \in [up : BOOLEAN, no : Nat] /\ calls' \in Seq(Command)
         /\ ~link'.up /\ link'.no = link.no /\ calls' = <<>>
<1>1. <<>> \in Seq(Command)
  BY EmptySeq
<1> QED
  BY <1>1 DEF SiteTypes, Closed

\* The next command is a command, and so is what stays behind it (Take).
LEMMA TakeOK ==
  ASSUME SiteTypes, NEW kind, Take(kind)
  PROVE  Head(calls) \in Command /\ calls' \in Seq(Command)
BY DEF SiteTypes, Take

\* What a stage begins, does and ends with is of the stage's type (StageZip).
LEMMA StageOK ==
  ASSUME SiteTypes, NEW s \in Stagers, NEW rest,
         rest \in [step : Steps, package : Packages \cup {None}, of : {None} \cup Command],
         stage' = [stage EXCEPT ![s] = rest]
  PROVE  stage' \in [Stagers -> [step : Steps, package : Packages \cup {None}, of : {None} \cup Command]]
         /\ stage'[s] = rest /\ \A t \in Stagers \ {s} : stage'[t] = stage[t]
BY DEF SiteTypes

LEMMA IdleIs ==
  /\ Idle \in [step : Steps, package : Packages \cup {None}, of : {None} \cup Command]
  /\ Idle.step = "idle" /\ Idle.of = None
BY DEF Idle, Steps

LEMMA StageZipOK ==
  ASSUME SiteTypes, NEW s \in Stagers, NEW p \in Packages, StageZip(s, p)
  PROVE  /\ stage' \in [Stagers -> [step : Steps, package : Packages \cup {None}, of : {None} \cup Command]]
         /\ stage'[s].step = "writing" /\ stage'[s].package = p /\ stage'[s].of = stage[s].of
         /\ \A t \in Stagers \ {s} : stage'[t] = stage[t]
         /\ staged' = [binary |-> Torn, manifest |-> None]
         /\ staged' \in [binary : Binaries \cup {None}, manifest : Packages \cup {None}]
<1> DEFINE rest == [stage[s] EXCEPT !.step = "writing", !.package = p]
<1>1. /\ rest \in [step : Steps, package : Packages \cup {None}, of : {None} \cup Command]
      /\ rest.step = "writing" /\ rest.package = p /\ rest.of = stage[s].of
  BY DEF SiteTypes, Steps
<1>2. stage' = [stage EXCEPT ![s] = rest]
  BY DEF StageZip
<1> HIDE DEF rest
<1>3. staged' = [binary |-> Torn, manifest |-> None]
  BY DEF StageZip, Cleared
<1> QED
  BY <1>1, <1>2, <1>3, StageOK DEF Binaries

\* A stage that ends leaves nothing behind (Ends).
LEMMA EndsOK ==
  ASSUME SiteTypes, NEW s \in Stagers, NEW error, Ends(s, error)
  PROVE  /\ stage' \in [Stagers -> [step : Steps, package : Packages \cup {None}, of : {None} \cup Command]]
         /\ stage'[s] = Idle /\ \A t \in Stagers \ {s} : stage'[t] = stage[t]
BY StageOK, IdleIs DEF Ends

\* What starting the updater script does to its variables (startUpdater).
LEMMA StartUpdaterOK ==
  ASSUME SiteTypes, NEW source \in {"staged", "backup", "exe"}, NEW backup \in 0..Len(backups),
         source = "backup" => backup # 0, Len(backups') \in Nat, Len(backups') >= Len(backups),
         StartUpdater(source, backup)
  PROVE  /\ script' \in [step : {"none", "sleep", "stopped", "installed"},
                         source : {"staged", "backup", "exe"}, backup : 0..Len(backups')]
         /\ script'.step # "none" /\ script'.source = "backup" => script'.backup # 0
<1>1. Len(backups) \in Nat
  BY DEF SiteTypes
<1>2. CASE script.step # "none"
  BY <1>1, <1>2 DEF SiteTypes, StartUpdater
<1>3. CASE script.step = "none"
  BY <1>1, <1>3 DEF SiteTypes, StartUpdater
<1> QED
  BY <1>2, <1>3

\* What one call of the manager does to backups and script (Apply, Rollback).
LEMMA ManageOK ==
  ASSUME SiteTypes, NEW kind, NEW error, Manage(kind, error)
  PROVE  /\ backups' \in Seq(Binaries)
         /\ script' \in [step : {"none", "sleep", "stopped", "installed"},
                         source : {"staged", "backup", "exe"}, backup : 0..Len(backups')]
         /\ script'.step # "none" /\ script'.source = "backup" => script'.backup # 0
<1>1. Len(backups) \in Nat /\ Torn \in Binaries /\ exe \in Binaries
  BY DEF SiteTypes, Binaries
<1>2. CASE kind = "apply" /\ Apply
  <2>1. backups' = Append(backups, exe) /\ StartUpdater("staged", 0)
    BY <1>2 DEF Apply
  <2>2. backups' \in Seq(Binaries) /\ Len(backups') = Len(backups) + 1
    BY <1>1, <2>1 DEF SiteTypes
  <2> QED
    BY <1>1, <2>1, <2>2, StartUpdaterOK
<1>3. CASE UNCHANGED script /\ (UNCHANGED backups \/ backups' = Append(backups, Torn))
  <2>1. backups' \in Seq(Binaries) /\ Len(backups') \in Nat /\ Len(backups') >= Len(backups)
    <3>1. CASE UNCHANGED backups
      BY <1>1, <3>1 DEF SiteTypes
    <3>2. CASE backups' = Append(backups, Torn)
      BY <1>1, <3>2 DEF SiteTypes
    <3> QED
      BY <1>3, <3>1, <3>2
  <2> QED
    BY <1>1, <1>3, <2>1 DEF SiteTypes
<1>4. CASE UNCHANGED backups /\ backups # <<>> /\ StartUpdater("backup", Len(backups))
  <2>1. Len(backups) # 0
    BY <1>4 DEF SiteTypes
  <2> QED
    BY <1>1, <1>4, <2>1, StartUpdaterOK DEF SiteTypes
<1>5. CASE UNCHANGED backups /\ StartUpdater("exe", 0)
  BY <1>1, <1>5, StartUpdaterOK DEF SiteTypes
<1> QED
  BY <1>2, <1>3, <1>4, <1>5 DEF Manage, LatestBackup

\* No step of the component leaves the types of the site and the connection.
LEMMA SiteTypesNext == ASSUME JobInv, SiteTypes, SelfUpdateNext PROVE SiteTypes'
<1>1. ASSUME NEW p \in Patches, UploadMiddlewarePatch(p) PROVE SiteTypes'
  <2>1. p \in Packages /\ uploads' \in 1..MaxUploads /\ uploads' = uploads + 1
    BY <1>1, PackageAssumption, BoundAssumption DEF UploadMiddlewarePatch, SiteTypes
  <2>2. patch' \in [id : 1..uploads', package : Packages]
    BY <1>1, <2>1, BoundAssumption DEF UploadMiddlewarePatch, SiteTypes
  <2> QED
    BY <1>1, <2>1, <2>2, BoundAssumption
    DEF UploadMiddlewarePatch, SiteTypes, linkVars, stageVars, serviceVars
<1>2. CASE DeleteMiddlewarePatch
  BY <1>2 DEF DeleteMiddlewarePatch, SiteTypes, linkVars, stageVars, serviceVars
<1>3. ASSUME NEW j \in Jobs, NEW list \in Lists, NEW action \in {"stage", "apply"},
             CreateMiddlewareUpdateBatch(j, action, list)
      PROVE  SiteTypes'
  BY <1>3, SiteStays DEF CreateMiddlewareUpdateBatch
<1>4. ASSUME NEW w \in Workers, StartItem(w) PROVE SiteTypes'
  BY <1>4, SiteStays DEF StartItem
<1>5. ASSUME NEW kind, OperatorCalls(kind) PROVE SiteTypes'
  BY <1>5, SiteStays DEF OperatorCalls
<1>6. ASSUME NEW c \in Callers, CallFails(c) \/ CallTimesOut(c) PROVE SiteTypes'
  BY <1>6, SiteStays DEF CallFails, CallTimesOut
<1>7. ASSUME NEW c \in Callers, Call(c) PROVE SiteTypes'
  <2> DEFINE frame == [by |-> c, try |-> work[c].try, kind |-> work[c].kind,
                       patch |-> work[c].patch, link |-> link.no]
  <2>1. frame \in Command
    BY DEF JobInv, SiteTypes, Work, Command
  <2>2. calls' = Append(calls, frame)
    BY <1>7 DEF Call
  <2> HIDE DEF frame
  <2>3. calls' \in Seq(Command)
    BY <2>1, <2>2 DEF SiteTypes
  <2> QED
    BY <1>7, <2>3 DEF Call, SiteTypes, patchVars, stageVars, serviceVars
<1>8. CASE Drop \/ PlatformRestarts
  <2>1. Closed /\ UNCHANGED <<patchVars, stageVars, serviceVars>>
    BY <1>8 DEF Drop, PlatformRestarts
  <2> QED
    BY <2>1, ClosedOK DEF SiteTypes, patchVars, stageVars, serviceVars
<1>9. CASE Connect
  BY <1>9 DEF Connect, SiteTypes, patchVars, stageVars, serviceVars
<1>10. CASE TakeStage
  <2>1. Head(calls) \in Command /\ calls' \in Seq(Command)
    BY <1>10, TakeOK DEF TakeStage
  <2> DEFINE rest == [step |-> "download", package |-> None, of |-> Head(calls)]
  <2>2. rest \in [step : Steps, package : Packages \cup {None}, of : {None} \cup Command]
    BY <2>1 DEF Steps
  <2>3. stage' = [stage EXCEPT !["command"] = rest] /\ "command" \in Stagers
    BY <1>10 DEF TakeStage, Stagers
  <2> HIDE DEF rest
  <2>4. stage' \in [Stagers -> [step : Steps, package : Packages \cup {None}, of : {None} \cup Command]]
    BY <2>2, <2>3, StageOK
  <2> QED
    BY <1>10, <2>1, <2>4 DEF TakeStage, SiteTypes, patchVars, serviceVars
<1>11. CASE BridgeRefuses
  <2>1. calls' \in Seq(Command)
    BY <1>11, TakeOK DEF BridgeRefuses
  <2> QED
    BY <1>11, <2>1 DEF BridgeRefuses, SiteTypes, patchVars, stageVars, serviceVars
<1>12. ASSUME NEW s \in Stagers, NEW error,
              Ends(s, error), UNCHANGED <<patchVars, linkVars, staged, serviceVars>>
       PROVE  SiteTypes'
  BY <1>12, EndsOK DEF SiteTypes, patchVars, linkVars, serviceVars
<1>13. CASE StageRefused
  BY <1>13, <1>12 DEF StageRefused, Stagers
<1>14. ASSUME NEW s \in Stagers, NEW error, StageFails(s, error) PROVE SiteTypes'
  BY <1>14, <1>12 DEF StageFails
<1>15. ASSUME NEW s \in Stagers, NEW p \in Packages, StageZip(s, p),
              UNCHANGED <<patchVars, linkVars, serviceVars>>
       PROVE  SiteTypes'
  BY <1>15, StageZipOK DEF SiteTypes, patchVars, linkVars, serviceVars
<1>16. CASE StageUpdate
  <2>1. patch.package \in Packages /\ "command" \in Stagers
    BY <1>16 DEF StageUpdate, Served, SiteTypes, Stagers
  <2> QED
    BY <1>16, <2>1, <1>15 DEF StageUpdate
<1>17. ASSUME NEW p \in Patches, UpdateUpload(p) PROVE SiteTypes'
  BY <1>17, <1>15, PackageAssumption DEF UpdateUpload, Stagers
<1>18. ASSUME NEW s \in Stagers, WriteBinary(s) PROVE SiteTypes'
  <2> DEFINE rest == [stage[s] EXCEPT !.step = "written"]
  <2>1. /\ rest \in [step : Steps, package : Packages \cup {None}, of : {None} \cup Command]
        /\ stage' = [stage EXCEPT ![s] = rest]
    BY <1>18 DEF WriteBinary, SiteTypes, Steps
  <2> HIDE DEF rest
  <2>2. stage' \in [Stagers -> [step : Steps, package : Packages \cup {None}, of : {None} \cup Command]]
    BY <2>1, StageOK
  <2>3. staged' \in [binary : Binaries \cup {None}, manifest : Packages \cup {None}]
    BY <1>18 DEF WriteBinary, SiteTypes, Binaries
  <2> QED
    BY <1>18, <2>2, <2>3 DEF WriteBinary, SiteTypes, patchVars, linkVars, serviceVars
<1>19. ASSUME NEW s \in Stagers, WriteManifest(s) PROVE SiteTypes'
  <2>1. staged' \in [binary : Binaries \cup {None}, manifest : Packages \cup {None}]
    BY <1>19 DEF WriteManifest, SiteTypes
  <2>2. stage' \in [Stagers -> [step : Steps, package : Packages \cup {None}, of : {None} \cup Command]]
    BY <1>19, EndsOK DEF WriteManifest
  <2> QED
    BY <1>19, <2>1, <2>2 DEF WriteManifest, SiteTypes, patchVars, linkVars, serviceVars
<1>20. ASSUME NEW kind, NEW error, TakeManage(kind, error) PROVE SiteTypes'
  <2>1. calls' \in Seq(Command)
    BY <1>20, TakeOK DEF TakeManage
  <2>2. Manage(kind, error)
    BY <1>20 DEF TakeManage
  <2> QED
    BY <1>20, <2>1, <2>2, ManageOK DEF TakeManage, SiteTypes, patchVars, stageVars
<1>21. ASSUME NEW kind, NEW error, LocalManage(kind, error) PROVE SiteTypes'
  <2>1. Manage(kind, error)
    BY <1>21 DEF LocalManage
  <2> QED
    BY <1>21, <2>1, ManageOK DEF LocalManage, SiteTypes, patchVars, linkVars, stageVars
<1>22. ASSUME ProcessEnds
       PROVE  /\ stage' \in [Stagers -> [step : Steps, package : Packages \cup {None}, of : {None} \cup Command]]
              /\ link' \in [up : BOOLEAN, no : Nat] /\ calls' \in Seq(Command)
  BY <1>22, IdleIs, ClosedOK DEF ProcessEnds
<1>23. CASE ScriptStops
  BY <1>23, <1>22 DEF ScriptStops, SiteTypes, patchVars
<1>24. CASE ScriptInstalls
  <2>1. CASE Source = None
    BY <1>24, <2>1 DEF ScriptInstalls, SiteTypes, patchVars, linkVars, stageVars
  <2>2. CASE Source # None
    <3>1. Source \in Binaries
      <4>1. script.source = "backup" => script.backup \in 1..Len(backups)
        BY <1>24 DEF ScriptInstalls, SiteTypes
      <4>2. script.source = "backup" => backups[script.backup] \in Binaries
        BY <4>1 DEF SiteTypes
      <4> QED
        BY <2>2, <4>2 DEF Source, SiteTypes
    <3>2. exe' \in Binaries
      BY <1>24, <2>2, <3>1 DEF ScriptInstalls, Binaries
    <3> QED
      BY <1>24, <3>2 DEF ScriptInstalls, SiteTypes, patchVars, linkVars, stageVars
  <2> QED
    BY <2>1, <2>2
<1>25. CASE ScriptStarts
  <2>1. running' \in Packages \cup {None}
    BY <1>25 DEF ScriptStarts, Started, SiteTypes, Binaries
  <2>2. script' = [step |-> "none", source |-> "exe", backup |-> 0] /\ Len(backups) \in Nat
    BY <1>25 DEF ScriptStarts, NoScript, SiteTypes
  <2> QED
    BY <1>25, <2>1, <2>2 DEF ScriptStarts, SiteTypes, patchVars, linkVars, stageVars
<1>26. CASE ServiceCrashes
  BY <1>26, <1>22 DEF ServiceCrashes, SiteTypes, patchVars, serviceVars
<1> QED
  BY <1>1, <1>2, <1>3, <1>4, <1>5, <1>6, <1>7, <1>8, <1>9, <1>10, <1>11, <1>13, <1>14, <1>16,
     <1>17, <1>18, <1>19, <1>20, <1>21, <1>23, <1>24, <1>25, <1>26
  DEF SelfUpdateNext, Uploads, Batches, Channel, Stages, Services

\* No step of the component leaves the invariant of the batches.
LEMMA JobsNext == ASSUME JobInv, SiteTypes, SelfUpdateNext PROVE JobInv'
<1>1. CASE Uploads \/ Drop \/ Connect \/ TakeStage \/ StageUpdate
           \/ (\E p \in Patches : UpdateUpload(p)) \/ (\E s \in Stagers : WriteBinary(s))
           \/ (\E kind \in Kinds, error \in {"", "refused"} : LocalManage(kind, error))
           \/ ScriptStops \/ ScriptInstalls \/ ScriptStarts \/ ServiceCrashes
  <2>1. UNCHANGED jobVars
    BY <1>1 DEF Uploads, UploadMiddlewarePatch, DeleteMiddlewarePatch, Drop, Connect, TakeStage,
       StageUpdate, UpdateUpload, WriteBinary, LocalManage, ScriptStops, ScriptInstalls,
       ScriptStarts, ServiceCrashes
  <2> QED
    BY <2>1, JobsStay
<1>2. ASSUME NEW j \in Jobs, NEW list \in Lists, NEW action \in {"stage", "apply"},
             CreateMiddlewareUpdateBatch(j, action, list)
      PROVE  JobInv'
  BY <1>2, CreateOK DEF SiteTypes
<1>3. ASSUME NEW w \in Workers, StartItem(w) PROVE JobInv'
  BY <1>3, StartItemOK
<1>4. ASSUME NEW kind \in Kinds, OperatorCalls(kind) PROVE JobInv'
  <2> DEFINE rest == [work[Operator] EXCEPT !.at = "calling", !.kind = kind]
  <2>1. rest \in Work /\ work' = [work EXCEPT ![Operator] = rest] /\ UNCHANGED jobs
    BY <1>4, WorkerIs DEF OperatorCalls, Goes, JobInv, Work
  <2> HIDE DEF rest
  <2> QED
    BY <2>1, GoesOK, WorkerIs
<1>5. ASSUME NEW c \in Callers, CallFails(c) \/ Call(c) \/ CallTimesOut(c) PROVE JobInv'
  BY <1>5, CallerOK DEF SiteTypes
<1>6. CASE PlatformRestarts
  BY <1>6, PlatformRestartsOK
<1>7. CASE BridgeRefuses
  BY <1>7, ReplyOK DEF BridgeRefuses, Busy
<1>8. ASSUME NEW s \in Stagers, NEW error, Ends(s, error) PROVE JobInv'
  BY <1>8, ReplyOK, JobsStay DEF Ends
<1>9. CASE StageRefused
  BY <1>9, <1>8 DEF StageRefused, Stagers
<1>10. ASSUME NEW s \in Stagers, NEW error, StageFails(s, error) PROVE JobInv'
  BY <1>10, <1>8 DEF StageFails
<1>11. ASSUME NEW s \in Stagers, WriteManifest(s) PROVE JobInv'
  BY <1>11, <1>8 DEF WriteManifest
<1>12. ASSUME NEW kind, NEW error, TakeManage(kind, error) PROVE JobInv'
  BY <1>12, ReplyOK DEF TakeManage
<1>13. {"apply", "rollback", "restart"} \subseteq Kinds
  BY DEF Kinds
<1> QED
  BY <1>1, <1>2, <1>3, <1>4, <1>5, <1>6, <1>7, <1>9, <1>10, <1>11, <1>12, <1>13
  DEF SelfUpdateNext, Batches, Channel, Stages, Services

-----------------------------------------------------------------------------
(* The command a call waits for.                                            *)

\* Where the command of a live call may be: on the connection or in the stage.
Frames == {calls[i] : i \in DOMAIN calls} \cup ({stage["command"].of} \ {None})

CallOnLink ==
  \A c \in Callers : work[c].at = "waiting" /\ link.up /\ work[c].link = link.no =>
    \E of \in Frames : of.by = c /\ of.try = work[c].try /\ of.link = link.no

CallInv ==
  /\ \A c \in Callers : work[c].link <= link.no
  /\ stage["command"].step # "idle" <=> stage["command"].of # None
  /\ CallOnLink

LEMMA CallInvImplies == CallInv => LiveCallIsSomewhere
BY DEF CallInv, CallOnLink, Frames, LiveCallIsSomewhere

\* A step that wakes whoever waits for a frame it removes (Reply).
LEMMA FramesOK ==
  ASSUME CallInv, UNCHANGED link,
         \A d \in Callers : work'[d] = work[d] \/ work'[d].at # "waiting",
         \A f \in Frames \ Frames', d \in Callers :
           link.up /\ f.link = link.no /\ IsPending(f, d) => work'[d].at # "waiting"
  PROVE  CallOnLink'
<1> SUFFICES ASSUME NEW c \in Callers, work'[c].at = "waiting", link'.up, work'[c].link = link'.no
             PROVE  \E of \in Frames' : of.by = c /\ of.try = work'[c].try /\ of.link = link'.no
  BY DEF CallOnLink
<1>1. work'[c] = work[c]
  OBVIOUS
<1>2. PICK of \in Frames : of.by = c /\ of.try = work[c].try /\ of.link = link.no
  BY <1>1 DEF CallInv, CallOnLink
<1>3. IsPending(of, c)
  BY <1>1, <1>2 DEF IsPending
<1>4. of \in Frames'
  BY <1>2, <1>3
<1> QED
  BY <1>1, <1>2, <1>4

\* Only the head of the commands goes when one is taken (Take).
LEMMA TakenFrames ==
  ASSUME SiteTypes, NEW kind, Take(kind)
  PROVE  /\ Head(calls) \in Frames /\ Head(calls) # None
         /\ \A i \in DOMAIN calls : calls[i] = Head(calls) \/ \E k \in DOMAIN calls' : calls'[k] = calls[i]
<1>1. calls \in Seq(Command) /\ calls # <<>> /\ calls' = Tail(calls)
  BY DEF SiteTypes, Take
<1>2. 1 \in DOMAIN calls /\ Head(calls) = calls[1] /\ Head(calls) \in Command
  BY <1>1
<1>3. ASSUME NEW i \in DOMAIN calls, i # 1 PROVE i - 1 \in DOMAIN calls' /\ calls'[i - 1] = calls[i]
  BY <1>1, <1>3
<1> QED
  BY <1>2, <1>3, NoneIs DEF Frames

\* What an answer to a frame that leaves does to the calls (Reply).
LEMMA AnsweredOK ==
  ASSUME CallInv, SiteTypes, JobInv, UNCHANGED link, NEW of, NEW error, Reply(of, error),
         \A f \in Frames : f = of \/ f \in Frames'
  PROVE  CallOnLink' /\ \A c \in Callers : work'[c].link <= link'.no
<1>1. \A d \in Callers :
        IF link.up /\ of.link = link.no /\ IsPending(of, d)
        THEN work'[d].at # "waiting" /\ work'[d].link \in {0, work[d].link}
        ELSE work'[d] = work[d]
  BY ReplyOK
<1>2. CallOnLink'
  BY <1>1, FramesOK
<1>3. \A c \in Callers : work'[c].link \in {0, work[c].link}
  BY <1>1
<1>4. link.no \in Nat /\ link'.no = link.no
  BY DEF SiteTypes
<1>5. ASSUME NEW c \in Callers PROVE work'[c].link <= link'.no
  <2>1. work[c].link <= link.no
    BY DEF CallInv
  <2> QED
    BY <2>1, <1>3, <1>4
<1> QED
  BY <1>2, <1>5

\* A step that leaves calls, link and the command's stage alone.
LEMMA CallStays ==
  ASSUME CallInv, UNCHANGED <<work, link, calls>>, UNCHANGED stage["command"]
  PROVE  CallInv'
BY DEF CallInv, CallOnLink, Frames

\* The connection is down: no call waits for a command on it.
LEMMA DownOK ==
  ASSUME CallInv, SiteTypes, Closed, UNCHANGED work,
         stage'["command"].step # "idle" <=> stage'["command"].of # None
  PROVE  CallInv'
<1>1. ~link'.up /\ link'.no = link.no
  BY ClosedOK
<1> QED
  BY <1>1 DEF CallInv, CallOnLink

\* No step of the component leaves the invariant of the calls.
LEMMA CallsNext == ASSUME JobInv, SiteTypes, CallInv, SelfUpdateNext PROVE CallInv'
<1> USE DEF Stagers
<1>1. CASE Uploads \/ (\E p \in Patches : UpdateUpload(p))
           \/ (\E kind \in Kinds, error \in {"", "refused"} : LocalManage(kind, error))
           \/ ScriptInstalls \/ ScriptStarts
  <2>1. UNCHANGED <<work, link, calls>>
    BY <1>1 DEF Uploads, UploadMiddlewarePatch, DeleteMiddlewarePatch, UpdateUpload, LocalManage,
       ScriptInstalls, ScriptStarts, jobVars, linkVars
  <2>2. CASE \E p \in Patches : UpdateUpload(p)
    <3>1. UNCHANGED stage["command"]
      BY <2>2, StageZipOK, PackageAssumption DEF UpdateUpload
    <3> QED
      BY <2>1, <3>1, CallStays
  <2>3. CASE ~(\E p \in Patches : UpdateUpload(p))
    <3>1. UNCHANGED stage
      BY <1>1, <2>3 DEF Uploads, UploadMiddlewarePatch, DeleteMiddlewarePatch, LocalManage,
         ScriptInstalls, ScriptStarts, stageVars
    <3> QED
      BY <2>1, <3>1, CallStays
  <2> QED
    BY <2>2, <2>3
<1>2. ASSUME UNCHANGED <<link, calls, stage>>,
             \A d \in Callers : \/ work'[d] = work[d]
                                \/ work'[d].at # "waiting" /\ work'[d].link \in {0, work[d].link}
      PROVE  CallInv'
  <2>1. Frames' = Frames
    BY <1>2 DEF Frames
  <2>2. CallOnLink'
    BY <1>2, <2>1, FramesOK
  <2>3. \A d \in Callers : work'[d].link \in {0, work[d].link}
    BY <1>2
  <2>4. \A d \in Callers : work'[d].link <= link'.no
    BY <1>2, <2>3 DEF CallInv, SiteTypes
  <2> QED
    BY <1>2, <2>2, <2>4 DEF CallInv
<1>3. ASSUME NEW j \in Jobs, NEW list \in Lists, NEW action \in {"stage", "apply"},
             CreateMiddlewareUpdateBatch(j, action, list)
      PROVE  CallInv'
  <2>1. UNCHANGED <<link, calls, stage>>
    BY <1>3 DEF CreateMiddlewareUpdateBatch, linkVars, stageVars
  <2>2. \A d \in Callers : work'[d] = work[d] \/ (work'[d].at = "new" /\ work'[d].link = 0)
    BY <1>3, CreateOK DEF SiteTypes
  <2> QED
    BY <2>1, <2>2, <1>2
<1>4. ASSUME NEW w \in Workers, StartItem(w) PROVE CallInv'
  BY <1>4, <1>2, StartItemOK DEF StartItem, linkVars, stageVars
<1>5. ASSUME NEW kind \in Kinds, OperatorCalls(kind) PROVE CallInv'
  <2>1. work' = [work EXCEPT ![Operator] = [work[Operator] EXCEPT !.at = "calling", !.kind = kind]]
        /\ UNCHANGED <<link, calls, stage>>
    BY <1>5 DEF OperatorCalls, Goes, linkVars, stageVars
  <2> QED
    BY <2>1, <1>2, WorkerIs DEF JobInv, Work
<1>6. ASSUME NEW c \in Callers, CallFails(c) \/ CallTimesOut(c) PROVE CallInv'
  <2>1. ~Call(c)
    BY <1>6 DEF CallFails, CallTimesOut, Call, Goes
  <2> QED
    BY <1>6, <2>1, <1>2, CallerOK DEF CallFails, CallTimesOut, SiteTypes, linkVars, stageVars
<1>7. ASSUME NEW c \in Callers, Call(c) PROVE CallInv'
  <2> DEFINE frame == [by |-> c, try |-> work[c].try, kind |-> work[c].kind,
                       patch |-> work[c].patch, link |-> link.no]
  <2>1. frame.by = c /\ frame.try = work[c].try /\ frame.link = link.no
    OBVIOUS
  <2>2. calls' = Append(calls, frame) /\ UNCHANGED <<link, stage>>
    BY <1>7 DEF Call, stageVars
  <2> HIDE DEF frame
  <2>3. frame \in Frames' /\ \A f \in Frames : f \in Frames'
    <3>1. /\ \A i \in DOMAIN calls : i \in DOMAIN calls' /\ calls'[i] = calls[i]
          /\ Len(calls) + 1 \in DOMAIN calls' /\ calls'[Len(calls) + 1] = frame
      BY <2>2 DEF SiteTypes
    <3> QED
      BY <2>2, <3>1 DEF Frames
  <2>4. /\ work'[c].at = "waiting" /\ work'[c].link = link.no /\ work'[c].try = work[c].try
        /\ \A d \in Callers \ {c} : work'[d] = work[d]
    BY <1>7, CallerOK DEF SiteTypes
  <2>5. CallOnLink'
    <3> SUFFICES ASSUME NEW d \in Callers, work'[d].at = "waiting", link'.up, work'[d].link = link'.no
                 PROVE  \E of \in Frames' : of.by = d /\ of.try = work'[d].try /\ of.link = link'.no
      BY DEF CallOnLink
    <3>1. CASE d = c
      BY <3>1, <2>1, <2>2, <2>3, <2>4
    <3>2. CASE d # c
      BY <3>2, <2>2, <2>3, <2>4 DEF CallInv, CallOnLink
    <3> QED
      BY <3>1, <3>2
  <2>6. \A d \in Callers : work'[d].link <= link'.no
    BY <2>2, <2>4 DEF CallInv, SiteTypes
  <2> QED
    BY <2>2, <2>5, <2>6 DEF CallInv
<1>8. CASE Drop
  BY <1>8, DownOK DEF Drop, CallInv, jobVars, stageVars
<1>9. CASE Connect
  <2>1. /\ link'.no = link.no + 1 /\ link.no \in Nat /\ UNCHANGED <<work, stage>>
    BY <1>9 DEF Connect, SiteTypes, jobVars, stageVars
  <2>2. \A c \in Callers : work[c].link \in Nat /\ work[c].link <= link.no
    BY DEF CallInv, JobInv, Work
  <2>3. \A c \in Callers : work'[c].link <= link'.no /\ work'[c].link # link'.no
    BY <2>1, <2>2
  <2> QED
    BY <2>1, <2>3 DEF CallInv, CallOnLink
<1>10. CASE PlatformRestarts
  <2>1. ~link'.up /\ link'.no = link.no /\ link.no \in Nat /\ UNCHANGED stage
    BY <1>10, ClosedOK DEF PlatformRestarts, stageVars, SiteTypes
  <2>2. \A c \in Callers : work'[c].link = 0
    BY <1>10, PlatformRestartsOK
  <2> QED
    BY <2>1, <2>2 DEF CallInv, CallOnLink
<1>11. CASE TakeStage
  <2> DEFINE rest == [step |-> "download", package |-> None, of |-> Head(calls)]
  <2>1. stage["command"].of = None /\ UNCHANGED <<work, link>>
    BY <1>11 DEF TakeStage, CallInv, jobVars
  <2>2. stage'["command"].of = Head(calls) /\ stage'["command"].step = "download"
    BY <1>11 DEF TakeStage, SiteTypes
  <2>3. Head(calls) # None
    BY <1>11, TakenFrames DEF TakeStage
  <2>4. \A f \in Frames : f \in Frames'
    BY <1>11, <2>1, <2>2, <2>3, TakenFrames DEF TakeStage, Frames
  <2>5. CallOnLink'
    BY <2>1, <2>4, FramesOK
  <2> QED
    BY <2>1, <2>2, <2>3, <2>5 DEF CallInv
<1>12. ASSUME NEW kind, NEW error, Take(kind), Reply(Head(calls), error), UNCHANGED <<link, stage>>
       PROVE  CallInv'
  <2>1. \A f \in Frames : f = Head(calls) \/ f \in Frames'
    BY <1>12, TakenFrames DEF Frames
  <2> QED
    BY <1>12, <2>1, AnsweredOK DEF CallInv
<1>13. CASE BridgeRefuses
  BY <1>13, <1>12 DEF BridgeRefuses, Busy, stageVars
<1>14. ASSUME NEW kind, NEW error, TakeManage(kind, error) PROVE CallInv'
  BY <1>14, <1>12 DEF TakeManage, stageVars
<1>15. ASSUME NEW s \in Stagers, NEW error, Ends(s, error), UNCHANGED <<link, calls>> PROVE CallInv'
  <2>1. CASE s = "command"
    <3>1. Reply(stage["command"].of, error) /\ stage'["command"].of = None /\ stage'["command"].step = "idle"
      BY <1>15, <2>1, EndsOK, IdleIs DEF Ends
    <3>2. \A f \in Frames : f = stage["command"].of \/ f \in Frames'
      BY <1>15 DEF Frames
    <3> QED
      BY <1>15, <3>1, <3>2, AnsweredOK DEF CallInv
  <2>2. CASE s # "command"
    BY <1>15, <2>2, EndsOK, CallStays DEF Ends, jobVars
  <2> QED
    BY <2>1, <2>2
<1>16. CASE StageRefused
  BY <1>16, <1>15 DEF StageRefused, linkVars
<1>17. ASSUME NEW s \in Stagers, NEW error, StageFails(s, error) PROVE CallInv'
  BY <1>17, <1>15 DEF StageFails, linkVars
<1>18. ASSUME NEW s \in Stagers, WriteManifest(s) PROVE CallInv'
  BY <1>18, <1>15 DEF WriteManifest, linkVars
<1>19. ASSUME NEW s \in Stagers, stage[s].step # "idle", stage'[s].step # "idle",
              stage'[s].of = stage[s].of, \A t \in Stagers \ {s} : stage'[t] = stage[t],
              UNCHANGED <<work, link, calls>>
       PROVE  CallInv'
  <2>1. stage'["command"].of = stage["command"].of
        /\ (stage'["command"].step # "idle" <=> stage["command"].step # "idle")
    BY <1>19
  <2>2. Frames' = Frames
    BY <1>19, <2>1 DEF Frames
  <2> QED
    BY <1>19, <2>1, <2>2 DEF CallInv, CallOnLink
<1>20. CASE StageUpdate
  <2>1. stage["command"].step = "download" /\ StageZip("command", patch.package) /\ patch.package \in Packages
    BY <1>20 DEF StageUpdate, Served, SiteTypes
  <2>2. /\ stage'["command"].step = "writing" /\ stage'["command"].of = stage["command"].of
        /\ \A t \in Stagers \ {"command"} : stage'[t] = stage[t]
    BY <2>1, StageZipOK
  <2> QED
    BY <1>20, <2>1, <2>2, <1>19 DEF StageUpdate, jobVars, linkVars
<1>21. ASSUME NEW s \in Stagers, WriteBinary(s) PROVE CallInv'
  <2>1. /\ stage[s].step # "idle" /\ stage'[s].step # "idle" /\ stage'[s].of = stage[s].of
        /\ \A t \in Stagers \ {s} : stage'[t] = stage[t]
    BY <1>21 DEF WriteBinary, SiteTypes
  <2> QED
    BY <1>21, <2>1, <1>19 DEF WriteBinary, jobVars, linkVars
<1>22. ASSUME ProcessEnds, UNCHANGED work PROVE CallInv'
  BY <1>22, DownOK, IdleIs DEF ProcessEnds
<1>23. CASE ScriptStops \/ ServiceCrashes
  BY <1>23, <1>22 DEF ScriptStops, ServiceCrashes, jobVars
<1>24. {"apply", "rollback", "restart"} \subseteq Kinds
  BY DEF Kinds
<1> QED
  BY <1>1, <1>3, <1>4, <1>5, <1>6, <1>7, <1>8, <1>9, <1>10, <1>11, <1>13, <1>14, <1>16,
     <1>17, <1>18, <1>20, <1>21, <1>23, <1>24
  DEF SelfUpdateNext, Batches, Channel, Stages, Services

-----------------------------------------------------------------------------
(* The files at the site.                                                   *)

\* What a copy of a binary may be: cut short only once a copy was.
Copies == Fitting \cup (IF cut THEN {Torn} ELSE {})

\* What the files are as long as nobody shared the staged directory.
FilesAreWhole ==
  /\ exe \in Copies
  /\ \A i \in DOMAIN backups : backups[i] \in Copies
  /\ \A s \in Stagers : Writing(s) => stage[s].package \in Fitting /\ staged.manifest = None
  /\ \A s \in Stagers : stage[s].step = "written" => staged.binary = stage[s].package
  /\ \A s, t \in Stagers : Writing(s) /\ Writing(t) => s = t
  /\ staged.manifest # None => staged.binary \in Fitting
  /\ script.step # "none" /\ script.source = "staged" => staged.manifest # None

FileInv == shared \/ FilesAreWhole

LEMMA FileInvImplies == FileInv => InstalledIsWhole
BY DEF FileInv, FilesAreWhole, Copies, InstalledIsWhole

\* A step that writes no file, and that may end stages but begins none.
LEMMA FilesStay ==
  ASSUME FilesAreWhole, UNCHANGED <<staged, backups, script, exe, cut>>,
         \A s \in Stagers : stage'[s] = stage[s] \/ stage'[s].step \in {"idle", "download"}
  PROVE  FilesAreWhole'
<1>1. \A s \in Stagers : Writing(s)' => Writing(s) /\ stage'[s] = stage[s]
  BY DEF Writing
<1>2. \A s \in Stagers : stage'[s].step = "written" => stage'[s] = stage[s]
  OBVIOUS
<1> QED
  BY <1>1, <1>2 DEF FilesAreWhole, Copies

\* The directory is cleared and one writer begins (StageZip).
LEMMA StageZipWhole ==
  ASSUME FilesAreWhole, SiteTypes, NEW s \in Stagers, NEW p \in Fitting, StageZip(s, p),
         ~shared', UNCHANGED <<backups, script, exe, cut>>
  PROVE  FilesAreWhole'
<1>1. /\ \A t \in Stagers \ {s} : ~Writing(t)
      /\ ~(script.step # "none" /\ script.source = "staged")
  BY DEF StageZip
<1>2. p \in Packages
  BY PackageAssumption
<1>3. /\ stage'[s].step = "writing" /\ stage'[s].package = p
      /\ \A t \in Stagers \ {s} : stage'[t] = stage[t]
      /\ staged' = [binary |-> Torn, manifest |-> None]
  BY <1>2, StageZipOK
<1>4. \A t \in Stagers : Writing(t)' <=> t = s
  BY <1>1, <1>3 DEF Writing
<1>5. \A t \in Stagers : stage'[t].step # "written"
  BY <1>1, <1>3 DEF Writing
<1> QED
  BY <1>1, <1>3, <1>4, <1>5 DEF FilesAreWhole, Copies

\* The script that is started finds what it installs (startUpdater).
LEMMA ManageWhole ==
  ASSUME FilesAreWhole, SiteTypes, NEW kind, NEW error, Manage(kind, error), Copies \subseteq Copies',
         UNCHANGED <<stage, staged, exe>>
  PROVE  FilesAreWhole'
<1>1. \A s \in Stagers : Writing(s)' <=> Writing(s)
  BY DEF Writing
<1>2. CASE kind = "apply" /\ staged.manifest # None /\ Apply
  <2>1. backups' = Append(backups, exe) /\ (script' = script \/ staged.manifest # None)
    BY <1>2 DEF Apply
  <2>2. \A i \in DOMAIN backups' : backups'[i] \in Copies'
    BY <2>1 DEF SiteTypes, FilesAreWhole
  <2> QED
    BY <1>1, <1>2, <2>2 DEF FilesAreWhole
<1>3. CASE UNCHANGED <<backups, script>>
  BY <1>1, <1>3 DEF FilesAreWhole
<1>4. CASE backups' = Append(backups, Torn) /\ cut' = TRUE /\ UNCHANGED script
  <2>1. \A i \in DOMAIN backups' : backups'[i] \in Copies'
    BY <1>4 DEF SiteTypes, FilesAreWhole, Copies
  <2> QED
    BY <1>1, <1>4, <2>1 DEF FilesAreWhole
<1>5. CASE UNCHANGED backups /\ \E b : StartUpdater("backup", b) \/ StartUpdater("exe", b)
  <2>1. script'.step # "none" /\ script'.source = "staged" =>
          script.step # "none" /\ script.source = "staged"
    BY <1>5 DEF StartUpdater
  <2> QED
    BY <1>1, <1>5, <2>1 DEF FilesAreWhole
<1> QED
  BY <1>2, <1>3, <1>4, <1>5 DEF Manage

\* No step of the component leaves the invariant of the files.
LEMMA FilesNext == ASSUME SiteTypes, FileInv, SelfUpdateNext PROVE FileInv'
<1> SUFFICES ASSUME ~shared' PROVE FilesAreWhole'
  BY DEF FileInv
<1>1. ~shared /\ (cut => cut')
  <2>1. CASE UNCHANGED <<shared, cut>>
    BY <2>1
  <2>2. ASSUME NEW s \in Stagers, NEW p, StageZip(s, p), UNCHANGED cut PROVE ~shared /\ (cut => cut')
    BY <2>2 DEF StageZip
  <2>3. ASSUME NEW kind, NEW error, Manage(kind, error), UNCHANGED shared PROVE ~shared /\ (cut => cut')
    <3>1. UNCHANGED cut \/ cut' = TRUE
      BY <2>3 DEF Manage
    <3> QED
      BY <2>3, <3>1
  <2>4. CASE StageUpdate \/ \E p \in Patches : UpdateUpload(p)
    BY <2>2, <2>4 DEF StageUpdate, UpdateUpload, Stagers, serviceVars
  <2>5. CASE \E kind \in Kinds, error \in {"", "refused"} : TakeManage(kind, error) \/ LocalManage(kind, error)
    BY <2>3, <2>5 DEF TakeManage, LocalManage, stageVars
  <2>6. CASE Uploads \/ Batches \/ Channel \/ BridgeRefuses
    <3>1. UNCHANGED <<shared, cut>>
      BY <2>6 DEF Uploads, Batches, Channel, UploadMiddlewarePatch,
         DeleteMiddlewarePatch, CreateMiddlewareUpdateBatch, StartItem, OperatorCalls, CallFails,
         Call, CallTimesOut, Drop, Connect, PlatformRestarts, BridgeRefuses, stageVars, serviceVars
    <3> QED
      BY <3>1, <2>1
  <2>7. CASE TakeStage \/ StageRefused \/ ScriptStops \/ ScriptStarts \/ ServiceCrashes
             \/ \E s \in Stagers : \/ \E error \in {"deadline", "refused"} : StageFails(s, error)
                                   \/ WriteBinary(s) \/ WriteManifest(s)
    <3>1. UNCHANGED <<shared, cut>>
      BY <2>7 DEF TakeStage, StageRefused, StageFails, WriteBinary, WriteManifest, ScriptStops,
         ScriptStarts, ServiceCrashes, stageVars, serviceVars
    <3> QED
      BY <3>1, <2>1
  <2>8. CASE ScriptInstalls
    BY <2>8 DEF ScriptInstalls, stageVars
  <2> QED
    BY <2>4, <2>5, <2>6, <2>7, <2>8 DEF SelfUpdateNext, Stages, Services
<1>2. FilesAreWhole /\ Copies \subseteq Copies'
  BY <1>1 DEF FileInv, Copies
<1>3. CASE Uploads \/ Batches \/ Channel \/ BridgeRefuses
  <2>1. UNCHANGED <<staged, backups, script, exe, cut, stage>>
    BY <1>3 DEF Uploads, Batches, Channel, UploadMiddlewarePatch,
       DeleteMiddlewarePatch, CreateMiddlewareUpdateBatch, StartItem, OperatorCalls, CallFails,
       Call, CallTimesOut, Drop, Connect, PlatformRestarts, BridgeRefuses, stageVars, serviceVars
  <2> QED
    BY <2>1, <1>2, FilesStay
<1>4. CASE TakeStage
  <2>1. \A s \in Stagers : stage'[s] = stage[s] \/ stage'[s].step = "download"
    BY <1>4 DEF TakeStage, SiteTypes
  <2> QED
    BY <1>2, <1>4, <2>1, FilesStay DEF TakeStage, serviceVars
<1>5. ASSUME NEW s \in Stagers, NEW error, Ends(s, error), UNCHANGED <<staged, serviceVars>>
      PROVE  FilesAreWhole'
  BY <1>2, <1>5, EndsOK, IdleIs, FilesStay DEF serviceVars
<1>6. CASE StageRefused
  BY <1>5, <1>6 DEF StageRefused, Stagers
<1>7. ASSUME NEW s \in Stagers, NEW error, StageFails(s, error) PROVE FilesAreWhole'
  BY <1>5, <1>7 DEF StageFails
<1>8. CASE StageUpdate
  BY <1>2, <1>8, StageZipWhole DEF StageUpdate, StageZip, Stagers, serviceVars
<1>9. ASSUME NEW p \in Patches, UpdateUpload(p) PROVE FilesAreWhole'
  BY <1>2, <1>9, StageZipWhole DEF UpdateUpload, StageZip, Stagers, serviceVars
<1>10. ASSUME NEW s \in Stagers, WriteBinary(s) PROVE FilesAreWhole'
  <2>1. /\ stage[s].step = "writing" /\ stage'[s].step = "written" /\ stage'[s].package = stage[s].package
        /\ \A t \in Stagers \ {s} : stage'[t] = stage[t]
        /\ staged'.binary = stage[s].package /\ staged'.manifest = staged.manifest
        /\ UNCHANGED <<backups, script, exe>>
    BY <1>10 DEF WriteBinary, SiteTypes, serviceVars
  <2>2. Writing(s) /\ \A t \in Stagers : Writing(t)' <=> Writing(t)
    BY <2>1 DEF Writing
  <2>3. stage[s].package \in Fitting /\ staged.manifest = None
    BY <2>2, <1>2 DEF FilesAreWhole
  <2>4. \A t \in Stagers \ {s} : ~Writing(t) /\ stage'[t].step # "written"
    BY <2>1, <2>2, <1>2 DEF FilesAreWhole, Writing
  <2> QED
    BY <2>1, <2>2, <2>3, <2>4, <1>2 DEF FilesAreWhole
<1>11. ASSUME NEW s \in Stagers, WriteManifest(s) PROVE FilesAreWhole'
  <2>1. /\ stage[s].step = "written" /\ stage'[s].step = "idle"
        /\ \A t \in Stagers \ {s} : stage'[t] = stage[t]
        /\ staged'.binary = staged.binary /\ UNCHANGED <<backups, script, exe>>
    BY <1>11, EndsOK, IdleIs DEF WriteManifest, SiteTypes, serviceVars
  <2>2. Writing(s) /\ stage[s].package \in Fitting /\ staged.binary = stage[s].package
        /\ staged.manifest = None
    BY <2>1, <1>2 DEF FilesAreWhole, Writing
  <2>3. \A t \in Stagers : ~Writing(t)' /\ stage'[t].step # "written"
    BY <2>1, <2>2, <1>2 DEF FilesAreWhole, Writing
  <2> QED
    BY <2>1, <2>2, <2>3, <1>2 DEF FilesAreWhole
<1>12. ASSUME NEW kind, NEW error, TakeManage(kind, error) \/ LocalManage(kind, error) PROVE FilesAreWhole'
  <2>1. Manage(kind, error) /\ UNCHANGED <<stage, staged, exe>>
    BY <1>12 DEF TakeManage, LocalManage, stageVars
  <2> QED
    BY <1>2, <2>1, ManageWhole
<1>13. ASSUME ProcessEnds PROVE \A s \in Stagers : stage'[s].step = "idle"
  BY <1>13, IdleIs DEF ProcessEnds
<1>14. CASE ServiceCrashes
  BY <1>2, <1>13, <1>14, FilesStay DEF ServiceCrashes, serviceVars
<1>15. CASE ScriptStops
  <2>1. script'.step = "stopped" /\ script'.source = script.source /\ script.step # "none"
    BY <1>15 DEF ScriptStops, SiteTypes
  <2>2. \A s \in Stagers : ~Writing(s)' /\ stage'[s].step # "written"
    BY <1>13, <1>15 DEF ScriptStops, Writing
  <2> QED
    BY <1>2, <1>15, <2>1, <2>2 DEF ScriptStops, FilesAreWhole
<1>16. CASE ScriptInstalls
  <2>1. script.step = "stopped" /\ script'.step = "installed" /\ script'.source = script.source
        /\ UNCHANGED <<stage, staged, backups>>
    BY <1>16 DEF ScriptInstalls, SiteTypes, stageVars
  <2>2. script.source = "backup" => script.backup \in DOMAIN backups
    BY <2>1 DEF SiteTypes
  <2>3. Source \in Copies
    BY <1>2, <2>1, <2>2 DEF Source, FilesAreWhole, SiteTypes, Copies
  <2>4. exe' \in Copies'
    BY <1>2, <1>16, <2>3 DEF ScriptInstalls, FilesAreWhole, Copies
  <2>5. \A s \in Stagers : Writing(s)' <=> Writing(s)
    BY <2>1 DEF Writing
  <2> QED
    BY <1>2, <2>1, <2>4, <2>5 DEF FilesAreWhole
<1>17. CASE ScriptStarts
  <2>1. script'.step = "none" /\ UNCHANGED <<stage, staged, backups, exe>>
    BY <1>17 DEF ScriptStarts, NoScript, stageVars
  <2>2. \A s \in Stagers : Writing(s)' <=> Writing(s)
    BY <2>1 DEF Writing
  <2> QED
    BY <1>2, <2>1, <2>2 DEF FilesAreWhole
<1> QED
  BY <1>3, <1>4, <1>6, <1>7, <1>8, <1>9, <1>10, <1>11, <1>12, <1>14, <1>15, <1>16, <1>17
  DEF SelfUpdateNext, Stages, Services

-----------------------------------------------------------------------------
(* The invariant and what follows from it.                                  *)

SelfUpdateInv == JobInv /\ SiteTypes /\ CallInv /\ FileInv

\* SelfUpdateInit establishes the invariant (NewHub, NewManager).
LEMMA SelfUpdateInitInv == SelfUpdateInit => SelfUpdateInv
<1> SUFFICES ASSUME SelfUpdateInit PROVE SelfUpdateInv
  OBVIOUS
<1> USE DEF SelfUpdateInit
<1>1. Quiet("idle", "stage") \in Work /\ Quiet("idle", "stage").at = "idle" /\ Quiet("idle", "stage").link = 0
  BY BoundAssumption DEF Quiet, Work, Kinds
<1>2. work \in [Callers -> Work] /\ \A c \in Callers : work[c].at = "idle" /\ work[c].link = 0
  BY <1>1
<1>3. JobInv
  BY <1>2, WorkerIs DEF JobInv, WorkHasJob, ItemIsOpen, SiteIsItem, JobTellsItems
<1>4. /\ stage \in [Stagers -> [step : Steps, package : Packages \cup {None}, of : {None} \cup Command]]
      /\ \A s \in Stagers : stage[s].step = "idle" /\ stage[s].of = None
  BY IdleIs
<1>5. <<>> \in Seq(Command) /\ <<>> \in Seq(Binaries) /\ Len(<<>>) = 0
  BY EmptySeq
<1>6. exe \in Packages
  BY PackageAssumption
<1>7. SiteTypes
  BY <1>4, <1>5, <1>6, BoundAssumption DEF SiteTypes, Binaries, NoScript
<1>8. CallInv
  BY <1>2, <1>4 DEF CallInv, CallOnLink, Stagers
<1>9. FileInv
  BY <1>4 DEF FileInv, FilesAreWhole, Copies, Writing, NoScript
<1> QED
  BY <1>3, <1>7, <1>8, <1>9 DEF SelfUpdateInv

LEMMA SelfUpdateNextInv == SelfUpdateInv /\ [SelfUpdateNext]_vars => SelfUpdateInv'
<1>1. ASSUME SelfUpdateInv, SelfUpdateNext PROVE SelfUpdateInv'
  BY <1>1, JobsNext, SiteTypesNext, CallsNext, FilesNext DEF SelfUpdateInv
<1>2. ASSUME SelfUpdateInv, UNCHANGED vars PROVE SelfUpdateInv'
  <2> USE <1>2 DEF SelfUpdateInv, vars, patchVars, jobVars, linkVars, stageVars, serviceVars
  <2>1. JobInv'
    BY JobsStay
  <2>2. SiteTypes'
    BY SiteStays
  <2>3. CallInv'
    BY CallStays
  <2>4. FileInv'
    BY FilesStay DEF FileInv
  <2> QED
    BY <2>1, <2>2, <2>3, <2>4
<1> QED
  BY <1>1, <1>2

LEMMA SelfUpdateInvariance == SelfUpdateSpec => []SelfUpdateInv
BY SelfUpdateInitInv, SelfUpdateNextInv, PTL DEF SelfUpdateSpec

\* Every variable keeps the type it is declared with: the rows and files of
\* patches, the jobs in memory, the stages, the script and the binaries.
THEOREM SelfUpdateTypeCorrect == SelfUpdateSpec => []SelfUpdateTypeOK
<1>1. SelfUpdateInv => SelfUpdateTypeOK
  BY TypesAre DEF SelfUpdateInv
<1> QED
  BY <1>1, SelfUpdateInvariance, PTL

\* Unless the staged directory was shared, what Apply, Rollback and the script
\* leave installed is a whole binary that fits the site, whatever the number of
\* uploads, faults and runs; torn it is only once a copy of a binary, to a
\* backup or onto the installed file, was cut short.
THEOREM InstalledBinaryIsWhole == SelfUpdateSpec => []InstalledIsWhole
<1>1. SelfUpdateInv => InstalledIsWhole
  BY FileInvImplies DEF SelfUpdateInv
<1> QED
  BY <1>1, SelfUpdateInvariance, PTL

\* The command of a call whose connection lives is on the connection or in the
\* stage of the site (Hub.run, the client's command loop and the bridge).
THEOREM NoLiveCallIsLost == SelfUpdateSpec => []LiveCallIsSomewhere
<1>1. SelfUpdateInv => LiveCallIsSomewhere
  BY CallInvImplies DEF SelfUpdateInv
<1> QED
  BY <1>1, SelfUpdateInvariance, PTL

\* The status of a batch agrees with its items as long as it names each site once
\* (finishItem and recomputeStatus).
THEOREM StatusFollowsItems == SelfUpdateSpec => []JobTellsItems
<1>1. SelfUpdateInv => JobTellsItems
  BY DEF SelfUpdateInv, JobInv
<1> QED
  BY <1>1, SelfUpdateInvariance, PTL

\* What a step in which an item of a batch succeeds has at hand.
Done(w) ==
  work[w].at # "idle" /\ work'[w].at = "idle" /\ jobs'[w[1]] # None
  /\ jobs'[w[1]].items[Site(w)] = "succeeded" =>
    \E of \in InHand : of.by = w /\ of.try = work[w].try /\ of.link = link.no

\* An answer ends only the call it belongs to, on the connection that lives.
LEMMA ReplyIsDone ==
  ASSUME JobInv, NEW w \in Workers, NEW of \in InHand, NEW error, Reply(of, error)
  PROVE  Done(w)
<1>1. w \in Callers
  BY WorkerIs
<1>2. work'[w] = work[w] \/ (of.link = link.no /\ IsPending(of, w))
  BY <1>1, ReplyOK
<1> QED
  BY <1>2 DEF Done, IsPending

\* The command at the head of the connection is at hand (InHand).
LEMMA HeadInHand == ASSUME SiteTypes, NEW kind, Take(kind) PROVE Head(calls) \in InHand
<1>1. 1 \in DOMAIN calls
  BY DEF SiteTypes, Take
<1> QED
  BY <1>1 DEF InHand

LEMMA StepIsDone == ASSUME SelfUpdateInv, SelfUpdateNext, NEW w \in Workers PROVE Done(w)
<1> USE DEF SelfUpdateInv
<1>0. w \in Callers /\ w # Operator /\ w[1] \in Jobs
  BY WorkerIs
<1>1. ASSUME UNCHANGED work PROVE Done(w)
  BY <1>1 DEF Done
<1>2. CASE Uploads \/ Drop \/ Connect \/ TakeStage \/ StageUpdate
           \/ (\E p \in Patches : UpdateUpload(p)) \/ (\E s \in Stagers : WriteBinary(s))
           \/ (\E kind \in Kinds, error \in {"", "refused"} : LocalManage(kind, error))
           \/ ScriptStops \/ ScriptInstalls \/ ScriptStarts \/ ServiceCrashes
  <2>1. UNCHANGED work
    BY <1>2 DEF Uploads, UploadMiddlewarePatch, DeleteMiddlewarePatch, Drop, Connect, TakeStage,
       StageUpdate, UpdateUpload, WriteBinary, LocalManage, ScriptStops, ScriptInstalls,
       ScriptStarts, ServiceCrashes, jobVars
  <2> QED
    BY <2>1, <1>1
<1>3. ASSUME NEW j \in Jobs, NEW list \in Lists, NEW action \in {"stage", "apply"},
             CreateMiddlewareUpdateBatch(j, action, list)
      PROVE  Done(w)
  <2>1. work'[w] = work[w] \/ work'[w].at = "new"
    BY <1>0, <1>3, CreateOK DEF SiteTypes
  <2> QED
    BY <2>1 DEF Done
<1>4. ASSUME NEW v \in Workers, StartItem(v) PROVE Done(w)
  BY <1>0, <1>4, StartItemOK DEF Done
<1>5. ASSUME NEW kind \in Kinds, OperatorCalls(kind) PROVE Done(w)
  BY <1>0, <1>5 DEF OperatorCalls, Goes, JobInv, Done
<1>6. ASSUME NEW c \in Callers, CallFails(c) \/ Call(c) \/ CallTimesOut(c) PROVE Done(w)
  BY <1>0, <1>6, CallerOK DEF SiteTypes, Done
<1>7. CASE PlatformRestarts
  BY <1>0, <1>7, PlatformRestartsOK DEF Done
<1>8. CASE BridgeRefuses
  BY <1>8, HeadInHand, ReplyIsDone DEF BridgeRefuses, Busy
<1>9. ASSUME NEW s \in Stagers, NEW error, Ends(s, error), stage[s].step # "idle" PROVE Done(w)
  <2>1. CASE s = "command"
    <3>1. stage["command"].of \in InHand /\ Reply(stage["command"].of, error)
      BY <1>9, <2>1 DEF CallInv, InHand, Ends
    <3> QED
      BY <3>1, ReplyIsDone
  <2>2. CASE s # "command"
    BY <1>9, <2>2, <1>1 DEF Ends, jobVars
  <2> QED
    BY <2>1, <2>2
<1>10. CASE StageRefused
  BY <1>9, <1>10 DEF StageRefused, Stagers
<1>11. ASSUME NEW s \in Stagers, NEW error, StageFails(s, error) PROVE Done(w)
  BY <1>9, <1>11 DEF StageFails
<1>12. ASSUME NEW s \in Stagers, WriteManifest(s) PROVE Done(w)
  BY <1>9, <1>12 DEF WriteManifest
<1>13. ASSUME NEW kind, NEW error, TakeManage(kind, error) PROVE Done(w)
  BY <1>13, HeadInHand, ReplyIsDone DEF TakeManage
<1>14. {"apply", "rollback", "restart"} \subseteq Kinds
  BY DEF Kinds
<1> QED
  BY <1>2, <1>3, <1>4, <1>5, <1>6, <1>7, <1>8, <1>10, <1>11, <1>12, <1>13, <1>14
  DEF SelfUpdateNext, Batches, Channel, Stages, Services

\* An item of a batch succeeds only in a step in which the site answers a command
\* of its own, on the connection that lives: no timeout, no restart and no answer
\* to another call is taken for it (Call, resolve and finishItem).
THEOREM OnlyDoneSucceeds == SelfUpdateSpec => SucceededIsDone
<1>1. SelfUpdateInv /\ [SelfUpdateNext]_vars => [\A w \in Workers : Done(w)]_vars
  BY StepIsDone
<1> QED
  BY <1>1, SelfUpdateInvariance, PTL DEF SelfUpdateSpec, SucceededIsDone, Done
=============================================================================
