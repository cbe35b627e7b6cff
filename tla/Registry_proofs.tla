--------------------------- MODULE Registry_proofs ---------------------------
(***************************************************************************)
(* What holds of the registry for any number of requests at once: types,   *)
(* references between the rows, nothing slipping in between the statements *)
(* of a hard deletion, and undisturbed imports taking effect.              *)
(***************************************************************************)
EXTENDS Registry, TLAPS

\* What a deletion names is of its kind, and a device is there or gone for good.
NamesItsKind(r) ==
  /\ r.what = "plant" => r.of \in Plant
  /\ r.what = "device" => r.of \in Device /\ r.of \in Live \cup gone
  /\ r.what = "model" => r.of \in Name

\* The way stays clear that a deletion has cleared.
WayIsClear(r) ==
  /\ r.at = "cleared" /\ r.what # "model" => RefsOf(Victims(r)) \subseteq r.swept
  /\ r.at = "removed" => Victims(r) \subseteq r.ds /\ RefsOf(r.ds) \subseteq r.swept

DeletionOK(r) == NamesItsKind(r) /\ WayIsClear(r)

\* An import has an address in hand between its two transactions.
ImportOK(r) == r.op = "import" /\ r.at \in {"profile", "address"} => r.addr \in Addr

DeletionsOK == \A q \in Request, r \in Deletion : req[q] = r => DeletionOK(r)
ImportsOK   == \A q \in Request : ImportOK(req[q])

IndInv == RegistryTypeOK /\ ReferencesHold /\ DeletionsOK /\ ImportsOK

-----------------------------------------------------------------------------
(* Requests.                                                                *)

\* The kinds of requests are told apart by their op.
LEMMA Kinds ==
  ASSUME NEW r \in Requests
  PROVE  /\ r.op = "idle" => r = Idle
         /\ r.op = "delete" => r \in Deletion
         /\ r.op = "import" => r \in Importing
         /\ r.op = "csv" => r \in CsvImport
         /\ r.op \in {"idle", "delete", "import", "csv"}
  BY DEF Requests, Idle, Deletion, Importing, CsvImport

\* A commit disturbs imports only, and only in whether they are alone (Disturbed).
LEMMA DisturbedImport ==
  ASSUME NEW r \in Importing
  PROVE  /\ NotAlone(r) \in Importing
         /\ NotAlone(r).op = "import"
         /\ NotAlone(r).at = r.at
         /\ NotAlone(r).addr = r.addr
  BY DEF Importing, NotAlone

\* Only whether an import is alone changes for the others when a transaction commits.
LEMMA DisturbedOK ==
  ASSUME req \in [Request -> Requests], NEW q
  PROVE  /\ Disturbed(q) \in [Request -> Requests]
         /\ \A p \in Request : req[p].op # "import" => Disturbed(q)[p] = req[p]
         /\ \A p \in Request : req[p].op = "import" =>
              /\ Disturbed(q)[p].op = "import"
              /\ Disturbed(q)[p].at = req[p].at /\ Disturbed(q)[p].addr = req[p].addr
<1>1. \A p \in Request : req[p].op = "import" => req[p] \in Importing
  BY Kinds
<1>2. \A p \in Request : Disturbed(q)[p] = IF p # q /\ req[p].op = "import" THEN NotAlone(req[p]) ELSE req[p]
  BY DEF Disturbed
<1>3. \A r \in Importing : r \in Requests
  BY DEF Requests
<1>4. Disturbed(q) = [p \in Request |-> Disturbed(q)[p]]
  BY DEF Disturbed
<1>5. ASSUME NEW p \in Request
      PROVE  /\ Disturbed(q)[p] \in Requests
             /\ req[p].op # "import" => Disturbed(q)[p] = req[p]
             /\ req[p].op = "import" =>
                  /\ Disturbed(q)[p].op = "import"
                  /\ Disturbed(q)[p].at = req[p].at /\ Disturbed(q)[p].addr = req[p].addr
  <2>1. CASE p # q /\ req[p].op = "import"
    BY <2>1, <1>1, <1>2, <1>3, DisturbedImport
  <2>2. CASE ~(p # q /\ req[p].op = "import")
    BY <2>2, <1>2
  <2> QED
    BY <2>1, <2>2
<1> QED
  BY <1>4, <1>5

\* The deletions of the others stay what they are.
OthersKept(q) == \A p \in Request \ {q} : req'[p].op = "delete" => req'[p] = req[p]

\* What a step makes of the requests (Goto, Alone, Next1).
LEMMA GotoOK ==
  ASSUME req \in [Request -> Requests], ImportsOK,
         NEW q \in Request, NEW r \in Requests, ImportOK(r),
         Goto(q, r) \/ req' = [req EXCEPT ![q] = r]
  PROVE  req' \in [Request -> Requests] /\ ImportsOK' /\ OthersKept(q) /\ req'[q] = r
<1>1. CASE Goto(q, r)
  <2>1. req' = [Disturbed(q) EXCEPT ![q] = r]
    BY <1>1 DEF Goto
  <2>2. req' \in [Request -> Requests] /\ req'[q] = r /\ \A p \in Request \ {q} : req'[p] = Disturbed(q)[p]
    BY <2>1, DisturbedOK
  <2> QED
    BY <2>2, DisturbedOK DEF ImportsOK, ImportOK, OthersKept
<1>2. CASE req' = [req EXCEPT ![q] = r]
  BY <1>2 DEF ImportsOK, ImportOK, OthersKept
<1> QED
  BY <1>1, <1>2

\* Every deletion stays what it is.
AllKept == \A p \in Request : req'[p].op = "delete" => req'[p] = req[p]

\* A transaction of its own leaves every deletion and every import where it was (Alone).
LEMMA AloneOK ==
  ASSUME req \in [Request -> Requests], ImportsOK, req' = Disturbed(None) \/ req' = req
  PROVE  req' \in [Request -> Requests] /\ ImportsOK' /\ AllKept
  BY DisturbedOK DEF ImportsOK, ImportOK, AllKept

-----------------------------------------------------------------------------
(* Rows.                                                                    *)

RowTypes ==
  /\ DOMAIN plants \subseteq Plant /\ \A p \in DOMAIN plants : plants[p] \in BOOLEAN
  /\ gone \subseteq Plant \cup Device
  /\ gateways \in [Gateway -> {None, "active", "inactive"}]
  /\ DOMAIN serves \subseteq Plant /\ \A p \in DOMAIN serves : serves[p] \in Gateway
  /\ Model \subseteq Name /\ \A m \in Model : models[m] \in [name : Name, profile : Profile]
  /\ DOMAIN maps \subseteq Profile /\ \A f \in DOMAIN maps : maps[f] \subseteq Addr
  /\ DOMAIN rows = Model /\ \A m \in Model : rows[m] \subseteq Addr
  /\ Live \subseteq Device /\ \A d \in Live : devices[d] \in [model : Name, active : BOOLEAN]
  /\ own \subseteq Device \X Addr /\ refs \subseteq Device \X RefKinds

\* The type invariant, the rows and the requests apart.
LEMMA TypeParts == RegistryTypeOK <=> RowTypes /\ req \in [Request -> Requests] /\ edits \in Nat
  BY DEF RegistryTypeOK, RowTypes

\* New devices and new rows that name one keep clear of the deletions under way, and a
\* device that goes is gone for good.
Orderly ==
  /\ gone \subseteq gone' /\ Live \subseteq Live' \cup gone'
  /\ \A d \in Live' : d \notin Live => d \notin gone /\ ~Deleting("plant", Home[d])
  /\ \A d \in Live' : \/ d \in Live /\ devices'[d].model = devices[d].model
                      \/ ~Deleting("model", devices'[d].model)
  /\ \A x \in refs' : \A d : d = x[1] /\ x \notin refs =>
       d \in Live /\ ~Deleting("device", d) /\ ~Removed(d) /\ ~Deleting("plant", Home[d])

\* What the rows become under an orderly step.
Fine == RowTypes' /\ ReferencesHold' /\ Orderly

\* An orderly step keeps the way of the deletions clear that it leaves alone
\* (HardDeletePlant, HardDeleteDevice, HardDeleteDeviceModel).
LEMMA DeletionKept ==
  ASSUME IndInv, Orderly, NEW q \in Request, NEW r \in Deletion, req[q] = r
  PROVE  DeletionOK(r)'
<1>1. NamesItsKind(r) /\ WayIsClear(r)
  BY DEF IndInv, DeletionsOK, DeletionOK
<1>2. \A x \in refs : x[1] \in Live
  BY DEF IndInv, ReferencesHold
<1>3. r.what \in Deletes /\ Deleting(r.what, r.of) /\ \A d \in r.ds : Removed(d)
  BY DEF Deletion, Deleting, Removed
<1>4. NamesItsKind(r)'
  BY <1>1 DEF NamesItsKind, Orderly
<1>5. \A d \in Live' : d \in Live \/ r.what # "plant" \/ Home[d] # r.of
  BY <1>3 DEF Orderly
<1>6. \A d \in Live' : d \in Live \/ r.what # "device" \/ d # r.of
  BY <1>1 DEF Orderly, NamesItsKind
<1>7. ASSUME r.at = "cleared", r.what # "model", NEW x \in RefsOf(Victims(r))' PROVE x \in r.swept
  <2>1. x \in refs' /\ x[1] \in Victims(r)'
    BY <1>7 DEF RefsOf
  <2> PICK d : d = x[1]
    OBVIOUS
  <2>2. d \in Victims(r)'
    BY <2>1
  <2>3. d \in Live' /\ \/ r.what = "plant" /\ Home[d] = r.of
                       \/ r.what = "device" /\ d = r.of
                       \/ r.what = "model" /\ devices'[d].model = r.of
    BY <2>2 DEF Victims
  <2>4. x \notin refs => ~Deleting("device", d) /\ ~Deleting("plant", Home[d])
    BY <2>1 DEF Orderly
  <2>5. x \in refs
    BY <2>3, <2>4, <1>3, <1>7
  <2>6. d \in Victims(r)
    BY <2>3, <2>5, <1>2, <1>7 DEF Victims
  <2>7. x \in RefsOf(Victims(r))
    BY <2>6, <2>5 DEF RefsOf
  <2> QED
    BY <2>7, <1>1, <1>7 DEF WayIsClear
<1>8. ASSUME r.at = "removed", NEW d \in Victims(r)' PROVE d \in r.ds
  <2>1. d \in Live' /\ \/ r.what = "plant" /\ Home[d] = r.of
                       \/ r.what = "device" /\ d = r.of
                       \/ r.what = "model" /\ devices'[d].model = r.of
    BY <1>8 DEF Victims
  <2>2. d \in Victims(r)
    BY <2>1, <1>5, <1>6, <1>3 DEF Victims, Orderly
  <2> QED
    BY <2>2, <1>1, <1>8 DEF WayIsClear
<1>9. ASSUME r.at = "removed", NEW x \in RefsOf(r.ds)' PROVE x \in r.swept
  <2>1. x \in refs' /\ x[1] \in r.ds
    BY <1>9 DEF RefsOf
  <2>2. x \in RefsOf(r.ds)
    BY <2>1, <1>3 DEF Orderly, RefsOf
  <2> QED
    BY <2>2, <1>1, <1>9 DEF WayIsClear
<1>10. WayIsClear(r)'
  BY <1>7, <1>8, <1>9 DEF WayIsClear
<1> QED
  BY <1>4, <1>10 DEF DeletionOK

\* A step whose rows are fine and that leaves the deletions alone keeps the invariant.
LEMMA Conclude ==
  ASSUME IndInv, Fine, req' \in [Request -> Requests], ImportsOK', AllKept, edits' \in Nat
  PROVE  IndInv'
<1>1. RegistryTypeOK'
  BY DEF Fine, RegistryTypeOK, RowTypes
<1>2. ASSUME NEW q \in Request, NEW r \in Deletion, req'[q] = r PROVE DeletionOK(r)'
  <2>1. req[q] = r
    BY <1>2 DEF AllKept, Deletion
  <2> QED
    BY <2>1, DeletionKept DEF Fine
<1> QED
  BY <1>1, <1>2 DEF IndInv, Fine, DeletionsOK

-----------------------------------------------------------------------------
(* What a commit makes of the rows.                                         *)

\* The rows stay (Next1, Over).
LEMMA SameRows ==
  ASSUME IndInv, UNCHANGED <<plants, gone, gateways, serves, models, maps, rows, devices, own, refs>>
  PROVE  Fine
<1>1. RowTypes' /\ ReferencesHold'
  BY TypeParts DEF IndInv, RowTypes, ReferencesHold, Live, Model
<1>2. Orderly
  BY DEF Orderly, Live, Model
<1> QED
  BY <1>1, <1>2 DEF Fine

\* A plant more (CreatePlant, ImportPlantDeviceCSV) or with another status (UpdatePlant).
LEMMA PlantRow ==
  ASSUME IndInv, NEW p \in Plant, NEW b \in BOOLEAN,
         plants' = With(plants, p, b) \/ plants' = [plants EXCEPT ![p] = b],
         UNCHANGED <<gone, gateways, serves, models, maps, rows, devices, own, refs>>
  PROVE  Fine
<1>1. /\ DOMAIN plants \subseteq DOMAIN plants' /\ DOMAIN plants' \subseteq DOMAIN plants \cup {p}
      /\ \A x \in DOMAIN plants' : plants'[x] = b \/ (x \in DOMAIN plants /\ plants'[x] = plants[x])
  BY DEF With
<1>2. RowTypes' /\ ReferencesHold'
  BY <1>1, TypeParts DEF IndInv, RowTypes, ReferencesHold, Live, Model
<1>3. Orderly
  BY DEF Orderly, Live, Model
<1> QED
  BY <1>2, <1>3 DEF Fine

\* A Middleware more or with another status (CreateMiddleware, UpdateMiddleware).
LEMMA GatewayRow ==
  ASSUME IndInv, NEW g \in Gateway, NEW s \in {"active", "inactive"}, gateways' = [gateways EXCEPT ![g] = s],
         UNCHANGED <<plants, gone, serves, models, maps, rows, devices, own, refs>>
  PROVE  Fine
<1>1. RowTypes' /\ ReferencesHold'
  BY TypeParts DEF IndInv, RowTypes, ReferencesHold, Live, Model
<1>2. Orderly
  BY DEF Orderly, Live, Model
<1> QED
  BY <1>1, <1>2 DEF Fine

\* A plant gets a Middleware or loses it (AssignMiddlewarePlant, UnassignMiddlewarePlant).
LEMMA AssignmentRow ==
  ASSUME IndInv, NEW g \in Gateway, NEW p \in DOMAIN plants,
         serves' = With(serves, p, g) \/ serves' = Without(serves, {p}),
         UNCHANGED <<plants, gone, gateways, models, maps, rows, devices, own, refs>>
  PROVE  Fine
<1>0. RowTypes /\ ReferencesHold
  BY TypeParts DEF IndInv
<1>1. /\ DOMAIN serves' \subseteq DOMAIN serves \cup {p}
      /\ \A x \in DOMAIN serves' : serves'[x] = g \/ (x \in DOMAIN serves /\ serves'[x] = serves[x])
  BY DEF With, Without
<1>2. RowTypes'
  BY <1>0, <1>1 DEF RowTypes, Live, Model
<1>3. ReferencesHold'
  BY <1>0, <1>1 DEF ReferencesHold, Live, Model
<1>4. Orderly
  BY DEF Orderly, Live, Model
<1> QED
  BY <1>2, <1>3, <1>4 DEF Fine

\* A model more, with a profile of its own (CreateDeviceModel).
LEMMA ModelRow ==
  ASSUME IndInv, NEW n \in Name, AddModel(n),
         UNCHANGED <<plants, gone, gateways, serves, devices, own, refs>>
  PROVE  Fine
<1>0. RowTypes /\ ReferencesHold
  BY TypeParts DEF IndInv
<1>1. /\ DOMAIN models' = Model \cup {n} /\ models'[n] = [name |-> n, profile |-> n]
      /\ \A m \in Model : m # n => models'[m] = models[m]
      /\ DOMAIN maps' = DOMAIN maps \cup {n} /\ maps'[n] = {}
      /\ \A f \in DOMAIN maps : f # n => maps'[f] = maps[f]
      /\ DOMAIN rows' = DOMAIN rows \cup {n} /\ rows'[n] = {}
      /\ \A m \in DOMAIN rows : m # n => rows'[m] = rows[m]
  BY DEF AddModel, With, Model
<1>2. [name |-> n, profile |-> n] \in [name : Name, profile : Profile] /\ n \in Profile
  BY DEF Profile
<1>3. RowTypes'
  BY <1>0, <1>1, <1>2 DEF RowTypes, Live, Model
<1>4. ReferencesHold'
  BY <1>0, <1>1 DEF ReferencesHold, Live, Model
<1>5. Orderly
  BY DEF Orderly, Live, Model
<1> QED
  BY <1>3, <1>4, <1>5 DEF Fine

\* A model with another name or profile (UpdateDeviceModel, AssignRegisterProfile).
LEMMA ModelEdit ==
  ASSUME IndInv, NEW m \in Model, NEW n \in Name, NEW f \in DOMAIN maps,
         models' = [models EXCEPT ![m] = Renamed(@, n)] \/ models' = [models EXCEPT ![m] = Assigned(@, f)],
         UNCHANGED <<plants, gone, gateways, serves, maps, rows, devices, own, refs>>
  PROVE  Fine
<1>0. RowTypes /\ ReferencesHold
  BY TypeParts DEF IndInv
<1>1. f \in Profile /\ models[m] \in [name : Name, profile : Profile]
  BY <1>0 DEF RowTypes, Live, Model
<1>2. \A r \in [name : Name, profile : Profile] :
        /\ Renamed(r, n) \in [name : Name, profile : Profile] /\ Renamed(r, n).profile = r.profile
        /\ Assigned(r, f) \in [name : Name, profile : Profile] /\ Assigned(r, f).profile = f
  BY <1>1 DEF Renamed, Assigned
<1>3. DOMAIN models' = Model /\ \A x \in Model : x # m => models'[x] = models[x]
  BY DEF Model
<1>4. models'[m] \in [name : Name, profile : Profile] /\ models'[m].profile \in {f, models[m].profile}
  BY <1>1, <1>2 DEF Model
<1>5. RowTypes'
  BY <1>0, <1>3, <1>4 DEF RowTypes, Live, Model
<1>6. ReferencesHold'
  BY <1>0, <1>3, <1>4 DEF ReferencesHold, Live, Model
<1>7. Orderly
  BY DEF Orderly, Live, Model
<1> QED
  BY <1>5, <1>6, <1>7 DEF Fine

\* A profile more, and addresses and catalogue rows that come and go
\* (CreateRegisterProfile, UpsertRegisterProfileAddress, DeleteDeviceModelRegisterMetadata).
LEMMA RegisterRows ==
  ASSUME IndInv, DOMAIN maps \subseteq DOMAIN maps', DOMAIN maps' \subseteq Profile,
         \A f \in DOMAIN maps' : maps'[f] \subseteq Addr,
         DOMAIN rows' = Model, \A m \in Model : rows'[m] \subseteq Addr,
         UNCHANGED <<plants, gone, gateways, serves, models, devices, own, refs>>
  PROVE  Fine
<1>0. RowTypes /\ ReferencesHold
  BY TypeParts DEF IndInv
<1>1. RowTypes'
  BY <1>0 DEF RowTypes, Live, Model
<1>2. ReferencesHold'
  BY <1>0 DEF ReferencesHold, Live, Model
<1>3. Orderly
  BY DEF Orderly, Live, Model
<1> QED
  BY <1>1, <1>2, <1>3 DEF Fine

\* A device more or with another model or status (CreateDevice, UpdateDevice).
LEMMA DeviceRow ==
  ASSUME IndInv, NEW d \in Device, NEW m, NEW active \in BOOLEAN,
         MayCreateDevice(d, m) \/ MayUpdateDevice(d, m), AddDevice(d, m, active),
         UNCHANGED <<plants, gone, gateways, serves, models, maps, rows, own, refs>>
  PROVE  Fine
<1>0. RowTypes /\ ReferencesHold
  BY TypeParts DEF IndInv
<1>1. m \in Model /\ ~Deleting("model", m)
  BY DEF MayCreateDevice, MayUpdateDevice, ModelKey
<1>2. \/ d \in Live
      \/ d \notin gone /\ Home[d] \in DOMAIN plants /\ ~Deleting("plant", Home[d])
  BY DEF MayCreateDevice, MayUpdateDevice, PlantKey, DeviceKey
<1>3. /\ DOMAIN devices' = Live \cup {d} /\ devices'[d] = [model |-> m, active |-> active]
      /\ \A x \in Live : x # d => devices'[x] = devices[x]
  BY DEF AddDevice, With, Live
<1>4. m \in Name /\ [model |-> m, active |-> active] \in [model : Name, active : BOOLEAN]
      /\ devices'[d].model = m
  BY <1>0, <1>1, <1>3 DEF RowTypes, Live, Model
<1>5. RowTypes'
  BY <1>0, <1>3, <1>4 DEF RowTypes, Live, Model
<1>6. ReferencesHold'
  BY <1>0, <1>1, <1>2, <1>3, <1>4 DEF ReferencesHold, Live, Model
<1>7. Orderly
  BY <1>1, <1>2, <1>3, <1>4 DEF Orderly, Live, Model
<1> QED
  BY <1>5, <1>6, <1>7 DEF Fine

\* Rows that name a device (SetDeviceRegisterMetadata, CreateOperatorEntry, ingest).
LEMMA ReferringRows ==
  ASSUME IndInv, NEW d \in Device, d \in Live,
         own' \subseteq Device \X Addr, refs' \subseteq Device \X RefKinds,
         \A x \in own' : x \in own \/ x[1] = d,
         \A x \in refs' : x \in refs \/ x[1] = d,
         refs' = refs \/ (~Deleting("device", d) /\ ~Removed(d) /\ ~Deleting("plant", Home[d])),
         UNCHANGED <<plants, gone, gateways, serves, models, maps, rows, devices>>
  PROVE  Fine
<1>1. RowTypes /\ ReferencesHold
  BY TypeParts DEF IndInv
<1>2. RowTypes'
  BY <1>1 DEF RowTypes, Live, Model
<1>3. \A x \in own' \cup refs' : x[1] \in Live
  BY <1>1 DEF ReferencesHold, Live
<1>4. ReferencesHold'
  BY <1>1, <1>3 DEF ReferencesHold, Live, Model
<1>5. Orderly
  BY DEF Orderly, Live
<1> QED
  BY <1>2, <1>4, <1>5 DEF Fine

\* A register override of a device (SetDeviceRegisterMetadata).
LEMMA OverrideRow ==
  ASSUME IndInv, NEW d \in Device, DeviceKey(d), NEW a \in Addr, own' = own \cup {<<d, a>>}, refs' = refs,
         UNCHANGED <<plants, gone, gateways, serves, models, maps, rows, devices>>
  PROVE  Fine
<1>1. own' \subseteq Device \X Addr /\ refs' \subseteq Device \X RefKinds
  BY TypeParts DEF IndInv, RowTypes
<1>2. \A x \in own' : x \in own \/ x[1] = d
  OBVIOUS
<1>3. d \in Live
  BY DEF DeviceKey
<1> QED
  BY <1>1, <1>2, <1>3, ReferringRows

\* A reading or a logbook entry of a device (CreateOperatorEntry, ingest).
LEMMA ReferenceRow ==
  ASSUME IndInv, NEW d \in Device, DeviceKey(d), PlantKey(Home[d]), NEW k \in RefKinds,
         refs' = refs \cup {<<d, k>>}, own' = own,
         UNCHANGED <<plants, gone, gateways, serves, models, maps, rows, devices>>
  PROVE  Fine
<1>1. own' \subseteq Device \X Addr /\ refs' \subseteq Device \X RefKinds
  BY TypeParts DEF IndInv, RowTypes
<1>2. \A x \in refs' : x \in refs \/ x[1] = d
  OBVIOUS
<1>3. d \in Live /\ ~Deleting("device", d) /\ ~Removed(d) /\ ~Deleting("plant", Home[d])
  BY DEF DeviceKey, PlantKey
<1> QED
  BY <1>1, <1>2, <1>3, ReferringRows

\* A hard deletion takes the devices with it that it has removed, and what hangs on them
\* (HardDeletePlant, HardDeleteDevice, HardDeleteDeviceModel).
LEMMA DeletedRows ==
  ASSUME IndInv, NEW q \in Request, CommitDelete(q)
  PROVE  Fine
<1>1. PICK r : r = req[q]
  OBVIOUS
<1>2. /\ r.op = "delete" /\ r.at = "removed" /\ Victims(r) \subseteq r.ds
      /\ devices' = Without(devices, r.ds)
      /\ own'  = {x \in own : x[1] \notin r.ds}
      /\ refs' = refs \ r.swept
      /\ gone' = gone \cup r.ds \cup (IF r.what = "plant" THEN {r.of} ELSE {})
      /\ IF r.what = "plant"
         THEN plants' = Without(plants, {r.of}) /\ serves' = Without(serves, {r.of})
         ELSE plants' = plants /\ serves' = serves
      /\ IF r.what = "model"
         THEN models' = Without(models, {r.of}) /\ rows' = Without(rows, {r.of})
         ELSE models' = models /\ rows' = rows
      /\ gateways' = gateways /\ maps' = maps
  BY <1>1 DEF CommitDelete, Uncatalogued
<1>3. r \in Deletion
  BY <1>1, <1>2, TypeParts, Kinds DEF IndInv
<1>4. NamesItsKind(r) /\ WayIsClear(r)
  BY <1>1, <1>3 DEF IndInv, DeletionsOK, DeletionOK
<1>5. RowTypes /\ ReferencesHold
  BY TypeParts DEF IndInv
<1>6. DOMAIN devices' = Live \ r.ds /\ \A d \in Live \ r.ds : devices'[d] = devices[d]
  BY <1>2 DEF Without, Live
<1>7. /\ DOMAIN plants' \subseteq DOMAIN plants /\ \A p \in DOMAIN plants' : plants'[p] = plants[p]
      /\ DOMAIN serves' \subseteq DOMAIN serves /\ \A p \in DOMAIN serves' : serves'[p] = serves[p]
      /\ \A p \in DOMAIN plants : p \in DOMAIN plants' \/ (r.what = "plant" /\ p = r.of)
      /\ \A p \in DOMAIN serves' : p \in DOMAIN plants => p \in DOMAIN plants'
  <2>1. CASE r.what = "plant"
    <3>1. plants' = Without(plants, {r.of}) /\ serves' = Without(serves, {r.of})
      BY <1>2, <2>1
    <3> QED
      BY <2>1, <3>1 DEF Without
  <2>2. CASE r.what # "plant"
    <3>1. plants' = plants /\ serves' = serves
      BY <1>2, <2>2
    <3> QED
      BY <3>1
  <2> QED
    BY <2>1, <2>2
<1>8. /\ DOMAIN models' \subseteq Model /\ \A m \in DOMAIN models' : models'[m] = models[m]
      /\ DOMAIN rows' = DOMAIN models' /\ \A m \in DOMAIN models' : rows'[m] = rows[m]
      /\ \A m \in Model : m \in DOMAIN models' \/ (r.what = "model" /\ m = r.of)
  <2>1. DOMAIN rows = Model
    BY <1>5 DEF RowTypes
  <2>2. CASE r.what = "model"
    <3>1. models' = Without(models, {r.of}) /\ rows' = Without(rows, {r.of})
      BY <1>2, <2>2
    <3> QED
      BY <2>1, <2>2, <3>1 DEF Without, Model
  <2>3. CASE r.what # "model"
    <3>1. models' = models /\ rows' = rows
      BY <1>2, <2>3
    <3> QED
      BY <2>1, <3>1 DEF Model
  <2> QED
    BY <2>2, <2>3
<1>9. RowTypes'
  <2>2. gone' \subseteq Plant \cup Device
    <3>1. r.ds \subseteq Device
      BY <1>3 DEF Deletion
    <3>2. r.what = "plant" => r.of \in Plant
      BY <1>4 DEF NamesItsKind
    <3>3. gone \subseteq Plant \cup Device
      BY <1>5 DEF RowTypes
    <3> QED
      BY <1>2, <3>1, <3>2, <3>3
  <2>3. own' \subseteq own /\ refs' \subseteq refs
    BY <1>2
  <2> QED
    BY <1>2, <1>5, <1>6, <1>7, <1>8, <2>2, <2>3 DEF RowTypes, Live, Model
<1>10. ReferencesHold'
  <2>1. ASSUME NEW d \in DOMAIN devices' PROVE Home[d] \in DOMAIN plants' /\ devices'[d].model \in DOMAIN models'
    <3>1. d \in Live /\ d \notin Victims(r) /\ devices'[d] = devices[d]
      BY <1>2, <1>6
    <3>2. ~(r.what = "plant" /\ Home[d] = r.of) /\ ~(r.what = "model" /\ devices[d].model = r.of)
      BY <3>1 DEF Victims
    <3> QED
      BY <1>5, <1>7, <1>8, <3>1, <3>2 DEF ReferencesHold
  <2>2. \A m \in DOMAIN models' : models'[m].profile \in DOMAIN maps'
    BY <1>2, <1>5, <1>8 DEF ReferencesHold
  <2>3. DOMAIN serves' \subseteq DOMAIN plants'
    BY <1>5, <1>7 DEF ReferencesHold
  <2>4. ASSUME NEW x \in own' \cup refs' PROVE x[1] \in DOMAIN devices'
    <3>1. x \in own \cup refs /\ x[1] \in Live
      BY <1>2, <1>5 DEF ReferencesHold
    <3>2. x[1] \notin r.ds
      BY <1>2, <1>4, <2>4 DEF WayIsClear, RefsOf
    <3> QED
      BY <1>6, <3>1, <3>2
  <2> QED
    BY <2>1, <2>2, <2>3, <2>4 DEF ReferencesHold, Live, Model
<1>11. Orderly
  BY <1>2, <1>6 DEF Orderly, Live
<1> QED
  BY <1>9, <1>10, <1>11 DEF Fine

-----------------------------------------------------------------------------
(* Steps.                                                                   *)

\* A request that is no deletion goes on (Goto, Next1, Over).
LEMMA StepKeeps ==
  ASSUME IndInv, Fine, NEW q \in Request, NEW r \in Requests, r.op # "delete", ImportOK(r),
         Goto(q, r) \/ req' = [req EXCEPT ![q] = r], edits' \in Nat
  PROVE  IndInv'
<1>1. req' \in [Request -> Requests] /\ ImportsOK' /\ OthersKept(q) /\ req'[q] = r
  BY GotoOK, TypeParts DEF IndInv
<1>2. AllKept
  BY <1>1 DEF OthersKept, AllKept
<1> QED
  BY <1>1, <1>2, Conclude

\* A deletion begins or goes on, and nothing changes but the request
\* (HardDeletePlant, HardDeleteDevice, HardDeleteDeviceModel).
LEMMA DeletionStep ==
  ASSUME IndInv, UNCHANGED <<plants, gone, gateways, serves, models, maps, rows, devices, own, refs>>,
         NEW q \in Request, NEW r \in Deletion, DeletionOK(r),
         Goto(q, r) \/ req' = [req EXCEPT ![q] = r], edits' \in Nat
  PROVE  IndInv'
<1>1. Fine
  BY SameRows
<1>2. r \in Requests /\ ImportOK(r)
  BY DEF Requests, ImportOK, Deletion
<1>3. req' \in [Request -> Requests] /\ ImportsOK' /\ OthersKept(q) /\ req'[q] = r
  BY <1>2, GotoOK, TypeParts DEF IndInv
<1>4. RegistryTypeOK'
  BY <1>1, <1>3 DEF Fine, RegistryTypeOK, RowTypes
<1>5. DeletionOK(r)'
  BY DEF DeletionOK, NamesItsKind, WayIsClear, RefsOf, Victims, Live
<1>6. ASSUME NEW p \in Request, NEW s \in Deletion, req'[p] = s PROVE DeletionOK(s)'
  <2>1. CASE p = q
    BY <2>1, <1>3, <1>5, <1>6
  <2>2. CASE p # q
    <3>1. req[p] = s
      BY <2>2, <1>3, <1>6 DEF OthersKept, Deletion
    <3> QED
      BY <3>1, <1>1, DeletionKept DEF Fine
  <2> QED
    BY <2>1, <2>2
<1> QED
  BY <1>1, <1>3, <1>4, <1>6 DEF IndInv, Fine, DeletionsOK

\* One transaction of its own (Alone).
LEMMA AloneKeeps == ASSUME IndInv, Fine, Alone PROVE IndInv'
<1>1. req' \in [Request -> Requests] /\ ImportsOK' /\ AllKept
  BY AloneOK, TypeParts DEF IndInv, Alone
<1>2. edits' \in Nat
  BY TypeParts DEF IndInv, Alone, Edit
<1> QED
  BY <1>1, <1>2, Conclude

\* Plants and Middlewares.
LEMMA PlantEditsKeep ==
  ASSUME IndInv
  PROVE  /\ \A p \in Plant : CreatePlant(p) => IndInv'
         /\ \A p \in Plant, a \in BOOLEAN : UpdatePlant(p, a) => IndInv'
         /\ \A g \in Gateway : CreateMiddleware(g) => IndInv'
         /\ \A g \in Gateway, s \in {"active", "inactive"} : UpdateMiddleware(g, s) => IndInv'
         /\ \A g \in Gateway, p \in Plant : AssignMiddlewarePlant(g, p) => IndInv'
         /\ \A g \in Gateway, p \in Plant : UnassignMiddlewarePlant(g, p) => IndInv'
<1>1. ASSUME NEW p \in Plant, CreatePlant(p) PROVE IndInv'
  BY <1>1, PlantRow, AloneKeeps DEF CreatePlant
<1>2. ASSUME NEW p \in Plant, NEW a \in BOOLEAN, UpdatePlant(p, a) PROVE IndInv'
  BY <1>2, PlantRow, AloneKeeps DEF UpdatePlant
<1>3. ASSUME NEW g \in Gateway, CreateMiddleware(g) PROVE IndInv'
  BY <1>3, GatewayRow, AloneKeeps DEF CreateMiddleware
<1>4. ASSUME NEW g \in Gateway, NEW s \in {"active", "inactive"}, UpdateMiddleware(g, s) PROVE IndInv'
  BY <1>4, GatewayRow, AloneKeeps DEF UpdateMiddleware
<1>5. ASSUME NEW g \in Gateway, NEW p \in Plant, AssignMiddlewarePlant(g, p) PROVE IndInv'
  BY <1>5, AssignmentRow, AloneKeeps DEF AssignMiddlewarePlant, PlantKey
<1>6. ASSUME NEW g \in Gateway, NEW p \in Plant, UnassignMiddlewarePlant(g, p) PROVE IndInv'
  BY <1>6, AssignmentRow, AloneKeeps DEF UnassignMiddlewarePlant, PlantKey
<1> QED
  BY <1>1, <1>2, <1>3, <1>4, <1>5, <1>6

\* Device models.
LEMMA ModelEditsKeep ==
  ASSUME IndInv
  PROVE  /\ \A m \in Name : CreateDeviceModel(m) => IndInv'
         /\ \A m \in Name, n \in Name : UpdateDeviceModel(m, n) => IndInv'
         /\ \A m \in Name, f \in Profile : AssignRegisterProfile(m, f) => IndInv'
<1>0. ReferencesHold /\ RowTypes
  BY TypeParts DEF IndInv
<1>1. ASSUME NEW m \in Name, CreateDeviceModel(m) PROVE IndInv'
  BY <1>1, ModelRow, AloneKeeps DEF CreateDeviceModel
<1>2. ASSUME NEW m \in Name, NEW n \in Name, UpdateDeviceModel(m, n) PROVE IndInv'
  <2>1. m \in Model /\ models[m].profile \in DOMAIN maps
    BY <1>0, <1>2 DEF UpdateDeviceModel, ModelKey, ReferencesHold
  <2>2. Fine
    BY <1>2, <2>1, ModelEdit DEF UpdateDeviceModel
  <2> QED
    BY <1>2, <2>2, AloneKeeps DEF UpdateDeviceModel
<1>3. ASSUME NEW m \in Name, NEW f \in Profile, AssignRegisterProfile(m, f) PROVE IndInv'
  <2>1. Fine
    BY <1>3, ModelEdit DEF AssignRegisterProfile, ModelKey
  <2> QED
    BY <1>3, <2>1, AloneKeeps DEF AssignRegisterProfile
<1> QED
  BY <1>1, <1>2, <1>3

\* Register profiles and catalogue rows.
LEMMA RegisterEditsKeep ==
  ASSUME IndInv
  PROVE  /\ \A f \in Profile : CreateRegisterProfile(f) => IndInv'
         /\ \A f \in Profile, a \in Addr : UpsertRegisterProfileAddress(f, a) => IndInv'
         /\ \A m \in Name, a \in Addr : DeleteDeviceModelRegisterMetadata(m, a) => IndInv'
<1>0. RowTypes
  BY TypeParts DEF IndInv
<1>1. ASSUME NEW f \in Profile, CreateRegisterProfile(f) PROVE IndInv'
  <2>1. /\ DOMAIN maps' = DOMAIN maps \cup {f} /\ maps'[f] = {}
        /\ \A g \in DOMAIN maps : g # f => maps'[g] = maps[g]
    BY <1>1 DEF CreateRegisterProfile, With
  <2>2. DOMAIN rows' = Model /\ \A x \in Model : rows'[x] \subseteq Addr
    BY <1>0, <1>1 DEF RowTypes, CreateRegisterProfile
  <2>3. /\ DOMAIN maps \subseteq DOMAIN maps' /\ DOMAIN maps' \subseteq Profile
        /\ \A g \in DOMAIN maps' : maps'[g] \subseteq Addr
    BY <1>0, <2>1 DEF RowTypes
  <2>4. Fine
    BY <1>1, <2>2, <2>3, RegisterRows DEF CreateRegisterProfile
  <2> QED
    BY <1>1, <2>4, AloneKeeps DEF CreateRegisterProfile
<1>2. ASSUME NEW f \in Profile, NEW a \in Addr, UpsertRegisterProfileAddress(f, a) PROVE IndInv'
  <2>1. /\ DOMAIN maps' = DOMAIN maps /\ maps'[f] = maps[f] \cup {a}
        /\ \A g \in DOMAIN maps : g # f => maps'[g] = maps[g]
    BY <1>2 DEF UpsertRegisterProfileAddress
  <2>2. DOMAIN rows' = Model /\ \A x \in Model : rows'[x] \subseteq Addr
    BY <1>0, <1>2 DEF RowTypes, UpsertRegisterProfileAddress
  <2>3. /\ DOMAIN maps \subseteq DOMAIN maps' /\ DOMAIN maps' \subseteq Profile
        /\ \A g \in DOMAIN maps' : maps'[g] \subseteq Addr
    BY <1>0, <1>2, <2>1 DEF RowTypes, UpsertRegisterProfileAddress
  <2>4. Fine
    BY <1>2, <2>2, <2>3, RegisterRows DEF UpsertRegisterProfileAddress
  <2> QED
    BY <1>2, <2>4, AloneKeeps DEF UpsertRegisterProfileAddress
<1>3. ASSUME NEW m \in Name, NEW a \in Addr, DeleteDeviceModelRegisterMetadata(m, a) PROVE IndInv'
  <2>1. /\ DOMAIN rows' = DOMAIN rows /\ \A x \in DOMAIN rows : rows'[x] \subseteq rows[x]
        /\ DOMAIN maps' = DOMAIN maps /\ \A g \in DOMAIN maps : maps'[g] \subseteq maps[g]
    BY <1>3 DEF DeleteDeviceModelRegisterMetadata
  <2>2. /\ DOMAIN rows' = Model /\ \A x \in Model : rows'[x] \subseteq Addr
        /\ DOMAIN maps \subseteq DOMAIN maps' /\ DOMAIN maps' \subseteq Profile
        /\ \A g \in DOMAIN maps' : maps'[g] \subseteq Addr
    BY <1>0, <2>1 DEF RowTypes
  <2>3. Fine
    BY <1>3, <2>2, RegisterRows DEF DeleteDeviceModelRegisterMetadata
  <2> QED
    BY <1>3, <2>3, AloneKeeps DEF DeleteDeviceModelRegisterMetadata
<1> QED
  BY <1>1, <1>2, <1>3

\* Devices and the rows that name them.
LEMMA DeviceEditsKeep ==
  ASSUME IndInv
  PROVE  /\ \A d \in Device, m \in Name, active \in BOOLEAN : CreateDevice(d, m, active) => IndInv'
         /\ \A d \in Device, m \in Name, active \in BOOLEAN : UpdateDevice(d, m, active) => IndInv'
         /\ \A d \in Device, a \in Addr : SetDeviceRegisterMetadata(d, a) => IndInv'
         /\ \A d \in Device, k \in RefKinds : Refer(d, k) => IndInv'
<1>1. ASSUME NEW d \in Device, NEW m \in Name, NEW active \in BOOLEAN, CreateDevice(d, m, active) PROVE IndInv'
  BY <1>1, DeviceRow, AloneKeeps DEF CreateDevice
<1>2. ASSUME NEW d \in Device, NEW m \in Name, NEW active \in BOOLEAN, UpdateDevice(d, m, active) PROVE IndInv'
  BY <1>2, DeviceRow, AloneKeeps DEF UpdateDevice
<1>3. ASSUME NEW d \in Device, NEW a \in Addr, SetDeviceRegisterMetadata(d, a) PROVE IndInv'
  BY <1>3, OverrideRow, AloneKeeps DEF SetDeviceRegisterMetadata
<1>4. ASSUME NEW d \in Device, NEW k \in RefKinds, Refer(d, k) PROVE IndInv'
  BY <1>4, ReferenceRow, AloneKeeps DEF Refer
<1> QED
  BY <1>1, <1>2, <1>3, <1>4

\* Everything an administrator does in one transaction.
LEMMA EditsKeep == IndInv /\ Edits => IndInv'
  BY PlantEditsKeep, ModelEditsKeep, RegisterEditsKeep, DeviceEditsKeep DEF Edits

-----------------------------------------------------------------------------
(* Deletions.                                                               *)

\* A deletion locks its row (requireGlobalHardDelete).
LEMMA BeginDeleteKeeps ==
  ASSUME IndInv, NEW q \in Request, NEW what \in Deletes, NEW x, BeginDelete(q, what, x),
         what = "plant" => x \in Plant, what = "device" => x \in Live, what = "model" => x \in Name
  PROVE  IndInv'
<1>1. PICK r : r = [op |-> "delete", what |-> what, of |-> x, at |-> "locked", swept |-> {}, ds |-> {}]
  OBVIOUS
<1>2. Live \subseteq Device
  BY TypeParts DEF IndInv, RowTypes
<1>3. x \in Plant \cup Device \cup Name
  BY <1>2 DEF Deletes
<1>4. r \in Deletion
  BY <1>1, <1>3 DEF Deletion
<1>5. DeletionOK(r)
  BY <1>1, <1>2 DEF DeletionOK, NamesItsKind, WayIsClear
<1>6. Goto(q, r) /\ edits' \in Nat
  BY <1>1, TypeParts DEF BeginDelete, Edit, IndInv
<1> QED
  BY <1>4, <1>5, <1>6, DeletionStep DEF BeginDelete

\* What would refuse the deletion is cleared away (DELETE, UPDATE ... SET device_id = NULL).
LEMMA ClearReferencesKeeps ==
  ASSUME IndInv, NEW q \in Request, ClearReferences(q) PROVE IndInv'
<1>1. PICK r : r = req[q]
  OBVIOUS
<1>2. PICK s : s = [r EXCEPT !.at = "cleared", !.swept = Clears(r)]
  OBVIOUS
<1>3. r.op = "delete" /\ r.at = "locked" /\ req' = [req EXCEPT ![q] = s] /\ edits' \in Nat
  BY <1>1, <1>2, TypeParts DEF ClearReferences, IndInv
<1>4. r \in Deletion
  BY <1>1, <1>3, TypeParts, Kinds DEF IndInv
<1>5. Clears(r) \in SUBSET (Device \X RefKinds)
  BY TypeParts DEF IndInv, RowTypes, Clears, RefsOf
<1>6. /\ s \in Deletion /\ s.at = "cleared" /\ s.swept = Clears(r)
      /\ s.what = r.what /\ s.of = r.of
  BY <1>2, <1>4, <1>5 DEF Deletion
<1>7. NamesItsKind(r)
  BY <1>1, <1>4 DEF IndInv, DeletionsOK, DeletionOK
<1>8. NamesItsKind(s)
  BY <1>6, <1>7 DEF NamesItsKind
<1>9. Victims(s) = Victims(r)
  BY <1>6 DEF Victims
<1>10. r.what # "model" => RefsOf(Victims(r)) \subseteq Clears(r)
  BY DEF Clears
<1>11. WayIsClear(s)
  BY <1>6, <1>9, <1>10 DEF WayIsClear
<1> QED
  BY <1>3, <1>6, <1>8, <1>11, DeletionStep DEF DeletionOK, ClearReferences

\* The devices are deleted (DELETE FROM plant.device).
LEMMA RemoveDevicesKeeps ==
  ASSUME IndInv, NEW q \in Request, RemoveDevices(q) PROVE IndInv'
<1>1. PICK r : r = req[q]
  OBVIOUS
<1>2. PICK s : s = [r EXCEPT !.at = "removed", !.ds = Victims(r)]
  OBVIOUS
<1>3. r.op = "delete" /\ Unreferenced(r) /\ req' = [req EXCEPT ![q] = s] /\ edits' \in Nat
  BY <1>1, <1>2, TypeParts DEF RemoveDevices, IndInv
<1>4. r \in Deletion
  BY <1>1, <1>3, TypeParts, Kinds DEF IndInv
<1>5. Victims(r) \subseteq Device
  BY TypeParts DEF IndInv, RowTypes, Victims
<1>6. /\ s \in Deletion /\ s.at = "removed" /\ s.ds = Victims(r)
      /\ s.swept = r.swept /\ s.what = r.what /\ s.of = r.of
  BY <1>2, <1>4, <1>5 DEF Deletion
<1>7. NamesItsKind(r)
  BY <1>1, <1>4 DEF IndInv, DeletionsOK, DeletionOK
<1>8. NamesItsKind(s)
  BY <1>6, <1>7 DEF NamesItsKind
<1>9. Victims(s) = Victims(r)
  BY <1>6 DEF Victims
<1>10. WayIsClear(s)
  BY <1>3, <1>6, <1>9 DEF WayIsClear, Unreferenced
<1> QED
  BY <1>3, <1>6, <1>8, <1>10, DeletionStep DEF DeletionOK, RemoveDevices

\* A request ends or begins without being a deletion (Idle).
LEMMA IdleOK == Idle \in Requests /\ Idle.op # "delete" /\ ImportOK(Idle)
  BY DEF Idle, Requests, ImportOK

\* The row itself goes (HardDeletePlant, HardDeleteDevice, HardDeleteDeviceModel).
LEMMA CommitDeleteKeeps ==
  ASSUME IndInv, NEW q \in Request, CommitDelete(q) PROVE IndInv'
<1>1. Goto(q, Idle) /\ edits' = edits
  BY DEF CommitDelete
<1>2. edits' \in Nat
  BY <1>1, TypeParts DEF IndInv
<1> QED
  BY <1>1, <1>2, DeletedRows, IdleOK, StepKeeps

\* A request ends (Over).
LEMMA OverKeeps == ASSUME IndInv, NEW q \in Request, Over(q) PROVE IndInv'
<1>1. Fine /\ edits' \in Nat
  BY SameRows, TypeParts DEF Over, IndInv
<1> QED
  BY <1>1, IdleOK, StepKeeps DEF Over

-----------------------------------------------------------------------------
(* Imports.                                                                 *)

\* How far an import is keeps its shape.
LEMMA ImportUpdates ==
  ASSUME NEW r \in Importing
  PROVE  /\ \A m \in Name \cup {None} : OfModel(r, m) \in Importing /\ OfModel(r, m).at = "rows"
         /\ \A a \in Addr : InHand(r, a) \in Importing /\ InHand(r, a).addr = a
         /\ \A f \in Profile : IntoProfile(r, f) \in Importing /\ IntoProfile(r, f).addr = r.addr
         /\ \A a \in Addr \cup {None} : AddrDone(r, a) \in Importing /\ AddrDone(r, a).at = "rows"
         /\ ToList(r) \in Importing /\ ToList(r).at = "list"
         /\ \A ds \in SUBSET Device : Listed(r, ds) \in Importing /\ Listed(r, ds).at = "devices"
         /\ \A d \in Device : DeviceDone(r, d) \in Importing /\ DeviceDone(r, d).at = r.at /\ DeviceDone(r, d).addr = r.addr
         /\ Skipping(r) \in Importing /\ Skipping(r).at = r.at /\ Skipping(r).addr = r.addr
<1>1. ASSUME NEW m \in Name \cup {None} PROVE OfModel(r, m) \in Importing /\ OfModel(r, m).at = "rows"
  BY DEF Importing, OfModel
<1>2. ASSUME NEW a \in Addr PROVE InHand(r, a) \in Importing /\ InHand(r, a).addr = a
  BY DEF Importing, InHand
<1>3. ASSUME NEW f \in Profile PROVE IntoProfile(r, f) \in Importing /\ IntoProfile(r, f).addr = r.addr
  BY DEF Importing, IntoProfile
<1>4. ASSUME NEW a \in Addr \cup {None} PROVE AddrDone(r, a) \in Importing /\ AddrDone(r, a).at = "rows"
  BY DEF Importing, AddrDone
<1>5. ToList(r) \in Importing /\ ToList(r).at = "list"
  BY DEF Importing, ToList
<1>6. ASSUME NEW ds \in SUBSET Device PROVE Listed(r, ds) \in Importing /\ Listed(r, ds).at = "devices"
  BY DEF Importing, Listed
<1>7. ASSUME NEW d \in Device PROVE DeviceDone(r, d) \in Importing /\ DeviceDone(r, d).at = r.at /\ DeviceDone(r, d).addr = r.addr
  BY DEF Importing, DeviceDone
<1>8. Skipping(r) \in Importing /\ Skipping(r).at = r.at /\ Skipping(r).addr = r.addr
  BY DEF Importing, Skipping
<1> QED
  BY <1>1, <1>2, <1>3, <1>4, <1>5, <1>6, <1>7, <1>8

\* What a row of the CSV makes of its import is of the CSV's type.
LEMMA CsvUpdates ==
  ASSUME NEW r \in CsvImport
  PROVE  /\ \A d \in Device : NewPlant(r, d) \in CsvImport
         /\ \A d \in Device : DeviceDone(r, d) \in CsvImport
         /\ \A m \in Name \cup {None} : Live \subseteq Device => Fitting(r, m) \in CsvImport
         /\ RowDone(r) \in CsvImport
<1>1. ASSUME NEW d \in Device PROVE NewPlant(r, d) \in CsvImport
  BY DEF CsvImport, NewPlant
<1>2. ASSUME NEW d \in Device PROVE DeviceDone(r, d) \in CsvImport
  BY DEF CsvImport, DeviceDone
<1>3. ASSUME NEW m \in Name \cup {None}, Live \subseteq Device PROVE Fitting(r, m) \in CsvImport
  <2>1. PICK ds : ds = DevicesAt(r.file.plant)
    OBVIOUS
  <2>2. ds \in SUBSET Device
    BY <2>1, <1>3 DEF DevicesAt
  <2>3. [r EXCEPT !.at = "device", !.known = ds, !.model = m] \in CsvImport
    BY <2>2 DEF CsvImport
  <2> QED
    BY <2>1, <2>3 DEF Fitting
<1>4. RowDone(r) \in CsvImport
  BY DEF CsvImport, RowDone
<1> QED
  BY <1>1, <1>2, <1>3, <1>4

\* An import or a CSV goes on (Goto, Next1).
LEMMA ImportStep ==
  ASSUME IndInv, Fine, NEW q \in Request, NEW r \in Importing, r.at \in {"profile", "address"} => r.addr \in Addr,
         Goto(q, r) \/ req' = [req EXCEPT ![q] = r], edits' \in Nat
  PROVE  IndInv'
<1>1. r \in Requests /\ r.op # "delete" /\ ImportOK(r)
  BY DEF Requests, Importing, ImportOK
<1> QED
  BY <1>1, StepKeeps

\* A step of a CSV import whose rows are fine keeps the invariant.
LEMMA CsvStep ==
  ASSUME IndInv, Fine, NEW q \in Request, NEW r \in CsvImport,
         Goto(q, r) \/ req' = [req EXCEPT ![q] = r], edits' \in Nat
  PROVE  IndInv'
<1>1. r \in Requests /\ r.op # "delete" /\ ImportOK(r)
  BY DEF Requests, CsvImport, ImportOK
<1> QED
  BY <1>1, StepKeeps

\* An import begins (ImportMiddlewareConfig, importRegisterMetadataCSV, importPlantDeviceCSV).
LEMMA BeginsKeep ==
  ASSUME IndInv, NEW q \in Request
  PROVE  /\ \A m \in Name, a \in Addr : SetDeviceModelRegisterMetadata(q, m, a) => IndInv'
         /\ \A rep \in Reports : ImportMiddlewareConfig(q, rep) \/ ImportRegisterMetadataCSV(q, rep) => IndInv'
         /\ \A f \in Files : ImportPlantDeviceCSV(q, f) => IndInv'
<1> DEFINE Rep == [name : Name, addrs : SUBSET Addr, plant : Plant, devices : SUBSET Device]
<1>1. ASSUME NEW r, Begin(q, r) PROVE Fine /\ edits' \in Nat /\ req' = [req EXCEPT ![q] = r]
  BY <1>1, SameRows, TypeParts DEF Begin, Edit, IndInv
<1>2. ASSUME NEW m \in Name \cup {None}, NEW rep \in Rep, NEW prune \in BOOLEAN, NEW at \in {"model", "rows"}
      PROVE  Import(m, rep, prune, at) \in Importing /\ Import(m, rep, prune, at).at = at
  BY DEF Import, Importing
<1>3. ASSUME NEW m \in Name \cup {None}, NEW rep \in Rep, NEW prune \in BOOLEAN, NEW at \in {"model", "rows"},
             Begin(q, Import(m, rep, prune, at))
      PROVE  IndInv'
  <2>1. PICK r : r = Import(m, rep, prune, at)
    OBVIOUS
  <2>2. r \in Importing /\ r.at = at
    BY <2>1, <1>2
  <2> QED
    BY <1>1, <1>3, <2>1, <2>2, ImportStep
<1>4. ASSUME NEW n PROVE Found(n) \in Name \cup {None}
  <2>1. Named(n) \subseteq Name
    BY TypeParts DEF IndInv, RowTypes, Named
  <2> QED
    BY <2>1 DEF Found
<1>5. ASSUME NEW m \in Name, NEW a \in Addr, SetDeviceModelRegisterMetadata(q, m, a) PROVE IndInv'
  <2>1. models[m].name \in Name
    BY <1>5, TypeParts DEF IndInv, RowTypes, SetDeviceModelRegisterMetadata, Model
  <2>2. (CHOOSE p \in Plant : TRUE) \in Plant
    BY HomeAssumption
  <2>3. PICK rep : rep = [name |-> models[m].name, addrs |-> {a}, plant |-> CHOOSE p \in Plant : TRUE, devices |-> {}]
    OBVIOUS
  <2>4. rep \in Rep
    BY <2>1, <2>2, <2>3
  <2>5. Begin(q, Import(m, rep, FALSE, "rows"))
    BY <1>5, <2>3 DEF SetDeviceModelRegisterMetadata
  <2> QED
    BY <2>4, <2>5, <1>3
<1>6. ASSUME NEW rep \in Reports, ImportMiddlewareConfig(q, rep) PROVE IndInv'
  BY <1>3, <1>4, <1>6, ReportAssumption DEF ImportMiddlewareConfig
<1>7. ASSUME NEW rep \in Reports, ImportRegisterMetadataCSV(q, rep) PROVE IndInv'
  <2>1. PICK s : s = [rep EXCEPT !.devices = {}]
    OBVIOUS
  <2>2. rep \in Rep
    BY ReportAssumption
  <2>3. s \in Rep
    BY <2>1, <2>2
  <2>4. Begin(q, Import(Found(rep.name), s, FALSE, "model"))
    BY <1>7, <2>1 DEF ImportRegisterMetadataCSV
  <2> QED
    BY <1>3, <1>4, <2>3, <2>4
<1>8. ASSUME NEW f \in Files, ImportPlantDeviceCSV(q, f) PROVE IndInv'
  <2>1. PICK r : r = [op |-> "csv", at |-> "plant", file |-> f, left |-> f.devices, known |-> {}, row |-> {},
                      model |-> Found(f.name), plantKnown |-> f.plant \in DOMAIN plants]
    OBVIOUS
  <2>2. f.devices \subseteq Device
    BY FileAssumption
  <2>3. r \in CsvImport
    BY <1>4, <2>1, <2>2 DEF CsvImport
  <2>4. Begin(q, r)
    BY <1>8, <2>1 DEF ImportPlantDeviceCSV
  <2> QED
    BY <1>1, <2>3, <2>4, CsvStep
<1> QED
  BY <1>5, <1>6, <1>7, <1>8

\* The steps of an import that change no row (ReadProfile, the skips, the list).
LEMMA ImportReadsKeep ==
  ASSUME IndInv, NEW q \in Request,
         \/ ReuseModel(q) \/ ReadProfile(q) \/ SkipAddress(q) \/ ListDevices(q)
         \/ (\E a \in Addr : SkipRow(q, a)) \/ (\E d \in Device : SkipDevice(q, d))
  PROVE  IndInv'
<1>1. PICK r : r = req[q]
  OBVIOUS
<1>2. ASSUME NEW s, Next1(q, s) PROVE Fine /\ edits' \in Nat /\ req' = [req EXCEPT ![q] = s]
  BY <1>2, SameRows, TypeParts DEF Next1, IndInv
<1>3. r.op = "import"
  BY <1>1 DEF ReuseModel, ReadProfile, SkipAddress, ListDevices, SkipRow, SkipDevice, At
<1>4. r \in Importing
  BY <1>1, <1>3, TypeParts, Kinds DEF IndInv
<1>5. r.at \in {"profile", "address"} => r.addr \in Addr
  BY <1>1, <1>3 DEF IndInv, ImportsOK, ImportOK
<1>6. ASSUME NEW s \in Importing, s.at \in {"profile", "address"} => s.addr \in Addr, Next1(q, s) PROVE IndInv'
  BY <1>2, <1>6, ImportStep
<1>7. CASE ReuseModel(q)
  <2>1. r.model \in Name \cup {None} /\ Next1(q, OfModel(r, r.model))
    BY <1>1, <1>4, <1>7 DEF ReuseModel, Importing
  <2> QED
    BY <2>1, <1>4, <1>6, ImportUpdates
<1>8. CASE ReadProfile(q)
  <2>1. PICK f : f = models[r.model].profile
    OBVIOUS
  <2>2. f \in Profile /\ r.at = "profile" /\ Next1(q, IntoProfile(r, f))
    BY <1>1, <1>8, <2>1, TypeParts DEF ReadProfile, IndInv, RowTypes, At, Model
  <2> QED
    BY <2>2, <1>4, <1>5, <1>6, ImportUpdates
<1>9. CASE SkipAddress(q)
  <2>1. Next1(q, Skipping(AddrDone(r, r.addr)))
    BY <1>1, <1>9 DEF SkipAddress
  <2>2. r.addr \in Addr \cup {None}
    BY <1>4 DEF Importing
  <2>3. AddrDone(r, r.addr) \in Importing /\ AddrDone(r, r.addr).at = "rows"
    BY <1>4, <2>2, ImportUpdates
  <2> QED
    BY <2>1, <2>3, <1>6, ImportUpdates
<1>10. CASE ListDevices(q)
  <2>1. PICK ds : ds = DevicesAt(r.rep.plant)
    OBVIOUS
  <2>2. ds \in SUBSET Device
    BY <2>1, TypeParts DEF DevicesAt, IndInv, RowTypes
  <2>3. Next1(q, Listed(r, ds))
    BY <1>1, <1>10, <2>1 DEF ListDevices
  <2> QED
    BY <2>2, <2>3, <1>4, <1>6, ImportUpdates
<1>11. ASSUME NEW a \in Addr, SkipRow(q, a) PROVE IndInv'
  <2>1. Next1(q, Skipping(AddrDone(r, a)))
    BY <1>1, <1>11 DEF SkipRow
  <2>2. AddrDone(r, a) \in Importing /\ AddrDone(r, a).at = "rows"
    BY <1>4, ImportUpdates
  <2> QED
    BY <2>1, <2>2, <1>6, ImportUpdates
<1>12. ASSUME NEW d \in Device, SkipDevice(q, d) PROVE IndInv'
  <2>1. Next1(q, Skipping(DeviceDone(r, d))) /\ r.at = "devices"
    BY <1>1, <1>12 DEF SkipDevice, At
  <2>2. DeviceDone(r, d) \in Importing /\ DeviceDone(r, d).at = "devices"
    BY <1>4, <2>1, ImportUpdates
  <2> QED
    BY <2>1, <2>2, <1>6, ImportUpdates
<1> QED
  BY <1>7, <1>8, <1>9, <1>10, <1>11, <1>12

\* The steps of an import that write (UpsertRow, UpsertAddress, createDeviceModel,
\* PruneModbusRegisterMetadata, the devices).
LEMMA ImportWritesKeep ==
  ASSUME IndInv, NEW q \in Request,
         \/ ImportModel(q) \/ UpsertAddress(q) \/ PruneModbusRegisterMetadata(q)
         \/ (\E a \in Addr : UpsertRow(q, a)) \/ (\E d \in Device : ImportDevice(q, d))
  PROVE  IndInv'
<1>1. PICK r : r = req[q]
  OBVIOUS
<1>2. r.op = "import" /\ edits' \in Nat
  BY <1>1, TypeParts
  DEF ImportModel, UpsertAddress, PruneModbusRegisterMetadata, UpsertRow, ImportDevice, At, IndInv
<1>3. r \in Importing
  BY <1>1, <1>2, TypeParts, Kinds DEF IndInv
<1>4. RowTypes
  BY TypeParts DEF IndInv
<1>5. ASSUME Fine, NEW s \in Importing, s.at \in {"profile", "address"} => s.addr \in Addr, Goto(q, s) PROVE IndInv'
  BY <1>2, <1>5, ImportStep
<1>6. ASSUME Fine, req' = [req EXCEPT ![q] = Idle] PROVE IndInv'
  BY <1>2, <1>6, IdleOK, StepKeeps
<1>7. CASE ImportModel(q)
  <2>1. r.rep.name \in Name
    BY <1>3 DEF Importing
  <2>2. CASE MayCreateModel(r.rep.name)
    <3>1. AddModel(r.rep.name) /\ Goto(q, OfModel(r, r.rep.name))
      BY <1>1, <1>7, <2>2 DEF ImportModel
    <3>2. Fine
      BY <1>7, <2>1, <3>1, ModelRow DEF ImportModel
    <3> QED
      BY <1>3, <1>5, <2>1, <3>1, <3>2, ImportUpdates
  <2>3. CASE ~MayCreateModel(r.rep.name)
    <3>1. req' = [req EXCEPT ![q] = Idle] /\ UNCHANGED <<models, maps, rows>>
      BY <1>1, <1>7, <2>3 DEF ImportModel
    <3>2. Fine
      BY <1>7, <3>1, SameRows DEF ImportModel
    <3> QED
      BY <1>6, <3>1, <3>2
  <2> QED
    BY <2>2, <2>3
<1>8. CASE UpsertAddress(q)
  <2>1. r.at = "address" /\ maps' = [maps EXCEPT ![r.profile] = @ \cup {r.addr}] /\ Goto(q, AddrDone(r, r.addr))
    BY <1>1, <1>8 DEF UpsertAddress, At
  <2>2. r.addr \in Addr
    BY <1>1, <1>2, <2>1 DEF IndInv, ImportsOK, ImportOK
  <2>3. DOMAIN maps' = DOMAIN maps /\ \A f \in DOMAIN maps : maps'[f] \subseteq maps[f] \cup {r.addr}
    BY <2>1
  <2>4. /\ DOMAIN maps \subseteq DOMAIN maps' /\ DOMAIN maps' \subseteq Profile
        /\ \A f \in DOMAIN maps' : maps'[f] \subseteq Addr
    BY <1>4, <2>2, <2>3 DEF RowTypes
  <2>5. DOMAIN rows' = Model /\ \A m \in Model : rows'[m] \subseteq Addr
    BY <1>4, <1>8 DEF RowTypes, UpsertAddress
  <2>6. Fine
    BY <1>8, <2>4, <2>5, RegisterRows DEF UpsertAddress
  <2>7. AddrDone(r, r.addr) \in Importing /\ AddrDone(r, r.addr).at = "rows"
    BY <1>3, <2>2, ImportUpdates
  <2> QED
    BY <1>5, <2>1, <2>6, <2>7
<1>9. CASE PruneModbusRegisterMetadata(q)
  <2>1. CASE ModelKey(r.model)
    <3>1. rows' = [rows EXCEPT ![r.model] = Keeps(r)] /\ Goto(q, ToList(r)) /\ maps' = maps
      BY <1>1, <1>9, <2>1 DEF PruneModbusRegisterMetadata
    <3>2. Keeps(r) \subseteq Addr
      BY <1>3 DEF Keeps, Importing
    <3>3. DOMAIN rows' = Model /\ \A m \in Model : rows'[m] \subseteq Addr
      BY <1>4, <3>1, <3>2 DEF RowTypes
    <3>4. /\ DOMAIN maps \subseteq DOMAIN maps' /\ DOMAIN maps' \subseteq Profile
          /\ \A f \in DOMAIN maps' : maps'[f] \subseteq Addr
      BY <1>4, <3>1 DEF RowTypes
    <3>5. Fine
      BY <1>9, <3>3, <3>4, RegisterRows DEF PruneModbusRegisterMetadata
    <3> QED
      BY <1>3, <1>5, <3>1, <3>5, ImportUpdates
  <2>2. CASE ~ModelKey(r.model)
    <3>1. UNCHANGED rows /\ req' = [req EXCEPT ![q] = Idle]
      BY <1>1, <1>9, <2>2 DEF PruneModbusRegisterMetadata
    <3>2. Fine
      BY <1>9, <3>1, SameRows DEF PruneModbusRegisterMetadata
    <3> QED
      BY <1>6, <3>1, <3>2
  <2> QED
    BY <2>1, <2>2
<1>10. ASSUME NEW a \in Addr, UpsertRow(q, a) PROVE IndInv'
  <2>1. r.model \in Model /\ rows' = [rows EXCEPT ![r.model] = @ \cup {a}] /\ Goto(q, InHand(r, a)) /\ maps' = maps
    BY <1>1, <1>10 DEF UpsertRow, ModelKey
  <2>2. DOMAIN rows' = DOMAIN rows /\ \A m \in DOMAIN rows : rows'[m] \subseteq rows[m] \cup {a}
    BY <2>1
  <2>3. DOMAIN rows' = Model /\ \A m \in Model : rows'[m] \subseteq Addr
    BY <1>4, <2>2 DEF RowTypes
  <2>4. /\ DOMAIN maps \subseteq DOMAIN maps' /\ DOMAIN maps' \subseteq Profile
        /\ \A f \in DOMAIN maps' : maps'[f] \subseteq Addr
    BY <1>4, <2>1 DEF RowTypes
  <2>5. Fine
    BY <1>10, <2>3, <2>4, RegisterRows DEF UpsertRow
  <2> QED
    BY <1>3, <1>5, <2>1, <2>5, ImportUpdates
<1>11. ASSUME NEW d \in Device, ImportDevice(q, d) PROVE IndInv'
  <2>1. /\ r.at = "devices" /\ Goto(q, DeviceDone(r, d))
        /\ AddDevice(d, r.model, d \in r.known)
        /\ MayCreateDevice(d, r.model) \/ MayUpdateDevice(d, r.model)
    BY <1>1, <1>11 DEF ImportDevice, At
  <2>2. AddDevice(d, r.model, TRUE) \/ AddDevice(d, r.model, FALSE)
    <3>1. CASE d \in r.known
      BY <2>1, <3>1, Zenon DEF AddDevice
    <3>2. CASE d \notin r.known
      <4>1. (d \in r.known) = FALSE
        BY <3>2
      <4> QED
        BY <2>1, <4>1, Zenon
    <3> QED
      BY <3>1, <3>2
  <2>3. Fine
    BY <1>11, <2>1, <2>2, DeviceRow DEF ImportDevice
  <2>4. DeviceDone(r, d) \in Importing /\ DeviceDone(r, d).at = "devices"
    BY <1>3, <2>1, ImportUpdates
  <2> QED
    BY <1>5, <2>1, <2>3, <2>4
<1> QED
  BY <1>7, <1>8, <1>9, <1>10, <1>11

\* The rows of a CSV of plants and devices (importPlantDeviceCSV).
LEMMA CsvKeeps ==
  ASSUME IndInv, NEW q \in Request,
         CsvModel(q) \/ CsvDevice(q) \/ (\E d \in Device : CsvPlant(q, d))
  PROVE  IndInv'
<1>1. PICK r : r = req[q]
  OBVIOUS
<1>2. r.op = "csv" /\ edits' \in Nat
  BY <1>1, TypeParts DEF CsvModel, CsvDevice, CsvPlant, InCsv, IndInv
<1>3. r \in CsvImport
  BY <1>1, <1>2, TypeParts, Kinds DEF IndInv
<1>4. Live \subseteq Device
  BY TypeParts DEF IndInv, RowTypes
<1>5. ASSUME Fine, NEW s \in CsvImport, Goto(q, s) \/ req' = [req EXCEPT ![q] = s] PROVE IndInv'
  BY <1>2, <1>5, CsvStep
<1>6. /\ r.model \in Name \cup {None} /\ r.row \subseteq Device
      /\ r.file.plant \in Plant /\ r.file.name \in Name
  BY <1>3, FileAssumption DEF CsvImport
<1>7. ASSUME NEW d \in Device, CsvPlant(q, d) PROVE IndInv'
  <2>1. CASE req' = [req EXCEPT ![q] = DeviceDone(r, d)] /\ UNCHANGED plants
    <3>1. Fine
      BY <1>7, <2>1, SameRows DEF CsvPlant
    <3> QED
      BY <1>3, <1>5, <2>1, <3>1, CsvUpdates
  <2>2. CASE plants' = With(plants, r.file.plant, TRUE) /\ Goto(q, NewPlant(r, d))
    <3>1. Fine
      BY <1>6, <1>7, <2>2, PlantRow DEF CsvPlant
    <3> QED
      BY <1>3, <1>5, <2>2, <3>1, CsvUpdates
  <2> QED
    BY <1>1, <1>7, <2>1, <2>2 DEF CsvPlant
<1>8. CASE CsvModel(q)
  <2>1. CASE AddModel(r.file.name) /\ Goto(q, Fitting(r, r.file.name))
    <3>1. Fine
      BY <1>6, <1>8, <2>1, ModelRow DEF CsvModel
    <3> QED
      BY <1>3, <1>4, <1>5, <1>6, <2>1, <3>1, CsvUpdates
  <2>2. CASE /\ req' = [req EXCEPT ![q] = RowDone(r)] \/ req' = [req EXCEPT ![q] = Fitting(r, r.model)]
             /\ UNCHANGED <<models, maps, rows>>
    <3>1. Fine
      BY <1>8, <2>2, SameRows DEF CsvModel
    <3> QED
      BY <1>3, <1>4, <1>5, <1>6, <2>2, <3>1, CsvUpdates
  <2> QED
    BY <1>1, <1>8, <2>1, <2>2 DEF CsvModel
<1>9. CASE CsvDevice(q)
  <2>1. PICK d \in r.row :
          \/ (MayUpdateDevice(d, r.model) \/ MayCreateDevice(d, r.model))
             /\ AddDevice(d, r.model, TRUE) /\ Goto(q, RowDone(r))
          \/ UNCHANGED devices /\ req' = [req EXCEPT ![q] = RowDone(r)]
    BY <1>1, <1>9 DEF CsvDevice
  <2>2. CASE (MayUpdateDevice(d, r.model) \/ MayCreateDevice(d, r.model)) /\ AddDevice(d, r.model, TRUE) /\ Goto(q, RowDone(r))
    <3>1. Fine
      BY <1>6, <1>9, <2>2, DeviceRow DEF CsvDevice
    <3> QED
      BY <1>3, <1>5, <2>2, <3>1, CsvUpdates
  <2>3. CASE UNCHANGED devices /\ req' = [req EXCEPT ![q] = RowDone(r)]
    <3>1. Fine
      BY <1>9, <2>3, SameRows DEF CsvDevice
    <3> QED
      BY <1>3, <1>5, <2>3, <3>1, CsvUpdates
  <2> QED
    BY <2>1, <2>2, <2>3
<1> QED
  BY <1>7, <1>8, <1>9

-----------------------------------------------------------------------------
(* The invariant and what follows from it.                                  *)

\* The rows at the start refer to each other as they should.
LEMMA InitOK == RegistryInit => IndInv
<1> SUFFICES ASSUME RegistryInit PROVE IndInv
  OBVIOUS
<1>1. Stock \subseteq Name
  BY FittedAssumption DEF Stock
<1>2. req = [q \in Request |-> Idle] /\ Idle \in Requests
  BY IdleOK DEF RegistryInit
<1>3. RowTypes
  <2>1. /\ plants = [p \in First |-> TRUE] /\ gone = {} /\ gateways = [g \in Gateway |-> None] /\ serves = <<>>
        /\ maps = [m \in Stock |-> {}] /\ rows = [m \in Stock |-> {}] /\ own = {} /\ refs = {}
        /\ models = [m \in Stock |-> [name |-> m, profile |-> m]]
        /\ devices = [d \in DOMAIN Fitted |-> [model |-> Fitted[d], active |-> TRUE]]
    BY DEF RegistryInit
  <2>2. \A m \in Stock : models[m] \in [name : Name, profile : Profile]
    BY <1>1, <2>1 DEF Profile
  <2>3. \A d \in DOMAIN Fitted : devices[d] \in [model : Name, active : BOOLEAN]
    BY <2>1, FittedAssumption
  <2>4. DOMAIN serves = {}
    BY <2>1
  <2> QED
    BY <1>1, <2>1, <2>2, <2>3, <2>4, HomeAssumption, FittedAssumption DEF RowTypes, Model, Live, Profile
<1>4. ReferencesHold
  <2>1. \A d \in Live : Home[d] \in DOMAIN plants /\ devices[d].model \in Model
    BY FittedAssumption DEF RegistryInit, Live, Model, Stock
  <2>2. \A m \in Model : models[m].profile \in DOMAIN maps
    BY DEF RegistryInit, Model
  <2>3. DOMAIN serves = {} /\ own \cup refs = {}
    BY DEF RegistryInit
  <2> QED
    BY <2>1, <2>2, <2>3 DEF ReferencesHold
<1>5. DeletionsOK /\ ImportsOK
  BY <1>2 DEF DeletionsOK, ImportsOK, ImportOK, Idle, Deletion
<1>6. edits \in Nat
  BY DEF RegistryInit
<1> QED
  BY <1>2, <1>3, <1>4, <1>5, <1>6, TypeParts DEF IndInv

\* Every request that begins or goes on keeps the invariant.
LEMMA RequestsKeep == ASSUME IndInv, NEW q \in Request, Starts(q) \/ Proceeds(q) PROVE IndInv'
<1>1. CASE Starts(q)
  <2>1. Model \subseteq Name
    BY TypeParts DEF IndInv, RowTypes
  <2>2. ASSUME NEW p \in Plant, HardDeletePlant(q, p) PROVE IndInv'
    BY <2>2, BeginDeleteKeeps DEF HardDeletePlant, Deletes
  <2>3. ASSUME NEW d \in Device, HardDeleteDevice(q, d) PROVE IndInv'
    BY <2>3, BeginDeleteKeeps DEF HardDeleteDevice, Deletes
  <2>4. ASSUME NEW m \in Name, HardDeleteDeviceModel(q, m) PROVE IndInv'
    BY <2>4, BeginDeleteKeeps DEF HardDeleteDeviceModel, Deletes
  <2> QED
    BY <1>1, <2>2, <2>3, <2>4, BeginsKeep DEF Starts
<1>2. CASE Proceeds(q)
  <2>1. ASSUME ImportDone(q) \/ CsvDone(q) \/ Abort(q) PROVE IndInv'
    BY <2>1, OverKeeps DEF ImportDone, CsvDone, Abort
  <2>2. ASSUME \/ ReuseModel(q) \/ ReadProfile(q) \/ SkipAddress(q) \/ ListDevices(q)
               \/ (\E a \in Addr : SkipRow(q, a)) \/ (\E d \in Device : SkipDevice(q, d))
        PROVE IndInv'
    BY <2>2, ImportReadsKeep
  <2>3. ASSUME \/ ImportModel(q) \/ UpsertAddress(q) \/ PruneModbusRegisterMetadata(q)
               \/ (\E a \in Addr : UpsertRow(q, a)) \/ (\E d \in Device : ImportDevice(q, d))
        PROVE IndInv'
    BY <2>3, ImportWritesKeep
  <2>4. ASSUME CsvModel(q) \/ CsvDevice(q) \/ (\E d \in Device : CsvPlant(q, d)) PROVE IndInv'
    BY <2>4, CsvKeeps
  <2>5. ASSUME ClearReferences(q) \/ RemoveDevices(q) \/ CommitDelete(q) PROVE IndInv'
    BY <2>5, ClearReferencesKeeps, RemoveDevicesKeeps, CommitDeleteKeeps
  <2> QED
    BY <1>2, <2>1, <2>2, <2>3, <2>4, <2>5 DEF Proceeds
<1> QED
  BY <1>1, <1>2

\* Nothing changes.
LEMMA StutterKeeps == IndInv /\ UNCHANGED registryVars => IndInv'
<1> SUFFICES ASSUME IndInv, UNCHANGED registryVars PROVE IndInv'
  OBVIOUS
<1>1. Fine
  BY SameRows DEF registryVars
<1>2. req' = req /\ edits' = edits
  BY DEF registryVars
<1>3. req' \in [Request -> Requests] /\ ImportsOK' /\ AllKept
  BY <1>2, AloneOK, TypeParts DEF IndInv
<1>4. edits' \in Nat
  BY <1>2, TypeParts DEF IndInv
<1> QED
  BY <1>1, <1>3, <1>4, Conclude

\* The invariant holds in every state, for any number of requests.
LEMMA Invariance == RegistrySpec => []IndInv
<1>1. IndInv /\ [RegistryNext]_registryVars => IndInv'
  BY EditsKeep, RequestsKeep, StutterKeeps DEF RegistryNext
<1> QED
  BY <1>1, InitOK, PTL DEF RegistrySpec

\* The variables keep their types (the registry's tables and its requests).
THEOREM TypeCorrect == RegistrySpec => []RegistryTypeOK
<1>1. IndInv => RegistryTypeOK
  BY DEF IndInv
<1> QED
  BY <1>1, Invariance, PTL

\* No row loses what it refers to, whatever is created, moved, imported and hard-deleted
\* at once (the foreign keys, the locks of hard_delete.go).
THEOREM NothingDangles == RegistrySpec => []ReferencesHold
<1>1. IndInv => ReferencesHold
  BY DEF IndInv
<1> QED
  BY <1>1, Invariance, PTL

\* Nothing slips in between the statements of a hard deletion (HardDeletePlant,
\* HardDeleteDevice, HardDeleteDeviceModel).
THEOREM DeletionsGoThrough == RegistrySpec => []NothingSlipsIn
<1>1. ASSUME IndInv PROVE NothingSlipsIn
  <2>1. ASSUME NEW q \in Request, req[q].op = "delete" PROVE req[q] \in Deletion
    BY <1>1, <2>1, TypeParts, Kinds DEF IndInv
  <2> QED
    BY <1>1, <2>1 DEF IndInv, DeletionsOK, DeletionOK, WayIsClear, NothingSlipsIn
<1> QED
  BY <1>1, Invariance, PTL
-----------------------------------------------------------------------------
(* Imports that nobody disturbs.                                            *)

\* What an import has brought about by now: each address it is done with is in the
\* catalogue and in the model's map, each device it is done with has the model.
ToldSoFar(r) ==
  /\ ~r.prune => r.rep.devices = {}
  /\ r.at = "model" => r.todo = r.rep.addrs /\ r.left = r.rep.devices /\ r.model \in Model \cup {None}
  /\ r.at # "model" => r.model \in Model
  /\ r.at \in {"rows", "profile", "address"} =>
       /\ r.left = r.rep.devices /\ r.todo \subseteq r.rep.addrs
       /\ r.rep.addrs \ r.todo \subseteq rows[r.model] \cap maps[models[r.model].profile]
  /\ r.at \in {"profile", "address"} => r.addr \in rows[r.model]
  /\ r.at = "address" => r.profile = models[r.model].profile
  /\ r.at \in {"list", "devices"} =>
       rows[r.model] = r.rep.addrs /\ r.rep.addrs \subseteq maps[models[r.model].profile]
  /\ r.at = "list" => r.left = r.rep.devices
  /\ r.at = "devices" => \A d \in r.rep.devices \ r.left : d \in Live /\ devices[d].model = r.model

Undisturbed(r) == r.op = "import" /\ r.alone /\ ~r.skipped
ImportsTell    == \A q \in Request : Undisturbed(req[q]) => ToldSoFar(req[q])

Tables == <<models, maps, rows, devices>>

\* Whoever changes the tables disturbs the imports of the others (Goto, Alone).
LEMMA OthersDisturbed ==
  ASSUME IndInv, NEW q, NEW s, Goto(q, s) \/ req' = Disturbed(q),
         NEW p \in Request, p # q, Undisturbed(req'[p])
  PROVE  FALSE
<1>1. /\ req \in [Request -> Requests]
      /\ \A r \in Importing : NotAlone(r).alone = FALSE
  BY TypeParts DEF IndInv, Importing, NotAlone
<1>2. req'[p] = Disturbed(q)[p]
  BY DEF Goto, Disturbed
<1>3. Disturbed(q)[p] = IF req[p].op = "import" THEN NotAlone(req[p]) ELSE req[p]
  BY DEF Disturbed
<1>4. CASE req[p].op = "import"
  BY <1>1, <1>2, <1>3, <1>4, Kinds DEF Undisturbed
<1>5. CASE req[p].op # "import"
  BY <1>2, <1>3, <1>5 DEF Undisturbed
<1> QED
  BY <1>4, <1>5

\* A request changes the tables and disturbs the others, or leaves both alone.
LEMMA RequestShape ==
  ASSUME NEW q \in Request, Starts(q) \/ Proceeds(q)
  PROVE  \/ \E s : Goto(q, s)
         \/ UNCHANGED Tables /\ \E s : req' = [req EXCEPT ![q] = s]
<1> USE DEF Tables
<1>1. CASE Starts(q)
  BY <1>1 DEF Starts, HardDeletePlant, HardDeleteDevice, HardDeleteDeviceModel, BeginDelete,
     SetDeviceModelRegisterMetadata, ImportMiddlewareConfig, ImportRegisterMetadataCSV,
     ImportPlantDeviceCSV, Begin
<1>2. CASE ClearReferences(q) \/ RemoveDevices(q) \/ CommitDelete(q)
  BY <1>2 DEF ClearReferences, RemoveDevices, CommitDelete
<1>3. CASE \/ ReuseModel(q) \/ ReadProfile(q) \/ SkipAddress(q) \/ ListDevices(q)
           \/ (\E a \in Addr : SkipRow(q, a)) \/ (\E d \in Device : SkipDevice(q, d))
  BY <1>3 DEF ReuseModel, ReadProfile, SkipAddress, ListDevices, SkipRow, SkipDevice, Next1
<1>4. CASE ImportDone(q) \/ CsvDone(q) \/ Abort(q)
  BY <1>4 DEF ImportDone, CsvDone, Abort, Over
<1>5. CASE \/ ImportModel(q) \/ PruneModbusRegisterMetadata(q) \/ UpsertAddress(q)
           \/ (\E a \in Addr : UpsertRow(q, a)) \/ (\E d \in Device : ImportDevice(q, d))
  BY <1>5 DEF ImportModel, PruneModbusRegisterMetadata, UpsertAddress, UpsertRow, ImportDevice
<1>6. CASE CsvModel(q) \/ CsvDevice(q) \/ (\E d \in Device : CsvPlant(q, d))
  BY <1>6 DEF CsvModel, CsvDevice, CsvPlant
<1> QED
  BY <1>1, <1>2, <1>3, <1>4, <1>5, <1>6 DEF Proceeds

\* What an import has brought about stays so while the tables do.
LEMMA ToldStays == ASSUME NEW r, ToldSoFar(r), UNCHANGED Tables PROVE ToldSoFar(r)'
  BY DEF ToldSoFar, Tables, Model, Live

\* The requests that a step is not of still tell what they have done.
LEMMA OthersTell ==
  ASSUME IndInv, ImportsTell, NEW q \in Request, Starts(q) \/ Proceeds(q),
         NEW p \in Request, p # q, Undisturbed(req[p])'
  PROVE  ToldSoFar(req[p])'
<1>1. CASE \E s : Goto(q, s)
  BY <1>1, OthersDisturbed
<1>2. CASE UNCHANGED Tables /\ \E s : req' = [req EXCEPT ![q] = s]
  <2>1. PICK r : r = req[p]
    OBVIOUS
  <2>2. req'[p] = r
    BY <1>2, <2>1, TypeParts DEF IndInv
  <2>3. ToldSoFar(r)
    BY <2>1, <2>2 DEF ImportsTell
  <2>4. ToldSoFar(r)'
    BY <1>2, <2>3, ToldStays
  <2> QED
    BY <2>2, <2>4
<1> QED
  BY <1>1, <1>2, RequestShape

\* One request's step, told in terms of where it is now.
LEMMA TellsItself ==
  ASSUME IndInv, ImportsTell, NEW q \in Request, Starts(q) \/ Proceeds(q), NEW r, req'[q] = r,
         Undisturbed(r) => ToldSoFar(r)'
  PROVE  ImportsTell'
<1>1. ASSUME NEW p \in Request, Undisturbed(req[p])' PROVE ToldSoFar(req[p])'
  <2>1. CASE p = q
    BY <1>1, <2>1
  <2>2. CASE p # q
    BY <1>1, <2>2, OthersTell
  <2> QED
    BY <2>1, <2>2
<1> QED
  BY <1>1 DEF ImportsTell
\* A new import has everything before it (importFromSnapshot, importRegisterMetadataCSV,
\* SetDeviceModelRegisterMetadata).
LEMMA NewImport ==
  ASSUME NEW r, r.todo = r.rep.addrs, r.left = r.rep.devices, r.prune = TRUE \/ r.rep.devices = {},
         \/ r.at = "model" /\ r.model \in Model \cup {None}
         \/ r.at = "rows" /\ r.model \in Model
  PROVE  ToldSoFar(r)
  BY DEF ToldSoFar

LEMMA BeginsTell ==
  ASSUME IndInv, ImportsTell, NEW q \in Request, Starts(q), NEW r, Begin(q, r), ToldSoFar(r)
  PROVE  ImportsTell'
<1>1. req \in [Request -> Requests]
  BY TypeParts DEF IndInv
<1>2. UNCHANGED Tables /\ req' = [req EXCEPT ![q] = r]
  BY DEF Begin, Tables
<1>3. req'[q] = r /\ ToldSoFar(r)'
  BY <1>1, <1>2, ToldStays
<1> QED
  BY <1>3, TellsItself

LEMMA StartsTell == ASSUME IndInv, ImportsTell, NEW q \in Request, Starts(q) PROVE ImportsTell'
<1>0. req \in [Request -> Requests] /\ RowTypes
  BY TypeParts DEF IndInv
<1>1. ASSUME NEW n PROVE Found(n) \in Model \cup {None}
  BY DEF Found, Named
<1>2. CASE \/ \E p \in Plant : HardDeletePlant(q, p)
           \/ \E d \in Device : HardDeleteDevice(q, d)
           \/ \E m \in Name : HardDeleteDeviceModel(q, m)
           \/ \E f \in Files : ImportPlantDeviceCSV(q, f)
  <2>1. req'[q].op # "import"
    BY <1>0, <1>2 DEF HardDeletePlant, HardDeleteDevice, HardDeleteDeviceModel, BeginDelete, Goto,
       Disturbed, ImportPlantDeviceCSV, Begin
  <2> QED
    BY <2>1, TellsItself DEF Undisturbed
<1>3. ASSUME NEW m \in Name, NEW a \in Addr, SetDeviceModelRegisterMetadata(q, m, a)
      PROVE  ImportsTell'
  <2>1. PICK rep : rep = [name |-> models[m].name, addrs |-> {a},
                          plant |-> CHOOSE p \in Plant : TRUE, devices |-> {}]
    OBVIOUS
  <2>2. PICK r : r = Import(m, rep, FALSE, "rows")
    OBVIOUS
  <2>3. m \in Model /\ Begin(q, r)
    BY <1>3, <2>1, <2>2, Zenon DEF SetDeviceModelRegisterMetadata
  <2>4. ToldSoFar(r)
    <3>1. /\ r.at = "rows" /\ r.model = m /\ r.rep = rep /\ rep.devices = {}
          /\ r.todo = rep.addrs /\ r.left = rep.devices
      BY <2>1, <2>2 DEF Import
    <3> QED
      BY <2>3, <3>1, NewImport
  <2> QED
    BY <2>3, <2>4, BeginsTell
<1>4. ASSUME NEW rep \in Reports, ImportMiddlewareConfig(q, rep) PROVE ImportsTell'
  <2>1. PICK m, r : m = Found(rep.name) /\ r = Import(m, rep, TRUE, "model")
    OBVIOUS
  <2>2. m \in Model \cup {None} /\ Begin(q, r)
    BY <1>1, <1>4, <2>1, Zenon DEF ImportMiddlewareConfig
  <2>3. ToldSoFar(r)
    <3>1. /\ r.at = "model" /\ r.model = m /\ r.rep = rep /\ r.prune = TRUE
          /\ r.todo = rep.addrs /\ r.left = rep.devices
      BY <2>1 DEF Import
    <3> QED
      BY <2>2, <3>1, NewImport
  <2> QED
    BY <2>2, <2>3, BeginsTell
<1>5. ASSUME NEW rep \in Reports, ImportRegisterMetadataCSV(q, rep) PROVE ImportsTell'
  <2>1. PICK m, s, r : /\ m = Found(rep.name) /\ s = [rep EXCEPT !.devices = {}]
                       /\ r = Import(m, s, FALSE, "model")
    OBVIOUS
  <2>2. m \in Model \cup {None} /\ Begin(q, r)
    BY <1>1, <1>5, <2>1, Zenon DEF ImportRegisterMetadataCSV
  <2>3. s.devices = {}
    BY <2>1, ReportAssumption
  <2>4. ToldSoFar(r)
    <3>1. /\ r.at = "model" /\ r.model = m /\ r.rep = s
          /\ r.todo = s.addrs /\ r.left = s.devices
      BY <2>1 DEF Import
    <3> QED
      BY <2>2, <2>3, <3>1, NewImport
  <2> QED
    BY <2>2, <2>4, BeginsTell
<1> QED
  BY <1>2, <1>3, <1>4, <1>5 DEF Starts

\* An import's own step that changes no table (ReadProfile, the skips, the list).
LEMMA ImportReadsTell ==
  ASSUME IndInv, ImportsTell, NEW q \in Request,
         \/ ReuseModel(q) \/ ReadProfile(q) \/ SkipAddress(q) \/ ListDevices(q)
         \/ (\E a \in Addr : SkipRow(q, a)) \/ (\E d \in Device : SkipDevice(q, d))
  PROVE  ImportsTell'
<1>1. PICK r : r = req[q]
  OBVIOUS
<1>2. /\ r.op = "import" /\ r \in Importing
      /\ req \in [Request -> Requests]
      /\ Undisturbed(r) => ToldSoFar(r)
  BY <1>1, TypeParts, Kinds
  DEF ReuseModel, ReadProfile, SkipAddress, ListDevices, SkipRow, SkipDevice, At, IndInv,
      ImportsTell
<1>3. Proceeds(q)
  BY DEF Proceeds
<1>4. ASSUME NEW s, Next1(q, s), Undisturbed(s) => Undisturbed(r) /\ (ToldSoFar(r) => ToldSoFar(s))
      PROVE  ImportsTell'
  <2>1. UNCHANGED Tables /\ req'[q] = s
    BY <1>2, <1>4 DEF Next1, Tables
  <2>2. Undisturbed(s) => ToldSoFar(s)'
    BY <1>2, <1>4, <2>1, ToldStays
  <2> QED
    BY <1>3, <2>1, <2>2, TellsItself
<1>5. CASE ReuseModel(q)
  <2>1. r.at = "model" /\ r.model # None /\ Next1(q, OfModel(r, r.model))
    BY <1>1, <1>5 DEF ReuseModel, At
  <2>2. PICK s : s = OfModel(r, r.model)
    OBVIOUS
  <2>3. /\ s.at = "rows" /\ s.model = r.model /\ s.todo = r.todo /\ s.left = r.left
        /\ s.rep = r.rep /\ s.prune = r.prune
        /\ s.op = r.op /\ s.alone = r.alone /\ s.skipped = r.skipped
    BY <1>2, <2>2 DEF OfModel, Importing
  <2>4. Undisturbed(s) => Undisturbed(r) /\ (ToldSoFar(r) => ToldSoFar(s))
    BY <2>1, <2>3 DEF Undisturbed, ToldSoFar
  <2> QED
    BY <1>4, <2>1, <2>2, <2>4
<1>6. CASE ReadProfile(q)
  <2>1. r.at = "profile" /\ Next1(q, IntoProfile(r, models[r.model].profile))
    BY <1>1, <1>6 DEF ReadProfile, At
  <2>2. PICK s : s = IntoProfile(r, models[r.model].profile)
    OBVIOUS
  <2>3. /\ s.at = "address" /\ s.model = r.model /\ s.todo = r.todo /\ s.left = r.left
        /\ s.rep = r.rep /\ s.prune = r.prune /\ s.addr = r.addr
        /\ s.profile = models[r.model].profile
        /\ s.op = r.op /\ s.alone = r.alone /\ s.skipped = r.skipped
    BY <1>2, <2>2 DEF IntoProfile, Importing
  <2>4. Undisturbed(s) => Undisturbed(r) /\ (ToldSoFar(r) => ToldSoFar(s))
    BY <2>1, <2>3 DEF Undisturbed, ToldSoFar
  <2> QED
    BY <1>4, <2>1, <2>2, <2>4
<1>7. CASE ListDevices(q)
  <2>1. PICK ds : r.at = "list" /\ Next1(q, Listed(r, ds))
    BY <1>1, <1>7 DEF ListDevices, At
  <2>2. PICK s : s = Listed(r, ds)
    OBVIOUS
  <2>3. /\ s.at = "devices" /\ s.model = r.model /\ s.todo = r.todo /\ s.left = r.left
        /\ s.rep = r.rep /\ s.prune = r.prune
        /\ s.op = r.op /\ s.alone = r.alone /\ s.skipped = r.skipped
    BY <1>2, <2>2 DEF Listed, Importing
  <2>4. Undisturbed(s) => Undisturbed(r) /\ (ToldSoFar(r) => ToldSoFar(s))
    BY <2>1, <2>3 DEF Undisturbed, ToldSoFar
  <2> QED
    BY <1>4, <2>1, <2>2, <2>4
<1>8. CASE \/ SkipAddress(q) \/ (\E a \in Addr : SkipRow(q, a)) \/ (\E d \in Device : SkipDevice(q, d))
  <2>1. PICK s : /\ Next1(q, Skipping(s))
                 /\ \/ \E a : s = AddrDone(r, a)
                    \/ \E d : s = DeviceDone(r, d)
    BY <1>1, <1>8 DEF SkipAddress, SkipRow, SkipDevice
  <2>2. "skipped" \in DOMAIN s
    <3>1. "skipped" \in DOMAIN r
      BY <1>2 DEF Importing
    <3>2. ASSUME NEW a, s = AddrDone(r, a) PROVE DOMAIN s = DOMAIN r
      BY <3>2 DEF AddrDone
    <3>3. ASSUME NEW d, s = DeviceDone(r, d) PROVE DOMAIN s = DOMAIN r
      BY <3>3 DEF DeviceDone
    <3> QED
      BY <2>1, <3>1, <3>2, <3>3
  <2>3. Skipping(s).skipped
    BY <2>2 DEF Skipping
  <2> QED
    BY <1>4, <2>1, <2>3 DEF Undisturbed
<1> QED
  BY <1>5, <1>6, <1>7, <1>8
\* An import's own step that writes (importFromSnapshot, upsertDeviceModelRegisterMetadata,
\* PruneModbusRegisterMetadata).
LEMMA ImportWritesTell ==
  ASSUME IndInv, ImportsTell, NEW q \in Request,
         \/ ImportModel(q) \/ UpsertAddress(q) \/ PruneModbusRegisterMetadata(q)
         \/ (\E a \in Addr : UpsertRow(q, a)) \/ (\E d \in Device : ImportDevice(q, d))
  PROVE  ImportsTell'
<1>1. PICK r : r = req[q]
  OBVIOUS
<1>2. /\ r.op = "import" /\ r \in Importing
      /\ req \in [Request -> Requests]
      /\ Undisturbed(r) => ToldSoFar(r)
  BY <1>1, TypeParts, Kinds
  DEF ImportModel, UpsertAddress, PruneModbusRegisterMetadata, UpsertRow, ImportDevice, At, IndInv,
      ImportsTell
<1>3. Proceeds(q) /\ RowTypes
  BY TypeParts DEF Proceeds, IndInv
<1>4. ASSUME NEW s, Goto(q, s), Undisturbed(s) => Undisturbed(r) /\ (ToldSoFar(r) => ToldSoFar(s)')
      PROVE  ImportsTell'
  <2>1. req'[q] = s
    BY <1>2, <1>4 DEF Goto, Disturbed
  <2> QED
    BY <1>2, <1>3, <1>4, <2>1, TellsItself
<1>5. ASSUME req' = [req EXCEPT ![q] = Idle] PROVE ImportsTell'
  <2>1. req'[q] = Idle /\ Idle.op # "import"
    BY <1>2, <1>5 DEF Idle
  <2> QED
    BY <1>3, <2>1, TellsItself DEF Undisturbed
<1>6. CASE ImportModel(q)
  <2>1. CASE ~MayCreateModel(r.rep.name)
    BY <1>1, <1>5, <1>6, <2>1 DEF ImportModel
  <2>2. CASE MayCreateModel(r.rep.name)
    <3>1. PICK n, s : n = r.rep.name /\ s = OfModel(r, n)
      OBVIOUS
    <3>2. r.at = "model" /\ AddModel(n) /\ Goto(q, s)
      BY <1>1, <1>6, <2>2, <3>1 DEF ImportModel, At
    <3>3. /\ s.at = "rows" /\ s.model = n /\ s.todo = r.todo /\ s.left = r.left
          /\ s.rep = r.rep /\ s.prune = r.prune
          /\ s.op = r.op /\ s.alone = r.alone /\ s.skipped = r.skipped
      BY <1>2, <3>1 DEF OfModel, Importing
    <3>4. Model' = Model \cup {n}
      BY <3>2 DEF AddModel, With, Model
    <3>5. Undisturbed(s) => Undisturbed(r) /\ (ToldSoFar(r) => ToldSoFar(s)')
      BY <3>2, <3>3, <3>4 DEF Undisturbed, ToldSoFar
    <3> QED
      BY <1>4, <3>2, <3>5
  <2> QED
    BY <2>1, <2>2
<1>7. ASSUME NEW a \in Addr, UpsertRow(q, a) PROVE ImportsTell'
  <2>1. PICK s : s = InHand(r, a)
    OBVIOUS
  <2>2. /\ r.at = "rows" /\ r.model \in Model /\ Goto(q, s)
        /\ rows' = [rows EXCEPT ![r.model] = @ \cup {a}] /\ UNCHANGED <<models, maps>>
    BY <1>1, <1>7, <2>1 DEF UpsertRow, At, ModelKey
  <2>3. /\ s.at = "profile" /\ s.model = r.model /\ s.todo = r.todo /\ s.left = r.left
        /\ s.rep = r.rep /\ s.prune = r.prune /\ s.addr = a
        /\ s.op = r.op /\ s.alone = r.alone /\ s.skipped = r.skipped
    BY <1>2, <2>1 DEF InHand, Importing
  <2>4. rows'[r.model] = rows[r.model] \cup {a} /\ Model' = Model
    BY <1>3, <2>2 DEF RowTypes, Model
  <2>5. Undisturbed(s) => Undisturbed(r) /\ (ToldSoFar(r) => ToldSoFar(s)')
    BY <2>2, <2>3, <2>4 DEF Undisturbed, ToldSoFar
  <2> QED
    BY <1>4, <2>2, <2>5
<1>8. CASE UpsertAddress(q)
  <2>1. PICK a, f, s : a = r.addr /\ f = r.profile /\ s = AddrDone(r, a)
    OBVIOUS
  <2>2. /\ r.at = "address" /\ Goto(q, s)
        /\ maps' = [maps EXCEPT ![f] = @ \cup {a}] /\ UNCHANGED <<models, rows>>
    BY <1>1, <1>8, <2>1 DEF UpsertAddress, At
  <2>3. /\ s.at = "rows" /\ s.model = r.model /\ s.todo = r.todo \ {a} /\ s.left = r.left
        /\ s.rep = r.rep /\ s.prune = r.prune
        /\ s.op = r.op /\ s.alone = r.alone /\ s.skipped = r.skipped
    BY <1>2, <2>1 DEF AddrDone, Importing
  <2>4. ASSUME ToldSoFar(r) PROVE ToldSoFar(s)'
    <3>1. /\ r.model \in Model /\ f = models[r.model].profile /\ f \in DOMAIN maps
          /\ a \in rows[r.model]
      BY <2>1, <2>2, <2>4 DEF ToldSoFar, IndInv, ReferencesHold
    <3>2. maps'[f] = maps[f] \cup {a} /\ Model' = Model
      BY <2>2, <3>1 DEF Model
    <3> QED
      BY <2>2, <2>3, <2>4, <3>1, <3>2 DEF ToldSoFar
  <2> QED
    BY <1>4, <2>2, <2>3, <2>4 DEF Undisturbed
<1>9. CASE PruneModbusRegisterMetadata(q)
  <2>1. CASE ~ModelKey(r.model)
    BY <1>1, <1>5, <1>9, <2>1 DEF PruneModbusRegisterMetadata
  <2>2. CASE ModelKey(r.model)
    <3>1. PICK s, keep : s = ToList(r) /\ keep = Keeps(r)
      OBVIOUS
    <3>2. /\ r.at = "rows" /\ r.todo = {} /\ r.prune /\ r.model \in Model /\ Goto(q, s)
          /\ rows' = [rows EXCEPT ![r.model] = keep] /\ UNCHANGED <<models, maps>>
      BY <1>1, <1>9, <2>2, <3>1 DEF PruneModbusRegisterMetadata, At, ModelKey
    <3>3. /\ s.at = "list" /\ s.model = r.model /\ s.todo = r.todo /\ s.left = r.left
          /\ s.rep = r.rep /\ s.prune = r.prune
          /\ s.op = r.op /\ s.alone = r.alone /\ s.skipped = r.skipped
      BY <1>2, <3>1 DEF ToList, Importing
    <3>4. rows'[r.model] = rows[r.model] \cap r.rep.addrs /\ Model' = Model
      BY <1>3, <3>1, <3>2 DEF RowTypes, Model, Keeps
    <3>5. Undisturbed(s) => Undisturbed(r) /\ (ToldSoFar(r) => ToldSoFar(s)')
      BY <3>2, <3>3, <3>4 DEF Undisturbed, ToldSoFar
    <3> QED
      BY <1>4, <3>2, <3>5
  <2> QED
    BY <2>1, <2>2
<1>10. ASSUME NEW d \in Device, ImportDevice(q, d) PROVE ImportsTell'
  <2>1. PICK s, active : s = DeviceDone(r, d) /\ active = (d \in r.known)
    OBVIOUS
  <2>2. /\ r.at = "devices" /\ Goto(q, s)
        /\ devices' = With(devices, d, [model |-> r.model, active |-> active])
        /\ UNCHANGED <<models, maps, rows>>
    BY <1>1, <1>10, <2>1, Zenon DEF ImportDevice, At, AddDevice
  <2>3. /\ s.at = "devices" /\ s.model = r.model /\ s.left = r.left \ {d}
        /\ s.rep = r.rep /\ s.prune = r.prune
        /\ s.op = r.op /\ s.alone = r.alone /\ s.skipped = r.skipped
    BY <1>2, <2>1, <2>2 DEF DeviceDone, Importing
  <2>4. /\ Live' = Live \cup {d} /\ devices'[d].model = r.model
        /\ \A e \in Live : e # d => devices'[e] = devices[e]
    BY <2>2 DEF With, Live
  <2>5. Undisturbed(s) => Undisturbed(r) /\ (ToldSoFar(r) => ToldSoFar(s)')
    BY <2>2, <2>3, <2>4 DEF Undisturbed, ToldSoFar, Model
  <2> QED
    BY <1>4, <2>2, <2>5
<1> QED
  BY <1>6, <1>7, <1>8, <1>9, <1>10

\* Every request that goes on tells what it has done.
LEMMA ProceedsTell == ASSUME IndInv, ImportsTell, NEW q \in Request, Proceeds(q) PROVE ImportsTell'
<1>1. req \in [Request -> Requests]
  BY TypeParts DEF IndInv
<1>2. CASE req'[q].op # "import"
  BY <1>2, TellsItself DEF Undisturbed
<1>3. CASE ImportDone(q) \/ CsvDone(q) \/ Abort(q) \/ CommitDelete(q)
  <2>1. req'[q] = Idle
    BY <1>1, <1>3 DEF ImportDone, CsvDone, Abort, Over, CommitDelete, Goto, Disturbed
  <2> QED
    BY <1>2, <2>1 DEF Idle
<1>4. CASE ClearReferences(q) \/ RemoveDevices(q)
  <2>1. PICK r : r = req[q]
    OBVIOUS
  <2>2. r \in Deletion /\ r.op = "delete"
    BY <1>1, <1>4, <2>1, Kinds DEF ClearReferences, RemoveDevices
  <2>3. PICK xs, ds : xs = Clears(r) /\ ds = Victims(r)
    OBVIOUS
  <2>4. CASE ClearReferences(q)
    <3>1. req'[q] = [r EXCEPT !.at = "cleared", !.swept = xs]
      BY <1>1, <2>1, <2>3, <2>4 DEF ClearReferences
    <3> QED
      BY <1>2, <2>2, <3>1 DEF Deletion
  <2>5. CASE RemoveDevices(q)
    <3>1. req'[q] = [r EXCEPT !.at = "removed", !.ds = ds]
      BY <1>1, <2>1, <2>3, <2>5 DEF RemoveDevices
    <3> QED
      BY <1>2, <2>2, <3>1 DEF Deletion
  <2> QED
    BY <1>4, <2>4, <2>5
<1>5. CASE CsvModel(q) \/ CsvDevice(q) \/ (\E d \in Device : CsvPlant(q, d))
  <2>1. PICK r : r = req[q]
    OBVIOUS
  <2>2. r \in CsvImport /\ r.op = "csv"
    BY <1>1, <1>5, <2>1, Kinds DEF CsvModel, CsvDevice, CsvPlant, InCsv
  <2>3. PICK s : /\ Goto(q, s) \/ req' = [req EXCEPT ![q] = s]
                 /\ \/ s = RowDone(r) \/ \E m : s = Fitting(r, m)
                    \/ \E d : s = NewPlant(r, d) \/ s = DeviceDone(r, d)
    BY <1>5, <2>1 DEF CsvModel, CsvDevice, CsvPlant
  <2>4. req'[q] = s
    BY <1>1, <2>3 DEF Goto, Disturbed
  <2>5. s.op = "csv"
    BY <2>2, <2>3 DEF RowDone, Fitting, NewPlant, DeviceDone, CsvImport
  <2> QED
    BY <1>2, <2>4, <2>5
<1> QED
  BY <1>3, <1>4, <1>5, ImportReadsTell, ImportWritesTell DEF Proceeds

\* A transaction of an administrator disturbs every import (Alone).
LEMMA EditsTell == ASSUME IndInv, Edits PROVE ImportsTell'
<1>1. req' = Disturbed(None)
  BY DEF Edits, Alone, CreatePlant, UpdatePlant, CreateMiddleware, UpdateMiddleware,
     AssignMiddlewarePlant, UnassignMiddlewarePlant, CreateDeviceModel, UpdateDeviceModel,
     AssignRegisterProfile, DeleteDeviceModelRegisterMetadata, CreateDevice, UpdateDevice,
     CreateRegisterProfile, UpsertRegisterProfileAddress, SetDeviceRegisterMetadata, Refer
<1>2. \A p \in Request : p # None
  BY NoneAssumption
<1>3. ASSUME NEW p \in Request, Undisturbed(req[p])' PROVE FALSE
  <2>1. Undisturbed(req'[p])
    BY <1>3 DEF Undisturbed
  <2> QED
    BY <1>1, <1>2, <2>1, OthersDisturbed
<1> QED
  BY <1>3 DEF ImportsTell

\* An import that nobody disturbed and that skipped nothing has taken effect when it
\* ends: the rows, the model's map and the devices are what was reported
\* (importFromSnapshot, importRegisterMetadataCSV).
THEOREM ImportsTakeEffect == RegistrySpec => ImportTakesEffect
<1>1. RegistryInit => ImportsTell
  <2>1. ASSUME RegistryInit, NEW q \in Request PROVE req[q].op # "import"
    BY <2>1 DEF RegistryInit, Idle
  <2> QED
    BY <2>1 DEF ImportsTell, Undisturbed
<1>2. IndInv /\ ImportsTell /\ [RegistryNext]_registryVars => ImportsTell'
  <2> SUFFICES ASSUME IndInv, ImportsTell, [RegistryNext]_registryVars PROVE ImportsTell'
    OBVIOUS
  <2>1. CASE UNCHANGED registryVars
    BY <2>1 DEF registryVars, ImportsTell, ToldSoFar, Undisturbed, Model, Live
  <2> QED
    BY <2>1, EditsTell, StartsTell, ProceedsTell DEF RegistryNext
<1>3. ASSUME IndInv, ImportsTell, NEW q \in Request,
             ImportDone(q), req[q].alone, ~req[q].skipped
      PROVE  LET r == req[q] IN
             /\ IF r.prune THEN rows[r.model] = r.rep.addrs ELSE r.rep.addrs \subseteq rows[r.model]
             /\ r.rep.addrs \subseteq maps[models[r.model].profile]
             /\ \A d \in r.rep.devices :
                  /\ d \in Live /\ devices[d].model = r.model /\ r.rep.addrs \subseteq Shown(d)
                  /\ devices[d].active => r.rep.addrs \subseteq Polled(d)
  <2>1. PICK r : r = req[q]
    OBVIOUS
  <2>2. /\ ToldSoFar(r)
        /\ \/ r.at = "devices" /\ r.left = {}
           \/ r.at = "rows" /\ r.todo = {} /\ ~r.prune
    BY <1>3, <2>1 DEF ImportsTell, Undisturbed, ImportDone, At
  <2>3. CASE r.at = "devices" /\ r.left = {}
    BY <2>1, <2>2, <2>3 DEF ToldSoFar, Shown, Polled
  <2>4. CASE r.at = "rows" /\ r.todo = {} /\ ~r.prune
    BY <2>1, <2>2, <2>4 DEF ToldSoFar
  <2> QED
    BY <2>2, <2>3, <2>4
<1>4. IndInv /\ ImportsTell /\ [RegistryNext]_registryVars
        => [\A q \in Request :
             ImportDone(q) /\ req[q].alone /\ ~req[q].skipped =>
               LET r == req[q] IN
               /\ IF r.prune THEN rows[r.model] = r.rep.addrs ELSE r.rep.addrs \subseteq rows[r.model]
               /\ r.rep.addrs \subseteq maps[models[r.model].profile]
               /\ \A d \in r.rep.devices :
                    /\ d \in Live /\ devices[d].model = r.model /\ r.rep.addrs \subseteq Shown(d)
                    /\ devices[d].active => r.rep.addrs \subseteq Polled(d)]_registryVars
  BY <1>3
<1> QED
  BY <1>1, <1>2, <1>4, Invariance, PTL DEF RegistrySpec, ImportTakesEffect
=============================================================================
