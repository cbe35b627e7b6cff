------------------------------ MODULE Registry ------------------------------
(***************************************************************************)
(* The registry of the Platform: plants, Middlewares, device models with   *)
(* their register maps, devices, hard deletion, and the two imports that   *)
(* fill it.  A request is a goroutine; its transactions run at READ        *)
(* COMMITTED, and an INSERT holds its parents' keys, which only FOR UPDATE *)
(* of a hard deletion and DELETE refuse.  A transaction whose every check  *)
(* is made under a lock or repeated by a constraint is one step here; the  *)
(* deletions and the imports take several.                                 *)
(*                                                                         *)
(* One organisation, all permissions granted: an import or an edit without *)
(* them changes nothing.  Names and codes are not reused after a deletion. *)
(* Catalogue rows that are for display only (no Modbus function code) and  *)
(* the contents of a row are left out.  A device model is named by what it *)
(* was called when it was created, which is also the name of its own       *)
(* register profile; neither is given out twice, for profiles are never    *)
(* deleted.                                                                *)
(***************************************************************************)
EXTENDS Naturals, FiniteSets

CONSTANTS
  Plant,    \* plant codes
  Device,   \* devices, by external id
  Home,     \* the plant whose external id a device has
  Name,     \* names of device models: manufacturer and model
  Extra,    \* names of register profiles that belong to no model at first
  Addr,     \* address keys of Modbus registers
  Gateway,  \* Middlewares
  First,    \* the plants at the start
  Fitted,   \* the devices at the start: device -> model
  Reports,  \* what a Middleware may export: a device set and its connections
  Files,    \* CSV files of one plant and its devices
  Request,  \* requests under way at once
  MaxEdits  \* BOUND: requests begun

ASSUME HomeAssumption   == Home \in [Device -> Plant] /\ First \subseteq Plant /\ Plant # {}
ASSUME FittedAssumption == /\ DOMAIN Fitted \subseteq Device
                           /\ \A d \in DOMAIN Fitted : Fitted[d] \in Name /\ Home[d] \in First
ASSUME ReportAssumption == Reports \subseteq [name : Name, addrs : SUBSET Addr, plant : Plant, devices : SUBSET Device]
ASSUME FileAssumption   == Files \subseteq [plant : Plant, name : Name, devices : SUBSET Device]
ASSUME EditsAssumption  == MaxEdits \in Nat

None == "none"
ASSUME NoneAssumption == None \notin Name \cup Extra \cup Addr \cup Gateway \cup Request

Profile == Name \cup Extra

VARIABLES
  plants,   \* plant rows: code -> is it active
  gone,     \* plants and devices hard-deleted
  gateways, \* middleware_client rows: is it active
  serves,   \* middleware_plant: plant -> the Middleware it is assigned to
  models,   \* device_model rows: model -> its present name and register profile
  maps,     \* register_profile rows: profile -> its addresses
  rows,     \* device_model_register_metadata: model -> address keys
  devices,  \* device rows: device -> its model, is it active
  own,      \* device_register_metadata: overrides <<device, address>>
  refs,     \* rows that keep a device from being deleted: <<device, kind>>
  req,      \* where each request is
  edits

registryVars == <<plants, gone, gateways, serves, models, maps, rows, devices, own, refs, req, edits>>

RefKinds == {"reading", "entry"}  \* telemetry.raw_register_reading, alarm.event_logbook
Idle     == [op |-> "idle"]
Deletes  == {"plant", "device", "model"}

\* A hard deletion, an import of a Middleware's report or of registers, and one of plants and devices.
Deletion ==
  [op : {"delete"}, what : Deletes, of : Plant \cup Device \cup Name,
   at : {"locked", "cleared", "removed"}, swept : SUBSET (Device \X RefKinds), ds : SUBSET Device]
Importing ==
  [op : {"import"}, at : {"model", "rows", "profile", "address", "list", "devices"},
   prune : BOOLEAN, rep : [name : Name, addrs : SUBSET Addr, plant : Plant, devices : SUBSET Device],
   model : Name \cup {None}, known : SUBSET Device, todo : SUBSET Addr, left : SUBSET Device,
   addr : Addr \cup {None}, profile : Profile \cup {None}, plantKnown : BOOLEAN,
   skipped : BOOLEAN, alone : BOOLEAN]
CsvImport ==
  [op : {"csv"}, at : {"plant", "model", "device"}, file : Files, left : SUBSET Device,
   known : SUBSET Device, model : Name \cup {None}, plantKnown : BOOLEAN, row : SUBSET Device]
Requests == {Idle} \cup Deletion \cup Importing \cup CsvImport

Stock == {Fitted[d] : d \in DOMAIN Fitted}

Model == DOMAIN models
Live  == DOMAIN devices

RegistryTypeOK ==
  /\ DOMAIN plants \subseteq Plant /\ \A p \in DOMAIN plants : plants[p] \in BOOLEAN
  /\ gone \subseteq Plant \cup Device
  /\ gateways \in [Gateway -> {None, "active", "inactive"}]
  /\ DOMAIN serves \subseteq Plant /\ \A p \in DOMAIN serves : serves[p] \in Gateway
  /\ Model \subseteq Name /\ \A m \in Model : models[m] \in [name : Name, profile : Profile]
  /\ DOMAIN maps \subseteq Profile /\ \A f \in DOMAIN maps : maps[f] \subseteq Addr
  /\ DOMAIN rows = Model /\ \A m \in Model : rows[m] \subseteq Addr
  /\ Live \subseteq Device /\ \A d \in Live : devices[d] \in [model : Name, active : BOOLEAN]
  /\ own \subseteq Device \X Addr /\ refs \subseteq Device \X RefKinds
  /\ req \in [Request -> Requests]
  /\ edits \in Nat

RegistryInit ==
  /\ plants = [p \in First |-> TRUE] /\ gone = {}
  /\ gateways = [g \in Gateway |-> None] /\ serves = <<>>
  /\ models = [m \in Stock |-> [name |-> m, profile |-> m]]
  /\ maps = [m \in Stock |-> {}] /\ rows = [m \in Stock |-> {}]
  /\ devices = [d \in DOMAIN Fitted |-> [model |-> Fitted[d], active |-> TRUE]]
  /\ own = {} /\ refs = {}
  /\ req = [q \in Request |-> Idle]
  /\ edits = 0

-----------------------------------------------------------------------------
(* Rows, keys and locks.                                                    *)

With(f, x, v)  == [y \in DOMAIN f \cup {x} |-> IF y = x THEN v ELSE f[y]]
Without(f, xs) == [y \in DOMAIN f \ xs |-> f[y]]

Deleting(what, x) == \E q \in Request : req[q].op = "delete" /\ req[q].what = what /\ req[q].of = x

\* Its row is deleted by a transaction that has not committed.
Removed(d) == \E q \in Request : req[q].op = "delete" /\ d \in req[q].ds

\* A plant that a new row may name: it is there and nobody is deleting it.
PlantKey(p)  == p \in DOMAIN plants /\ ~Deleting("plant", p)
ModelKey(m)  == m \in Model /\ ~Deleting("model", m)
\* Mutant of DeviceKey: a row that names a device does not hold its key.
DeviceSeen(d) == d \in Live
DeviceKey(d) == d \in Live /\ ~Deleting("device", d) /\ ~Removed(d)

\* A commit of somebody else disturbs whoever is in the middle of an import.
NotAlone(r)  == [r EXCEPT !.alone = FALSE]
Disturbed(q) == [p \in Request |-> IF p # q /\ req[p].op = "import" THEN NotAlone(req[p]) ELSE req[p]]

Goto(q, r) == req' = [Disturbed(q) EXCEPT ![q] = r]
Edit       == edits < MaxEdits /\ edits' = edits + 1
\* One transaction, begun and committed between two steps of the others.
Alone      == Edit /\ req' = Disturbed(None)

\* Ids of the models a list shows under a name (DeviceModels).
Named(n) == {m \in Model : models[m].name = n}
Found(n) == IF Named(n) = {} THEN None ELSE CHOOSE m \in Named(n) : TRUE

\* Devices of a plant, as the list shows them.
DevicesAt(p) == {d \in Live : Home[d] = p}

\* Addresses that the next config.snapshot makes a Middleware poll on a device.
Polled(d) == IF devices[d].active THEN maps[models[devices[d].model].profile] ELSE {}

\* The registers of a device as the operator sees them: the model's.
Shown(d) == rows[devices[d].model]

-----------------------------------------------------------------------------
(* Plants and Middlewares.                                                  *)

CreatePlant(p) ==
  /\ p \notin DOMAIN plants \cup gone /\ Alone
  /\ plants' = With(plants, p, TRUE)
  /\ UNCHANGED <<gone, gateways, serves, models, maps, rows, devices, own, refs>>

\* GetAuthorizedPlantForUpdate waits for a deletion of the plant, which leaves nothing to update.
UpdatePlant(p, active) ==
  /\ PlantKey(p) /\ Alone
  /\ plants' = [plants EXCEPT ![p] = active]
  /\ UNCHANGED <<gone, gateways, serves, models, maps, rows, devices, own, refs>>

CreateMiddleware(g) ==
  /\ gateways[g] = None /\ Alone
  /\ gateways' = [gateways EXCEPT ![g] = "active"]
  /\ UNCHANGED <<plants, gone, serves, models, maps, rows, devices, own, refs>>

UpdateMiddleware(g, s) ==
  /\ gateways[g] # None /\ Alone
  /\ gateways' = [gateways EXCEPT ![g] = s]
  /\ UNCHANGED <<plants, gone, serves, models, maps, rows, devices, own, refs>>

\* A plant has one Middleware: assigning it to another takes it from the first.
AssignMiddlewarePlant(g, p) ==
  /\ gateways[g] # None /\ PlantKey(p) /\ Alone
  /\ serves' = With(serves, p, g)
  /\ UNCHANGED <<plants, gone, gateways, models, maps, rows, devices, own, refs>>

UnassignMiddlewarePlant(g, p) ==
  /\ p \in DOMAIN serves /\ serves[p] = g /\ PlantKey(p) /\ Alone
  /\ serves' = Without(serves, {p})
  /\ UNCHANGED <<plants, gone, gateways, models, maps, rows, devices, own, refs>>

-----------------------------------------------------------------------------
(* Device models, register profiles and their addresses.                    *)

\* Both inserts of CreateDeviceModel go through: the name is free as a profile's and as a model's.
MayCreateModel(n) == n \notin DOMAIN maps /\ Named(n) = {}

\* The model gets a profile of its own, with its own id.
AddModel(n) ==
  /\ models' = With(models, n, [name |-> n, profile |-> n])
  /\ maps'   = With(maps, n, {})
  /\ rows'   = With(rows, n, {})

CreateDeviceModel(n) ==
  /\ MayCreateModel(n) /\ AddModel(n) /\ Alone
  /\ UNCHANGED <<plants, gone, gateways, serves, devices, own, refs>>

Renamed(r, n)  == [r EXCEPT !.name = n]
Assigned(r, f) == [r EXCEPT !.profile = f]

\* A new name for the model; the profile keeps its own.
UpdateDeviceModel(m, n) ==
  /\ ModelKey(m) /\ Named(n) \subseteq {m} /\ Alone
  /\ models' = [models EXCEPT ![m] = Renamed(@, n)]
  /\ UNCHANGED <<plants, gone, gateways, serves, maps, rows, devices, own, refs>>

CreateRegisterProfile(f) ==
  /\ f \notin DOMAIN maps /\ Alone
  /\ maps' = With(maps, f, {})
  /\ UNCHANGED <<plants, gone, gateways, serves, models, rows, devices, own, refs>>

\* The catalogue rows of the model stay what they are.
AssignRegisterProfile(m, f) ==
  /\ ModelKey(m) /\ f \in DOMAIN maps /\ Alone
  /\ models' = [models EXCEPT ![m] = Assigned(@, f)]
  /\ UNCHANGED <<plants, gone, gateways, serves, maps, rows, devices, own, refs>>

UpsertRegisterProfileAddress(f, a) ==
  /\ f \in DOMAIN maps /\ Alone
  /\ maps' = [maps EXCEPT ![f] = @ \cup {a}]
  /\ UNCHANGED <<plants, gone, gateways, serves, models, rows, devices, own, refs>>

\* Only what has a catalogue row can be deleted; the address goes with it.
DeleteDeviceModelRegisterMetadata(m, a) ==
  /\ ModelKey(m) /\ a \in rows[m] /\ Alone
  /\ rows' = [rows EXCEPT ![m] = @ \ {a}]
  /\ maps' = [maps EXCEPT ![models[m].profile] = @ \ {a}]
  /\ UNCHANGED <<plants, gone, gateways, serves, models, devices, own, refs>>

-----------------------------------------------------------------------------
(* Devices.                                                                 *)

MayCreateDevice(d, m) == d \notin Live \cup gone /\ PlantKey(Home[d]) /\ ModelKey(m)
AddDevice(d, m, active) == devices' = With(devices, d, [model |-> m, active |-> active])

CreateDevice(d, m, active) ==
  /\ MayCreateDevice(d, m) /\ AddDevice(d, m, active) /\ Alone
  /\ UNCHANGED <<plants, gone, gateways, serves, models, maps, rows, own, refs>>

\* getDeviceForUpdate, then the model FOR UPDATE.
MayUpdateDevice(d, m) == DeviceKey(d) /\ ModelKey(m)

UpdateDevice(d, m, active) ==
  /\ MayUpdateDevice(d, m) /\ AddDevice(d, m, active) /\ Alone
  /\ UNCHANGED <<plants, gone, gateways, serves, models, maps, rows, own, refs>>

SetDeviceRegisterMetadata(d, a) ==
  /\ DeviceKey(d) /\ Alone
  /\ own' = own \cup {<<d, a>>}
  /\ UNCHANGED <<plants, gone, gateways, serves, models, maps, rows, devices, refs>>

\* An operator's logbook entry, or a reading that is ingested, names the device.
Refer(d, kind) ==
  /\ DeviceKey(d) /\ PlantKey(Home[d]) /\ Alone
  /\ refs' = refs \cup {<<d, kind>>}
  /\ UNCHANGED <<plants, gone, gateways, serves, models, maps, rows, devices, own>>

-----------------------------------------------------------------------------
(* Hard deletion: lock the row, clear what would refuse it, delete.         *)

Victims(r) == {d \in Live : \/ r.what = "plant" /\ Home[d] = r.of
                            \/ r.what = "device" /\ d = r.of
                            \/ r.what = "model" /\ devices[d].model = r.of}
RefsOf(ds) == {x \in refs : x[1] \in ds}

\* requireGlobalHardDelete, the row FOR UPDATE, the typed confirmation.
BeginDelete(q, what, x) ==
  /\ req[q] = Idle /\ Edit /\ ~Deleting(what, x)
  /\ Goto(q, [op |-> "delete", what |-> what, of |-> x, at |-> "locked", swept |-> {}, ds |-> {}])
  /\ UNCHANGED <<plants, gone, gateways, serves, models, maps, rows, devices, own, refs>>

HardDeletePlant(q, p)       == p \in DOMAIN plants /\ BeginDelete(q, "plant", p)
HardDeleteDevice(q, d)      == d \in Live /\ BeginDelete(q, "device", d)
HardDeleteDeviceModel(q, m) == m \in Model /\ BeginDelete(q, "model", m)

\* Readings are deleted; a plant's or a device's logbook entries are detached, a model's are not.
Clears(r) == {x \in RefsOf(Victims(r)) : r.what # "model" \/ x[2] = "reading"}

ClearReferences(q) ==
  /\ req[q].op = "delete" /\ req[q].at = "locked"
  /\ \A p \in Request \ {q} : req[p].op = "delete" => req[p].swept \cap Clears(req[q]) = {}
  /\ req' = [req EXCEPT ![q] = [req[q] EXCEPT !.at = "cleared", !.swept = Clears(req[q])]]
  /\ UNCHANGED <<plants, gone, gateways, serves, models, maps, rows, devices, own, refs, edits>>

\* Mutant of Unreferenced: the foreign keys to the device are not enforced.
Unchecked(r) == r.swept \subseteq refs

\* The foreign keys of readings and entries refuse the deletion of a device that has some left.
Unreferenced(r) == RefsOf(Victims(r)) \subseteq r.swept

RemoveDevices(q) ==
  LET r == req[q] IN
  /\ r.op = "delete" /\ r.at = "cleared" /\ Unreferenced(r)
  /\ \A d \in Victims(r) : ~Removed(d) /\ (r.what = "device" \/ ~Deleting("device", d))
  /\ req' = [req EXCEPT ![q] = [r EXCEPT !.at = "removed", !.ds = Victims(r)]]
  /\ UNCHANGED <<plants, gone, gateways, serves, models, maps, rows, devices, own, refs, edits>>

Uncatalogued(m) == Without(rows, {m})

\* The row itself, and what hangs on it; the register profile of a model stays.
CommitDelete(q) ==
  LET r == req[q] IN
  /\ r.op = "delete" /\ r.at = "removed" /\ Victims(r) \subseteq r.ds
  /\ devices' = Without(devices, r.ds)
  /\ own'  = {x \in own : x[1] \notin r.ds}
  /\ refs' = refs \ r.swept
  /\ gone' = gone \cup r.ds \cup (IF r.what = "plant" THEN {r.of} ELSE {})
  /\ IF r.what = "plant"
     THEN plants' = Without(plants, {r.of}) /\ serves' = Without(serves, {r.of})
     ELSE UNCHANGED <<plants, serves>>
  /\ IF r.what = "model"
     THEN models' = Without(models, {r.of}) /\ rows' = Uncatalogued(r.of)
     ELSE UNCHANGED <<models, rows>>
  /\ Goto(q, Idle)
  /\ UNCHANGED <<gateways, maps, edits>>

-----------------------------------------------------------------------------
(* One catalogue row: two transactions with a read in between.  An import   *)
(* does this for every address it was given.                                *)

Import(model, rep, prune, at) ==
  [op |-> "import", at |-> at, prune |-> prune, rep |-> rep, model |-> model, known |-> {},
   todo |-> rep.addrs, left |-> rep.devices, addr |-> None, profile |-> None,
   plantKnown |-> rep.plant \in DOMAIN plants, skipped |-> FALSE, alone |-> TRUE]

Begin(q, r) ==
  /\ req[q] = Idle /\ Edit
  /\ req' = [req EXCEPT ![q] = r]
  /\ UNCHANGED <<plants, gone, gateways, serves, models, maps, rows, devices, own, refs>>

At(q, at)  == req[q].op = "import" /\ req[q].at = at
Next1(q, r) == /\ req' = [req EXCEPT ![q] = r]
               /\ UNCHANGED <<plants, gone, gateways, serves, models, maps, rows, devices, own, refs, edits>>

\* How far an import is: its model, an address it has in hand, the address done with, a device done with.
OfModel(r, m)     == [r EXCEPT !.at = "rows", !.model = m]
InHand(r, a)      == [r EXCEPT !.at = "profile", !.addr = a]
IntoProfile(r, f) == [r EXCEPT !.at = "address", !.profile = f]
AddrDone(r, a)    == [r EXCEPT !.at = "rows", !.todo = @ \ {a}, !.addr = None, !.profile = None]
ToList(r)         == [r EXCEPT !.at = "list"]
Listed(r, ds)     == [r EXCEPT !.at = "devices", !.known = ds]
DeviceDone(r, d)  == [r EXCEPT !.left = @ \ {d}]
Skipping(r)       == [r EXCEPT !.skipped = TRUE]

SetDeviceModelRegisterMetadata(q, m, a) ==
  /\ m \in Model
  /\ Begin(q, Import(m, [name |-> models[m].name, addrs |-> {a}, plant |-> CHOOSE p \in Plant : TRUE, devices |-> {}],
                     FALSE, "rows"))

\* The first transaction: the catalogue row.
UpsertRow(q, a) ==
  LET r == req[q] IN
  /\ At(q, "rows") /\ a \in r.todo /\ ModelKey(r.model)
  /\ rows' = [rows EXCEPT ![r.model] = @ \cup {a}]
  /\ Goto(q, InHand(r, a))
  /\ UNCHANGED <<plants, gone, gateways, serves, models, maps, devices, own, refs, edits>>

\* A read from the pool: the profile the model has now.
ReadProfile(q) ==
  LET r == req[q] IN
  /\ At(q, "profile") /\ r.model \in Model
  /\ Next1(q, IntoProfile(r, models[r.model].profile))

\* The second transaction: the address in that profile.
UpsertAddress(q) ==
  LET r == req[q] IN
  /\ At(q, "address")
  /\ maps' = [maps EXCEPT ![r.profile] = @ \cup {r.addr}]
  /\ Goto(q, AddrDone(r, r.addr))
  /\ UNCHANGED <<plants, gone, gateways, serves, models, rows, devices, own, refs, edits>>

\* A row that cannot be written is logged and skipped.
SkipRow(q, a) ==
  LET r == req[q] IN
  /\ At(q, "rows") /\ a \in r.todo /\ r.model \notin Model
  /\ Next1(q, Skipping(AddrDone(r, a)))

SkipAddress(q) ==
  LET r == req[q] IN
  /\ At(q, "profile") /\ r.model \notin Model
  /\ Next1(q, Skipping(AddrDone(r, r.addr)))

-----------------------------------------------------------------------------
(* Import of what a Middleware has (importFromSnapshot), and of a register  *)
(* CSV, which never prunes and names no devices.                            *)

ImportMiddlewareConfig(q, rep) == Begin(q, Import(Found(rep.name), rep, TRUE, "model"))
ImportRegisterMetadataCSV(q, rep) ==
  Begin(q, Import(Found(rep.name), [rep EXCEPT !.devices = {}], FALSE, "model"))

ReuseModel(q) == At(q, "model") /\ req[q].model # None /\ Next1(q, OfModel(req[q], req[q].model))

\* A model that is not in the list is created; a name that is taken ends the import.
ImportModel(q) ==
  LET r == req[q] IN
  /\ At(q, "model") /\ r.model = None
  /\ IF MayCreateModel(r.rep.name)
     THEN AddModel(r.rep.name) /\ Goto(q, OfModel(r, r.rep.name))
     ELSE req' = [req EXCEPT ![q] = Idle] /\ UNCHANGED <<models, maps, rows>>
  /\ UNCHANGED <<plants, gone, gateways, serves, devices, own, refs, edits>>

\* Mutant of Keeps: the keys to keep are collected from the rows that were there.
KeepsAll(r) == rows[r.model]

Keeps(r) == rows[r.model] \cap r.rep.addrs

\* Catalogue rows that were not reported go; the addresses of the profile stay.
PruneModbusRegisterMetadata(q) ==
  LET r == req[q] IN
  /\ At(q, "rows") /\ r.todo = {} /\ r.prune
  /\ IF ModelKey(r.model)
     THEN rows' = [rows EXCEPT ![r.model] = Keeps(r)] /\ Goto(q, ToList(r))
     ELSE r.model \notin Model /\ UNCHANGED rows /\ req' = [req EXCEPT ![q] = Idle]
  /\ UNCHANGED <<plants, gone, gateways, serves, models, maps, devices, own, refs, edits>>

\* The plant's devices are listed once, when the first connection needs them.
ListDevices(q) ==
  At(q, "list") /\ Next1(q, Listed(req[q], DevicesAt(req[q].rep.plant)))

\* A connection: the device is updated when the list had it, else created, inactive at first.
ImportDevice(q, d) ==
  LET r == req[q] IN
  /\ At(q, "devices") /\ d \in r.left /\ r.plantKnown
  /\ IF d \in r.known THEN MayUpdateDevice(d, r.model) ELSE MayCreateDevice(d, r.model)
  /\ AddDevice(d, r.model, d \in r.known)
  /\ Goto(q, DeviceDone(r, d))
  /\ UNCHANGED <<plants, gone, gateways, serves, models, maps, rows, own, refs, edits>>

\* Its plant, its model or the device went away meanwhile, or somebody else has created it.
SkipDevice(q, d) ==
  LET r == req[q] IN
  /\ At(q, "devices") /\ d \in r.left
  /\ \/ ~r.plantKnown \/ r.model \notin Model \/ (d \in r.known) # (d \in Live)
     \/ d \notin r.known /\ Home[d] \notin DOMAIN plants
  /\ Next1(q, Skipping(DeviceDone(r, d)))

Over(q) == /\ req' = [req EXCEPT ![q] = Idle]
           /\ UNCHANGED <<plants, gone, gateways, serves, models, maps, rows, devices, own, refs, edits>>

ImportDone(q) ==
  /\ \/ At(q, "devices") /\ req[q].left = {}
     \/ At(q, "rows") /\ req[q].todo = {} /\ ~req[q].prune
  /\ Over(q)

-----------------------------------------------------------------------------
(* Import of a CSV of a plant and its devices, row by row.                  *)

ImportPlantDeviceCSV(q, f) ==
  Begin(q, [op |-> "csv", at |-> "plant", file |-> f, left |-> f.devices, known |-> {}, row |-> {},
            model |-> Found(f.name), plantKnown |-> f.plant \in DOMAIN plants])

InCsv(q, at) == req[q].op = "csv" /\ req[q].at = at

NewPlant(r, d) == [r EXCEPT !.plantKnown = TRUE, !.at = "model", !.row = {d}]
Fitting(r, m)  == [r EXCEPT !.at = "device", !.known = DevicesAt(r.file.plant), !.model = m]
RowDone(r)     == [r EXCEPT !.at = "plant", !.left = @ \ r.row, !.row = {}]

\* A row whose plant is known updates it without a lifecycle status: UpdatePlant refuses, the row is
\* skipped.  A new plant is created, unless somebody has been faster.
CsvPlant(q, d) ==
  LET r == req[q] IN
  /\ InCsv(q, "plant") /\ d \in r.left
  /\ IF r.plantKnown \/ r.file.plant \in DOMAIN plants \cup gone
     THEN req' = [req EXCEPT ![q] = DeviceDone(r, d)] /\ UNCHANGED plants
     ELSE /\ plants' = With(plants, r.file.plant, TRUE)
          /\ Goto(q, NewPlant(r, d))
  /\ UNCHANGED <<gone, gateways, serves, models, maps, rows, devices, own, refs, edits>>

CsvModel(q) ==
  LET r == req[q] IN
  /\ InCsv(q, "model")
  /\ IF r.model = None /\ MayCreateModel(r.file.name)
     THEN AddModel(r.file.name) /\ Goto(q, Fitting(r, r.file.name))
     ELSE /\ req' = [req EXCEPT ![q] = IF r.model = None THEN RowDone(r) ELSE Fitting(r, r.model)]
          /\ UNCHANGED <<models, maps, rows>>
  /\ UNCHANGED <<plants, gone, gateways, serves, devices, own, refs, edits>>

CsvDevice(q) ==
  LET r == req[q]
      ok(d) == IF d \in r.known THEN MayUpdateDevice(d, r.model) ELSE MayCreateDevice(d, r.model)
      refused(d) == Home[d] \notin DOMAIN plants \/ r.model \notin Model \/ (d \in r.known) # (d \in Live) IN
  /\ InCsv(q, "device")
  /\ \E d \in r.row :
       \/ ok(d) /\ AddDevice(d, r.model, TRUE) /\ Goto(q, RowDone(r))
       \/ refused(d) /\ UNCHANGED devices /\ req' = [req EXCEPT ![q] = RowDone(r)]
  /\ UNCHANGED <<plants, gone, gateways, serves, models, maps, rows, own, refs, edits>>

CsvDone(q) == InCsv(q, "plant") /\ req[q].left = {} /\ Over(q)

\* The client goes away, a deadlock's victim is rolled back, the service stops: what was committed stays.
Abort(q) == req[q] # Idle /\ Over(q)

-----------------------------------------------------------------------------
Edits ==
  \/ \E p \in Plant : CreatePlant(p) \/ (\E a \in BOOLEAN : UpdatePlant(p, a))
  \/ \E g \in Gateway :
       \/ CreateMiddleware(g) \/ (\E s \in {"active", "inactive"} : UpdateMiddleware(g, s))
       \/ \E p \in Plant : AssignMiddlewarePlant(g, p) \/ UnassignMiddlewarePlant(g, p)
  \/ \E m \in Name :
       \/ CreateDeviceModel(m) \/ (\E n \in Name : UpdateDeviceModel(m, n))
       \/ \E f \in Profile : AssignRegisterProfile(m, f)
       \/ \E a \in Addr : DeleteDeviceModelRegisterMetadata(m, a)
       \/ \E d \in Device, a \in BOOLEAN : CreateDevice(d, m, a) \/ UpdateDevice(d, m, a)
  \/ \E f \in Profile : CreateRegisterProfile(f) \/ (\E a \in Addr : UpsertRegisterProfileAddress(f, a))
  \/ \E d \in Device : (\E a \in Addr : SetDeviceRegisterMetadata(d, a)) \/ (\E k \in RefKinds : Refer(d, k))

Starts(q) ==
  \/ \E p \in Plant : HardDeletePlant(q, p)
  \/ \E d \in Device : HardDeleteDevice(q, d)
  \/ \E m \in Name : HardDeleteDeviceModel(q, m) \/ (\E a \in Addr : SetDeviceModelRegisterMetadata(q, m, a))
  \/ \E rep \in Reports : ImportMiddlewareConfig(q, rep) \/ ImportRegisterMetadataCSV(q, rep)
  \/ \E f \in Files : ImportPlantDeviceCSV(q, f)

Proceeds(q) ==
  \/ ClearReferences(q) \/ RemoveDevices(q) \/ CommitDelete(q)
  \/ ReuseModel(q) \/ ImportModel(q)
  \/ \E a \in Addr : UpsertRow(q, a) \/ SkipRow(q, a)
  \/ ReadProfile(q) \/ UpsertAddress(q) \/ SkipAddress(q)
  \/ PruneModbusRegisterMetadata(q) \/ ListDevices(q)
  \/ \E d \in Device : ImportDevice(q, d) \/ SkipDevice(q, d) \/ CsvPlant(q, d)
  \/ ImportDone(q) \/ CsvModel(q) \/ CsvDevice(q) \/ CsvDone(q)
  \/ Abort(q)

RegistryNext == Edits \/ \E q \in Request : Starts(q) \/ Proceeds(q)

RegistrySpec == RegistryInit /\ [][RegistryNext]_registryVars

-----------------------------------------------------------------------------
(* What must hold.                                                          *)

\* Whatever is deleted while it is being made: a device has its plant and its model, a model its
\* profile, an assignment its plant, and an override or a reading its device.
ReferencesHold ==
  /\ \A d \in Live : Home[d] \in DOMAIN plants /\ devices[d].model \in Model
  /\ \A m \in Model : models[m].profile \in DOMAIN maps
  /\ DOMAIN serves \subseteq DOMAIN plants
  /\ \A x \in own \cup refs : x[1] \in Live

\* A hard deletion of a plant or a device is not refused half-way: no reading, entry or device slips
\* in between the statements that clear the way and the one that deletes; nor a device under a model.
NothingSlipsIn ==
  \A q \in Request : LET r == req[q] IN
    r.op = "delete" =>
      /\ r.at = "cleared" /\ r.what # "model" => RefsOf(Victims(r)) \subseteq r.swept
      /\ r.at = "removed" => Victims(r) \subseteq r.ds

\* An import that nobody disturbed and that skipped nothing has taken effect: the catalogue shows what
\* was reported, each of it is in the model's map, the devices have the model, show the registers, and
\* those that are active get them polled.
ImportTakesEffect ==
  [][\A q \in Request :
       ImportDone(q) /\ req[q].alone /\ ~req[q].skipped =>
         LET r == req[q] IN
         /\ IF r.prune THEN rows[r.model] = r.rep.addrs ELSE r.rep.addrs \subseteq rows[r.model]
         /\ r.rep.addrs \subseteq maps[models[r.model].profile]
         /\ \A d \in r.rep.devices :
              /\ d \in Live /\ devices[d].model = r.model /\ r.rep.addrs \subseteq Shown(d)
              /\ devices[d].active => r.rep.addrs \subseteq Polled(d)]_registryVars

=============================================================================
