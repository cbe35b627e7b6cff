------------------------------ MODULE Revisions ------------------------------
(***************************************************************************)
(* What people edit in a browser and publish: the SCADA screens of a plant *)
(* with their publications, the dashboard of a user, the picture of a      *)
(* plant and the site's logo.  A tab holds what it last read; it saves and *)
(* publishes by naming the versions it read.  A transaction locks the row  *)
(* it compares and is one step; uploads write files outside of theirs and  *)
(* take several.  An answer may be lost after the commit it reports.       *)
(*                                                                         *)
(* All permissions are granted.  Screens and files have fresh ids.         *)
(***************************************************************************)
EXTENDS Naturals, FiniteSets

CONSTANTS
  Tab,      \* open tabs
  Plant,    \* plants, all there at the start
  Device,   \* devices
  At,       \* the plant of a device
  Screen,   \* ids of SCADA screens
  Title,    \* their names
  User,     \* users, each with at most one dashboard
  Design,   \* designs and layouts
  Uses,     \* the devices a design is bound to
  Blank,    \* the design of a new screen or dashboard
  File,     \* ids of uploaded files
  Request,  \* uploads and removals under way at once
  MaxEdits  \* BOUND: commits and uploads begun

ASSUME PlantAssumption  == At \in [Device -> Plant]
ASSUME DesignAssumption == Blank \in Design /\ Uses \in [Design -> SUBSET Device] /\ Uses[Blank] = {}
ASSUME BoundAssumption  == MaxEdits \in Nat

None == "none"
ASSUME NoneAssumption == None \notin Design \cup File \cup Screen \cup User
ASSUME IdAssumption   == Screen \cap User = {}

VARIABLES
  plants,   \* plant rows
  devices,  \* device rows
  screens,  \* scada_screen rows: screen -> plant, name, draft, its version, published version
  pubs,     \* scada_screen_publication rows: <<screen, version>> -> design
  gone,     \* ids of deleted screens
  boards,   \* user_dashboard rows: user -> draft, version, published layout and version
  image,    \* plant.image_url: plant -> file or None
  logo,     \* site_setting.logo_url
  files,    \* files on disk
  used,     \* file names given out
  unsure,   \* plants whose last upload ended with a commit that was not answered
  tab,      \* what each tab shows
  req,      \* uploads and removals under way
  edits

rows == <<screens, pubs, gone, boards>>
disk == <<image, logo, files, used, unsure, req>>
revisionsVars == <<plants, devices, screens, pubs, gone, boards, image, logo, files, used, unsure, tab, req, edits>>

Views == [of : Screen \cup User \cup {None}, draft : Design \cup {None}, version : Nat,
          shown : Design \cup {None}, published : Nat]
Empty == [of |-> None, draft |-> None, version |-> 0, shown |-> None, published |-> 0]

Idle  == [op |-> "idle"]
Reqs  == {Idle} \cup [op : {"image", "logo"}, plant : Plant \cup {None}, new : File \cup {None},
                      before : File \cup {None}, at : {"begun", "stored", "committed"}]

RevisionsTypeOK ==
  /\ plants \subseteq Plant /\ devices \subseteq Device
  /\ DOMAIN screens \subseteq Screen
  /\ \A s \in DOMAIN screens :
       /\ screens[s] \in [plant : Plant, name : Title, draft : Design, version : Nat \ {0}, published : Nat]
       /\ screens[s].plant \in plants
       /\ screens[s].published # 0 => <<s, screens[s].published>> \in DOMAIN pubs
  /\ DOMAIN pubs \subseteq (DOMAIN screens) \X Nat /\ \A x \in DOMAIN pubs : pubs[x] \in Design
  /\ gone \subseteq Screen \ DOMAIN screens
  /\ DOMAIN boards \subseteq User
  /\ \A u \in DOMAIN boards : boards[u] \in [draft : Design, version : Nat \ {0}, shown : Design \cup {None}, published : Nat]
  /\ image \in [Plant -> File \cup {None}] /\ logo \in File \cup {None}
  /\ files \subseteq used /\ used \subseteq File /\ unsure \subseteq Plant
  /\ tab \in [Tab -> Views]
  /\ req \in [Request -> Reqs]
  /\ edits \in Nat

RevisionsInit ==
  /\ plants = Plant /\ devices = Device
  /\ screens = <<>> /\ pubs = <<>> /\ gone = {} /\ boards = <<>>
  /\ image = [p \in Plant |-> None] /\ logo = None /\ files = {} /\ used = {} /\ unsure = {}
  /\ tab = [t \in Tab |-> Empty]
  /\ req = [q \in Request |-> Idle]
  /\ edits = 0

With(f, x, v)  == [y \in DOMAIN f \cup {x} |-> IF y = x THEN v ELSE f[y]]
Without(f, xs) == [y \in DOMAIN f \ xs |-> f[y]]

Edit == edits < MaxEdits /\ edits' = edits + 1

\* A row or a view with the next draft, and with another publication.
Saved(v, x)      == [v EXCEPT !.draft = x, !.version = @ + 1]
Showing(v, x, n) == [v EXCEPT !.shown = x, !.published = n]

-----------------------------------------------------------------------------
(* SCADA screens.                                                           *)

\* PublishedScadaScreen: the publication the screen names.
Shown(s) == IF screens[s].published = 0 THEN None ELSE pubs[<<s, screens[s].published>>]

\* ScadaScreen
ScreenView(s) == [of |-> s, draft |-> screens[s].draft, version |-> screens[s].version,
                  shown |-> Shown(s), published |-> screens[s].published]

OpenScreen(t, s) ==
  /\ s \in DOMAIN screens
  /\ tab' = [tab EXCEPT ![t] = ScreenView(s)]
  /\ UNCHANGED <<plants, devices, rows, disk, edits>>

\* The tab shows what the answer says, or nothing has been heard and it shows what it showed.
Answered(t, view) == tab' = tab \/ tab' = [tab EXCEPT ![t] = view]

NameFree(s, p, n) == \A x \in DOMAIN screens \ {s} : screens[x].plant = p => screens[x].name # n

CreateScadaScreen(t, s, p, n) ==
  /\ s \notin DOMAIN screens \cup gone /\ p \in plants /\ NameFree(s, p, n) /\ Edit
  /\ screens' = With(screens, s, [plant |-> p, name |-> n, draft |-> Blank, version |-> 1, published |-> 0])
  /\ Answered(t, [of |-> s, draft |-> Blank, version |-> 1, shown |-> None, published |-> 0])
  /\ UNCHANGED <<plants, devices, pubs, gone, boards, disk>>

\* Mutant of DraftIsCurrent: the last save wins.
DraftIsThere(t) == tab[t].version > 0

\* The draft is the one the tab has read.
DraftIsCurrent(t) == screens[tab[t].of].version = tab[t].version

\* Mutant of ShownIsCurrent: a publisher names the draft only.
ShownIsAnything(t) == screens[tab[t].of].published \in Nat

ShownIsCurrent(t) == screens[tab[t].of].published = tab[t].published

\* validateScadaBindings
Bound(x, p) == \A d \in Uses[x] : d \in devices /\ At[d] = p

Renamed(r, n) == [r EXCEPT !.name = n]

SaveScadaScreen(t, x, n) ==
  LET s == tab[t].of IN
  /\ s \in DOMAIN screens /\ DraftIsCurrent(t) /\ Edit
  /\ Bound(x, screens[s].plant) /\ NameFree(s, screens[s].plant, n)
  /\ screens' = [screens EXCEPT ![s] = Renamed(Saved(@, x), n)]
  /\ Answered(t, Saved(ScreenView(s), x))
  /\ UNCHANGED <<plants, devices, pubs, gone, boards, disk>>

Versions(s) == {x[2] : x \in {y \in DOMAIN pubs : y[1] = s}}

\* Mutant of IsNextVersion: the version after the one that is shown.
IsVersionAfterShown(s, v) == v = screens[s].published + 1

\* max(version) + 1, over every publication of the screen.
IsNextVersion(s, v) == /\ \A w \in Versions(s) : w < v
                       /\ v = 1 \/ v - 1 \in Versions(s)

\* The screen names the publication that is shown.
Naming(r, v) == [r EXCEPT !.published = v]

PublishScadaScreen(t, v) ==
  LET s == tab[t].of IN
  /\ s \in DOMAIN screens /\ DraftIsCurrent(t) /\ ShownIsCurrent(t) /\ IsNextVersion(s, v) /\ Edit
  /\ pubs' = With(pubs, <<s, v>>, screens[s].draft)
  /\ screens' = [screens EXCEPT ![s] = Naming(@, v)]
  /\ Answered(t, Showing(ScreenView(s), screens[s].draft, v))
  /\ UNCHANGED <<plants, devices, gone, boards, disk>>

\* To any version ScadaScreenVersions lists.
RollbackScadaScreen(t, v) ==
  LET s == tab[t].of IN
  /\ s \in DOMAIN screens /\ screens[s].published # 0 /\ ShownIsCurrent(t)
  /\ v \in Versions(s) \ {screens[s].published} /\ Edit
  /\ screens' = [screens EXCEPT ![s] = Naming(@, v)]
  /\ Answered(t, Showing(tab[t], pubs[<<s, v>>], v))
  /\ UNCHANGED <<plants, devices, pubs, gone, boards, disk>>

\* A screen goes with its publications.
Drop(ss) ==
  /\ screens' = Without(screens, ss)
  /\ pubs' = Without(pubs, {x \in DOMAIN pubs : x[1] \in ss})
  /\ gone' = gone \cup ss

HardDeleteScadaScreen(s) ==
  /\ s \in DOMAIN screens /\ Drop({s}) /\ Edit
  /\ UNCHANGED <<plants, devices, boards, tab, disk>>

\* The screens go with the plant, its picture stays on disk.
HardDeletePlant(p) ==
  /\ p \in plants /\ plants' = plants \ {p} /\ Edit
  /\ devices' = {d \in devices : At[d] # p}
  /\ Drop({s \in DOMAIN screens : screens[s].plant = p})
  /\ image' = [image EXCEPT ![p] = None]
  /\ UNCHANGED <<boards, tab, logo, files, used, unsure, req>>

\* Nothing looks at the designs that are bound to the device.
HardDeleteDevice(d) ==
  /\ d \in devices /\ devices' = devices \ {d} /\ Edit
  /\ UNCHANGED <<plants, rows, tab, disk>>

-----------------------------------------------------------------------------
(* Dashboards.                                                              *)

\* DashboardLayout and PublishedDashboardLayout; without a row, the default at version 0.
BoardView(u) ==
  IF u \in DOMAIN boards
  THEN [of |-> u, draft |-> boards[u].draft, version |-> boards[u].version,
        shown |-> boards[u].shown, published |-> boards[u].published]
  ELSE [of |-> u, draft |-> Blank, version |-> 0, shown |-> None, published |-> 0]

OpenBoard(t, u) ==
  /\ tab' = [tab EXCEPT ![t] = BoardView(u)]
  /\ UNCHANGED <<plants, devices, rows, disk, edits>>

\* The row is locked; two first saves meet at the unique key and one of them is a conflict.
SaveDashboardLayout(t, x) ==
  LET u == tab[t].of
      b == BoardView(u) IN
  /\ u \in User /\ b.version = tab[t].version /\ Edit
  /\ boards' = With(boards, u, [draft |-> x, version |-> b.version + 1, shown |-> b.shown, published |-> b.published])
  /\ Answered(t, Saved(b, x))
  /\ UNCHANGED <<plants, devices, screens, pubs, gone, disk>>

PublishDashboardLayout(t) ==
  LET u == tab[t].of
      b == BoardView(u) IN
  /\ u \in DOMAIN boards /\ b.version = tab[t].version /\ b.published = tab[t].published /\ Edit
  /\ boards' = [boards EXCEPT ![u] = Showing(@, b.draft, b.published + 1)]
  /\ Answered(t, Showing(b, b.draft, b.published + 1))
  /\ UNCHANGED <<plants, devices, screens, pubs, gone, disk>>

-----------------------------------------------------------------------------
(* The picture of a plant: written, committed, and then the old one removed.*)

other == <<plants, devices, rows, tab>>
Remove(f) == files' = files \ {f}
Goto(q, at) == req' = [req EXCEPT ![q].at = at]
Ends(q) == req' = [req EXCEPT ![q] = Idle]

UploadPlantImage(q, p, f) ==
  /\ req[q] = Idle /\ f \notin used /\ Edit
  /\ files' = files \cup {f} /\ used' = used \cup {f}
  /\ req' = [req EXCEPT ![q] = [op |-> "image", plant |-> p, new |-> f, before |-> None, at |-> "stored"]]
  /\ UNCHANGED <<other, image, logo, unsure>>

\* The row is locked while it is read and written, so `before' is what it held.
CommitPlantImage(q) ==
  LET r == req[q] IN
  /\ r.op = "image" /\ r.at = "stored" /\ r.plant \in plants
  /\ image' = [image EXCEPT ![r.plant] = r.new]
  /\ unsure' = unsure \ {r.plant}
  /\ req' = [req EXCEPT ![q].at = "committed", ![q].before = image[r.plant]]
  /\ UNCHANGED <<other, logo, files, used, edits>>

\* No plant, an error of the database, or a client that has gone: the new file is removed.
UploadPlantImageFails(q) ==
  LET r == req[q] IN
  /\ r.op = "image" /\ r.at = "stored" /\ r.new # None
  /\ Remove(r.new) /\ Ends(q)
  /\ UNCHANGED <<other, image, logo, used, unsure, edits>>

\* The commit takes effect and says it has not.
CommitPlantImageUnanswered(q) ==
  LET r == req[q] IN
  /\ r.op = "image" /\ r.at = "stored" /\ r.new # None /\ r.plant \in plants
  /\ image' = [image EXCEPT ![r.plant] = r.new]
  /\ unsure' = unsure \cup {r.plant}
  /\ Remove(r.new) /\ Ends(q)
  /\ UNCHANGED <<other, logo, used, edits>>

DeletePlantImage(q, p) ==
  /\ req[q] = Idle /\ p \in plants /\ image[p] # None /\ Edit
  /\ req' = [req EXCEPT ![q] = [op |-> "image", plant |-> p, new |-> None, before |-> None, at |-> "stored"]]
  /\ UNCHANGED <<other, image, logo, files, used, unsure>>

-----------------------------------------------------------------------------
(* The logo: the settings are read before the transaction begins.           *)

UploadSiteLogo(q) ==
  /\ req[q] = Idle /\ Edit
  /\ req' = [req EXCEPT ![q] = [op |-> "logo", plant |-> None, new |-> None, before |-> logo, at |-> "begun"]]
  /\ UNCHANGED <<other, image, logo, files, used, unsure>>

StoreSiteLogo(q, f) ==
  /\ req[q].op = "logo" /\ req[q].at = "begun" /\ f \notin used
  /\ files' = files \cup {f} /\ used' = used \cup {f}
  /\ req' = [req EXCEPT ![q].new = f, ![q].at = "stored"]
  /\ UNCHANGED <<other, image, logo, unsure, edits>>

DeleteSiteLogo(q) ==
  /\ req[q] = Idle /\ logo # None /\ Edit
  /\ req' = [req EXCEPT ![q] = [op |-> "logo", plant |-> None, new |-> None, before |-> logo, at |-> "stored"]]
  /\ UNCHANGED <<other, image, logo, files, used, unsure>>

CommitSiteLogo(q) ==
  LET r == req[q] IN
  /\ r.op = "logo" /\ r.at = "stored"
  /\ logo' = r.new /\ Goto(q, "committed")
  /\ UNCHANGED <<other, image, files, used, unsure, edits>>

\* Before the UPDATE has run the new file is removed, after it the file stays; so it does when the
\* commit is not answered, whether or not it has taken effect.
SiteLogoFails(q) ==
  LET r == req[q] IN
  /\ r.op = "logo" /\ r.at \in {"begun", "stored"}
  /\ \/ logo' = logo /\ (Remove(r.new) \/ files' = files)
     \/ r.at = "stored" /\ logo' = r.new /\ files' = files
  /\ Ends(q)
  /\ UNCHANGED <<other, image, used, unsure, edits>>

\* Mutant of Replaced: the logo to remove is read again after the commit.
Replacing(r) == IF r.op = "logo" THEN logo ELSE r.before

\* removePlantImageFile, removeSiteLogoFile: what the row held before.
Replaced(r) == r.before

RemoveReplaced(q) ==
  /\ req[q].op # "idle" /\ req[q].at = "committed"
  /\ Remove(Replaced(req[q])) /\ Ends(q)
  /\ UNCHANGED <<other, image, logo, used, unsure, edits>>

\* The service stops in the middle.
Crash(q) ==
  /\ req[q] # Idle /\ Ends(q)
  /\ UNCHANGED <<other, image, logo, files, used, unsure, edits>>

-----------------------------------------------------------------------------
Saves(t) == \E x \in Design : SaveDashboardLayout(t, x) \/ (\E n \in Title : SaveScadaScreen(t, x, n))
Publishes(t) == PublishDashboardLayout(t) \/ (\E v \in 1..MaxEdits : PublishScadaScreen(t, v))
RollsBack(t) == \E v \in 1..MaxEdits : RollbackScadaScreen(t, v)

Edits(t) ==
  \/ \E s \in Screen : OpenScreen(t, s) \/ (\E p \in Plant, n \in Title : CreateScadaScreen(t, s, p, n))
  \/ \E u \in User : OpenBoard(t, u)
  \/ Saves(t) \/ Publishes(t) \/ RollsBack(t)

Deletes ==
  \/ \E s \in Screen : HardDeleteScadaScreen(s)
  \/ \E p \in Plant : HardDeletePlant(p)
  \/ \E d \in Device : HardDeleteDevice(d)

Uploads(q) ==
  \/ \E p \in Plant : DeletePlantImage(q, p) \/ (\E f \in File : UploadPlantImage(q, p, f))
  \/ CommitPlantImage(q) \/ UploadPlantImageFails(q) \/ CommitPlantImageUnanswered(q)
  \/ UploadSiteLogo(q) \/ (\E f \in File : StoreSiteLogo(q, f)) \/ DeleteSiteLogo(q)
  \/ CommitSiteLogo(q) \/ SiteLogoFails(q) \/ RemoveReplaced(q) \/ Crash(q)

RevisionsNext == Deletes \/ (\E t \in Tab : Edits(t)) \/ (\E q \in Request : Uploads(q))

RevisionsSpec == RevisionsInit /\ [][RevisionsNext]_revisionsVars

-----------------------------------------------------------------------------
(* What must hold.                                                          *)

Draft(o)       == IF o \in User THEN BoardView(o).draft ELSE screens[o].draft
PublishedAs(o) == IF o \in User THEN BoardView(o).shown ELSE Shown(o)

\* Nobody overwrites what he has not seen: a save replaces the draft its tab shows, whoever saved,
\* created, published or lost an answer in between.
NoLostUpdate == [][\A t \in Tab : Saves(t) => Draft(tab[t].of) = tab[t].draft]_revisionsVars

\* What goes public is the draft the publisher saw, in place of the publication he saw; a roll-back
\* takes back what its user saw.  Neither changes a publication that was made before: a new one gets
\* a version of its own, also after a roll-back.
PublishedAsSeen ==
  [][\A t \in Tab :
       /\ Publishes(t) \/ RollsBack(t) => PublishedAs(tab[t].of) = tab[t].shown
       /\ Publishes(t) => PublishedAs(tab[t].of)' = tab[t].draft
       /\ \A v \in 1..MaxEdits : PublishScadaScreen(t, v) => v \notin Versions(tab[t].of)]_revisionsVars

\* Every address that is handed out for a picture leads to a file, but for a plant whose last upload
\* committed without an answer; the logo's always does.
PicturesAreServed ==
  /\ \A p \in plants : image[p] \in files \cup {None} \/ p \in unsure
  /\ logo \in files \cup {None}
=============================================================================
