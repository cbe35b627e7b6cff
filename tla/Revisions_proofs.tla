-------------------------- MODULE Revisions_proofs --------------------------
(***************************************************************************)
(* Proofs about Revisions for any number of tabs, screens, users, plants,  *)
(* files and requests.                                                     *)
(***************************************************************************)
EXTENDS Revisions, TLAPS

ScreenRow == [plant : Plant, name : Title, draft : Design, version : Nat \ {0}, published : Nat]
BoardRow  == [draft : Design, version : Nat \ {0}, shown : Design \cup {None}, published : Nat]

\* The type invariant in the three parts of the state.

RowsOK ==
  /\ plants \subseteq Plant /\ devices \subseteq Device
  /\ DOMAIN screens \subseteq Screen /\ gone \subseteq Screen \ DOMAIN screens
  /\ \A s \in DOMAIN screens :
       /\ screens[s] \in ScreenRow /\ screens[s].plant \in plants
       /\ screens[s].published # 0 => <<s, screens[s].published>> \in DOMAIN pubs
  /\ DOMAIN pubs \subseteq (DOMAIN screens) \X Nat /\ \A x \in DOMAIN pubs : pubs[x] \in Design
  /\ DOMAIN boards \subseteq User /\ \A u \in DOMAIN boards : boards[u] \in BoardRow

DiskOK ==
  /\ image \in [Plant -> File \cup {None}] /\ logo \in File \cup {None}
  /\ files \subseteq used /\ used \subseteq File /\ unsure \subseteq Plant
  /\ req \in [Request -> Reqs]

\* A view never shows a draft or a publication that is not, or was not, the one of
\* that version, and no later one; the screen of a view is there or was.
ScreenSeen(v) ==
  LET r == screens[v.of] IN
  /\ v.version <= r.version /\ (v.version = r.version => v.draft = r.draft)
  /\ v.published = 0 => v.shown = None
  /\ v.published # 0 => /\ <<v.of, v.published>> \in DOMAIN pubs
                        /\ v.shown = pubs[<<v.of, v.published>>]

BoardSeen(v) ==
  LET b == BoardView(v.of) IN
  /\ v.version <= b.version /\ (v.version = b.version => v.draft = b.draft)
  /\ v.published <= b.published /\ (v.published = b.published => v.shown = b.shown)

Seen(v) ==
  /\ v.of \in Screen => v.of \in DOMAIN screens \cup gone
  /\ v.of \in DOMAIN screens => ScreenSeen(v)
  /\ v.of \in User => BoardSeen(v)

\* Files that may go are nobody's picture, now or as soon as it is committed: images
\* and logo are files of their own ...
Distinct ==
  /\ \A p \in Plant : image[p] \in used \cup {None}
  /\ logo \in used \cup {None}
  /\ \A p, o \in Plant : image[p] # None /\ image[p] = image[o] => p = o
  /\ \A p \in Plant : image[p] # None => image[p] # logo

\* ... a file that is not committed yet is there, and nobody else's ...
Pending(q) == req[q].op # "idle" /\ req[q].at = "stored" /\ req[q].new # None

Fresh ==
  /\ \A q \in Request : req[q].op # "idle" => req[q].new \in used \cup {None}
  /\ \A q \in Request : req[q].op # "idle" /\ req[q].at = "begun" => req[q].new = None
  /\ \A q \in Request : Pending(q) =>
       /\ req[q].new \in files /\ req[q].new # logo
       /\ \A p \in Plant : req[q].new # image[p]
       /\ \A o \in Request : req[o].op # "idle" => req[q].new # req[o].before
       /\ \A o \in Request : Pending(o) /\ req[q].new = req[o].new => o = q

\* ... and one that is to be removed is not in use any more.
Old ==
  \A q \in Request : req[q].op # "idle" =>
    /\ req[q].before \in used \cup {None}
    /\ req[q].before # None =>
         /\ \A p \in Plant : req[q].before # image[p]
         /\ req[q].op = "image" \/ req[q].at = "committed" => req[q].before # logo

FilesInv == Distinct /\ Fresh /\ Old /\ PicturesAreServed

TabsSeen ==
  /\ tab \in [Tab -> Views]
  /\ \A t \in Tab, v \in Views : tab[t] = v => Seen(v)

-----------------------------------------------------------------------------
(* Records and functions.                                                   *)

\* A row that is saved, renamed or named in another publication is a row.
LEMMA ScreenRows ==
  ASSUME NEW r \in ScreenRow, NEW x \in Design, NEW n \in Title, NEW v \in Nat
  PROVE  /\ r.draft \in Design /\ r.version \in Nat /\ r.published \in Nat
         /\ Renamed(Saved(r, x), n) \in ScreenRow
         /\ Renamed(Saved(r, x), n).plant = r.plant
         /\ Renamed(Saved(r, x), n).draft = x
         /\ Renamed(Saved(r, x), n).version = r.version + 1
         /\ Renamed(Saved(r, x), n).published = r.published
         /\ Naming(r, v) \in ScreenRow
         /\ Naming(r, v).plant = r.plant /\ Naming(r, v).draft = r.draft
         /\ Naming(r, v).version = r.version /\ Naming(r, v).published = v
<1>1. r.draft \in Design /\ r.version \in Nat /\ r.published \in Nat /\ r.version + 1 \in Nat \ {0}
  BY DEF ScreenRow
<1>2. ASSUME NEW w \in Nat \ {0}
      PROVE  [[r EXCEPT !.draft = x, !.version = w] EXCEPT !.name = n] \in ScreenRow
  <2>1. [r EXCEPT !.draft = x, !.version = w] \in ScreenRow  BY DEF ScreenRow
  <2> QED  BY <2>1 DEF ScreenRow
<1>3. Renamed(Saved(r, x), n) \in ScreenRow  BY <1>1, <1>2, Zenon DEF Renamed, Saved
<1>4. /\ Renamed(Saved(r, x), n).plant = r.plant
      /\ Renamed(Saved(r, x), n).draft = x
      /\ Renamed(Saved(r, x), n).version = r.version + 1
      /\ Renamed(Saved(r, x), n).published = r.published
  BY Zenon DEF ScreenRow, Renamed, Saved
<1>5. /\ Naming(r, v) \in ScreenRow
      /\ Naming(r, v).plant = r.plant /\ Naming(r, v).draft = r.draft
      /\ Naming(r, v).version = r.version /\ Naming(r, v).published = v
  BY DEF ScreenRow, Naming
<1> QED  BY <1>1, <1>3, <1>4, <1>5

LEMMA BoardRows ==
  ASSUME NEW r \in BoardRow, NEW x \in Design, NEW v \in Nat
  PROVE  /\ r.draft \in Design /\ r.version \in Nat /\ r.shown \in Design \cup {None} /\ r.published \in Nat
         /\ Showing(r, x, v) \in BoardRow
         /\ Showing(r, x, v).draft = r.draft /\ Showing(r, x, v).version = r.version
         /\ Showing(r, x, v).shown = x /\ Showing(r, x, v).published = v
BY DEF BoardRow, Showing

LEMMA ViewRows ==
  ASSUME NEW r \in Views, NEW x \in Design, NEW v \in Nat
  PROVE  /\ r.of \in Screen \cup User \cup {None} /\ r.draft \in Design \cup {None}
         /\ r.version \in Nat /\ r.version + 1 \in Nat
         /\ r.shown \in Design \cup {None} /\ r.published \in Nat
         /\ Saved(r, x) \in Views
         /\ Saved(r, x).of = r.of /\ Saved(r, x).draft = x /\ Saved(r, x).version = r.version + 1
         /\ Saved(r, x).shown = r.shown /\ Saved(r, x).published = r.published
         /\ Showing(r, x, v) \in Views
         /\ Showing(r, x, v).of = r.of /\ Showing(r, x, v).draft = r.draft
         /\ Showing(r, x, v).version = r.version
         /\ Showing(r, x, v).shown = x /\ Showing(r, x, v).published = v
<1>1. /\ r.of \in Screen \cup User \cup {None} /\ r.draft \in Design \cup {None}
      /\ r.version \in Nat /\ r.version + 1 \in Nat
      /\ r.shown \in Design \cup {None} /\ r.published \in Nat
  BY DEF Views
<1>2. \A w \in Nat : [r EXCEPT !.draft = x, !.version = w] \in Views  BY DEF Views
<1>3. Saved(r, x) \in Views  BY <1>1, <1>2, Zenon DEF Saved
<1>4. /\ Saved(r, x).of = r.of /\ Saved(r, x).draft = x /\ Saved(r, x).version = r.version + 1
      /\ Saved(r, x).shown = r.shown /\ Saved(r, x).published = r.published
  BY Zenon DEF Views, Saved
<1>5. Showing(r, x, v) \in Views  BY DEF Views, Showing
<1>6. /\ Showing(r, x, v).of = r.of /\ Showing(r, x, v).draft = r.draft
      /\ Showing(r, x, v).version = r.version
      /\ Showing(r, x, v).shown = x /\ Showing(r, x, v).published = v
  BY Zenon DEF Views, Showing
<1> QED  BY <1>1, <1>3, <1>4, <1>5, <1>6

-----------------------------------------------------------------------------
(* The rows.                                                                *)

\* A screen is there, new or changed.
LEMMA OneScreenRows ==
  ASSUME RowsOK, NEW s \in Screen \ gone, NEW r \in ScreenRow, r.plant \in plants,
         DOMAIN screens' = DOMAIN screens \cup {s}, screens'[s] = r,
         \A y \in DOMAIN screens \ {s} : screens'[y] = screens[y],
         DOMAIN pubs \subseteq DOMAIN pubs', DOMAIN pubs' \subseteq (DOMAIN screens') \X Nat,
         \A x \in DOMAIN pubs' : pubs'[x] \in Design,
         r.published # 0 => <<s, r.published>> \in DOMAIN pubs',
         UNCHANGED <<plants, devices, gone, boards>>
  PROVE  RowsOK'
<1>1. ASSUME NEW y \in DOMAIN screens'
      PROVE  /\ screens'[y] \in ScreenRow /\ screens'[y].plant \in plants
             /\ screens'[y].published # 0 => <<y, screens'[y].published>> \in DOMAIN pubs'
  <2>1. CASE y = s  BY <2>1
  <2>2. CASE y # s
    <3>1. y \in DOMAIN screens \ {s}  BY <2>2, <1>1
    <3>2. screens'[y] = screens[y]  BY <3>1
    <3> QED  BY <3>1, <3>2 DEF RowsOK
  <2> QED  BY <2>1, <2>2
<1> QED  BY <1>1 DEF RowsOK

LEMMA CreateRows ==
  ASSUME RowsOK, NEW t \in Tab, NEW s \in Screen, NEW p \in Plant, NEW n \in Title,
         CreateScadaScreen(t, s, p, n)
  PROVE  RowsOK'
<1> DEFINE r == [plant |-> p, name |-> n, draft |-> Blank, version |-> 1, published |-> 0]
<1>1. r \in ScreenRow /\ r.plant = p /\ r.published = 0  BY DesignAssumption DEF ScreenRow
<1>2. /\ s \in Screen \ gone /\ p \in plants
      /\ screens' = With(screens, s, r)
      /\ UNCHANGED <<plants, devices, pubs, gone, boards>>
  BY DEF CreateScadaScreen
<1> HIDE DEF r
<1>3. /\ DOMAIN screens' = DOMAIN screens \cup {s} /\ screens'[s] = r
      /\ \A y \in DOMAIN screens \ {s} : screens'[y] = screens[y]
  BY <1>2 DEF With
<1>4. DOMAIN pubs' \subseteq (DOMAIN screens') \X Nat /\ \A x \in DOMAIN pubs' : pubs'[x] \in Design
  BY <1>2, <1>3 DEF RowsOK
<1> QED  BY <1>1, <1>2, <1>3, <1>4, OneScreenRows

LEMMA SaveScreenRows ==
  ASSUME RowsOK, NEW t \in Tab, NEW x \in Design, NEW n \in Title, SaveScadaScreen(t, x, n)
  PROVE  RowsOK'
<1> DEFINE s == tab[t].of
           r == Renamed(Saved(screens[s], x), n)
<1>1. /\ s \in DOMAIN screens
      /\ screens' = [screens EXCEPT ![s] = r]
      /\ UNCHANGED <<plants, devices, pubs, gone, boards>>
  BY DEF SaveScadaScreen
<1>2. r \in ScreenRow /\ r.plant = screens[s].plant /\ r.published = screens[s].published
  <2>1. screens[s] \in ScreenRow  BY <1>1 DEF RowsOK
  <2>2. \A row \in ScreenRow :
          LET y == Renamed(Saved(row, x), n)
          IN  y \in ScreenRow /\ y.plant = row.plant /\ y.published = row.published
    BY ScreenRows, 0 \in Nat
  <2> QED  BY <2>1, <2>2
<1> HIDE DEF r, s
<1>3. /\ DOMAIN screens' = DOMAIN screens \cup {s} /\ screens'[s] = r
      /\ \A y \in DOMAIN screens \ {s} : screens'[y] = screens[y]
  BY <1>1
<1>4. DOMAIN pubs' \subseteq (DOMAIN screens') \X Nat /\ \A y \in DOMAIN pubs' : pubs'[y] \in Design
  BY <1>1, <1>3 DEF RowsOK
<1>5. s \in Screen \ gone /\ r.plant \in plants /\ (r.published # 0 => <<s, r.published>> \in DOMAIN pubs')
  BY <1>1, <1>2 DEF RowsOK
<1> QED  BY <1>1, <1>2, <1>3, <1>4, <1>5, OneScreenRows

\* A publication or a roll-back.
LEMMA NamingRows ==
  ASSUME RowsOK, NEW s \in DOMAIN screens, NEW v \in Nat,
         screens' = [screens EXCEPT ![s] = Naming(@, v)],
         DOMAIN pubs' = DOMAIN pubs \cup {<<s, v>>},
         \A x \in DOMAIN pubs' : pubs'[x] \in Design,
         UNCHANGED <<plants, devices, gone, boards>>
  PROVE  RowsOK'
<1> DEFINE r == Naming(screens[s], v)
<1>1. r \in ScreenRow /\ r.plant = screens[s].plant /\ r.published = v
  <2>1. screens[s] \in ScreenRow  BY DEF RowsOK
  <2>2. PICK x, n : x \in Design /\ n \in Title  BY <2>1 DEF ScreenRow
  <2> QED  BY <2>1, <2>2, ScreenRows
<1>2. screens' = [screens EXCEPT ![s] = r]  OBVIOUS
<1> HIDE DEF r
<1>3. /\ DOMAIN screens' = DOMAIN screens \cup {s} /\ screens'[s] = r
      /\ \A y \in DOMAIN screens \ {s} : screens'[y] = screens[y]
  BY <1>2
<1>4. DOMAIN pubs' \subseteq (DOMAIN screens') \X Nat
  BY <1>3 DEF RowsOK
<1>5. s \in Screen \ gone /\ r.plant \in plants /\ <<s, r.published>> \in DOMAIN pubs'
  BY <1>1 DEF RowsOK
<1> QED  BY <1>1, <1>3, <1>4, <1>5, OneScreenRows

LEMMA PublishScreenRows ==
  ASSUME RowsOK, NEW t \in Tab, NEW v \in 1..MaxEdits, PublishScadaScreen(t, v)
  PROVE  RowsOK'
<1> DEFINE s == tab[t].of
<1>1. /\ s \in DOMAIN screens /\ v \in Nat
      /\ screens' = [screens EXCEPT ![s] = Naming(@, v)]
      /\ pubs' = With(pubs, <<s, v>>, screens[s].draft)
      /\ UNCHANGED <<plants, devices, gone, boards>>
  BY BoundAssumption DEF PublishScadaScreen
<1> HIDE DEF s
<1>2. screens[s].draft \in Design  BY <1>1 DEF RowsOK, ScreenRow
<1>3. DOMAIN pubs' = DOMAIN pubs \cup {<<s, v>>}  BY <1>1 DEF With
<1>4. ASSUME NEW x \in DOMAIN pubs'  PROVE pubs'[x] \in Design
  <2>1. CASE x = <<s, v>>  BY <1>1, <1>2, <2>1 DEF With
  <2>2. CASE x # <<s, v>>
    <3>1. x \in DOMAIN pubs \ {<<s, v>>}  BY <1>3, <2>2
    <3>2. pubs'[x] = pubs[x]  BY <1>1, <3>1 DEF With
    <3> QED  BY <3>1, <3>2 DEF RowsOK
  <2> QED  BY <2>1, <2>2
<1> QED  BY <1>1, <1>3, <1>4, NamingRows

LEMMA RollbackRows ==
  ASSUME RowsOK, NEW t \in Tab, NEW v \in 1..MaxEdits, RollbackScadaScreen(t, v)
  PROVE  RowsOK'
<1> DEFINE s == tab[t].of
<1>1. /\ s \in DOMAIN screens /\ v \in Nat /\ v \in Versions(s)
      /\ screens' = [screens EXCEPT ![s] = Naming(@, v)]
      /\ UNCHANGED <<plants, devices, pubs, gone, boards>>
  BY BoundAssumption DEF RollbackScadaScreen
<1> HIDE DEF s
<1>2. <<s, v>> \in DOMAIN pubs
  <2>1. PICK x \in DOMAIN pubs : x[1] = s /\ x[2] = v  BY <1>1 DEF Versions
  <2> QED  BY <2>1 DEF RowsOK
<1>3. DOMAIN pubs' = DOMAIN pubs \cup {<<s, v>>} /\ \A x \in DOMAIN pubs' : pubs'[x] \in Design
  BY <1>1, <1>2 DEF RowsOK
<1> QED  BY <1>1, <1>3, NamingRows

LEMMA DropRows ==
  ASSUME RowsOK, NEW ss \in SUBSET DOMAIN screens, Drop(ss), plants' \subseteq plants,
         \A s \in DOMAIN screens \ ss : screens[s].plant \in plants',
         devices' \subseteq devices, UNCHANGED boards
  PROVE  RowsOK'
<1>1. /\ DOMAIN screens' = DOMAIN screens \ ss
      /\ \A s \in DOMAIN screens' : screens'[s] = screens[s]
      /\ DOMAIN pubs' = {x \in DOMAIN pubs : x[1] \notin ss}
      /\ \A x \in DOMAIN pubs' : pubs'[x] = pubs[x]
      /\ gone' = gone \cup ss
  BY DEF Drop, Without
<1>2. ASSUME NEW s \in DOMAIN screens'
      PROVE  /\ screens'[s] \in ScreenRow /\ screens'[s].plant \in plants'
             /\ screens'[s].published # 0 => <<s, screens'[s].published>> \in DOMAIN pubs'
  <2>1. s \in DOMAIN screens \ ss /\ screens'[s] = screens[s]  BY <1>1
  <2>2. screens[s].published # 0 => <<s, screens[s].published>> \in DOMAIN pubs  BY <2>1 DEF RowsOK
  <2>3. <<s, screens[s].published>>[1] = s  OBVIOUS
  <2> QED  BY <1>1, <2>1, <2>2, <2>3 DEF RowsOK
<1>3. DOMAIN pubs' \subseteq (DOMAIN screens') \X Nat /\ \A x \in DOMAIN pubs' : pubs'[x] \in Design
  BY <1>1 DEF RowsOK
<1> QED  BY <1>1, <1>2, <1>3 DEF RowsOK

\* A dashboard is there, new or changed.
LEMMA OneBoardRows ==
  ASSUME RowsOK, NEW u \in User, NEW r \in BoardRow,
         DOMAIN boards' = DOMAIN boards \cup {u}, boards'[u] = r,
         \A y \in DOMAIN boards \ {u} : boards'[y] = boards[y],
         UNCHANGED <<plants, devices, screens, pubs, gone>>
  PROVE  RowsOK'
<1>1. \A y \in DOMAIN boards' : boards'[y] \in BoardRow  BY DEF RowsOK
<1> QED  BY <1>1 DEF RowsOK

\* What a user is shown of his dashboard.
LEMMA BoardViewIs ==
  ASSUME RowsOK, NEW u \in User
  PROVE  /\ BoardView(u) \in Views /\ BoardView(u).of = u /\ BoardView(u).draft \in Design
         /\ u \in DOMAIN boards =>
              /\ BoardView(u).draft = boards[u].draft /\ BoardView(u).version = boards[u].version
              /\ BoardView(u).shown = boards[u].shown /\ BoardView(u).published = boards[u].published
         /\ u \notin DOMAIN boards =>
              /\ BoardView(u).draft = Blank /\ BoardView(u).version = 0
              /\ BoardView(u).shown = None /\ BoardView(u).published = 0
<1>1. CASE u \in DOMAIN boards
  <2>1. boards[u] \in BoardRow  BY <1>1 DEF RowsOK
  <2> QED  BY <1>1, <2>1 DEF BoardRow, Views, BoardView
<1>2. CASE u \notin DOMAIN boards  BY <1>2, DesignAssumption DEF Views, BoardView
<1> QED  BY <1>1, <1>2

LEMMA SaveBoardRows ==
  ASSUME RowsOK, NEW t \in Tab, NEW x \in Design, SaveDashboardLayout(t, x)
  PROVE  RowsOK'
<1> DEFINE u == tab[t].of
           b == BoardView(u)
           r == [draft |-> x, version |-> b.version + 1, shown |-> b.shown, published |-> b.published]
<1>1. /\ u \in User /\ boards' = With(boards, u, r)
      /\ UNCHANGED <<plants, devices, screens, pubs, gone>>
  BY DEF SaveDashboardLayout
<1>2. b \in Views  BY <1>1, BoardViewIs
<1> HIDE DEF u, b
<1>3. r \in BoardRow  BY <1>2 DEF BoardRow, Views
<1> HIDE DEF r
<1>4. /\ DOMAIN boards' = DOMAIN boards \cup {u} /\ boards'[u] = r
      /\ \A y \in DOMAIN boards \ {u} : boards'[y] = boards[y]
  BY <1>1 DEF With
<1> QED  BY <1>1, <1>3, <1>4, OneBoardRows

LEMMA PublishBoardRows ==
  ASSUME RowsOK, NEW t \in Tab, PublishDashboardLayout(t)
  PROVE  RowsOK'
<1> DEFINE u == tab[t].of
           b == BoardView(u)
           r == Showing(boards[u], b.draft, b.published + 1)
<1>1. /\ u \in DOMAIN boards /\ boards' = [boards EXCEPT ![u] = r]
      /\ UNCHANGED <<plants, devices, screens, pubs, gone>>
  BY DEF PublishDashboardLayout
<1>2. u \in User /\ boards[u] \in BoardRow  BY <1>1 DEF RowsOK
<1>3. b.draft \in Design /\ b.published \in Nat  BY <1>2, BoardViewIs, ViewRows, DesignAssumption
<1>4. r \in BoardRow  BY <1>2, <1>3, BoardRows
<1> HIDE DEF r, u
<1>5. /\ DOMAIN boards' = DOMAIN boards \cup {u} /\ boards'[u] = r
      /\ \A y \in DOMAIN boards \ {u} : boards'[y] = boards[y]
  BY <1>1
<1> QED  BY <1>1, <1>2, <1>4, <1>5, OneBoardRows

-----------------------------------------------------------------------------
(* What tabs have seen.                                                     *)

\* What the view of a screen says.
LEMMA ScreenViewIs ==
  ASSUME RowsOK, NEW s \in DOMAIN screens
  PROVE  /\ screens[s] \in ScreenRow /\ s \in Screen
         /\ screens[s].draft \in Design /\ screens[s].version \in Nat /\ screens[s].published \in Nat
         /\ Shown(s) \in Design \cup {None}
         /\ ScreenView(s) \in Views
         /\ ScreenView(s).of = s /\ ScreenView(s).draft = screens[s].draft
         /\ ScreenView(s).version = screens[s].version
         /\ ScreenView(s).shown = Shown(s) /\ ScreenView(s).published = screens[s].published
<1>1. screens[s] \in ScreenRow /\ s \in Screen  BY DEF RowsOK
<1>2. screens[s].draft \in Design /\ screens[s].version \in Nat /\ screens[s].published \in Nat
  BY <1>1 DEF ScreenRow
<1>3. Shown(s) \in Design \cup {None}  BY <1>2 DEF RowsOK, Shown
<1> QED  BY <1>1, <1>2, <1>3 DEF ScreenView, Views

\* A change of a screen that raises its draft's version or keeps the draft, and
\* keeps the publications, falsifies no view.
LEMMA ScreenKeepsSeen ==
  ASSUME RowsOK, NEW s \in Screen \ gone, NEW r \in ScreenRow,
         DOMAIN screens' = DOMAIN screens \cup {s}, screens'[s] = r,
         \A y \in DOMAIN screens \ {s} : screens'[y] = screens[y],
         DOMAIN pubs \subseteq DOMAIN pubs', \A x \in DOMAIN pubs : pubs'[x] = pubs[x],
         UNCHANGED <<gone, boards>>,
         s \in DOMAIN screens => \/ screens[s].version < r.version
                                 \/ screens[s].version = r.version /\ screens[s].draft = r.draft,
         NEW v \in Views, Seen(v)
  PROVE  Seen(v)'
<1>1. v.version \in Nat /\ v.published \in Nat  BY DEF Views
<1>2. r.version \in Nat  BY DEF ScreenRow
<1>3. (v.of \in User => BoardSeen(v))'  BY DEF Seen, BoardSeen, BoardView
<1>4. (v.of \in Screen => v.of \in DOMAIN screens \cup gone)'  BY DEF Seen
<1>5. ASSUME v.of \in DOMAIN screens'  PROVE ScreenSeen(v)'
  <2>1. v.of \in DOMAIN screens  BY <1>5 DEF Seen, RowsOK
  <2>2. screens[v.of].version \in Nat  BY <2>1 DEF RowsOK, ScreenRow
  <2>3. ScreenSeen(v)  BY <2>1 DEF Seen
  <2>4. CASE v.of = s  BY <1>1, <1>2, <2>1, <2>2, <2>3, <2>4 DEF ScreenSeen
  <2>5. CASE v.of # s
    <3>1. screens'[v.of] = screens[v.of]  BY <2>1, <2>5
    <3> QED  BY <2>3, <3>1 DEF ScreenSeen
  <2> QED  BY <2>4, <2>5
<1> QED  BY <1>3, <1>4, <1>5 DEF Seen

\* A tab that shows an answer, or what it showed.
LEMMA TabShows ==
  ASSUME TabsSeen, NEW t \in Tab, NEW w \in Views, Answered(t, w),
         \A v \in Views : Seen(v) => Seen(v)', Seen(w)'
  PROVE  TabsSeen'
BY DEF TabsSeen, Answered

LEMMA CreateSeen ==
  ASSUME RowsOK, TabsSeen, NEW t \in Tab, NEW s \in Screen, NEW p \in Plant, NEW n \in Title,
         CreateScadaScreen(t, s, p, n)
  PROVE  TabsSeen'
<1> DEFINE r == [plant |-> p, name |-> n, draft |-> Blank, version |-> 1, published |-> 0]
           w == [of |-> s, draft |-> Blank, version |-> 1, shown |-> None, published |-> 0]
<1>1. /\ r \in ScreenRow /\ r.draft = Blank /\ r.version = 1
      /\ w \in Views /\ w.of = s /\ w.draft = Blank /\ w.version = 1 /\ w.shown = None /\ w.published = 0
  BY DesignAssumption DEF ScreenRow, Views
<1>2. /\ s \in Screen \ gone /\ s \notin DOMAIN screens
      /\ screens' = With(screens, s, r)
      /\ UNCHANGED <<pubs, gone, boards>> /\ Answered(t, w)
  BY DEF CreateScadaScreen
<1> HIDE DEF r, w
<1>3. /\ DOMAIN screens' = DOMAIN screens \cup {s} /\ screens'[s] = r
      /\ \A y \in DOMAIN screens \ {s} : screens'[y] = screens[y]
  BY <1>2 DEF With
<1>4. \A v \in Views : Seen(v) => Seen(v)'  BY <1>1, <1>2, <1>3, ScreenKeepsSeen
<1>5. Seen(w)'
  <2>1. w.of \notin User  BY <1>1, IdAssumption
  <2> QED  BY <1>1, <1>2, <1>3, <2>1 DEF Seen, ScreenSeen
<1> QED  BY <1>1, <1>2, <1>4, <1>5, TabShows

LEMMA SaveScreenSeen ==
  ASSUME RowsOK, TabsSeen, NEW t \in Tab, NEW x \in Design, NEW n \in Title, SaveScadaScreen(t, x, n)
  PROVE  TabsSeen'
<1> PICK s : s = tab[t].of  OBVIOUS
<1> PICK r : r = Renamed(Saved(screens[s], x), n)  OBVIOUS
<1> PICK w : w = Saved(ScreenView(s), x)  OBVIOUS
<1>1. /\ s \in DOMAIN screens
      /\ screens' = [screens EXCEPT ![s] = r]
      /\ UNCHANGED <<pubs, gone, boards>> /\ Answered(t, w)
  BY DEF SaveScadaScreen
<1>2. /\ s \in Screen \ gone /\ screens[s] \in ScreenRow /\ ScreenView(s) \in Views
      /\ screens[s].version \in Nat
  BY <1>1, ScreenViewIs DEF RowsOK
<1>3. /\ r \in ScreenRow /\ r.draft = x /\ r.version = screens[s].version + 1
      /\ r.published = screens[s].published
  <2>1. \A row \in ScreenRow :
          LET y == Renamed(Saved(row, x), n)
          IN  y \in ScreenRow /\ y.draft = x /\ y.version = row.version + 1 /\ y.published = row.published
    BY ScreenRows, 0 \in Nat
  <2> QED  BY <1>2, <2>1
<1>4. /\ w \in Views /\ w.of = s /\ w.draft = x /\ w.version = screens[s].version + 1
      /\ w.shown = Shown(s) /\ w.published = screens[s].published
  <2>1. \A v \in Views :
          LET y == Saved(v, x)
          IN  /\ y \in Views /\ y.of = v.of /\ y.draft = x /\ y.version = v.version + 1
              /\ y.shown = v.shown /\ y.published = v.published
    BY ViewRows, 0 \in Nat
  <2> QED  BY <1>1, <1>2, <2>1, ScreenViewIs
<1>5. /\ DOMAIN screens' = DOMAIN screens \cup {s} /\ screens'[s] = r
      /\ \A y \in DOMAIN screens \ {s} : screens'[y] = screens[y]
  BY <1>1
<1>6. \A v \in Views : Seen(v) => Seen(v)'  BY <1>1, <1>2, <1>3, <1>5, ScreenKeepsSeen
<1>7. Seen(w)'
  <2>1. w.of \notin User  BY <1>2, <1>4, IdAssumption
  <2>2. /\ w.published = 0 => w.shown = None
        /\ w.published # 0 => <<s, w.published>> \in DOMAIN pubs /\ w.shown = pubs[<<s, w.published>>]
    BY <1>1, <1>4 DEF Shown, RowsOK
  <2>3. screens'[w.of] = r /\ w.version = r.version /\ w.draft = r.draft /\ pubs' = pubs
    BY <1>1, <1>3, <1>4, <1>5
  <2>4. r.version <= r.version  BY <1>2, <1>3
  <2>5. ScreenSeen(w)'  BY <1>4, <2>2, <2>3, <2>4 DEF ScreenSeen
  <2> QED  BY <1>1, <1>4, <1>5, <2>1, <2>5 DEF Seen
<1> QED  BY <1>1, <1>4, <1>6, <1>7, TabShows

\* A publication or a roll-back.
LEMMA NamingSeen ==
  ASSUME RowsOK, TabsSeen, NEW t \in Tab, NEW s \in DOMAIN screens, NEW v \in Nat \ {0}, NEW w \in Views,
         screens' = [screens EXCEPT ![s] = Naming(@, v)],
         DOMAIN pubs \subseteq DOMAIN pubs', \A y \in DOMAIN pubs : pubs'[y] = pubs[y],
         <<s, v>> \in DOMAIN pubs', UNCHANGED <<gone, boards>>, Answered(t, w),
         w.of = s, w.version <= screens[s].version,
         w.version = screens[s].version => w.draft = screens[s].draft,
         w.published = v, w.shown = pubs'[<<s, v>>]
  PROVE  TabsSeen'
<1> DEFINE r == Naming(screens[s], v)
<1>1. s \in Screen \ gone /\ screens[s] \in ScreenRow  BY DEF RowsOK
<1>2. r \in ScreenRow /\ r.draft = screens[s].draft /\ r.version = screens[s].version
  <2>1. PICK x, n : x \in Design /\ n \in Title  BY <1>1 DEF ScreenRow
  <2> QED  BY <1>1, <2>1, ScreenRows
<1>3. screens' = [screens EXCEPT ![s] = r]  OBVIOUS
<1> HIDE DEF r
<1>4. /\ DOMAIN screens' = DOMAIN screens \cup {s} /\ screens'[s] = r
      /\ \A y \in DOMAIN screens \ {s} : screens'[y] = screens[y]
  BY <1>3
<1>5. \A u \in Views : Seen(u) => Seen(u)'  BY <1>1, <1>2, <1>4, ScreenKeepsSeen
<1>6. Seen(w)'
  <2>1. w.of \notin User  BY <1>1, IdAssumption
  <2>2. ScreenSeen(w)'  BY <1>2, <1>4 DEF ScreenSeen
  <2> QED  BY <1>4, <2>1, <2>2 DEF Seen
<1> QED  BY <1>5, <1>6, TabShows

LEMMA PublishScreenSeen ==
  ASSUME RowsOK, TabsSeen, NEW t \in Tab, NEW v \in 1..MaxEdits, PublishScadaScreen(t, v)
  PROVE  TabsSeen'
<1> DEFINE s == tab[t].of
           w == Showing(ScreenView(s), screens[s].draft, v)
<1>1. /\ s \in DOMAIN screens /\ v \in Nat \ {0} /\ IsNextVersion(s, v)
      /\ screens' = [screens EXCEPT ![s] = Naming(@, v)]
      /\ pubs' = With(pubs, <<s, v>>, screens[s].draft)
      /\ UNCHANGED <<gone, boards>> /\ Answered(t, w)
  BY BoundAssumption DEF PublishScadaScreen
<1> HIDE DEF s
<1>2. /\ screens[s].draft \in Design /\ screens[s].version \in Nat /\ ScreenView(s) \in Views
      /\ ScreenView(s).of = s /\ ScreenView(s).version = screens[s].version
      /\ ScreenView(s).draft = screens[s].draft
  BY <1>1, ScreenViewIs
<1>3. /\ w \in Views /\ w.of = s /\ w.draft = screens[s].draft /\ w.version = screens[s].version
      /\ w.shown = screens[s].draft /\ w.published = v
  BY <1>1, <1>2, ViewRows
<1> HIDE DEF w
<1>4. <<s, v>> \notin DOMAIN pubs
  <2>1. <<s, v>>[1] = s /\ <<s, v>>[2] = v  OBVIOUS
  <2>2. <<s, v>> \in DOMAIN pubs => v \in Versions(s)  BY <2>1 DEF Versions
  <2> QED  BY <1>1, <2>2 DEF IsNextVersion
<1>5. /\ DOMAIN pubs' = DOMAIN pubs \cup {<<s, v>>} /\ pubs'[<<s, v>>] = screens[s].draft
      /\ \A y \in DOMAIN pubs : pubs'[y] = pubs[y]
  BY <1>1, <1>4 DEF With
<1>6. w.version <= screens[s].version  BY <1>2, <1>3
<1>7. w.shown = pubs'[<<s, v>>] /\ <<s, v>> \in DOMAIN pubs' /\ DOMAIN pubs \subseteq DOMAIN pubs'
  BY <1>3, <1>5
<1> QED  BY <1>1, <1>3, <1>5, <1>6, <1>7, NamingSeen

LEMMA RollbackSeen ==
  ASSUME RowsOK, TabsSeen, NEW t \in Tab, NEW v \in 1..MaxEdits, RollbackScadaScreen(t, v)
  PROVE  TabsSeen'
<1> DEFINE s == tab[t].of
           w == Showing(tab[t], pubs[<<s, v>>], v)
<1>1. /\ s \in DOMAIN screens /\ v \in Nat \ {0} /\ v \in Versions(s)
      /\ screens' = [screens EXCEPT ![s] = Naming(@, v)]
      /\ UNCHANGED <<pubs, gone, boards>> /\ Answered(t, w)
  BY BoundAssumption DEF RollbackScadaScreen
<1>2. /\ tab[t] \in Views /\ tab[t].of = s /\ Seen(tab[t])  BY DEF TabsSeen
<1>3. tab[t].version <= screens[s].version /\ (tab[t].version = screens[s].version => tab[t].draft = screens[s].draft)
  BY <1>1, <1>2 DEF Seen, ScreenSeen
<1> HIDE DEF s
<1>4. <<s, v>> \in DOMAIN pubs
  <2>1. PICK x \in DOMAIN pubs : x[1] = s /\ x[2] = v  BY <1>1 DEF Versions
  <2> QED  BY <2>1 DEF RowsOK
<1>5. pubs[<<s, v>>] \in Design  BY <1>4 DEF RowsOK
<1>6. /\ w \in Views /\ w.of = s /\ w.draft = tab[t].draft /\ w.version = tab[t].version
      /\ w.shown = pubs[<<s, v>>] /\ w.published = v
  BY <1>1, <1>2, <1>5, ViewRows
<1> HIDE DEF w
<1> QED  BY <1>1, <1>3, <1>4, <1>6, NamingSeen

\* Deleted screens take no view along but their own.
LEMMA DropSeen ==
  ASSUME RowsOK, TabsSeen, NEW ss \in SUBSET DOMAIN screens, Drop(ss), UNCHANGED <<boards, tab>>
  PROVE  TabsSeen'
<1>1. /\ DOMAIN screens' = DOMAIN screens \ ss
      /\ \A s \in DOMAIN screens' : screens'[s] = screens[s]
      /\ DOMAIN pubs' = {x \in DOMAIN pubs : x[1] \notin ss}
      /\ \A x \in DOMAIN pubs' : pubs'[x] = pubs[x]
      /\ gone' = gone \cup ss
  BY DEF Drop, Without
<1>2. ASSUME NEW v \in Views, Seen(v)  PROVE Seen(v)'
  <2>1. (v.of \in User => BoardSeen(v))'  BY <1>2 DEF Seen, BoardSeen, BoardView
  <2>2. (v.of \in Screen => v.of \in DOMAIN screens \cup gone)'  BY <1>1, <1>2 DEF Seen
  <2>3. ASSUME v.of \in DOMAIN screens'  PROVE ScreenSeen(v)'
    <3>1. v.of \in DOMAIN screens \ ss /\ screens'[v.of] = screens[v.of] /\ ScreenSeen(v)
      BY <1>1, <1>2, <2>3 DEF Seen
    <3>2. <<v.of, v.published>>[1] = v.of  OBVIOUS
    <3> QED  BY <1>1, <3>1, <3>2 DEF ScreenSeen
  <2> QED  BY <2>1, <2>2, <2>3 DEF Seen
<1> QED  BY <1>2 DEF TabsSeen

\* A change of a dashboard that raises its draft's version or keeps the draft, and
\* raises that of its publication or keeps it, falsifies no view.
LEMMA BoardKeepsSeen ==
  ASSUME RowsOK, NEW u \in User, NEW b \in Views, NEW w \in Views,
         b = BoardView(u), w = BoardView(u)',
         \A y \in User \ {u} : BoardView(y)' = BoardView(y),
         UNCHANGED <<screens, pubs, gone>>,
         b.version < w.version \/ (b.version = w.version /\ b.draft = w.draft),
         b.published < w.published \/ (b.published = w.published /\ b.shown = w.shown),
         NEW v \in Views, Seen(v)
  PROVE  Seen(v)'
<1>1. /\ v.version \in Nat /\ v.published \in Nat /\ b.version \in Nat /\ b.published \in Nat
      /\ w.version \in Nat /\ w.published \in Nat
  BY DEF Views
<1>2. (v.of \in Screen => v.of \in DOMAIN screens \cup gone)'  BY DEF Seen
<1>3. (v.of \in DOMAIN screens => ScreenSeen(v))'  BY DEF Seen, ScreenSeen
<1>4. ASSUME v.of \in User  PROVE BoardSeen(v)'
  <2>1. BoardSeen(v)  BY <1>4 DEF Seen
  <2>2. CASE v.of = u  BY <1>1, <2>1, <2>2 DEF BoardSeen
  <2>3. CASE v.of # u
    <3>1. BoardView(v.of)' = BoardView(v.of)  BY <1>4, <2>3
    <3> QED  BY <2>1, <3>1 DEF BoardSeen
  <2> QED  BY <2>2, <2>3
<1> QED  BY <1>2, <1>3, <1>4 DEF Seen

\* A save or a publication of a dashboard.
LEMMA BoardSeenStep ==
  ASSUME RowsOK, TabsSeen, NEW t \in Tab, NEW u \in User, NEW b \in Views, NEW w \in Views, NEW r,
         b = BoardView(u), DOMAIN boards' = DOMAIN boards \cup {u}, boards'[u] = r,
         \A y \in DOMAIN boards \ {u} : boards'[y] = boards[y],
         UNCHANGED <<screens, pubs, gone>>, Answered(t, w),
         w.of = u, w.draft = r.draft, w.version = r.version, w.shown = r.shown, w.published = r.published,
         b.version < w.version \/ (b.version = w.version /\ b.draft = w.draft),
         b.published < w.published \/ (b.published = w.published /\ b.shown = w.shown)
  PROVE  TabsSeen'
<1>1. BoardView(u)' = w
  <2>1. BoardView(u)' = [of |-> u, draft |-> r.draft, version |-> r.version, shown |-> r.shown,
                         published |-> r.published]
    BY DEF BoardView
  <2>2. w = [of |-> w.of, draft |-> w.draft, version |-> w.version, shown |-> w.shown,
             published |-> w.published]
    BY DEF Views
  <2> QED  BY <2>1, <2>2
<1>2. \A y \in User \ {u} : BoardView(y)' = BoardView(y)  BY DEF BoardView
<1>3. \A v \in Views : Seen(v) => Seen(v)'  BY <1>1, <1>2, BoardKeepsSeen
<1>4. Seen(w)'
  <2>1. w.of \notin Screen  BY IdAssumption
  <2>2. w.of \notin DOMAIN screens'  BY <2>1 DEF RowsOK
  <2>3. w.version <= w.version /\ w.published <= w.published  BY DEF Views
  <2>4. BoardSeen(w)'  BY <1>1, <2>3 DEF BoardSeen
  <2> QED  BY <2>1, <2>2, <2>4 DEF Seen
<1> QED  BY <1>3, <1>4, TabShows

LEMMA SaveBoardSeen ==
  ASSUME RowsOK, TabsSeen, NEW t \in Tab, NEW x \in Design, SaveDashboardLayout(t, x)
  PROVE  TabsSeen'
<1> PICK u : u = tab[t].of  OBVIOUS
<1> PICK b : b = BoardView(u)  OBVIOUS
<1> PICK w : w = Saved(b, x)  OBVIOUS
<1> DEFINE r == [draft |-> x, version |-> b.version + 1, shown |-> b.shown, published |-> b.published]
<1>1. /\ u \in User /\ boards' = With(boards, u, r)
      /\ UNCHANGED <<screens, pubs, gone>> /\ Answered(t, w)
  BY DEF SaveDashboardLayout
<1>2. b \in Views /\ b.of = u  BY <1>1, BoardViewIs
<1>3. b.version \in Nat  BY <1>2, ViewRows, DesignAssumption, 0 \in Nat
<1>4. /\ w \in Views /\ w.of = u /\ w.draft = x /\ w.version = b.version + 1
      /\ w.shown = b.shown /\ w.published = b.published
  <2>1. \A v \in Views :
          LET y == Saved(v, x)
          IN  /\ y \in Views /\ y.of = v.of /\ y.draft = x /\ y.version = v.version + 1
              /\ y.shown = v.shown /\ y.published = v.published
    BY ViewRows, 0 \in Nat
  <2> QED  BY <1>2, <2>1
<1>5. r.draft = x /\ r.version = b.version + 1 /\ r.shown = b.shown /\ r.published = b.published
  OBVIOUS
<1> HIDE DEF r
<1>6. /\ DOMAIN boards' = DOMAIN boards \cup {u} /\ boards'[u] = r
      /\ \A y \in DOMAIN boards \ {u} : boards'[y] = boards[y]
  BY <1>1 DEF With
<1>7. b.version < w.version  BY <1>3, <1>4
<1> QED  BY <1>1, <1>2, <1>4, <1>5, <1>6, <1>7, BoardSeenStep

LEMMA PublishBoardSeen ==
  ASSUME RowsOK, TabsSeen, NEW t \in Tab, PublishDashboardLayout(t)
  PROVE  TabsSeen'
<1> PICK u : u = tab[t].of  OBVIOUS
<1> PICK b : b = BoardView(u)  OBVIOUS
<1> PICK w : w = Showing(b, b.draft, b.published + 1)  OBVIOUS
<1> PICK r : r = Showing(boards[u], b.draft, b.published + 1)  OBVIOUS
<1>1. /\ u \in DOMAIN boards /\ boards' = [boards EXCEPT ![u] = r]
      /\ UNCHANGED <<screens, pubs, gone>> /\ Answered(t, w)
  BY DEF PublishDashboardLayout
<1>2. u \in User /\ boards[u] \in BoardRow  BY <1>1 DEF RowsOK
<1>3. /\ b \in Views /\ b.of = u /\ b.draft \in Design
      /\ b.draft = boards[u].draft /\ b.version = boards[u].version
  BY <1>1, <1>2, BoardViewIs
<1>4. b.published \in Nat  BY <1>3 DEF Views
<1>5. b.published + 1 \in Nat  BY <1>4
<1>6. /\ w \in Views /\ w.of = u /\ w.draft = b.draft /\ w.version = b.version
      /\ w.shown = b.draft /\ w.published = b.published + 1
  <2>1. \A v \in Views, x \in Design, n \in Nat :
          LET y == Showing(v, x, n)
          IN  /\ y \in Views /\ y.of = v.of /\ y.draft = v.draft /\ y.version = v.version
              /\ y.shown = x /\ y.published = n
    BY ViewRows
  <2> QED  BY <1>3, <1>5, <2>1
<1>7. /\ r.draft = b.draft /\ r.version = b.version
      /\ r.shown = b.draft /\ r.published = b.published + 1
  BY <1>2, <1>3, <1>5, BoardRows
<1>8. /\ DOMAIN boards' = DOMAIN boards \cup {u} /\ boards'[u] = r
      /\ \A y \in DOMAIN boards \ {u} : boards'[y] = boards[y]
  BY <1>1
<1>9. b.published < w.published  BY <1>4, <1>6
<1>a. b.version = w.version /\ b.draft = w.draft  BY <1>6
<1>b. w.draft = r.draft /\ w.version = r.version /\ w.shown = r.shown /\ w.published = r.published
  BY <1>6, <1>7
<1>c. UNCHANGED <<screens, pubs, gone>> /\ Answered(t, w)  BY <1>1
<1>d. u \in User /\ b \in Views /\ w \in Views /\ b = BoardView(u) /\ w.of = u  BY <1>2, <1>3, <1>6
<1> QED  BY <1>8, <1>9, <1>a, <1>b, <1>c, <1>d, BoardSeenStep

-----------------------------------------------------------------------------
(* Steps of people.                                                         *)

LEMMA EditsStep ==
  ASSUME RowsOK, TabsSeen, NEW t \in Tab, Edits(t)
  PROVE  RowsOK' /\ TabsSeen'
<1>1. ASSUME NEW s \in Screen, OpenScreen(t, s)  PROVE RowsOK' /\ TabsSeen'
  <2> PICK w : w = ScreenView(s)  OBVIOUS
  <2>1. /\ s \in DOMAIN screens /\ Answered(t, w) /\ UNCHANGED <<plants, devices, rows>>
    BY <1>1 DEF OpenScreen, Answered
  <2>2. RowsOK'  BY <2>1 DEF RowsOK, rows
  <2>3. \A v \in Views : Seen(v) => Seen(v)'
    BY <2>1 DEF rows, Seen, ScreenSeen, BoardSeen, BoardView
  <2>4. w \in Views /\ w.of = s /\ w.draft = screens[s].draft /\ w.version = screens[s].version
        /\ w.shown = Shown(s) /\ w.published = screens[s].published
        /\ screens[s].version \in Nat /\ s \in Screen
    BY <2>1, ScreenViewIs
  <2>5. Seen(w)
    <3>1. w.of \notin User  BY <2>4, IdAssumption
    <3>2. screens[s].published # 0 => <<s, screens[s].published>> \in DOMAIN pubs  BY <2>1 DEF RowsOK
    <3>3. ScreenSeen(w)  BY <2>4, <3>2 DEF ScreenSeen, Shown
    <3> QED  BY <2>1, <2>4, <3>1, <3>3 DEF Seen
  <2> QED  BY <2>1, <2>2, <2>3, <2>4, <2>5, TabShows
<1>2. ASSUME NEW u \in User, OpenBoard(t, u)  PROVE RowsOK' /\ TabsSeen'
  <2> PICK w : w = BoardView(u)  OBVIOUS
  <2>1. /\ Answered(t, w) /\ UNCHANGED <<plants, devices, rows>>
    BY <1>2 DEF OpenBoard, Answered
  <2>2. RowsOK'  BY <2>1 DEF RowsOK, rows
  <2>3. \A v \in Views : Seen(v) => Seen(v)'
    BY <2>1 DEF rows, Seen, ScreenSeen, BoardSeen, BoardView
  <2>4. w \in Views /\ w.of = u  BY BoardViewIs
  <2>5. Seen(w)
    <3>1. w.of \notin Screen  BY <2>4, IdAssumption
    <3>2. w.of \notin DOMAIN screens  BY <3>1 DEF RowsOK
    <3>3. w.version <= w.version /\ w.published <= w.published  BY <2>4 DEF Views
    <3>4. BoardSeen(w)  BY <2>4, <3>3 DEF BoardSeen
    <3> QED  BY <3>1, <3>2, <3>4 DEF Seen
  <2> QED  BY <2>1, <2>2, <2>3, <2>4, <2>5, TabShows
<1>3. ASSUME NEW s \in Screen, NEW p \in Plant, NEW n \in Title, CreateScadaScreen(t, s, p, n)
      PROVE  RowsOK' /\ TabsSeen'
  BY <1>3, CreateRows, CreateSeen
<1>4. ASSUME NEW x \in Design, SaveDashboardLayout(t, x)  PROVE RowsOK' /\ TabsSeen'
  BY <1>4, SaveBoardRows, SaveBoardSeen
<1>5. ASSUME NEW x \in Design, NEW n \in Title, SaveScadaScreen(t, x, n)  PROVE RowsOK' /\ TabsSeen'
  BY <1>5, SaveScreenRows, SaveScreenSeen
<1>6. CASE PublishDashboardLayout(t)  BY <1>6, PublishBoardRows, PublishBoardSeen
<1>7. ASSUME NEW v \in 1..MaxEdits, PublishScadaScreen(t, v)  PROVE RowsOK' /\ TabsSeen'
  BY <1>7, PublishScreenRows, PublishScreenSeen
<1>8. ASSUME NEW v \in 1..MaxEdits, RollbackScadaScreen(t, v)  PROVE RowsOK' /\ TabsSeen'
  BY <1>8, RollbackRows, RollbackSeen
<1> QED
  BY <1>1, <1>2, <1>3, <1>4, <1>5, <1>6, <1>7, <1>8 DEF Edits, Saves, Publishes, RollsBack

LEMMA DeletesStep ==
  ASSUME RowsOK, TabsSeen, Deletes
  PROVE  RowsOK' /\ TabsSeen'
<1>1. ASSUME NEW s \in Screen, HardDeleteScadaScreen(s)  PROVE RowsOK' /\ TabsSeen'
  <2>1. {s} \in SUBSET DOMAIN screens /\ Drop({s}) /\ UNCHANGED <<plants, devices, boards, tab>>
    BY <1>1 DEF HardDeleteScadaScreen
  <2>2. \A y \in DOMAIN screens \ {s} : screens[y].plant \in plants'  BY <2>1 DEF RowsOK
  <2> QED  BY <2>1, <2>2, DropRows, DropSeen
<1>2. ASSUME NEW p \in Plant, HardDeletePlant(p)  PROVE RowsOK' /\ TabsSeen'
  <2> PICK ss : ss = {s \in DOMAIN screens : screens[s].plant = p}  OBVIOUS
  <2>1. /\ ss \in SUBSET DOMAIN screens /\ Drop(ss) /\ plants' = plants \ {p}
        /\ devices' \subseteq devices /\ UNCHANGED <<boards, tab>>
    BY <1>2 DEF HardDeletePlant
  <2>2. \A y \in DOMAIN screens \ ss : screens[y].plant \in plants'  BY <2>1 DEF RowsOK
  <2> QED  BY <2>1, <2>2, DropRows, DropSeen
<1>3. ASSUME NEW d \in Device, HardDeleteDevice(d)  PROVE RowsOK' /\ TabsSeen'
  <2>1. devices' \subseteq devices /\ UNCHANGED <<plants, rows, tab>>
    BY <1>3 DEF HardDeleteDevice
  <2>2. RowsOK'  BY <2>1 DEF RowsOK, rows
  <2>3. \A v \in Views : Seen(v) => Seen(v)'
    BY <2>1 DEF rows, Seen, ScreenSeen, BoardSeen, BoardView
  <2> QED  BY <2>1, <2>2, <2>3 DEF TabsSeen
<1> QED  BY <1>1, <1>2, <1>3 DEF Deletes

-----------------------------------------------------------------------------
(* Uploads.                                                                 *)

LEMMA UploadsType ==
  ASSUME DiskOK, plants \subseteq Plant, NEW q \in Request, Uploads(q)
  PROVE  DiskOK'
<1> USE NoneAssumption DEF DiskOK, Reqs, Idle, Ends, Goto, Remove
<1>1. ASSUME NEW p \in Plant, DeletePlantImage(q, p)  PROVE DiskOK'
  BY <1>1 DEF DeletePlantImage
<1>2. ASSUME NEW p \in Plant, NEW f \in File, UploadPlantImage(q, p, f)  PROVE DiskOK'
  BY <1>2 DEF UploadPlantImage
<1>3. CASE CommitPlantImage(q)
  <2> PICK r : r = req[q]  OBVIOUS
  <2> PICK n : n = [r EXCEPT !.at = "committed", !.before = image[r.plant]]  OBVIOUS
  <2>1. /\ r.op = "image" /\ r.plant \in plants /\ image' = [image EXCEPT ![r.plant] = r.new]
        /\ unsure' = unsure \ {r.plant} /\ req' = [req EXCEPT ![q] = n]
        /\ UNCHANGED <<logo, files, used>>
    BY <1>3 DEF CommitPlantImage
  <2>2. r \in Reqs \ {Idle} /\ image[r.plant] \in File \cup {None}  BY <2>1
  <2>3. r.new \in File \cup {None} /\ n \in Reqs  BY <2>2
  <2> QED  BY <2>1, <2>3
<1>4. CASE UploadPlantImageFails(q)  BY <1>4 DEF UploadPlantImageFails
<1>5. CASE CommitPlantImageUnanswered(q)  BY <1>5 DEF CommitPlantImageUnanswered
<1>6. CASE UploadSiteLogo(q)  BY <1>6 DEF UploadSiteLogo
<1>7. ASSUME NEW f \in File, StoreSiteLogo(q, f)  PROVE DiskOK'  BY <1>7 DEF StoreSiteLogo
<1>8. CASE DeleteSiteLogo(q)  BY <1>8 DEF DeleteSiteLogo
<1>9. CASE CommitSiteLogo(q)  BY <1>9 DEF CommitSiteLogo
<1>a. CASE SiteLogoFails(q)  BY <1>a DEF SiteLogoFails
<1>b. CASE RemoveReplaced(q)  BY <1>b DEF RemoveReplaced, Replaced
<1>c. CASE Crash(q)  BY <1>c DEF Crash
<1> QED
  BY <1>1, <1>2, <1>3, <1>4, <1>5, <1>6, <1>7, <1>8, <1>9, <1>a, <1>b, <1>c DEF Uploads

LEMMA UploadsFiles ==
  ASSUME DiskOK, plants \subseteq Plant, FilesInv, NEW q \in Request, Uploads(q)
  PROVE  FilesInv'
<1> USE NoneAssumption DEF DiskOK, FilesInv, Distinct, Fresh, Pending, Old, PicturesAreServed,
        Reqs, Idle, Ends, Goto, Remove, other
<1>1. ASSUME NEW p \in Plant, DeletePlantImage(q, p)  PROVE FilesInv'
  BY <1>1 DEF DeletePlantImage
<1>2. ASSUME NEW p \in Plant, NEW f \in File, UploadPlantImage(q, p, f)  PROVE FilesInv'
  BY <1>2 DEF UploadPlantImage
<1>3. CASE CommitPlantImage(q)
  BY <1>3 DEF CommitPlantImage
<1>4. CASE UploadPlantImageFails(q)  BY <1>4 DEF UploadPlantImageFails
<1>5. CASE CommitPlantImageUnanswered(q)  BY <1>5 DEF CommitPlantImageUnanswered
<1>6. CASE UploadSiteLogo(q)  BY <1>6 DEF UploadSiteLogo
<1>7. ASSUME NEW f \in File, StoreSiteLogo(q, f)  PROVE FilesInv'  BY <1>7 DEF StoreSiteLogo
<1>8. CASE DeleteSiteLogo(q)  BY <1>8 DEF DeleteSiteLogo
<1>9. CASE CommitSiteLogo(q)  BY <1>9 DEF CommitSiteLogo
<1>a. CASE SiteLogoFails(q)
  <2> PICK r : r = req[q]  OBVIOUS
  <2>1. /\ r.op = "logo" /\ req' = [req EXCEPT ![q] = Idle]
        /\ UNCHANGED <<plants, image, used, unsure>>
    BY <1>a DEF SiteLogoFails
  <2>2. CASE logo' = logo /\ files' = files  BY <2>1, <2>2
  <2>3. CASE logo' = logo /\ files' = files \ {r.new} /\ r.at = "stored" /\ r.new # None  BY <2>1, <2>3
  <2>4. CASE logo' = logo /\ files' = files \ {r.new} /\ r.new = None
    <3>1. files' = files  BY <2>4
    <3> QED  BY <2>1, <2>4, <3>1
  <2>5. CASE r.at = "stored" /\ logo' = r.new /\ files' = files  BY <2>1, <2>5
  <2>6. r.at = "begun" => r.new = None  BY <2>1
  <2> QED  BY <1>a, <2>2, <2>3, <2>4, <2>5, <2>6 DEF SiteLogoFails
<1>b. CASE RemoveReplaced(q)  BY <1>b DEF RemoveReplaced, Replaced
<1>c. CASE Crash(q)  BY <1>c DEF Crash
<1> QED
  BY <1>1, <1>2, <1>3, <1>4, <1>5, <1>6, <1>7, <1>8, <1>9, <1>a, <1>b, <1>c DEF Uploads

-----------------------------------------------------------------------------
(* The invariant.                                                           *)

IndInv == RowsOK /\ DiskOK /\ TabsSeen /\ FilesInv /\ edits \in Nat

LEMMA InitInv == RevisionsInit => IndInv
<1> SUFFICES ASSUME RevisionsInit PROVE IndInv  OBVIOUS
<1> USE NoneAssumption DEF RevisionsInit
<1>1. RowsOK  BY DEF RowsOK
<1>2. DiskOK  BY DEF DiskOK, Reqs
<1>3. TabsSeen
  <2>1. Empty \in Views /\ Empty.of = None  BY DEF Empty, Views
  <2>2. \A v \in Views : v = Empty => Seen(v)  BY <2>1 DEF Seen
  <2> QED  BY <2>1, <2>2 DEF TabsSeen
<1>4. FilesInv
  BY DEF FilesInv, Distinct, Fresh, Pending, Old, PicturesAreServed, Idle
<1> QED  BY <1>1, <1>2, <1>3, <1>4 DEF IndInv

LEMMA NextInv == IndInv /\ [RevisionsNext]_revisionsVars => IndInv'
<1> SUFFICES ASSUME IndInv, [RevisionsNext]_revisionsVars PROVE IndInv'  OBVIOUS
<1> USE DEF IndInv
<1>1. CASE Deletes
  <2>1. RowsOK' /\ TabsSeen'  BY <1>1, DeletesStep
  <2>2. /\ \/ image' = image /\ plants' = plants
           \/ \E p \in Plant : image' = [image EXCEPT ![p] = None] /\ plants' = plants \ {p}
        /\ UNCHANGED <<logo, files, used, unsure, req>>
        /\ edits' = edits + 1
    BY <1>1 DEF Deletes, HardDeleteScadaScreen, HardDeletePlant, HardDeleteDevice, disk, Edit
  <2>3. DiskOK'  BY <2>2 DEF DiskOK
  <2>4. /\ image' \in [Plant -> File \cup {None}] /\ plants' \subseteq plants
        /\ \A p \in Plant : image'[p] = image[p] \/ image'[p] = None
    BY <2>2 DEF DiskOK
  <2>5. UNCHANGED <<logo, files, used, unsure, req>> /\ plants \subseteq Plant  BY <2>2 DEF RowsOK
  <2>6. Distinct'  BY <2>4, <2>5 DEF FilesInv, Distinct
  <2>7. Fresh'
    <3>1. \A q \in Request : Pending(q)' <=> Pending(q)  BY <2>5 DEF Pending
    <3> QED  BY <2>4, <2>5, <3>1 DEF FilesInv, Fresh, Pending
  <2>8. Old'  BY <2>4, <2>5 DEF FilesInv, Old
  <2>9. PicturesAreServed'  BY <2>4, <2>5 DEF FilesInv, PicturesAreServed
  <2>10. FilesInv'  BY <2>6, <2>7, <2>8, <2>9 DEF FilesInv
  <2> QED  BY <2>1, <2>2, <2>3, <2>10
<1>2. ASSUME NEW t \in Tab, Edits(t)  PROVE IndInv'
  <2>1. RowsOK' /\ TabsSeen'  BY <1>2, EditsStep
  <2>2. UNCHANGED <<plants, disk>> /\ (edits' = edits \/ edits' = edits + 1)
    BY <1>2 DEF Edits, Saves, Publishes, RollsBack, OpenScreen, OpenBoard, CreateScadaScreen,
       SaveScadaScreen, PublishScadaScreen, RollbackScadaScreen, SaveDashboardLayout,
       PublishDashboardLayout, Edit
  <2>3. DiskOK' /\ FilesInv'
    BY <2>2 DEF disk, DiskOK, FilesInv, Distinct, Fresh, Pending, Old, PicturesAreServed
  <2> QED  BY <2>1, <2>2, <2>3
<1>3. ASSUME NEW q \in Request, Uploads(q)  PROVE IndInv'
  <2>1. UNCHANGED <<plants, devices, rows, tab>> /\ (edits' = edits \/ edits' = edits + 1)
    BY <1>3 DEF Uploads, DeletePlantImage, UploadPlantImage, CommitPlantImage, UploadPlantImageFails,
       CommitPlantImageUnanswered, UploadSiteLogo, StoreSiteLogo, DeleteSiteLogo, CommitSiteLogo,
       SiteLogoFails, RemoveReplaced, Crash, other, Edit
  <2>2. plants \subseteq Plant  BY DEF RowsOK
  <2>3. DiskOK' /\ FilesInv'  BY <1>3, <2>2, UploadsType, UploadsFiles
  <2>4. RowsOK'  BY <2>1 DEF RowsOK, rows
  <2>5. \A v \in Views : Seen(v) => Seen(v)'
    BY <2>1 DEF rows, Seen, ScreenSeen, BoardSeen, BoardView
  <2>6. TabsSeen'  BY <2>1, <2>5 DEF TabsSeen
  <2> QED  BY <2>1, <2>3, <2>4, <2>6
<1>4. CASE UNCHANGED revisionsVars
  <2>1. RowsOK' /\ DiskOK' /\ edits' \in Nat  BY <1>4 DEF revisionsVars, RowsOK, DiskOK
  <2>2. FilesInv'
    BY <1>4 DEF revisionsVars, FilesInv, Distinct, Fresh, Pending, Old, PicturesAreServed
  <2>3. \A v \in Views : Seen(v) => Seen(v)'
    BY <1>4 DEF revisionsVars, Seen, ScreenSeen, BoardSeen, BoardView
  <2>4. TabsSeen'  BY <1>4, <2>3 DEF revisionsVars, TabsSeen
  <2> QED  BY <2>1, <2>2, <2>4
<1> QED  BY <1>1, <1>2, <1>3, <1>4 DEF RevisionsNext

LEMMA Invariant == RevisionsSpec => []IndInv
BY InitInv, NextInv, PTL DEF RevisionsSpec

\* Every variable keeps its type; a screen stands in a plant that is there and names
\* a publication that exists, and no publication outlives its screen.
THEOREM TypeCorrect == RevisionsSpec => []RevisionsTypeOK
<1>1. IndInv => RevisionsTypeOK
  BY DEF IndInv, RowsOK, DiskOK, TabsSeen, RevisionsTypeOK, ScreenRow, BoardRow
<1> QED  BY <1>1, Invariant, PTL

\* No address of a picture leads nowhere, whatever uploads and removals overlap,
\* fail or stop half-way (UploadPlantImage, UploadSiteLogo).
THEOREM PicturesServed == RevisionsSpec => []PicturesAreServed
<1>1. IndInv => PicturesAreServed  BY DEF IndInv, FilesInv
<1> QED  BY <1>1, Invariant, PTL

-----------------------------------------------------------------------------
(* What is saved and published has been seen.                               *)

LEMMA SeenDraft ==
  ASSUME IndInv, NEW t \in Tab,
         \/ tab[t].of \in DOMAIN screens /\ DraftIsCurrent(t)
         \/ tab[t].of \in User /\ BoardView(tab[t].of).version = tab[t].version
  PROVE  Draft(tab[t].of) = tab[t].draft
<1>1. tab[t] \in Views /\ Seen(tab[t])  BY DEF IndInv, TabsSeen
<1>2. DOMAIN screens \subseteq Screen  BY DEF IndInv, RowsOK
<1>3. CASE tab[t].of \in DOMAIN screens /\ DraftIsCurrent(t)
  <2>1. tab[t].of \notin User  BY <1>2, <1>3, IdAssumption
  <2> QED  BY <1>1, <1>3, <2>1 DEF Draft, Seen, ScreenSeen, DraftIsCurrent
<1>4. CASE tab[t].of \in User /\ BoardView(tab[t].of).version = tab[t].version
  BY <1>1, <1>4 DEF Draft, Seen, BoardSeen
<1> QED  BY <1>3, <1>4

LEMMA SeenPublication ==
  ASSUME IndInv, NEW t \in Tab,
         \/ tab[t].of \in DOMAIN screens /\ ShownIsCurrent(t)
         \/ tab[t].of \in User /\ BoardView(tab[t].of).published = tab[t].published
  PROVE  PublishedAs(tab[t].of) = tab[t].shown
<1>1. tab[t] \in Views /\ Seen(tab[t])  BY DEF IndInv, TabsSeen
<1>2. DOMAIN screens \subseteq Screen  BY DEF IndInv, RowsOK
<1>3. CASE tab[t].of \in DOMAIN screens /\ ShownIsCurrent(t)
  <2>1. tab[t].of \notin User  BY <1>2, <1>3, IdAssumption
  <2> QED  BY <1>1, <1>3, <2>1 DEF PublishedAs, Shown, Seen, ScreenSeen, ShownIsCurrent
<1>4. CASE tab[t].of \in User /\ BoardView(tab[t].of).published = tab[t].published
  BY <1>1, <1>4 DEF PublishedAs, Seen, BoardSeen
<1> QED  BY <1>3, <1>4

\* Whoever saves a screen or a dashboard replaces the draft he was shown.
THEOREM NothingIsLost == RevisionsSpec => NoLostUpdate
<1>1. ASSUME IndInv, [RevisionsNext]_revisionsVars, NEW t \in Tab, Saves(t)
      PROVE  Draft(tab[t].of) = tab[t].draft
  <2>1. \/ tab[t].of \in DOMAIN screens /\ DraftIsCurrent(t)
        \/ tab[t].of \in User /\ BoardView(tab[t].of).version = tab[t].version
    BY <1>1 DEF Saves, SaveDashboardLayout, SaveScadaScreen
  <2> QED  BY <1>1, <2>1, SeenDraft
<1>2. IndInv /\ [RevisionsNext]_revisionsVars
        => [\A t \in Tab : Saves(t) => Draft(tab[t].of) = tab[t].draft]_revisionsVars
  BY <1>1
<1> QED  BY <1>2, Invariant, PTL DEF RevisionsSpec, NoLostUpdate

LEMMA PublishedDraft ==
  ASSUME IndInv, NEW t \in Tab, Publishes(t)
  PROVE  PublishedAs(tab[t].of)' = tab[t].draft
<1> USE DEF IndInv
<1>1. CASE PublishDashboardLayout(t)
  <2> PICK u : u = tab[t].of  OBVIOUS
  <2> PICK b : b = BoardView(u)  OBVIOUS
  <2> PICK w : w = Showing(b, b.draft, b.published + 1)  OBVIOUS
  <2> PICK r : r = Showing(boards[u], b.draft, b.published + 1)  OBVIOUS
  <2>1. /\ u \in DOMAIN boards /\ b.version = tab[t].version
        /\ boards' = [boards EXCEPT ![u] = r] /\ Answered(t, w)
    BY <1>1 DEF PublishDashboardLayout
  <2>2. u \in User /\ boards[u] \in BoardRow  BY <2>1 DEF RowsOK
  <2>3. b \in Views /\ b.of = u /\ b.draft \in Design  BY <2>2, BoardViewIs
  <2>4. b.published \in Nat /\ b.published + 1 \in Nat  BY <2>3 DEF Views
  <2>5. r.shown = b.draft  BY <2>2, <2>3, <2>4, BoardRows
  <2>6. w.of = u
    <3>1. \A v \in Views, x \in Design, n \in Nat : Showing(v, x, n).of = v.of  BY ViewRows
    <3> QED  BY <2>3, <2>4, <3>1
  <2>7. tab'[t].of = u  BY <2>1, <2>6 DEF Answered, TabsSeen
  <2>8. PublishedAs(u)' = b.draft  BY <2>1, <2>2, <2>5 DEF PublishedAs, BoardView
  <2>9. b.draft = tab[t].draft
    <3>1. u \in User /\ BoardView(u).version = tab[t].version  BY <2>1, <2>2
    <3>2. Draft(tab[t].of) = tab[t].draft  BY <3>1, SeenDraft
    <3> QED  BY <2>2, <3>2 DEF Draft
  <2> QED  BY <2>7, <2>8, <2>9 DEF PublishedAs
<1>2. ASSUME NEW v \in 1..MaxEdits, PublishScadaScreen(t, v)
      PROVE  PublishedAs(tab[t].of)' = tab[t].draft
  <2> PICK s : s = tab[t].of  OBVIOUS
  <2> PICK w : w = Showing(ScreenView(s), screens[s].draft, v)  OBVIOUS
  <2> PICK r : r = Naming(screens[s], v)  OBVIOUS
  <2>1. /\ s \in DOMAIN screens /\ DraftIsCurrent(t) /\ v \in Nat \ {0}
        /\ screens' = [screens EXCEPT ![s] = r]
        /\ pubs' = With(pubs, <<s, v>>, screens[s].draft) /\ Answered(t, w)
    BY <1>2, BoundAssumption DEF PublishScadaScreen
  <2>2. /\ s \in Screen /\ screens[s] \in ScreenRow /\ screens[s].draft \in Design
        /\ ScreenView(s) \in Views /\ ScreenView(s).of = s
    BY <2>1, ScreenViewIs
  <2>3. r.published = v
    <3>1. PICK x, n : x \in Design /\ n \in Title  BY <2>2 DEF ScreenRow
    <3> QED  BY <2>1, <2>2, <3>1, ScreenRows
  <2>4. w.of = s
    <3>1. \A y \in Views, x \in Design, n \in Nat : Showing(y, x, n).of = y.of  BY ViewRows
    <3> QED  BY <2>1, <2>2, <3>1
  <2>5. tab'[t].of = s  BY <2>1, <2>4 DEF Answered, TabsSeen
  <2>6. s \notin User  BY <2>2, IdAssumption
  <2>7. screens'[s].published = v /\ pubs'[<<s, v>>] = screens[s].draft  BY <2>1, <2>3 DEF With
  <2>8. Shown(s)' = screens[s].draft  BY <2>1, <2>7 DEF Shown
  <2>9. screens[s].draft = tab[t].draft
    <3>1. Draft(tab[t].of) = tab[t].draft  BY <2>1, SeenDraft
    <3> QED  BY <2>6, <3>1 DEF Draft
  <2> QED  BY <2>5, <2>6, <2>8, <2>9 DEF PublishedAs
<1> QED  BY <1>1, <1>2 DEF Publishes

\* Whoever publishes makes public the draft he was shown, in place of the publication
\* he was shown, and whoever rolls back replaces the one he was shown; a publication
\* gets a version that no other has.
THEOREM PublishedWasSeen == RevisionsSpec => PublishedAsSeen
<1>1. ASSUME IndInv, NEW t \in Tab, Publishes(t) \/ RollsBack(t)
      PROVE  PublishedAs(tab[t].of) = tab[t].shown
  <2>1. \/ tab[t].of \in DOMAIN screens /\ ShownIsCurrent(t)
        \/ tab[t].of \in User /\ BoardView(tab[t].of).published = tab[t].published
    BY <1>1 DEF Publishes, RollsBack, PublishDashboardLayout, PublishScadaScreen,
       RollbackScadaScreen, IndInv, RowsOK
  <2> QED  BY <1>1, <2>1, SeenPublication
<1>2. ASSUME NEW t \in Tab, NEW v \in 1..MaxEdits, PublishScadaScreen(t, v)
      PROVE  v \notin Versions(tab[t].of)
  <2>1. ~(v < v)  BY BoundAssumption
  <2> QED  BY <1>2, <2>1 DEF PublishScadaScreen, IsNextVersion
<1>3. IndInv /\ [RevisionsNext]_revisionsVars
        => [\A t \in Tab :
              /\ Publishes(t) \/ RollsBack(t) => PublishedAs(tab[t].of) = tab[t].shown
              /\ Publishes(t) => PublishedAs(tab[t].of)' = tab[t].draft
              /\ \A v \in 1..MaxEdits : PublishScadaScreen(t, v) => v \notin Versions(tab[t].of)]_revisionsVars
  BY <1>1, <1>2, PublishedDraft
<1> QED  BY <1>3, Invariant, PTL DEF RevisionsSpec, PublishedAsSeen
=============================================================================
