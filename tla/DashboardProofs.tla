-------------------------- MODULE DashboardProofs --------------------------
(***************************************************************************)
(* The history of a dashboard, for any number of overlapping edits and any *)
(* bounds.                                                                 *)
(*                                                                         *)
(* Nothing locks a dashboard while it is edited: what an edit has read is  *)
(* current when it commits only because its version number would be taken  *)
(* otherwise.  The invariant says what each edit in flight still knows, as *)
(* long as its number is free, and as long as the versions are those it    *)
(* began with.                                                             *)
(***************************************************************************)
EXTENDS DashboardHistory, FiniteSetTheorems, TLAPS

Tables == UNION {[ids -> Row] : ids \in SUBSET WidgetIds}
Version == [name : Names, widgets : Tables]
Session == [pc : {"idle", "loaded", "numbered", "read"}, op : Edits \cup {"none"},
            name : Names \cup {None}, renames : BOOLEAN, loaded : Tables, new : Tables,
            target : Nat, number : Nat, snap : Tables, base : SUBSET Nat]

Busy == {r \in Requests : session[r].pc # "idle"}
Adds(s) == s.pc # "idle" /\ s.op \in {"add", "restore"}

\* A row and what is left of it when datasets other than D are gone.
Like(old, new, D) ==
    /\ old.title = new.title
    /\ new.dataset = old.dataset \/ (new.dataset = None /\ old.dataset \notin D)

Types ==
    /\ dash \in {"none", "live", "gone"}
    /\ name \in Names \cup {None} /\ (dash # "none" => name \in Names)
    /\ widgets \in Tables
    /\ DOMAIN versions \subseteq 1..MaxVersions /\ versions \in [DOMAIN versions -> Version]
    /\ datasets \subseteq DatasetIds
    /\ nextId \in 1..(MaxWidgets + 1)
    /\ session \in [Requests -> Session]

\* Only a live dashboard has rows, and an edit begins on a live one.
OnlyTheLiving ==
    /\ dash # "live" => widgets = <<>> /\ versions = <<>>
    /\ dash = "none" => Busy = {} /\ \A r \in Requests : DOMAIN session[r].loaded = {}

\* The versions are numbered without a gap, with room for the edits in flight.
Gapless ==
    /\ DOMAIN versions = 1..Cardinality(DOMAIN versions)
    /\ dash = "live" => Cardinality(DOMAIN versions) + Cardinality(Busy) <= MaxVersions

\* A row to be added has an id of its own, that of no row there is or anyone has loaded.
OwnIds ==
    /\ \A w \in DOMAIN widgets : w < nextId
    /\ \A q \in Requests : \A w \in DOMAIN session[q].loaded : w < nextId
    /\ \A r \in Requests : Adds(session[r]) =>
         \A w \in DOMAIN session[r].new :
            /\ w < nextId /\ w \notin DOMAIN widgets
            /\ \A q \in Requests : w \notin DOMAIN session[q].loaded
            /\ \A q \in Requests \ {r} : Adds(session[q]) => w \notin DOMAIN session[q].new

\* The rows a session holds are those of its edit.
Edit(s) ==
    /\ s.op \in Edits /\ s.name \in Names
    /\ s.op \in {"add", "rename"} => s.loaded = <<>>
    /\ s.op \in {"delete", "rename"} => s.new = <<>>
    /\ s.op = "update" => /\ DOMAIN s.loaded = DOMAIN s.new
                          /\ \A w \in DOMAIN s.new : s.new[w].dataset = s.loaded[w].dataset
    /\ s.renames => s.op \in {"rename", "restore"}

\* The version number a session has found is the next one, or one used since.
Numbered(s, V) ==
    s.pc \in {"numbered", "read"} => s.number \in 1..(Cardinality(DOMAIN V) + 1)

\* As long as it is free, the snapshot lists the rows there will be: those the session has added or
\* changed as it will leave them, and all others as they are.
Current(s, W, V, D) ==
    s.pc = "read" /\ s.op \in {"add", "update", "rename"} /\ s.number \notin DOMAIN V
    => /\ DOMAIN s.snap = DOMAIN W \cup (IF s.op = "add" THEN DOMAIN s.new ELSE {})
       /\ \A w \in DOMAIN s.snap : IF w \in DOMAIN s.new THEN s.snap[w] = s.new[w]
                                  ELSE w \in DOMAIN W => Like(s.snap[w], W[w], D)

\* A row loaded to be changed keeps its reference to a dataset, unless that is gone.
Refers(s, W, D) ==
    s.op = "update" => \A w \in DOMAIN s.loaded \cap DOMAIN W :
      \/ W[w].dataset = s.loaded[w].dataset
      \/ W[w].dataset = None /\ s.loaded[w].dataset \notin D

\* As long as no version was added, the name and the rows are those the session has loaded.
Undimmed(s, W, V, n, D) ==
    s.base = DOMAIN V =>
      /\ s.renames \/ s.name = n
      /\ s.op = "update" => \A w \in DOMAIN s.loaded : w \in DOMAIN W /\ Like(s.loaded[w], W[w], D)
      /\ s.op = "restore" => DOMAIN s.loaded = DOMAIN W

\* What a restore adds: the target's rows, one for one.
Replaces(new, rows, D) ==
    \E place \in Bijection(DOMAIN new, DOMAIN rows) :
      \A w \in DOMAIN new : Like(rows[place[w]], new[w], D)
Restores(s, V, D) ==
    s.op = "restore" => /\ s.target \in DOMAIN V /\ s.name = V[s.target].name
                        /\ Replaces(s.new, V[s.target].widgets, D)

InFlight(s, W, V, n, D) ==
    s.pc # "idle" =>
      /\ s.base \subseteq DOMAIN V
      /\ Edit(s) /\ Numbered(s, V) /\ Current(s, W, V, D) /\ Refers(s, W, D)
      /\ Undimmed(s, W, V, n, D) /\ Restores(s, V, D)

DashInv ==
    /\ Types /\ OnlyTheLiving /\ Gapless /\ OwnIds
    /\ dash = "live" => \A r \in Requests : InFlight(session[r], widgets, versions, name, datasets)

---------------------------------------------------------------------------
(* Tables of rows. *)

LEMMA TableIs == \A f : f \in Tables <=> DOMAIN f \subseteq WidgetIds /\ f \in [DOMAIN f -> Row]
  BY DEF Tables

LEMMA EmptyTable == <<>> \in Tables /\ DOMAIN <<>> = {}
  <1>1. DOMAIN <<>> = {} /\ <<>> \in [{} -> Row]
    OBVIOUS
  <1> QED BY <1>1 DEF Tables

LEMMA TableAt ==
    ASSUME NEW k, NEW row
    PROVE  /\ DOMAIN At(k, row) = {k} /\ At(k, row)[k] = row
           /\ k \in WidgetIds /\ row \in Row => At(k, row) \in Tables
  BY TableIs DEF At

LEMMA TableOver ==
    ASSUME NEW f, NEW g
    PROVE  /\ DOMAIN Over(f, g) = DOMAIN f \cup DOMAIN g
           /\ \A k \in DOMAIN f : Over(f, g)[k] = f[k]
           /\ \A k \in DOMAIN g : k \notin DOMAIN f => Over(f, g)[k] = g[k]
           /\ f \in Tables /\ g \in Tables => Over(f, g) \in Tables
  BY TableIs DEF Over

LEMMA TableRestrict ==
    ASSUME NEW f, NEW ids
    PROVE  /\ DOMAIN Restrict(f, ids) = ids
           /\ \A k \in ids : Restrict(f, ids)[k] = f[k]
           /\ f \in Tables /\ ids \subseteq DOMAIN f => Restrict(f, ids) \in Tables
  BY TableIs DEF Restrict

LEMMA TableRow == ASSUME NEW f \in Tables, NEW w \in DOMAIN f PROVE f[w] \in Row /\ w \in WidgetIds
  BY TableIs

\* Ids are few, and counted.
LEMMA TableFinite ==
    ASSUME NEW f \in Tables
    PROVE  IsFiniteSet(DOMAIN f) /\ Cardinality(DOMAIN f) \in Nat /\ DOMAIN f \subseteq Nat
  <1>1. DOMAIN f \subseteq 1..MaxWidgets
    BY TableIs DEF WidgetIds
  <1>2. IsFiniteSet(1..MaxWidgets)
    BY BoundAssumption, FS_Interval
  <1>3. IsFiniteSet(DOMAIN f)
    BY <1>1, <1>2, FS_Subset
  <1> QED BY <1>1, <1>3, FS_CardinalityType

LEMMA RowLike ==
    ASSUME NEW row \in Row, NEW D
    PROVE  Like(row, row, D)
  BY DEF Like

\* A reference to d is cleared, and d is gone.
LEMMA RowCleared ==
    ASSUME NEW old \in Row, NEW row \in Row, NEW d, NEW D, Like(old, row, D)
    PROVE  Like(old, IF row.dataset = d THEN [row EXCEPT !.dataset = None] ELSE row, D \ {d})
  BY DEF Like, Row

LEMMA LikeTitles ==
    ASSUME NEW old \in Row, NEW row \in Row, NEW D, Like(old, row, D), NEW t \in Names
    PROVE  /\ [old EXCEPT !.title = t] \in Row /\ [row EXCEPT !.title = t] \in Row
           /\ Like([old EXCEPT !.title = t], [row EXCEPT !.title = t], D)
  BY DEF Like, Row

LEMMA NobodyEdits == NoSession \in Session /\ NoSession.pc = "idle" /\ DOMAIN NoSession.loaded = {}
  BY EmptyTable DEF NoSession, Session

---------------------------------------------------------------------------
(* The rows of a restore. *)

LEMMA RowsRestored ==
    ASSUME NEW rows \in Tables, NEW ids \in SUBSET WidgetIds,
           NEW place \in Bijection(ids, DOMAIN rows)
    PROVE  /\ RestoredRows(rows, place) \in Tables
           /\ DOMAIN RestoredRows(rows, place) = ids
           /\ Replaces(RestoredRows(rows, place), rows, datasets)
  <1> DEFINE new == RestoredRows(rows, place)
  <1>1. place \in [ids -> DOMAIN rows] /\ DOMAIN place = ids
    BY DEF Bijection, Injection
  <1>2. ASSUME NEW w \in ids
        PROVE  /\ RestoredRow(rows[place[w]]) \in Row
               /\ Like(rows[place[w]], RestoredRow(rows[place[w]]), datasets)
    <2> DEFINE row == rows[place[w]]
    <2>1. row \in Row
      BY <1>1, TableRow
    <2> HIDE DEF row
    <2>2. RestoredRow(row) \in Row /\ Like(row, RestoredRow(row), datasets)
      BY <2>1 DEF RestoredRow, Row, Like
    <2> QED BY <2>2 DEF row
  <1>3. DOMAIN new = ids /\ new = [w \in ids |-> RestoredRow(rows[place[w]])]
    BY <1>1 DEF RestoredRows
  <1> HIDE DEF new
  <1>4. new \in Tables
    BY <1>2, <1>3, TableIs
  <1>5. \A w \in DOMAIN new : Like(rows[place[w]], new[w], datasets)
    BY <1>2, <1>3
  <1>6. Replaces(new, rows, datasets)
    BY <1>3, <1>5 DEF Replaces
  <1> QED BY <1>3, <1>4, <1>6 DEF new

---------------------------------------------------------------------------
(* An edit begins. *)

LEMMA BusyFinite == IsFiniteSet(Busy) /\ Cardinality(Busy) \in Nat
  <1>1. Busy \subseteq Requests
    BY DEF Busy
  <1> QED BY <1>1, RequestsAssumption, FS_Subset, FS_CardinalityType

LEMMA VersionsFinite ==
    ASSUME Types
    PROVE  IsFiniteSet(DOMAIN versions) /\ Cardinality(DOMAIN versions) \in Nat
  <1>1. DOMAIN versions \subseteq 1..MaxVersions
    BY DEF Types
  <1>2. IsFiniteSet(1..MaxVersions)
    BY BoundAssumption, FS_Interval
  <1> QED BY <1>1, <1>2, FS_Subset, FS_CardinalityType

LEMMA OpenedIs ==
    ASSUME Types, dash = "live", NEW op \in Edits
    PROVE  /\ Opened(op) \in Session
           /\ Opened(op).pc = "loaded" /\ Opened(op).op = op /\ Opened(op).name = name
           /\ Opened(op).renames = FALSE /\ Opened(op).loaded = <<>> /\ Opened(op).new = <<>>
           /\ Opened(op).base = DOMAIN versions
  <1>1. name \in Names /\ DOMAIN versions \in SUBSET Nat
    BY BoundAssumption DEF Types
  <1> QED BY <1>1, EmptyTable DEF Opened, NoSession, Session

LEMMA Begins ==
    ASSUME DashInv, NEW r \in Requests, NEW s \in Session, Load(r, s),
           s.pc = "loaded", s.base = DOMAIN versions, Edit(s),
           Undimmed(s, widgets, versions, name, datasets), Restores(s, versions, datasets),
           nextId' \in nextId..(MaxWidgets + 1),
           DOMAIN s.loaded \subseteq DOMAIN widgets, Refers(s, widgets, datasets),
           s.op \in {"add", "restore"} => \A w \in DOMAIN s.new : w >= nextId /\ w < nextId'
    PROVE  DashInv'
  <1>1. /\ dash = "live" /\ session[r].pc = "idle" /\ RoomForEdit
        /\ session' = [session EXCEPT ![r] = s]
        /\ UNCHANGED <<dash, name, widgets, versions, datasets>>
    BY DEF Load
  <1>2. Types /\ Gapless /\ OwnIds /\ nextId \in Nat /\ nextId' \in Nat
    BY BoundAssumption DEF DashInv, Types
  <1>3. session \in [Requests -> Session] /\ session' \in [Requests -> Session]
    BY <1>1, <1>2 DEF Types
  <1>4. session'[r] = s /\ \A q \in Requests \ {r} : session'[q] = session[q]
    BY <1>1, <1>3
  <1>5. Types'
    BY <1>1, <1>2, <1>3, BoundAssumption DEF Types
  <1>6. OnlyTheLiving'
    BY <1>1 DEF OnlyTheLiving
  <1>7. Gapless'
    <2>1. Busy' = Busy \cup {r} /\ r \notin Busy
      BY <1>1, <1>4 DEF Busy
    <2>2. Cardinality(Busy') = Cardinality(Busy) + 1
      BY <2>1, BusyFinite, FS_AddElement
    <2>3. Cardinality(DOMAIN versions) + Cardinality(Busy) < MaxVersions
      BY <1>1 DEF RoomForEdit, Busy
    <2>4. Cardinality(DOMAIN versions) \in Nat
      BY <1>2, VersionsFinite
    <2> QED BY <1>1, <1>2, <2>2, <2>3, <2>4, BusyFinite, BoundAssumption DEF Gapless
  <1>8. OwnIds'
    <2>1. \A w \in DOMAIN widgets' : w < nextId'
      <3>1. \A w \in DOMAIN widgets : w \in Nat
        BY <1>2, TableFinite DEF Types
      <3> QED BY <1>1, <1>2, <3>1 DEF OwnIds
    <2>2. ASSUME NEW q \in Requests, NEW v \in DOMAIN session'[q].loaded
          PROVE  v < nextId /\ v < nextId' /\ v \in Nat
      <3>1. v \in Nat
        BY <1>3, TableFinite DEF Session
      <3>2. v < nextId
        BY <1>2, <1>4 DEF OwnIds
      <3> QED BY <1>2, <3>1, <3>2
    <2>3. ASSUME NEW p \in Requests, Adds(session'[p]), NEW w \in DOMAIN session'[p].new
          PROVE  /\ w < nextId' /\ w \notin DOMAIN widgets
                 /\ \A q \in Requests : w \notin DOMAIN session'[q].loaded
                 /\ \A q \in Requests \ {p} : Adds(session'[q]) => w \notin DOMAIN session'[q].new
      <3>1. w \in Nat /\ \A v \in DOMAIN widgets : v \in Nat
        BY <1>2, <1>3, TableFinite DEF Session, Types
      <3>2. CASE p = r
        <4>1. w >= nextId /\ w < nextId'
          BY <1>4, <2>3, <3>2 DEF Adds
        <4>2. \A q \in Requests \ {p} : Adds(session'[q]) =>
                \A v \in DOMAIN session'[q].new : v < nextId
          BY <1>2, <1>4, <3>2 DEF OwnIds
        <4>3. \A q \in Requests : w \notin DOMAIN session'[q].loaded
          BY <1>2, <2>2, <3>1, <4>1
        <4> QED BY <1>2, <3>1, <4>1, <4>2, <4>3 DEF OwnIds
      <3>3. CASE p # r
        <4>1. session'[p] = session[p] /\ w < nextId /\ w \notin DOMAIN widgets
          BY <1>2, <1>4, <2>3, <3>3 DEF OwnIds
        <4>2. w < nextId'
          BY <1>2, <3>1, <4>1
        <4>3. ASSUME NEW q \in Requests \ {p}, Adds(session'[q])
              PROVE  w \notin DOMAIN session'[q].new
          <5>1. CASE q = r
            <6>1. \A v \in DOMAIN session'[q].new : v >= nextId
              BY <1>4, <4>3, <5>1 DEF Adds
            <6> QED BY <1>2, <3>1, <4>1, <6>1
          <5>2. CASE q # r
            BY <1>2, <1>4, <2>3, <4>1, <4>3, <5>2 DEF OwnIds
          <5> QED BY <5>1, <5>2
        <4>4. \A q \in Requests : w \notin DOMAIN session'[q].loaded
          BY <1>2, <1>4, <2>3, <3>3, <4>1 DEF OwnIds
        <4> QED BY <4>1, <4>2, <4>3, <4>4
      <3> QED BY <3>2, <3>3
    <2> QED BY <1>1, <2>1, <2>2, <2>3 DEF OwnIds
  <1>9. ASSUME NEW p \in Requests
        PROVE  InFlight(session'[p], widgets, versions, name, datasets)
    <2>1. CASE p = r
      BY <1>4, <2>1 DEF InFlight, Numbered, Current
    <2>2. CASE p # r
      BY <1>1, <1>4, <2>2 DEF DashInv
    <2> QED BY <2>1, <2>2
  <1> QED BY <1>1, <1>5, <1>6, <1>7, <1>8, <1>9 DEF DashInv

LEMMA BeginsAdd ==
    ASSUME DashInv, NEW r \in Requests, NEW t \in Names, NEW d \in DatasetIds \cup {None},
           LoadCreateWidget(r, t, d)
    PROVE  DashInv'
  <1> DEFINE row == [title |-> t, dataset |-> d]
             s == [Opened("add") EXCEPT !.new = At(nextId, row)]
  <1>1. Types /\ dash = "live" /\ nextId \in 1..MaxWidgets /\ nextId' = nextId + 1 /\ Load(r, s)
    BY BoundAssumption DEF DashInv, LoadCreateWidget, Load, Types
  <1>2. row \in Row /\ nextId \in WidgetIds
    BY <1>1 DEF Row, WidgetIds
  <1>3. At(nextId, row) \in Tables /\ DOMAIN At(nextId, row) = {nextId}
    BY <1>2, TableAt
  <1>4. /\ Opened("add") \in Session
        /\ Opened("add").pc = "loaded" /\ Opened("add").op = "add" /\ Opened("add").name = name
        /\ Opened("add").renames = FALSE /\ Opened("add").loaded = <<>>
        /\ Opened("add").base = DOMAIN versions
    BY <1>1, OpenedIs DEF Edits
  <1>5. /\ s \in Session
        /\ s.pc = "loaded" /\ s.op = "add" /\ s.name = name /\ s.renames = FALSE
        /\ s.loaded = <<>> /\ s.base = DOMAIN versions /\ s.new = At(nextId, row)
    BY <1>3, <1>4 DEF Session
  <1> HIDE DEF s
  <1>6. /\ Edit(s) /\ Undimmed(s, widgets, versions, name, datasets)
        /\ Restores(s, versions, datasets) /\ Refers(s, widgets, datasets)
        /\ DOMAIN s.loaded \subseteq DOMAIN widgets
    BY <1>1, <1>5, EmptyTable DEF Edit, Undimmed, Restores, Refers, Edits, Types
  <1>7. nextId' \in nextId..(MaxWidgets + 1) /\ \A w \in DOMAIN s.new : w >= nextId /\ w < nextId'
    BY <1>1, <1>3, <1>5, BoundAssumption
  <1> QED BY <1>1, <1>5, <1>6, <1>7, Begins

LEMMA BeginsUpdate ==
    ASSUME DashInv, NEW r \in Requests, NEW w \in WidgetIds, NEW t \in Names,
           LoadUpdateWidget(r, w, t)
    PROVE  DashInv'
  <1> DEFINE row == [widgets[w] EXCEPT !.title = t]
             s == [Opened("update") EXCEPT !.loaded = At(w, widgets[w]), !.new = At(w, row)]
  <1>1. /\ Types /\ dash = "live" /\ nextId' = nextId /\ Load(r, s)
        /\ w \in DOMAIN widgets /\ widgets \in Tables /\ nextId \in 1..(MaxWidgets + 1)
    BY DEF DashInv, LoadUpdateWidget, Load, Types
  <1>2. widgets[w] \in Row
    BY <1>1, TableRow
  <1>3. row \in Row /\ row.dataset = widgets[w].dataset
    BY <1>2 DEF Row
  <1> HIDE DEF row
  <1>4. /\ At(w, row) \in Tables /\ DOMAIN At(w, row) = {w} /\ At(w, row)[w] = row
        /\ At(w, widgets[w]) \in Tables /\ DOMAIN At(w, widgets[w]) = {w}
        /\ At(w, widgets[w])[w] = widgets[w]
    BY <1>2, <1>3, TableAt
  <1>5. /\ Opened("update") \in Session
        /\ Opened("update").pc = "loaded" /\ Opened("update").op = "update"
        /\ Opened("update").name = name /\ Opened("update").renames = FALSE
        /\ Opened("update").base = DOMAIN versions
    BY <1>1, OpenedIs DEF Edits
  <1>6. /\ s \in Session
        /\ s.pc = "loaded" /\ s.op = "update" /\ s.name = name /\ s.renames = FALSE
        /\ s.loaded = At(w, widgets[w]) /\ s.base = DOMAIN versions /\ s.new = At(w, row)
    BY <1>4, <1>5 DEF Session
  <1> HIDE DEF s
  <1>7. Edit(s)
    BY <1>1, <1>3, <1>4, <1>6 DEF Edit, Edits, Types
  <1>8. /\ Undimmed(s, widgets, versions, name, datasets) /\ Restores(s, versions, datasets)
        /\ Refers(s, widgets, datasets) /\ DOMAIN s.loaded \subseteq DOMAIN widgets
    BY <1>1, <1>2, <1>4, <1>6, RowLike DEF Undimmed, Restores, Refers
  <1> QED BY <1>1, <1>6, <1>7, <1>8, BoundAssumption, Begins

LEMMA BeginsDelete ==
    ASSUME DashInv, NEW r \in Requests, NEW w \in WidgetIds, LoadDeleteWidget(r, w)
    PROVE  DashInv'
  <1> DEFINE s == [Opened("delete") EXCEPT !.loaded = At(w, widgets[w])]
  <1>1. /\ Types /\ dash = "live" /\ nextId' = nextId /\ Load(r, s)
        /\ w \in DOMAIN widgets /\ widgets \in Tables /\ nextId \in 1..(MaxWidgets + 1)
    BY DEF DashInv, LoadDeleteWidget, Load, Types
  <1>2. At(w, widgets[w]) \in Tables /\ DOMAIN At(w, widgets[w]) = {w}
    BY <1>1, TableRow, TableAt
  <1>3. /\ Opened("delete") \in Session
        /\ Opened("delete").pc = "loaded" /\ Opened("delete").op = "delete"
        /\ Opened("delete").name = name /\ Opened("delete").renames = FALSE
        /\ Opened("delete").new = <<>> /\ Opened("delete").base = DOMAIN versions
    BY <1>1, OpenedIs DEF Edits
  <1>4. /\ s \in Session
        /\ s.pc = "loaded" /\ s.op = "delete" /\ s.name = name /\ s.renames = FALSE
        /\ s.loaded = At(w, widgets[w]) /\ s.new = <<>> /\ s.base = DOMAIN versions
    BY <1>2, <1>3 DEF Session
  <1> HIDE DEF s
  <1>5. /\ Edit(s) /\ Undimmed(s, widgets, versions, name, datasets)
        /\ Restores(s, versions, datasets) /\ Refers(s, widgets, datasets)
        /\ DOMAIN s.loaded \subseteq DOMAIN widgets
    BY <1>1, <1>2, <1>4 DEF Edit, Undimmed, Restores, Refers, Edits, Types
  <1> QED BY <1>1, <1>4, <1>5, BoundAssumption, Begins

LEMMA BeginsRename ==
    ASSUME DashInv, NEW r \in Requests, NEW newName \in Names, LoadRename(r, newName)
    PROVE  DashInv'
  <1> DEFINE changes == newName # name
             s == [Opened("rename") EXCEPT !.name = newName, !.renames = changes]
  <1>1. /\ Types /\ dash = "live" /\ nextId' = nextId /\ Load(r, s)
        /\ nextId \in 1..(MaxWidgets + 1)
    BY DEF DashInv, LoadRename, Load, Types
  <1>2. /\ Opened("rename") \in Session
        /\ Opened("rename").pc = "loaded" /\ Opened("rename").op = "rename"
        /\ Opened("rename").loaded = <<>> /\ Opened("rename").new = <<>>
        /\ Opened("rename").base = DOMAIN versions
    BY <1>1, OpenedIs DEF Edits
  <1>3. changes \in BOOLEAN /\ (changes \/ newName = name)
    OBVIOUS
  <1> HIDE DEF changes
  <1>4. /\ s \in Session
        /\ s.pc = "loaded" /\ s.op = "rename" /\ s.name = newName /\ (s.renames \/ s.name = name)
        /\ s.loaded = <<>> /\ s.new = <<>> /\ s.base = DOMAIN versions
    BY <1>2, <1>3 DEF Session
  <1> HIDE DEF s
  <1>5. /\ Edit(s) /\ Undimmed(s, widgets, versions, name, datasets)
        /\ Restores(s, versions, datasets) /\ Refers(s, widgets, datasets)
        /\ DOMAIN s.loaded \subseteq DOMAIN widgets
    BY <1>1, <1>4, EmptyTable DEF Edit, Undimmed, Restores, Refers, Edits
  <1> QED BY <1>1, <1>4, <1>5, BoundAssumption, Begins

LEMMA BeginsRestore ==
    ASSUME DashInv, NEW r \in Requests, NEW n \in 1..MaxVersions, LoadRestore(r, n)
    PROVE  DashInv'
  <1> DEFINE rows == versions[n].widgets
             count == Cardinality(DOMAIN rows)
             ids == nextId..(nextId' - 1)
             changes == versions[n].name # name
  <1>1. PICK place \in Bijection(ids, DOMAIN rows) :
          Load(r, [Opened("restore") EXCEPT !.target = n, !.loaded = widgets,
                                            !.name = versions[n].name, !.renames = changes,
                                            !.new = RestoredRows(rows, place)])
    BY DEF LoadRestore
  <1> DEFINE new == RestoredRows(rows, place)
             s == [Opened("restore") EXCEPT !.target = n, !.loaded = widgets,
                                            !.name = versions[n].name, !.renames = changes,
                                            !.new = new]
  <1>2. /\ Types /\ dash = "live" /\ nextId' = nextId + count /\ Load(r, s)
        /\ nextId' <= MaxWidgets + 1 /\ nextId \in 1..(MaxWidgets + 1)
        /\ widgets \in Tables /\ n \in DOMAIN versions
    BY <1>1 DEF DashInv, LoadRestore, Load, Types
  <1>3. rows \in Tables /\ versions[n].name \in Names
    BY <1>2 DEF Types, Version
  <1>4. count \in Nat
    BY <1>3, TableFinite
  <1>5. nextId' \in nextId..(MaxWidgets + 1) /\ ids \in SUBSET WidgetIds
        /\ \A w \in ids : w >= nextId /\ w < nextId'
    <2> HIDE DEF rows, count
    <2> QED BY <1>2, <1>4, BoundAssumption DEF WidgetIds
  <1>6. new \in Tables /\ DOMAIN new = ids /\ Replaces(new, rows, datasets)
    <2> HIDE DEF rows, ids
    <2> QED BY <1>1, <1>3, <1>5, RowsRestored
  <1>7. /\ Opened("restore") \in Session
        /\ Opened("restore").pc = "loaded" /\ Opened("restore").op = "restore"
        /\ Opened("restore").base = DOMAIN versions
    BY <1>2, OpenedIs DEF Edits
  <1>8. changes \in BOOLEAN /\ (changes \/ versions[n].name = name)
    OBVIOUS
  <1> HIDE DEF changes, new, ids
  <1>9. /\ s \in Session
        /\ s.pc = "loaded" /\ s.op = "restore" /\ s.name = versions[n].name
        /\ (s.renames \/ s.name = name) /\ s.target = n
        /\ s.loaded = widgets /\ s.new = new /\ s.base = DOMAIN versions
    BY <1>2, <1>3, <1>6, <1>7, <1>8 DEF Session
  <1> HIDE DEF s
  <1>10. /\ Edit(s) /\ Undimmed(s, widgets, versions, name, datasets)
         /\ Refers(s, widgets, datasets) /\ DOMAIN s.loaded \subseteq DOMAIN widgets
    BY <1>3, <1>9 DEF Edit, Undimmed, Refers, Edits
  <1>11. Restores(s, versions, datasets)
    BY <1>2, <1>6, <1>9 DEF Restores
  <1> QED BY <1>2, <1>5, <1>6, <1>9, <1>10, <1>11, Begins

---------------------------------------------------------------------------
(* An edit goes on, or fails. *)

LEMMA NextIs ==
    ASSUME Types, Gapless
    PROVE  NextVersionNumber(DOMAIN versions) = Cardinality(DOMAIN versions) + 1
  <1> DEFINE n == Cardinality(DOMAIN versions)
  <1>1. DOMAIN versions = 1..n /\ n \in Nat
    BY VersionsFinite DEF Gapless
  <1> HIDE DEF n
  <1>2. CASE n = 0
    BY <1>1, <1>2 DEF NextVersionNumber, n
  <1>3. CASE n > 0
    <2>1. 1..n # {} /\ \E x \in 1..n : \A y \in 1..n : x >= y
      BY <1>1, <1>3
    <2>2. Max(1..n) \in 1..n /\ \A y \in 1..n : Max(1..n) >= y
      BY <2>1 DEF Max
    <2>3. Max(1..n) = n
      BY <1>1, <1>3, <2>2
    <2> QED BY <1>1, <2>1, <2>3 DEF NextVersionNumber, n
  <1> QED BY <1>1, <1>2, <1>3

LEMMA Ends ==
    ASSUME DashInv, NEW r \in Requests, End(r),
           UNCHANGED <<dash, name, widgets, versions, datasets, nextId>>
    PROVE  DashInv'
  <1>1. Types /\ Gapless /\ OwnIds /\ OnlyTheLiving
    BY DEF DashInv
  <1>2. session \in [Requests -> Session] /\ session' = [session EXCEPT ![r] = NoSession]
    BY <1>1 DEF Types, End
  <1>3. /\ session' \in [Requests -> Session] /\ session'[r].pc = "idle"
        /\ DOMAIN session'[r].loaded = {}
        /\ \A q \in Requests \ {r} : session'[q] = session[q]
    BY <1>2, NobodyEdits
  <1>4. Types'
    BY <1>1, <1>3 DEF Types
  <1>5. Busy' = Busy \ {r}
    BY <1>3 DEF Busy
  <1>6. OnlyTheLiving'
    BY <1>1, <1>3, <1>5 DEF OnlyTheLiving
  <1>7. Gapless'
    <2>1. Cardinality(Busy') <= Cardinality(Busy) /\ Cardinality(Busy') \in Nat
      BY <1>5, BusyFinite, FS_RemoveElement, FS_CardinalityType
    <2>2. Cardinality(DOMAIN versions) \in Nat
      BY <1>1, VersionsFinite
    <2> QED BY <1>1, <2>1, <2>2, BusyFinite, BoundAssumption DEF Gapless
  <1>8. OwnIds'
    BY <1>1, <1>3 DEF OwnIds, Adds
  <1>9. dash' = "live" => \A p \in Requests : InFlight(session'[p], widgets', versions', name', datasets')
    BY <1>3 DEF DashInv, InFlight
  <1> QED BY <1>4, <1>6, <1>7, <1>8, <1>9 DEF DashInv

LEMMA GoesOn ==
    ASSUME DashInv, NEW r \in Requests, NEW s \in Session,
           session[r].pc # "idle", s.pc # "idle", s.op = session[r].op, s.new = session[r].new,
           s.loaded = session[r].loaded, session' = [session EXCEPT ![r] = s],
           dash = "live" => InFlight(s, widgets, versions, name, datasets),
           UNCHANGED <<dash, name, widgets, versions, datasets, nextId>>
    PROVE  DashInv'
  <1>1. Types /\ Gapless /\ OwnIds /\ OnlyTheLiving
    BY DEF DashInv
  <1>2. /\ session' \in [Requests -> Session] /\ session'[r] = s
        /\ \A q \in Requests \ {r} : session'[q] = session[q]
    BY <1>1 DEF Types
  <1>3. Types'
    BY <1>1, <1>2 DEF Types
  <1>4. Busy' = Busy
    BY <1>2 DEF Busy
  <1>5. \A q \in Requests : /\ Adds(session'[q]) <=> Adds(session[q])
                            /\ session'[q].new = session[q].new
                            /\ session'[q].loaded = session[q].loaded
    BY <1>2 DEF Adds
  <1>6. OnlyTheLiving' /\ Gapless'
    BY <1>1, <1>4, <1>5 DEF OnlyTheLiving, Gapless
  <1>7. OwnIds'
    BY <1>1, <1>5 DEF OwnIds
  <1>8. dash' = "live" => \A p \in Requests : InFlight(session'[p], widgets', versions', name', datasets')
    BY <1>2 DEF DashInv
  <1> QED BY <1>3, <1>6, <1>7, <1>8 DEF DashInv

LEMMA NumbersAreRead ==
    ASSUME DashInv, NEW r \in Requests, ReadNumbers(r)
    PROVE  DashInv'
  <1> DEFINE next == NextVersionNumber(DOMAIN versions)
             s == [session[r] EXCEPT !.pc = "numbered", !.number = next]
  <1>1. /\ Types /\ Gapless /\ session[r] \in Session /\ session[r].pc = "loaded"
        /\ UNCHANGED <<dash, name, widgets, versions, datasets, nextId>>
        /\ session' = [session EXCEPT ![r] = s]
    BY DEF DashInv, Types, ReadNumbers
  <1>2. next = Cardinality(DOMAIN versions) + 1 /\ Cardinality(DOMAIN versions) \in Nat
    BY <1>1, NextIs, VersionsFinite
  <1> HIDE DEF next
  <1>3. next \in Nat
    BY <1>2
  <1>4. /\ s \in Session /\ s.pc = "numbered" /\ s.number = next /\ s.op = session[r].op
        /\ s.name = session[r].name /\ s.renames = session[r].renames
        /\ s.loaded = session[r].loaded /\ s.new = session[r].new /\ s.target = session[r].target
        /\ s.snap = session[r].snap /\ s.base = session[r].base
    BY <1>1, <1>3 DEF Session
  <1> HIDE DEF s
  <1>5. ASSUME dash = "live"
        PROVE  InFlight(s, widgets, versions, name, datasets)
    <2>1. InFlight(session[r], widgets, versions, name, datasets)
      BY <1>5 DEF DashInv
    <2>2. /\ s.base \subseteq DOMAIN versions /\ Edit(s) /\ Restores(s, versions, datasets)
          /\ Refers(s, widgets, datasets)
      BY <1>1, <1>4, <2>1 DEF InFlight, Edit, Restores, Refers
    <2>3. Numbered(s, versions) /\ Current(s, widgets, versions, datasets)
      BY <1>2, <1>4 DEF Numbered, Current
    <2>4. Undimmed(s, widgets, versions, name, datasets)
      BY <1>1, <1>4, <2>1 DEF InFlight, Undimmed
    <2> QED BY <2>2, <2>3, <2>4 DEF InFlight
  <1> QED BY <1>1, <1>4, <1>5, GoesOn

\* What a session shows: its own rows, and those of the table.
LEMMA SnapshotIs ==
    ASSUME DashInv, NEW r \in Requests, session[r].pc # "idle"
    PROVE  /\ Snapshot(r) \in Tables
           /\ session[r].op = "add" => DOMAIN Snapshot(r) = DOMAIN widgets \cup DOMAIN session[r].new
           /\ session[r].op \in {"update", "rename"} => DOMAIN Snapshot(r) = DOMAIN widgets
           /\ dash = "live" /\ session[r].op \in {"add", "update", "rename"} =>
                \A w \in DOMAIN Snapshot(r) :
                   Snapshot(r)[w] = IF w \in DOMAIN session[r].new THEN session[r].new[w] ELSE widgets[w]
  <1> DEFINE new == session[r].new
             loaded == session[r].loaded
  <1>1. new \in Tables /\ loaded \in Tables /\ widgets \in Tables
    BY DEF DashInv, Types, Session
  <1> HIDE DEF new, loaded
  <1>2. CASE session[r].op = "restore"
    <2>1. Snapshot(r) = loaded
      BY <1>2 DEF Snapshot, loaded
    <2> QED BY <1>1, <1>2, <2>1
  <1>3. CASE session[r].op = "add"
    <2>1. Snapshot(r) = Over(widgets, new)
      BY <1>3 DEF Snapshot, new
    <2>2. \A w \in DOMAIN new : w \notin DOMAIN widgets
      BY <1>3 DEF DashInv, OwnIds, Adds, new
    <2>3. /\ Over(widgets, new) \in Tables
          /\ DOMAIN Over(widgets, new) = DOMAIN widgets \cup DOMAIN new
          /\ \A k \in DOMAIN widgets : Over(widgets, new)[k] = widgets[k]
          /\ \A k \in DOMAIN new : k \notin DOMAIN widgets => Over(widgets, new)[k] = new[k]
      BY <1>1, TableOver
    <2> QED BY <1>3, <2>1, <2>2, <2>3 DEF new
  <1>4. CASE session[r].op \notin {"add", "restore"}
    <2> DEFINE under == Over(loaded, widgets)
               both == Over(new, under)
    <2>1. Snapshot(r) = Restrict(both, DOMAIN widgets)
      BY <1>4 DEF Snapshot, new, loaded
    <2>2. /\ under \in Tables /\ DOMAIN under = DOMAIN loaded \cup DOMAIN widgets
          /\ \A k \in DOMAIN widgets : k \notin DOMAIN loaded => under[k] = widgets[k]
      BY <1>1, TableOver
    <2> HIDE DEF under
    <2>3. /\ both \in Tables /\ DOMAIN both = DOMAIN new \cup DOMAIN under
          /\ \A k \in DOMAIN new : both[k] = new[k]
          /\ \A k \in DOMAIN under : k \notin DOMAIN new => both[k] = under[k]
      BY <1>1, <2>2, TableOver
    <2> HIDE DEF both
    <2>4. /\ DOMAIN Snapshot(r) = DOMAIN widgets /\ Snapshot(r) \in Tables
          /\ \A k \in DOMAIN widgets : Snapshot(r)[k] = both[k]
      BY <2>1, <2>2, <2>3, TableRestrict
    <2>5. dash = "live" /\ session[r].op \in {"update", "rename"} =>
            \A w \in DOMAIN loaded : w \in DOMAIN new
      BY EmptyTable DEF DashInv, InFlight, Edit, new, loaded
    <2> QED BY <1>4, <2>2, <2>3, <2>4, <2>5 DEF new
  <1> QED BY <1>2, <1>3, <1>4

LEMMA WidgetsAreRead ==
    ASSUME DashInv, NEW r \in Requests, ReadWidgets(r)
    PROVE  DashInv'
  <1> DEFINE snap == Snapshot(r)
             s == [session[r] EXCEPT !.pc = "read", !.snap = snap]
  <1>1. /\ Types /\ session[r] \in Session /\ session[r].pc = "numbered"
        /\ UNCHANGED <<dash, name, widgets, versions, datasets, nextId>>
        /\ session' = [session EXCEPT ![r] = s]
    BY DEF DashInv, Types, ReadWidgets
  <1>2. /\ snap \in Tables
        /\ session[r].op = "add" => DOMAIN snap = DOMAIN widgets \cup DOMAIN session[r].new
        /\ session[r].op \in {"update", "rename"} => DOMAIN snap = DOMAIN widgets
        /\ dash = "live" /\ session[r].op \in {"add", "update", "rename"} =>
             \A w \in DOMAIN snap :
                snap[w] = IF w \in DOMAIN session[r].new THEN session[r].new[w] ELSE widgets[w]
    BY <1>1, SnapshotIs
  <1> HIDE DEF snap
  <1>3. /\ s \in Session /\ s.pc = "read" /\ s.number = session[r].number /\ s.op = session[r].op
        /\ s.name = session[r].name /\ s.renames = session[r].renames
        /\ s.loaded = session[r].loaded /\ s.new = session[r].new /\ s.target = session[r].target
        /\ s.snap = snap /\ s.base = session[r].base
    BY <1>1, <1>2 DEF Session
  <1> HIDE DEF s
  <1>4. ASSUME dash = "live"
        PROVE  InFlight(s, widgets, versions, name, datasets)
    <2>1. InFlight(session[r], widgets, versions, name, datasets)
      BY <1>4 DEF DashInv
    <2>2. /\ s.base \subseteq DOMAIN versions /\ Edit(s) /\ Restores(s, versions, datasets)
          /\ Refers(s, widgets, datasets)
      BY <1>1, <1>3, <2>1 DEF InFlight, Edit, Restores, Refers
    <2>3. Numbered(s, versions)
      BY <1>1, <1>3, <2>1 DEF InFlight, Numbered
    <2>4. s.op \in {"add", "update", "rename"} =>
            \A w \in DOMAIN s.snap : IF w \in DOMAIN s.new THEN s.snap[w] = s.new[w]
                                     ELSE w \in DOMAIN widgets => Like(s.snap[w], widgets[w], datasets)
      <3>1. \A w \in DOMAIN widgets : widgets[w] \in Row
        BY <1>1, TableRow DEF Types
      <3> QED BY <1>2, <1>3, <1>4, <3>1, RowLike
    <2>5. Current(s, widgets, versions, datasets)
      BY <1>2, <1>3, <2>4 DEF Current
    <2>6. Undimmed(s, widgets, versions, name, datasets)
      BY <1>1, <1>3, <2>1 DEF InFlight, Undimmed
    <2> QED BY <2>2, <2>3, <2>5, <2>6 DEF InFlight
  <1> QED BY <1>1, <1>3, <1>4, GoesOn

---------------------------------------------------------------------------
(* An edit is committed. *)

\* Its number is the next, for it is free.
LEMMA Recorded ==
    ASSUME DashInv, NEW r \in Requests, Commit(r)
    PROVE  LET s == session[r]
               n == Cardinality(DOMAIN versions) IN
           /\ dash = "live" /\ dash' = "live" /\ s \in Session /\ s.pc = "read"
           /\ InFlight(s, widgets, versions, name, datasets)
           /\ n \in Nat /\ DOMAIN versions = 1..n /\ s.number = n + 1 /\ n + 1 <= MaxVersions
           /\ DOMAIN versions' = 1..(n + 1)
           /\ versions'[n + 1] = [name |-> s.name, widgets |-> s.snap]
           /\ \A k \in 1..n : versions'[k] = versions[k]
           /\ versions' \in [DOMAIN versions' -> Version]
  <1> DEFINE s == session[r]
             n == Cardinality(DOMAIN versions)
             v == [name |-> s.name, widgets |-> s.snap]
  <1>1. /\ dash = "live" /\ dash' = "live" /\ s \in Session /\ s.pc = "read"
        /\ s.number \notin DOMAIN versions
        /\ versions' = Over(At(s.number, v), versions)
    BY DEF DashInv, Types, Commit, Rejected, DashboardThere, NumberTaken
  <1>2. InFlight(s, widgets, versions, name, datasets)
    BY <1>1 DEF DashInv
  <1>3. n \in Nat /\ DOMAIN versions = 1..n
    BY VersionsFinite DEF DashInv, Gapless
  <1>4. s.number = n + 1
    BY <1>1, <1>2, <1>3 DEF InFlight, Numbered
  <1>5. n + 1 <= MaxVersions
    <2>1. r \in Busy /\ n + Cardinality(Busy) <= MaxVersions
      BY <1>1 DEF Busy, DashInv, Gapless
    <2>2. Cardinality(Busy) # 0 /\ Cardinality(Busy) \in Nat
      BY <2>1, BusyFinite, FS_EmptySet
    <2> QED BY <1>3, <2>1, <2>2, BoundAssumption
  <1>6. v \in Version
    BY <1>1, <1>2 DEF InFlight, Edit, Session, Version
  <1> HIDE DEF n, v
  <1>7. /\ DOMAIN At(n + 1, v) = {n + 1} /\ At(n + 1, v)[n + 1] = v
    BY TableAt
  <1>8. /\ DOMAIN versions' = {n + 1} \cup 1..n
        /\ versions'[n + 1] = v
        /\ \A k \in 1..n : k \notin {n + 1} => versions'[k] = versions[k]
        /\ versions' = [k \in DOMAIN versions' |-> versions'[k]]
    BY <1>1, <1>3, <1>4, <1>7 DEF Over
  <1>9. DOMAIN versions' = 1..(n + 1) /\ \A k \in 1..n : versions'[k] = versions[k]
    BY <1>3, <1>8
  <1>10. \A k \in 1..(n + 1) : versions'[k] \in Version
    <2>1. \A k \in 1..n : versions[k] \in Version
      BY <1>3 DEF DashInv, Types
    <2>2. \A k \in 1..(n + 1) : k \in 1..n \/ k = n + 1
      BY <1>3
    <2> QED BY <1>6, <1>8, <1>9, <2>1, <2>2
  <1>11. versions' \in [DOMAIN versions' -> Version]
    BY <1>8, <1>9, <1>10
  <1> QED BY <1>1, <1>2, <1>3, <1>4, <1>5, <1>8, <1>9, <1>11 DEF n, v

\* The rows it leaves.
LEMMA WrittenIs ==
    ASSUME DashInv, NEW r \in Requests, session[r].pc # "idle", dash = "live"
    PROVE  LET s == session[r] IN
           /\ Written(r) \in Tables
           /\ s.op \in {"update", "rename"} => DOMAIN Written(r) = DOMAIN widgets
           /\ s.op = "add" => DOMAIN Written(r) = DOMAIN widgets \cup DOMAIN s.new
           /\ s.op = "delete" => DOMAIN Written(r) \subseteq DOMAIN widgets
           /\ s.op = "restore" => DOMAIN Written(r) = (DOMAIN widgets \ DOMAIN s.loaded) \cup DOMAIN s.new
           /\ s.op \in {"add", "restore"} => \A w \in DOMAIN s.new : Written(r)[w] = s.new[w]
           /\ \A w \in DOMAIN Written(r) : w \in DOMAIN widgets =>
                IF w \in Retitled(r) THEN Written(r)[w] = [widgets[w] EXCEPT !.title = s.new[w].title]
                ELSE Written(r)[w] = widgets[w]
  <1> DEFINE s == session[r]
             ids == DOMAIN widgets \ Deleted(r)
  <1>1. s \in Session /\ s.new \in Tables /\ widgets \in Tables /\ Edit(s)
    BY DEF DashInv, Types, Session, InFlight
  <1>2. /\ s.op \notin {"delete", "restore"} => ids = DOMAIN widgets
        /\ s.op = "restore" => ids = DOMAIN widgets \ DOMAIN s.loaded
        /\ ids \subseteq DOMAIN widgets
    BY DEF Deleted
  <1> HIDE DEF ids
  <1>3. /\ Kept(r) \in Tables /\ DOMAIN Kept(r) = ids
        /\ \A w \in ids : Kept(r)[w] = widgets[w]
    BY <1>1, <1>2, TableRestrict DEF Kept, ids
  <1>4. CASE s.op \in {"add", "restore"}
    <2>1. Written(r) = Over(Kept(r), s.new) /\ Retitled(r) = {}
      BY <1>4 DEF Written, Retitled
    <2>2. \A w \in DOMAIN s.new : w \notin DOMAIN widgets
      BY <1>4 DEF DashInv, OwnIds, Adds
    <2> DEFINE kept == Kept(r)
               new == s.new
    <2>3. kept \in Tables /\ new \in Tables
      BY <1>1, <1>3
    <2> HIDE DEF kept, new
    <2>4. /\ Over(kept, new) \in Tables
          /\ DOMAIN Over(kept, new) = DOMAIN kept \cup DOMAIN new
          /\ \A w \in DOMAIN kept : Over(kept, new)[w] = kept[w]
          /\ \A w \in DOMAIN new : w \notin DOMAIN kept => Over(kept, new)[w] = new[w]
      BY <2>3, TableOver
    <2> QED BY <1>2, <1>3, <1>4, <2>1, <2>2, <2>4 DEF kept, new
  <1>5. CASE s.op \notin {"add", "restore"}
    <2> DEFINE row(w) == IF w \in Retitled(r) THEN [widgets[w] EXCEPT !.title = s.new[w].title]
                         ELSE widgets[w]
    <2>1. Written(r) = [w \in ids |-> row(w)]
      BY <1>3, <1>5 DEF Written
    <2>2. ASSUME NEW w \in ids
          PROVE  row(w) \in Row
      <3>1. widgets[w] \in Row
        BY <1>1, <1>2, TableRow
      <3>2. w \in Retitled(r) => s.new[w].title \in Names
        BY <1>1, TableRow DEF Retitled, Row
      <3> QED BY <3>1, <3>2 DEF Row
    <2>3. ids \subseteq WidgetIds
      BY <1>1, <1>2, TableIs
    <2> HIDE DEF row
    <2>4. Written(r) \in Tables /\ DOMAIN Written(r) = ids
      BY <2>1, <2>2, <2>3, TableIs
    <2>5. \A w \in ids : Written(r)[w] = row(w)
      BY <2>1
    <2> QED BY <1>1, <1>2, <1>5, <2>4, <2>5 DEF row, Edit, Edits
  <1> QED BY <1>4, <1>5

LEMMA IsCommitted ==
    ASSUME DashInv, NEW r \in Requests, Commit(r)
    PROVE  DashInv'
  <1> DEFINE s == session[r]
             n == Cardinality(DOMAIN versions)
  <1>1. /\ dash = "live" /\ dash' = "live" /\ s \in Session /\ s.pc = "read"
        /\ InFlight(s, widgets, versions, name, datasets)
        /\ n \in Nat /\ DOMAIN versions = 1..n /\ s.number = n + 1 /\ n + 1 <= MaxVersions
        /\ DOMAIN versions' = 1..(n + 1)
        /\ \A k \in 1..n : versions'[k] = versions[k]
        /\ versions' \in [DOMAIN versions' -> Version]
    BY Recorded
  <1>2. Types /\ Gapless /\ OwnIds /\ OnlyTheLiving
    BY DEF DashInv
  <1>3. /\ widgets' = Written(r) /\ name' = IF s.renames THEN s.name ELSE name
        /\ session' = [session EXCEPT ![r] = NoSession]
        /\ UNCHANGED <<dash, datasets, nextId>>
    BY DEF Commit, End
  <1>4. /\ session' \in [Requests -> Session] /\ session'[r].pc = "idle"
        /\ DOMAIN session'[r].loaded = {}
        /\ \A q \in Requests \ {r} : session'[q] = session[q]
    BY <1>2, <1>3, NobodyEdits DEF Types
  <1>5. /\ widgets' \in Tables
        /\ DOMAIN widgets' \subseteq DOMAIN widgets \cup (IF Adds(s) THEN DOMAIN s.new ELSE {})
    <2>1. s.op \in Edits
      BY <1>1 DEF InFlight, Edit
    <2> QED BY <1>1, <1>3, <2>1, WrittenIs DEF Adds, Edits
  <1>6. name' \in Names
    BY <1>1, <1>2, <1>3 DEF Types, InFlight, Edit
  <1>7. Types'
    <2>1. DOMAIN versions' \subseteq 1..MaxVersions
      BY <1>1, BoundAssumption
    <2> QED BY <1>1, <1>2, <1>3, <1>4, <1>5, <1>6, <2>1 DEF Types
  <1>8. OnlyTheLiving'
    BY <1>1 DEF OnlyTheLiving
  <1>9. Gapless'
    <2>1. Busy' = Busy \ {r} /\ r \in Busy
      BY <1>1, <1>4 DEF Busy
    <2>2. Cardinality(Busy') = Cardinality(Busy) - 1
      BY <2>1, BusyFinite, FS_RemoveElement
    <2>3. Cardinality(1..(n + 1)) = n + 1
      BY <1>1, FS_Interval
    <2>4. n + Cardinality(Busy) <= MaxVersions
      BY <1>1, <1>2 DEF Gapless
    <2> HIDE DEF n
    <2> QED BY <1>1, <2>2, <2>3, <2>4, BusyFinite, BoundAssumption DEF Gapless
  <1>10. OwnIds'
    <2>1. /\ \A w \in DOMAIN widgets' : w < nextId'
          /\ \A q \in Requests : \A w \in DOMAIN session'[q].loaded : w < nextId'
      BY <1>2, <1>3, <1>4, <1>5 DEF OwnIds
    <2>2. ASSUME NEW p \in Requests, Adds(session'[p]), NEW w \in DOMAIN session'[p].new
          PROVE  /\ w < nextId' /\ w \notin DOMAIN widgets'
                 /\ \A q \in Requests : w \notin DOMAIN session'[q].loaded
                 /\ \A q \in Requests \ {p} : Adds(session'[q]) => w \notin DOMAIN session'[q].new
      <3>1. p # r /\ session'[p] = session[p]
        BY <1>4, <2>2 DEF Adds
      <3>2. \A q \in Requests \ {p} : Adds(session'[q]) => q # r /\ session'[q] = session[q]
        BY <1>4 DEF Adds
      <3>3. Adds(s) => w \notin DOMAIN s.new
        BY <1>2, <2>2, <3>1 DEF OwnIds
      <3>4. \A q \in Requests : w \notin DOMAIN session'[q].loaded
        BY <1>2, <1>4, <2>2, <3>1 DEF OwnIds
      <3> QED BY <1>2, <1>3, <1>5, <2>2, <3>1, <3>2, <3>3, <3>4 DEF OwnIds
    <2> QED BY <2>1, <2>2 DEF OwnIds
  <1>11. ASSUME NEW w \in DOMAIN widgets' \cap DOMAIN widgets
         PROVE  widgets'[w].dataset = widgets[w].dataset
    <2>1. widgets[w] \in Row
      BY <1>2, TableRow DEF Types
    <2>2. widgets'[w] = widgets[w] \/ widgets'[w] = [widgets[w] EXCEPT !.title = s.new[w].title]
      BY <1>1, <1>3, WrittenIs
    <2> QED BY <2>1, <2>2 DEF Row
  <1>12. ASSUME NEW p \in Requests
         PROVE  InFlight(session'[p], widgets', versions', name', datasets')
    <2>1. CASE p = r
      BY <1>4, <2>1 DEF InFlight
    <2>2. CASE session'[p].pc = "idle"
      BY <2>2 DEF InFlight
    <2>3. CASE p # r /\ session'[p].pc # "idle"
      <3> DEFINE t == session[p]
      <3>1. session'[p] = t /\ InFlight(t, widgets, versions, name, datasets) /\ t.pc # "idle"
        BY <1>1, <1>4, <2>3 DEF DashInv
      <3> HIDE DEF t, n
      <3>2. /\ t.base \subseteq 1..n /\ Edit(t) /\ Restores(t, versions, datasets)
            /\ Numbered(t, versions) /\ Refers(t, widgets, datasets)
        BY <1>1, <3>1 DEF InFlight
      <3>3. n + 1 \in 1..(n + 1) /\ n + 1 \notin 1..n /\ 1..n \subseteq 1..(n + 1)
        BY <1>1
      <3>4. t.base \subseteq DOMAIN versions' /\ t.base # DOMAIN versions'
        BY <1>1, <3>2, <3>3
      <3>5. t.pc \in {"numbered", "read"} => t.number \in DOMAIN versions'
        BY <1>1, <3>2 DEF Numbered, n
      <3>6. Cardinality(DOMAIN versions') = n + 1
        BY <1>1, FS_Interval
      <3>7. Numbered(t, versions') /\ Current(t, widgets', versions', datasets')
        BY <1>1, <3>5, <3>6 DEF Numbered, Current
      <3>8. Undimmed(t, widgets', versions', name', datasets')
        BY <3>4 DEF Undimmed
      <3>9. Restores(t, versions', datasets')
        BY <1>1, <1>3, <3>2, <3>3 DEF Restores
      <3>10. Refers(t, widgets', datasets')
        <4>1. \A w \in DOMAIN t.loaded \cap DOMAIN widgets' : w \in DOMAIN widgets
          BY <1>1, <1>2, <1>5 DEF OwnIds, t
        <4> QED BY <1>3, <1>11, <3>2, <4>1 DEF Refers
      <3> QED BY <3>1, <3>2, <3>4, <3>7, <3>8, <3>9, <3>10 DEF InFlight
    <2> QED BY <2>1, <2>2, <2>3
  <1> QED BY <1>7, <1>8, <1>9, <1>10, <1>12 DEF DashInv

---------------------------------------------------------------------------
(* The dashboard comes, loses a dataset, and goes. *)

LEMMA Starts == Init => DashInv
  <1> SUFFICES ASSUME Init PROVE DashInv
    OBVIOUS
  <1>1. /\ dash = "none" /\ name = None /\ widgets = <<>> /\ versions = <<>>
        /\ datasets = DatasetIds /\ nextId = 1 /\ session = [r \in Requests |-> NoSession]
    BY DEF Init
  <1>2. Busy = {}
    BY <1>1, NobodyEdits DEF Busy
  <1>3. Types
    <2>1. DOMAIN versions = {} /\ versions \in [{} -> Version]
      BY <1>1
    <2> QED BY <1>1, <2>1, EmptyTable, NobodyEdits, BoundAssumption DEF Types
  <1>4. OnlyTheLiving
    BY <1>1, <1>2, NobodyEdits DEF OnlyTheLiving
  <1>5. Gapless
    <2>1. Cardinality(DOMAIN versions) = 0 /\ DOMAIN versions = {}
      BY <1>1, EmptyTable, FS_EmptySet
    <2> QED BY <1>1, <2>1 DEF Gapless
  <1>6. OwnIds
    BY <1>1, EmptyTable, NobodyEdits DEF OwnIds, Adds
  <1> QED BY <1>1, <1>3, <1>4, <1>5, <1>6 DEF DashInv

\* Nobody edits a dashboard that is not there yet.
LEMMA Comes ==
    ASSUME DashInv, dash = "none", dash' = "live", name' \in Names, widgets' \in Tables,
           UNCHANGED <<datasets, session>>,
           nextId' \in 1..(MaxWidgets + 1), \A w \in DOMAIN widgets' : w < nextId',
           NEW n \in {0, 1}, DOMAIN versions' = 1..n, versions' \in [1..n -> Version]
    PROVE  DashInv'
  <1>1. Types /\ \A r \in Requests : session[r].pc = "idle" /\ DOMAIN session[r].loaded = {}
    BY DEF DashInv, OnlyTheLiving, Busy
  <1>2. Busy' = {}
    BY <1>1 DEF Busy
  <1>3. 1..n \subseteq 1..MaxVersions
    BY BoundAssumption
  <1>4. Types'
    BY <1>1, <1>3 DEF Types
  <1>5. OnlyTheLiving'
    BY DEF OnlyTheLiving
  <1>6. Gapless'
    <2>1. Cardinality(Busy') = 0
      BY <1>2, FS_EmptySet
    <2>2. n \in Int
      OBVIOUS
    <2>3. Cardinality(1..n) = n
      <3>1. CASE n = 0
        <4>1. 1..n = {}
          BY <3>1
        <4> QED BY <3>1, <4>1, FS_EmptySet
      <3>2. CASE n = 1
        <4>1. 1..n = {1}
          BY <3>2
        <4> QED BY <3>2, <4>1, FS_Singleton
      <3> QED BY <3>1, <3>2
    <2> QED BY <2>1, <2>2, <2>3, BoundAssumption DEF Gapless
  <1>7. OwnIds'
    BY <1>1 DEF OwnIds, Adds
  <1>8. \A r \in Requests : InFlight(session[r], widgets, versions, name, datasets)'
    BY <1>1 DEF InFlight
  <1> QED BY <1>4, <1>5, <1>6, <1>7, <1>8 DEF DashInv

LEMMA IsCreated ==
    ASSUME DashInv, NEW newName \in Names, CreateDashboard(newName)
    PROVE  DashInv'
  <1> DEFINE v == [name |-> newName, widgets |-> <<>>]
  <1>1. /\ dash = "none" /\ dash' = "live" /\ name' = newName /\ versions' = At(1, v)
        /\ UNCHANGED <<widgets, datasets, nextId, session>>
    BY DEF CreateDashboard
  <1>2. v \in Version
    BY EmptyTable DEF Version
  <1> HIDE DEF v
  <1>3. versions' \in [1..1 -> Version] /\ DOMAIN versions' = 1..1
    BY <1>1, <1>2 DEF At
  <1>4. widgets' \in Tables /\ nextId' \in 1..(MaxWidgets + 1) /\ \A w \in DOMAIN widgets' : w < nextId'
    BY <1>1 DEF DashInv, Types, OwnIds
  <1> QED BY <1>1, <1>3, <1>4, Comes

LEMMA IsGenerated ==
    ASSUME DashInv, NEW newName \in Names, NEW d \in DatasetIds, NEW titles \in Generated,
           GenerateDashboard(newName, d, titles)
    PROVE  DashInv'
  <1> DEFINE n == Len(titles)
  <1>1. /\ dash = "none" /\ dash' = "live" /\ name' = newName /\ nextId' = n + 1
        /\ widgets' = [w \in DOMAIN titles |-> [title |-> titles[w], dataset |-> d]]
        /\ UNCHANGED <<versions, datasets, session>>
    BY DEF GenerateDashboard
  <1>2. /\ titles \in Seq(Names) /\ n \in Nat /\ n <= MaxWidgets /\ DOMAIN titles = 1..n
        /\ \A w \in 1..n : titles[w] \in Names
    BY GeneratedAssumption
  <1> HIDE DEF n
  <1>3. \A w \in 1..n : [title |-> titles[w], dataset |-> d] \in Row
    BY <1>2 DEF Row
  <1>4. DOMAIN widgets' = 1..n /\ widgets' \in [1..n -> Row]
    BY <1>1, <1>2, <1>3
  <1>5. widgets' \in Tables
    BY <1>2, <1>4, BoundAssumption, TableIs DEF WidgetIds
  <1>6. nextId' \in 1..(MaxWidgets + 1) /\ \A w \in DOMAIN widgets' : w < nextId'
    BY <1>1, <1>2, <1>4, BoundAssumption
  <1>7. DOMAIN versions' = 1..0 /\ versions' \in [1..0 -> Version]
    <2>1. versions' = <<>> /\ 1..0 = {}
      BY <1>1 DEF DashInv, OnlyTheLiving
    <2>2. DOMAIN <<>> = {} /\ <<>> \in [{} -> Version]
      OBVIOUS
    <2> QED BY <2>1, <2>2
  <1> QED BY <1>1, <1>5, <1>6, <1>7, Comes

LEMMA IsDeleted ==
    ASSUME DashInv, DeleteDashboard
    PROVE  DashInv'
  <1>1. /\ dash = "live" /\ dash' = "gone" /\ widgets' = <<>> /\ versions' = <<>>
        /\ UNCHANGED <<name, datasets, nextId, session>>
    BY DEF DeleteDashboard
  <1>2. DOMAIN versions' = {} /\ versions' \in [{} -> Version]
    BY <1>1
  <1>3. Types'
    BY <1>1, <1>2, EmptyTable DEF DashInv, Types
  <1>4. OnlyTheLiving' /\ Gapless'
    BY <1>1, <1>2, FS_EmptySet DEF OnlyTheLiving, Gapless
  <1>5. OwnIds'
    BY <1>1, EmptyTable DEF DashInv, OwnIds
  <1> QED BY <1>1, <1>3, <1>4, <1>5 DEF DashInv

LEMMA RowsCleared ==
    ASSUME NEW W \in Tables, NEW d,
           NEW C, C = [w \in DOMAIN W |->
                         IF W[w].dataset = d THEN [W[w] EXCEPT !.dataset = None] ELSE W[w]]
    PROVE  /\ C \in Tables /\ DOMAIN C = DOMAIN W
           /\ \A old \in Row : \A D : \A w \in DOMAIN W : Like(old, W[w], D) => Like(old, C[w], D \ {d})
  <1>1. DOMAIN C = DOMAIN W /\ C = [w \in DOMAIN C |-> C[w]]
    OBVIOUS
  <1>2. ASSUME NEW w \in DOMAIN W
        PROVE  C[w] \in Row
    <2>1. W[w] \in Row
      BY TableRow
    <2> QED BY <2>1 DEF Row
  <1>3. C \in Tables
    BY <1>1, <1>2, TableIs
  <1>4. ASSUME NEW old \in Row, NEW D, NEW w \in DOMAIN W, Like(old, W[w], D)
        PROVE  Like(old, C[w], D \ {d})
    <2>1. W[w] \in Row
      BY TableRow
    <2> QED BY <1>4, <2>1, RowCleared
  <1> QED BY <1>1, <1>3, <1>4

LEMMA DatasetIsDropped ==
    ASSUME DashInv, NEW d \in DatasetIds, DropDataset(d)
    PROVE  DashInv'
  <1>1. /\ datasets' = datasets \ {d} /\ UNCHANGED <<dash, name, versions, nextId, session>>
        /\ widgets' = [w \in DOMAIN widgets |->
                         IF widgets[w].dataset = d THEN [widgets[w] EXCEPT !.dataset = None]
                         ELSE widgets[w]]
    BY DEF DropDataset
  <1>2. Types /\ Gapless /\ OwnIds /\ OnlyTheLiving /\ widgets \in Tables
    BY DEF DashInv, Types
  <1>3. /\ widgets' \in Tables /\ DOMAIN widgets' = DOMAIN widgets
        /\ \A old \in Row : \A D : \A w \in DOMAIN widgets :
             Like(old, widgets[w], D) => Like(old, widgets'[w], D \ {d})
    BY <1>1, <1>2, RowsCleared
  <1>4. Types'
    BY <1>1, <1>2, <1>3 DEF Types
  <1>5. OnlyTheLiving'
    <2>1. dash # "live" => widgets' \in [{} -> Row]
      BY <1>2, <1>3, EmptyTable, TableIs DEF OnlyTheLiving
    <2> QED BY <1>1, <1>2, <2>1 DEF OnlyTheLiving, Busy
  <1>6. Gapless' /\ OwnIds'
    BY <1>1, <1>2, <1>3 DEF Gapless, OwnIds, Busy
  <1>7. ASSUME dash = "live", NEW r \in Requests
        PROVE  InFlight(session[r], widgets', versions, name, datasets')
    <2> DEFINE s == session[r]
    <2>1. InFlight(s, widgets, versions, name, datasets) /\ s \in Session
      BY <1>2, <1>7 DEF DashInv, Types
    <2>2. CASE s.pc = "idle"
      BY <2>2 DEF InFlight
    <2>3. CASE s.pc # "idle"
      <3> HIDE DEF s
      <3>1. Refers(s, widgets', datasets')
        <4>1. Refers(s, widgets, datasets)
          BY <2>1, <2>3 DEF InFlight
        <4>2. ASSUME NEW w \in DOMAIN widgets
              PROVE  \/ widgets'[w].dataset = widgets[w].dataset
                     \/ widgets[w].dataset = d /\ widgets'[w].dataset = None
          <5>1. widgets[w] \in Row
            BY <1>2, TableRow
          <5> QED BY <1>1, <5>1 DEF Row
        <4> QED BY <1>1, <1>3, <4>1, <4>2 DEF Refers
      <3>2. Restores(s, versions, datasets')
        BY <1>1, <2>1, <2>3 DEF InFlight, Restores, Replaces, Like
      <3>3. \A w \in DOMAIN s.loaded : s.loaded[w] \in Row
        BY <2>1, TableRow DEF Session
      <3>4. \A w \in DOMAIN s.snap : s.snap[w] \in Row
        BY <2>1, TableRow DEF Session
      <3>5. Undimmed(s, widgets', versions, name, datasets')
        <4> SUFFICES ASSUME s.base = DOMAIN versions
                     PROVE  Undimmed(s, widgets', versions, name, datasets')
          BY DEF Undimmed
        <4>1. /\ s.renames \/ s.name = name
              /\ s.op = "restore" => DOMAIN s.loaded = DOMAIN widgets'
          BY <1>3, <2>1, <2>3 DEF InFlight, Undimmed
        <4>2. s.op = "update" => \A w \in DOMAIN s.loaded :
                w \in DOMAIN widgets' /\ Like(s.loaded[w], widgets'[w], datasets')
          <5>1. s.op = "update" => \A w \in DOMAIN s.loaded :
                  w \in DOMAIN widgets /\ Like(s.loaded[w], widgets[w], datasets)
            BY <2>1, <2>3 DEF InFlight, Undimmed
          <5> QED BY <1>1, <1>3, <3>3, <5>1
        <4> QED BY <4>1, <4>2 DEF Undimmed
      <3>6. Current(s, widgets', versions, datasets')
        <4>1. Current(s, widgets, versions, datasets)
          BY <2>1, <2>3 DEF InFlight
        <4>2. \A w \in DOMAIN s.snap : w \in DOMAIN widgets /\ Like(s.snap[w], widgets[w], datasets)
                => Like(s.snap[w], widgets'[w], datasets')
          BY <1>1, <1>3, <3>4
        <4> QED BY <1>3, <4>1, <4>2 DEF Current
      <3> QED BY <2>1, <2>3, <3>1, <3>2, <3>5, <3>6 DEF InFlight, s
    <2> QED BY <2>2, <2>3
  <1> QED BY <1>1, <1>4, <1>5, <1>6, <1>7 DEF DashInv

LEMMA Step == DashInv /\ [Next]_vars => DashInv'
  <1> SUFFICES ASSUME DashInv, [Next]_vars PROVE DashInv'
    OBVIOUS
  <1>1. CASE UNCHANGED vars
    BY <1>1 DEF vars, DashInv, Types, OnlyTheLiving, Gapless, OwnIds, Busy
  <1>2. ASSUME NEW r \in Requests, FlushFails(r) \/ CommitFails(r)
        PROVE  DashInv'
    BY <1>2, Ends DEF FlushFails, CommitFails
  <1> QED BY <1>1, <1>2, IsCreated, IsGenerated, IsDeleted, DatasetIsDropped, BeginsAdd, BeginsUpdate,
             BeginsDelete, BeginsRename, BeginsRestore, NumbersAreRead, WidgetsAreRead, IsCommitted
          DEF Next

LEMMA Invariant == Spec => []DashInv
  BY Starts, Step, PTL DEF Spec

---------------------------------------------------------------------------
(* What follows for the states. *)

\* The variables keep their types, whatever edits overlap.
THEOREM TypeCorrect == Spec => []TypeOK
  <1>1. DashInv => TypeOK
    <2> SUFFICES ASSUME DashInv PROVE TypeOK
      OBVIOUS
    <2>1. Types /\ \A f \in Tables : IsWidgets(f)
      BY TableIs DEF DashInv, IsWidgets
    <2>2. \A n \in DOMAIN versions : IsSnapshot(versions[n])
      BY <2>1 DEF Types, Version, IsSnapshot
    <2>3. \A r \in Requests :
            /\ session[r].pc \in {"idle", "loaded", "numbered", "read"}
            /\ session[r].op \in Edits \cup {"none"}
            /\ IsWidgets(session[r].loaded) /\ IsWidgets(session[r].new) /\ IsWidgets(session[r].snap)
      <3> HIDE DEF IsWidgets
      <3> QED BY <2>1 DEF Types, Session
    <2> QED BY <2>1, <2>2, <2>3 DEF TypeOK, Types
  <1> QED BY <1>1, Invariant, PTL

\* Nothing of a deleted dashboard is left, and no edit in flight brings anything of it back
\* (api/dashboards.py: delete_dashboard).
THEOREM NothingIsLeftBehind == Spec => []NothingLeftBehind
  <1>1. DashInv => NothingLeftBehind
    BY DEF DashInv, OnlyTheLiving, NothingLeftBehind
  <1> QED BY <1>1, Invariant, PTL

\* The difference of two versions leaves out nothing and miscounts nothing.
LEMMA DiffApplies ==
    ASSUME NEW old \in Tables, NEW new \in Tables
    PROVE  LET diff == DiffSnapshots(old, new) IN
           /\ ApplyDiff(old, diff) = new
           /\ diff.unchanged = Cardinality({w \in DOMAIN old \cap DOMAIN new : old[w] = new[w]})
  <1> DEFINE both == DOMAIN old \cap DOMAIN new
             modified == {w \in both : ChangedFields(old[w], new[w]) # {}}
             added == DOMAIN new \ DOMAIN old
             same == {w \in both : old[w] = new[w]}
             diff == DiffSnapshots(old, new)
  <1>1. ASSUME NEW w \in both
        PROVE  /\ DOMAIN old[w] = {"title", "dataset"} /\ DOMAIN new[w] = {"title", "dataset"}
               /\ old[w] = [f \in {"title", "dataset"} |-> old[w][f]]
               /\ new[w] = [f \in {"title", "dataset"} |-> new[w][f]]
    <2>1. old[w] \in Row /\ new[w] \in Row
      BY TableRow
    <2> QED BY <2>1 DEF Row
  <1>2. ASSUME NEW w \in both
        PROVE  /\ w \in modified <=> old[w] # new[w]
               /\ Over(Restrict(new[w], ChangedFields(old[w], new[w])), old[w]) = new[w]
    BY <1>1 DEF ChangedFields, Over, Restrict
  <1>3. /\ diff.added = Restrict(new, added)
        /\ diff.removed = Restrict(old, DOMAIN old \ DOMAIN new)
        /\ diff.modified = [w \in modified |-> Restrict(new[w], ChangedFields(old[w], new[w]))]
        /\ diff.unchanged = Cardinality(DOMAIN new) - Cardinality(modified) - Cardinality(added)
    BY DEF DiffSnapshots
  <1>4. ApplyDiff(old, diff) = new
    <2> DEFINE kept == [w \in both |-> IF w \in modified THEN Over(diff.modified[w], old[w]) ELSE old[w]]
    <2>1. DOMAIN old \ DOMAIN diff.removed = both /\ DOMAIN diff.modified = modified
      BY <1>3 DEF Restrict
    <2>2. ApplyDiff(old, diff) = Over(kept, diff.added)
      <3> HIDE DEF diff, both, modified
      <3> QED BY <2>1 DEF ApplyDiff
    <2>3. ASSUME NEW w \in both
          PROVE  kept[w] = new[w]
      <3>1. w \in modified => diff.modified[w] = Restrict(new[w], ChangedFields(old[w], new[w]))
        BY <1>3
      <3> HIDE DEF diff, modified
      <3> QED BY <1>2, <3>1
    <2>4. DOMAIN kept = both /\ DOMAIN diff.added = added /\ \A w \in added : diff.added[w] = new[w]
      BY <1>3 DEF Restrict
    <2>5. DOMAIN new = both \cup added /\ new = [w \in DOMAIN new |-> new[w]]
      BY TableIs
    <2> HIDE DEF kept, diff
    <2>6. Over(kept, diff.added) = new
      BY <2>3, <2>4, <2>5 DEF Over
    <2> QED BY <2>2, <2>6
  <1>5. diff.unchanged = Cardinality(same)
    <2>1. DOMAIN new = (same \cup modified) \cup added /\ same \cap modified = {}
      BY <1>2
    <2>2. (same \cup modified) \cap added = {}
      OBVIOUS
    <2>3. same \subseteq DOMAIN new /\ modified \subseteq DOMAIN new /\ added \subseteq DOMAIN new
      OBVIOUS
    <2> HIDE DEF same, modified, added, both
    <2>4. IsFiniteSet(same) /\ IsFiniteSet(modified) /\ IsFiniteSet(added)
      BY <2>3, TableFinite, FS_Subset
    <2>5. Cardinality(same) \in Nat /\ Cardinality(modified) \in Nat /\ Cardinality(added) \in Nat
      BY <2>4, FS_CardinalityType
    <2>6. /\ IsFiniteSet(same \cup modified)
          /\ Cardinality(same \cup modified) = Cardinality(same) + Cardinality(modified)
      BY <2>1, <2>4, <2>5, FS_Union, FS_EmptySet
    <2>7. Cardinality(DOMAIN new) = Cardinality(same \cup modified) + Cardinality(added)
      <3> DEFINE remaining == same \cup modified
      <3>1. /\ IsFiniteSet(remaining) /\ Cardinality(remaining) \in Nat
            /\ Cardinality(remaining \cap added) = 0
        BY <2>2, <2>5, <2>6, FS_EmptySet
      <3>2. DOMAIN new = remaining \cup added
        BY <2>1
      <3> HIDE DEF remaining
      <3>3. Cardinality(remaining \cup added)
              = Cardinality(remaining) + Cardinality(added) - Cardinality(remaining \cap added)
        BY <2>4, <3>1, FS_Union
      <3> QED BY <2>5, <3>1, <3>2, <3>3 DEF remaining
    <2> QED BY <1>3, <2>5, <2>6, <2>7
  <1> QED BY <1>4, <1>5

\* What the diff endpoint says of two versions is all there is to say: applied to the older it gives
\* the newer, and what it does not list is counted as unchanged
\* (services/dashboard_versioning.py: diff_widget_snapshots).
THEOREM DiffsAreFaithful == Spec => []DiffIsFaithful
  <1>1. DashInv => DiffIsFaithful
    <2> SUFFICES ASSUME DashInv PROVE DiffIsFaithful
      OBVIOUS
    <2>1. \A n \in DOMAIN versions : versions[n].widgets \in Tables
      BY DEF DashInv, Types, Version
    <2> QED BY <2>1, DiffApplies DEF DiffIsFaithful
  <1> QED BY <1>1, Invariant, PTL

---------------------------------------------------------------------------
(* What follows for the steps. *)

LEMMA SameRowIs == ASSUME NEW old, NEW new PROVE SameRow(old, new) <=> Like(old, new, datasets')
  BY DEF SameRow, Like

LEMMA SameRowsStay == ASSUME widgets' = widgets PROVE SameRows(widgets, widgets')
  BY DEF SameRows, SameRow

\* What is not a commit changes neither versions nor name nor rows, or changes no session.
LEMMA OnlyCommits ==
    ASSUME DashInv, [Next]_vars
    PROVE  \/ \E r \in Requests : Commit(r)
           \/ versions' = versions /\ name' = name /\ SameRows(widgets, widgets')
           \/ session' = session /\ ~(dash = "live" /\ dash' = "live")
  <1>1. CASE UNCHANGED vars
    BY <1>1, SameRowsStay DEF vars
  <1>2. ASSUME NEW n \in Names, NEW d \in DatasetIds, NEW titles \in Generated,
               CreateDashboard(n) \/ GenerateDashboard(n, d, titles) \/ DeleteDashboard
        PROVE  session' = session /\ ~(dash = "live" /\ dash' = "live")
    BY <1>2 DEF CreateDashboard, GenerateDashboard, DeleteDashboard
  <1>3. ASSUME NEW n \in Names, CreateDashboard(n)
        PROVE  session' = session /\ ~(dash = "live" /\ dash' = "live")
    BY <1>3 DEF CreateDashboard
  <1>4. ASSUME DeleteDashboard
        PROVE  session' = session /\ ~(dash = "live" /\ dash' = "live")
    BY <1>4 DEF DeleteDashboard
  <1>5. ASSUME NEW d \in DatasetIds, DropDataset(d)
        PROVE  versions' = versions /\ name' = name /\ SameRows(widgets, widgets')
    <2>1. /\ datasets' = datasets \ {d} /\ versions' = versions /\ name' = name
          /\ widgets' = [w \in DOMAIN widgets |->
                           IF widgets[w].dataset = d THEN [widgets[w] EXCEPT !.dataset = None]
                           ELSE widgets[w]]
      BY <1>5 DEF DropDataset
    <2>2. widgets \in Tables
      BY DEF DashInv, Types
    <2>3. /\ DOMAIN widgets' = DOMAIN widgets
          /\ \A w \in DOMAIN widgets : Like(widgets[w], widgets'[w], datasets \ {d})
      BY <2>1, <2>2, RowsCleared, TableRow, RowLike
    <2> QED BY <2>1, <2>3, SameRowIs DEF SameRows
  <1>6. ASSUME NEW r \in Requests,
               \/ \E t \in Names, d \in DatasetIds \cup {None} : LoadCreateWidget(r, t, d)
               \/ \E w \in WidgetIds, t \in Names : LoadUpdateWidget(r, w, t)
               \/ \E w \in WidgetIds : LoadDeleteWidget(r, w)
               \/ \E n \in Names : LoadRename(r, n)
               \/ \E n \in 1..MaxVersions : LoadRestore(r, n)
               \/ FlushFails(r) \/ ReadNumbers(r) \/ ReadWidgets(r) \/ CommitFails(r)
        PROVE  versions' = versions /\ name' = name /\ SameRows(widgets, widgets')
    <2>1. versions' = versions /\ name' = name /\ widgets' = widgets
      BY <1>6 DEF LoadCreateWidget, LoadUpdateWidget, LoadDeleteWidget, LoadRename, LoadRestore, Load,
         FlushFails, ReadNumbers, ReadWidgets, CommitFails
    <2> QED BY <2>1, SameRowsStay
  <1> QED BY <1>1, <1>2, <1>3, <1>4, <1>5, <1>6 DEF Next

\* An edit whose version appears is the one that commits.
LEMMA CommittedIs ==
    ASSUME DashInv, [Next]_vars, NEW r \in Requests, Committed(r)
    PROVE  Commit(r)
  <1>1. session \in [Requests -> Session]
    BY DEF DashInv, Types
  <1>2. versions' # versions /\ session'[r].pc # session[r].pc
    BY DEF Committed
  <1>3. PICK q \in Requests : Commit(q)
    BY <1>2, OnlyCommits
  <1>4. session' = [session EXCEPT ![q] = NoSession]
    BY <1>3 DEF Commit, End
  <1>5. q = r
    BY <1>1, <1>2, <1>4
  <1> QED BY <1>3, <1>5

\* A version, once there, stays as it is while the dashboard lives, and a new one has the next number:
\* the unique key on the number makes each edit's check and insert one step (services/
\* dashboard_versioning.py: create_version).
THEOREM HistoryOnlyGrows == Spec => HistoryAppendOnly
  <1>1. DashInv /\ [Next]_vars => [AppendsHistory]_vars
    <2> SUFFICES ASSUME DashInv, [Next]_vars, dash = "live", dash' = "live", versions' # versions
                 PROVE  \E v \in {versions'[n] : n \in DOMAIN versions'} :
                          versions' = Over(versions, At(NextVersionNumber(DOMAIN versions), v))
      BY DEF AppendsHistory
    <2> DEFINE n == Cardinality(DOMAIN versions)
               v == versions'[n + 1]
    <2>1. PICK r \in Requests : Commit(r)
      BY OnlyCommits
    <2>2. /\ n \in Nat /\ DOMAIN versions = 1..n /\ DOMAIN versions' = 1..(n + 1)
          /\ \A k \in 1..n : versions'[k] = versions[k]
          /\ versions' \in [DOMAIN versions' -> Version]
      BY <2>1, Recorded
    <2>3. NextVersionNumber(DOMAIN versions) = n + 1
      BY NextIs DEF DashInv
    <2> HIDE DEF n
    <2>4. n + 1 \in 1..(n + 1) /\ n + 1 \notin 1..n /\ 1..(n + 1) = 1..n \cup {n + 1}
      BY <2>2
    <2>5. DOMAIN At(n + 1, v) = {n + 1} /\ At(n + 1, v)[n + 1] = v
      BY TableAt
    <2>6. versions' = [k \in 1..n \cup {n + 1} |-> versions'[k]]
      BY <2>2, <2>4
    <2>7. versions' = Over(versions, At(n + 1, v))
      BY <2>2, <2>4, <2>5, <2>6 DEF Over
    <2> QED BY <2>2, <2>3, <2>4, <2>7
  <1> QED BY <1>1, Invariant, PTL DEF Spec, HistoryAppendOnly

\* No edit of a living dashboard escapes its history, but for the references that go with a dataset
\* (api/dashboards.py, api/dashboard_versions.py).
THEOREM EditsAreRecorded == Spec => EveryEditRecorded
  <1>1. DashInv /\ [Next]_vars => [RecordsEdit]_vars
    <2> SUFFICES ASSUME DashInv, [Next]_vars, dash = "live", dash' = "live",
                        ~(name' = name /\ SameRows(widgets, widgets'))
                 PROVE  versions' # versions
      BY DEF RecordsEdit
    <2> DEFINE n == Cardinality(DOMAIN versions)
    <2>1. PICK r \in Requests : Commit(r)
      BY OnlyCommits
    <2>2. n \in Nat /\ DOMAIN versions = 1..n /\ DOMAIN versions' = 1..(n + 1)
      BY <2>1, Recorded
    <2> HIDE DEF n
    <2>3. n + 1 \in 1..(n + 1) /\ n + 1 \notin 1..n
      BY <2>2
    <2> QED BY <2>2, <2>3
  <1> QED BY <1>1, Invariant, PTL DEF Spec, EveryEditRecorded

LEMMA Shows ==
    ASSUME DashInv, NEW r \in Requests, Commit(r), session[r].op \in {"add", "update", "rename"}
    PROVE  LET v == versions'[session[r].number] IN
           /\ DOMAIN v.widgets = DOMAIN widgets'
           /\ Undisturbed(r) \/ session[r].renames => v.name = name'
           /\ \A w \in DOMAIN v.widgets :
                Undisturbed(r) \/ w \notin DOMAIN session[r].loaded \/ w \in Retitled(r)
                => SameRow(v.widgets[w], widgets'[w])
  <1> DEFINE s == session[r]
             new == s.new
             snap == s.snap
  <1>1. /\ dash = "live" /\ s \in Session /\ s.pc = "read"
        /\ InFlight(s, widgets, versions, name, datasets)
        /\ versions'[s.number].name = s.name /\ versions'[s.number].widgets = snap
        /\ s.number \notin DOMAIN versions
    <2> DEFINE n == Cardinality(DOMAIN versions)
    <2>1. /\ n \in Nat /\ DOMAIN versions = 1..n /\ s.number = n + 1
          /\ versions'[n + 1] = [name |-> s.name, widgets |-> s.snap]
      BY Recorded
    <2>2. s.number \notin DOMAIN versions
      <3> HIDE DEF n
      <3> QED BY <2>1
    <2> QED BY <2>1, <2>2, Recorded
  <1>2. /\ widgets' = Written(r) /\ datasets' = datasets /\ name' = (IF s.renames THEN s.name ELSE name)
        /\ Retitled(r) \subseteq DOMAIN widgets
    BY DEF Commit, Rejected
  <1>3. /\ DOMAIN widgets' = DOMAIN widgets \cup (IF s.op = "add" THEN DOMAIN new ELSE {})
        /\ s.op = "add" => \A w \in DOMAIN new : widgets'[w] = new[w]
        /\ \A w \in DOMAIN widgets' : w \in DOMAIN widgets =>
              IF w \in Retitled(r) THEN widgets'[w] = [widgets[w] EXCEPT !.title = new[w].title]
              ELSE widgets'[w] = widgets[w]
    BY <1>1, <1>2, WrittenIs
  <1>4. /\ DOMAIN snap = DOMAIN widgets' /\ Edit(s) /\ Refers(s, widgets, datasets)
        /\ \A w \in DOMAIN snap : IF w \in DOMAIN new THEN snap[w] = new[w]
                                  ELSE w \in DOMAIN widgets => Like(snap[w], widgets[w], datasets)
    BY <1>1, <1>3 DEF InFlight, Current
  <1>5. Undisturbed(r) \/ s.renames => s.name = name'
    BY <1>1, <1>2 DEF InFlight, Undimmed, Undisturbed
  <1>6. widgets \in Tables /\ new \in Tables /\ s.loaded \in Tables
    BY <1>1 DEF DashInv, Types, Session
  <1>7. ASSUME NEW w \in DOMAIN snap, Undisturbed(r) \/ w \notin DOMAIN s.loaded \/ w \in Retitled(r)
        PROVE  Like(snap[w], widgets'[w], datasets)
    <2>1. CASE w \in DOMAIN new /\ s.op = "add"
      <3>1. snap[w] = new[w] /\ widgets'[w] = new[w]
        BY <1>3, <1>4, <2>1
      <3> QED BY <3>1 DEF Like
    <2>2. CASE w \in DOMAIN new /\ s.op = "update"
      <3>1. /\ snap[w] = new[w] /\ w \in DOMAIN s.loaded /\ new[w].dataset = s.loaded[w].dataset
            /\ w \in DOMAIN widgets
            /\ Undisturbed(r) => Like(s.loaded[w], widgets[w], datasets)
        BY <1>1, <1>3, <1>4, <2>2 DEF Edit, InFlight, Undimmed, Undisturbed
      <3>2. widgets[w] \in Row /\ new[w] \in Row
        BY <1>6, <2>2, <3>1, TableRow
      <3>3. CASE w \in Retitled(r)
        <4>1. widgets'[w] = [widgets[w] EXCEPT !.title = new[w].title]
          BY <1>3, <1>4, <3>1, <3>3
        <4>2. \/ widgets[w].dataset = s.loaded[w].dataset
              \/ widgets[w].dataset = None /\ s.loaded[w].dataset \notin datasets
          BY <1>4, <2>2, <3>1 DEF Refers
        <4> QED BY <3>1, <3>2, <4>1, <4>2 DEF Like, Row
      <3>4. CASE w \notin Retitled(r)
        <4>1. widgets'[w] = widgets[w] /\ new[w].title = s.loaded[w].title
          BY <1>3, <1>4, <2>2, <3>1, <3>4 DEF Retitled
        <4> QED BY <1>7, <3>1, <3>4, <4>1 DEF Like
      <3> QED BY <3>3, <3>4
    <2>3. CASE w \notin DOMAIN new
      <3>1. w \in DOMAIN widgets /\ w \in DOMAIN widgets' /\ w \notin Retitled(r)
        BY <1>3, <1>4, <2>3 DEF Retitled
      <3> QED BY <1>3, <1>4, <2>3, <3>1
    <2>4. s.op = "rename" => w \notin DOMAIN new
      BY <1>4, EmptyTable DEF Edit
    <2> QED BY <2>1, <2>2, <2>3, <2>4
  <1> QED BY <1>1, <1>2, <1>4, <1>5, <1>7, SameRowIs

\* What a version lists is what is there when it is committed: its number was free, so that nothing was
\* committed between the reading of the widgets and the commit.
THEOREM SnapshotsListLiveWidgets == Spec => SnapshotListsLiveWidgets
  <1>1. DashInv /\ [Next]_vars => [ListsLiveWidgets]_vars
    BY CommittedIs, Shows DEF ListsLiveWidgets
  <1> QED BY <1>1, Invariant, PTL DEF Spec, SnapshotListsLiveWidgets

\* And it shows each of them as it is then, even after other edits were committed between the
\* handler's own queries and create_version's, for all but what it has loaded and does not change:
\* that, the row of an update without effect and the name, it shows as it is if there was no other.
THEOREM SnapshotsShowDashboard == Spec => SnapshotShowsDashboard
  <1>1. DashInv /\ [Next]_vars => [ShowsDashboard]_vars
    BY CommittedIs, Shows DEF ShowsDashboard
  <1> QED BY <1>1, Invariant, PTL DEF Spec, SnapshotShowsDashboard

\* However edits and restores overlap, a restore adds the rows of its target one for one, without the
\* references to datasets that are gone, removes those it has loaded and touches no other; and if
\* no other edit was committed since it began, its rows are all there are, under the target's name
\* (api/dashboard_versions.py).
THEOREM RestoresBringBack == Spec => RestoreBringsBack
  <1>1. DashInv /\ [Next]_vars => [BringsBack]_vars
    <2> SUFFICES ASSUME DashInv, [Next]_vars, NEW r \in Requests, Committed(r),
                        session[r].op = "restore"
                 PROVE  LET target == versions[session[r].target]
                            back == DOMAIN widgets' \ DOMAIN widgets IN
                        /\ \E place \in Bijection(back, DOMAIN target.widgets) :
                             \A w \in back : SameRow(target.widgets[place[w]], widgets'[w])
                        /\ \A w \in DOMAIN widgets :
                             IF w \in DOMAIN session[r].loaded THEN w \notin DOMAIN widgets'
                             ELSE w \in DOMAIN widgets' /\ widgets'[w] = widgets[w]
                        /\ Undisturbed(r) => name' = target.name /\ DOMAIN widgets' = back
      BY DEF BringsBack
    <2> DEFINE s == session[r]
               target == versions[s.target]
               rows == target.widgets
               new == s.new
    <2>1. Commit(r) /\ dash = "live" /\ s.pc = "read" /\ InFlight(s, widgets, versions, name, datasets)
      BY CommittedIs, Recorded
    <2>2. /\ widgets' = Written(r) /\ datasets' = datasets /\ name' = (IF s.renames THEN s.name ELSE name)
      BY <2>1 DEF Commit
    <2>3. /\ s.target \in DOMAIN versions /\ s.name = target.name /\ Replaces(new, rows, datasets)
          /\ Undisturbed(r) => /\ s.renames \/ s.name = name
                               /\ DOMAIN s.loaded = DOMAIN widgets
      BY <2>1 DEF InFlight, Undimmed, Undisturbed, Restores
    <2>4. /\ DOMAIN widgets' = (DOMAIN widgets \ DOMAIN s.loaded) \cup DOMAIN new
          /\ \A w \in DOMAIN new : widgets'[w] = new[w]
          /\ \A w \in DOMAIN widgets' : w \in DOMAIN widgets => widgets'[w] = widgets[w]
      <3>1. Retitled(r) = {}
        BY DEF Retitled
      <3> QED BY <2>1, <2>2, <3>1, WrittenIs
    <2>5. DOMAIN new \cap DOMAIN widgets = {}
      BY <2>1 DEF DashInv, OwnIds, Adds
    <2>6. DOMAIN widgets' \ DOMAIN widgets = DOMAIN new
      BY <2>4, <2>5
    <2>7. \E place \in Bijection(DOMAIN new, DOMAIN rows) :
            \A w \in DOMAIN new : SameRow(rows[place[w]], widgets'[w])
      <3>1. PICK place \in Bijection(DOMAIN new, DOMAIN rows) :
              \A w \in DOMAIN new : Like(rows[place[w]], new[w], datasets)
        BY <2>3 DEF Replaces
      <3>2. \A w \in DOMAIN new : SameRow(rows[place[w]], widgets'[w])
        BY <2>2, <2>4, <3>1, SameRowIs
      <3> QED BY <3>2
    <2>8. \A w \in DOMAIN widgets : IF w \in DOMAIN s.loaded THEN w \notin DOMAIN widgets'
                                    ELSE w \in DOMAIN widgets' /\ widgets'[w] = widgets[w]
      BY <2>4, <2>5
    <2>9. Undisturbed(r) => name' = target.name /\ DOMAIN widgets' = DOMAIN new
      BY <2>2, <2>3, <2>4
    <2> QED BY <2>6, <2>7, <2>8, <2>9
  <1> QED BY <1>1, Invariant, PTL DEF Spec, RestoreBringsBack
=============================================================================
