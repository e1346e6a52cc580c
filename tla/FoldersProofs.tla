----------------------------- MODULE FoldersProofs -----------------------------
(***************************************************************************)
(* Machine-checked proofs about MCFolders: the managed folders             *)
(* (Projections), for any workspaces, paths and messages at a time; and    *)
(* the extension's own windows (PopupWindows), for any windows and any     *)
(* number of openings.                                                     *)
(***************************************************************************)
EXTENDS MCFolders, FiniteSetTheorems, SequenceTheorems, TLAPS

(***************************************************************************)
(* The folders.                                                            *)
(***************************************************************************)
Titles == (UNION {Range(Path[w]) : w \in Workspaces}) \union {Legacy}
NodeRecords == [parent : Nat, title : Titles, holds : Workspaces \union {"nothing"}]
RebuildRecords ==
  [pc : {"idle", "tree", "path", "create", "place", "fill", "settle"}, level : Nat, at : Nat, path : Seq(Nat)]
TaskRecords ==
  [kind : {"none", "start", "select", "login", "logout"},
   pc : {"done", "sync", "ensure", "look", "clear", "remove"},
   todo : SUBSET Workspaces, want : SUBSET Workspaces, before : SUBSET Workspaces]
ProjectionRecords == [exists : BOOLEAN, path : Seq(Nat), ready : BOOLEAN]

FolderTypes ==
  /\ session \in BOOLEAN /\ selected \subseteq Workspaces
  /\ projection \in [Workspaces -> ProjectionRecords]
  /\ nodes \in [Ids -> NodeRecords] /\ nextId \in Nat \ {0} /\ \A n \in Ids : n \in Nat /\ 0 < n /\ n < nextId
  /\ owed \subseteq Workspaces /\ rebuild \in [Workspaces -> RebuildRecords]
  /\ pathQueue \in Seq(Workspaces) /\ task \in [Tasks -> TaskRecords]
  /\ unseen \subseteq Workspaces /\ astray \subseteq Workspaces

TaskInv ==
  \A t \in Tasks : /\ At(t, "clear") => task[t].kind = "logout"
                   /\ At(t, "remove") => task[t].kind \in {"select", "logout"}
                   /\ At(t, "remove") /\ task[t].kind = "select" => task[t].todo \intersect task[t].want = {}

(* Each folder has its own titles from the root down, F[n]; the old root   *)
(* is empty; and what holds a workspace has the titles of its path.        *)
TreeInv(F) ==
  /\ F \in [Ids -> Seq(Titles)]
  /\ \A n \in Ids : nodes[n].parent = Container => F[n] = <<nodes[n].title>>
  /\ \A n \in Ids : nodes[n].parent # Container =>
        nodes[n].parent \in Ids /\ F[n] = Append(F[nodes[n].parent], nodes[n].title)
  /\ \A m, n \in Ids : F[m] = F[n] => m = n
  /\ \A n \in Ids : Len(F[n]) > 1 => F[n][1] # Legacy
  /\ \A n \in Ids : nodes[n].holds # "nothing" => F[n] = Path[nodes[n].holds]

(* Ids that were found on the way to a workspace's folder: those that are  *)
(* still there have its titles.                                            *)
Way(w, j) == SubSeq(Path[w], 1, j)
Leads(F, w, p) ==
  /\ Len(p) <= Len(Path[w])
  /\ \A j \in 1 .. Len(p) : 0 < p[j] /\ p[j] < nextId /\ (p[j] \in Ids => F[p[j]] = Way(w, j))

Active(w) == rebuild[w].pc # "idle"
Walking(w) == rebuild[w].pc \in {"path", "create"}
WalkOf(F, w) ==
  /\ Leads(F, w, rebuild[w].path)
  /\ Walking(w) => /\ rebuild[w].level \in 1 .. Len(Path[w]) /\ Len(rebuild[w].path) = rebuild[w].level - 1
                   /\ rebuild[w].level = 1 => rebuild[w].at = Container
                   /\ rebuild[w].level > 1 => rebuild[w].at = rebuild[w].path[rebuild[w].level - 1]
  /\ rebuild[w].pc = "create" => Walks(w) /\ Child(rebuild[w].at, Title(w)) = {}
  /\ rebuild[w].pc \notin {"path", "create", "place"} => rebuild[w].path = <<>>
  /\ rebuild[w].pc = "place" => Len(rebuild[w].path) = Len(Path[w])
WalkInv(F) == \A w \in Workspaces : WalkOf(F, w)

QueueInv ==
  /\ \A i, j \in 1 .. Len(pathQueue) : pathQueue[i] = pathQueue[j] => i = j
  /\ \A w \in Workspaces : Walking(w) <=> \E i \in 1 .. Len(pathQueue) : pathQueue[i] = w

StoredOf(F, w) ==
  /\ Leads(F, w, projection[w].path)
  /\ Built(w) => Len(projection[w].path) = Len(Path[w])
  /\ ~projection[w].exists => projection[w] = Absent
  /\ Active(w) => ~projection[w].ready
StoredInv(F) == \A w \in Workspaces : StoredOf(F, w)

(* What no overlapping operation has disturbed.  A task that takes the     *)
(* workspace away has yet to come to what there is of it.                  *)
Held(w) == {id \in Ids : nodes[id].holds = w}
Taking(t, w) == At(t, "remove") /\ (task[t].kind = "logout" \/ w \notin task[t].want)
Chosen(w) ==
  /\ projection[w].exists => w \in selected
  /\ Active(w) => projection[w].exists
Kept(w) ==
  /\ \A id \in Held(w) : projection[w].exists /\ Built(w) /\ FolderOf(w) = id
  /\ Range(rebuild[w].path) \subseteq Ids
  /\ rebuild[w].pc = "settle" => Resolves(w) /\ FolderOf(w) \in Held(w)
Emptied(w) == \E t \in Tasks : Taking(t, w) /\ w \notin task[t].todo
Shown(w) ==
  projection[w].ready => /\ Built(w)
                         /\ Resolves(w) => FolderOf(w) \in Held(w)
                         /\ w \in unseen \union owed \/ Emptied(w) \/ Resolves(w)
Ahead(w) ==
  \A t \in Tasks : Taking(t, w) /\ (Active(w) \/ Held(w) # {}) => w \in task[t].todo /\ w \in task[t].before
Own(w) == Chosen(w) /\ Kept(w) /\ Shown(w) /\ Ahead(w)
OwnInv == \A w \in Workspaces \ astray : Own(w)

Titled(F) == TreeInv(F) /\ WalkInv(F) /\ StoredInv(F)
FolderInv == FolderTypes /\ TaskInv /\ QueueInv /\ OwnInv /\ \E F : Titled(F)

-----------------------------------------------------------------------------
(* Titles on the way to a folder.                                          *)
LEMMA PathTitles ==
  ASSUME NEW w \in Workspaces
  PROVE  Path[w] \in Seq(Titles) /\ Len(Path[w]) \in Nat \ {0} /\ Path[w][1] # Legacy
  <1>1. Path[w] \in Seq(Range(Path[w])) /\ Len(Path[w]) > 0 /\ Path[w][1] # Legacy
    BY PathAssumption
  <1>2. Range(Path[w]) \subseteq Titles
    BY DEF Titles
  <1>3. Seq(Range(Path[w])) \subseteq Seq(Titles)
    BY <1>2
  <1> QED
    BY <1>1, <1>3

LEMMA WayTitles ==
  ASSUME NEW w \in Workspaces, NEW j \in 1 .. Len(Path[w])
  PROVE  /\ Way(w, j) \in Seq(Titles) /\ Len(Way(w, j)) = j /\ Way(w, j)[1] = Path[w][1]
         /\ \A k \in 1 .. j : SubSeq(Way(w, j), 1, k) = Way(w, k)
  <1>1. Path[w] \in Seq(Titles) /\ Len(Path[w]) \in Nat
    BY PathTitles
  <1>2. /\ Way(w, j) \in Seq(Titles) /\ Len(Way(w, j)) = j
        /\ \A i \in 1 .. j : Way(w, j)[i] = Path[w][i]
    BY <1>1 DEF Way
  <1>3. ASSUME NEW k \in 1 .. j PROVE SubSeq(Way(w, j), 1, k) = Way(w, k)
    <2>1. Way(w, k) \in Seq(Titles) /\ Len(Way(w, k)) = k /\ \A i \in 1 .. k : Way(w, k)[i] = Path[w][i]
      BY <1>1 DEF Way
    <2>2. PICK s : s = Way(w, j)
      OBVIOUS
    <2>3. PICK r : r = Way(w, k)
      OBVIOUS
    <2>4. /\ SubSeq(s, 1, k) \in Seq(Titles) /\ Len(SubSeq(s, 1, k)) = k
          /\ \A i \in 1 .. k : SubSeq(s, 1, k)[i] = s[i]
      BY <1>2, <2>2
    <2>5. SubSeq(s, 1, k) = r
      BY <1>2, <2>1, <2>2, <2>3, <2>4, SeqEqual
    <2> QED
      BY <2>2, <2>3, <2>5
  <1> QED
    BY <1>2, <1>3

LEMMA WayOn ==
  ASSUME NEW w \in Workspaces
  PROVE  /\ Way(w, 1) = <<Path[w][1]>> /\ Way(w, Len(Path[w])) = Path[w]
         /\ \A j \in 2 .. Len(Path[w]) : Way(w, j) = Append(Way(w, j - 1), Path[w][j])
  <1>1. Path[w] \in Seq(Titles) /\ Len(Path[w]) \in Nat \ {0}
    BY PathTitles
  <1>2. PICK p : p = Path[w]
    OBVIOUS
  <1>3. p \in Seq(Titles) /\ Len(p) \in Nat \ {0} /\ \A i \in 1 .. Len(p) : p[i] \in Titles
    BY <1>1, <1>2
  <1>4. SubSeq(p, 1, Len(p)) = p
    <2>1. /\ SubSeq(p, 1, Len(p)) \in Seq(Titles) /\ Len(SubSeq(p, 1, Len(p))) = Len(p)
          /\ \A i \in 1 .. Len(p) : SubSeq(p, 1, Len(p))[i] = p[i]
      BY <1>3
    <2> QED
      BY <1>3, <2>1, SeqEqual
  <1>5. SubSeq(p, 1, 1) = <<p[1]>>
    <2>1. <<p[1]>> \in Seq(Titles) /\ Len(<<p[1]>>) = 1 /\ <<p[1]>>[1] = p[1]
      BY <1>3
    <2>2. /\ SubSeq(p, 1, 1) \in Seq(Titles) /\ Len(SubSeq(p, 1, 1)) = 1
          /\ \A i \in 1 .. 1 : SubSeq(p, 1, 1)[i] = p[i]
      BY <1>3
    <2>3. PICK a : a = SubSeq(p, 1, 1)
      OBVIOUS
    <2>4. PICK b : b = <<p[1]>>
      OBVIOUS
    <2>5. a \in Seq(Titles) /\ b \in Seq(Titles) /\ Len(a) = Len(b) /\ \A i \in 1 .. Len(a) : a[i] = b[i]
      BY <2>1, <2>2, <2>3, <2>4
    <2>6. a = b
      BY <2>5, SeqEqual
    <2> QED
      BY <2>3, <2>4, <2>6
  <1>6. ASSUME NEW j \in 2 .. Len(p) PROVE SubSeq(p, 1, j) = Append(SubSeq(p, 1, j - 1), p[j])
    <2>1. /\ SubSeq(p, 1, j) \in Seq(Titles) /\ Len(SubSeq(p, 1, j)) = j
          /\ \A i \in 1 .. j : SubSeq(p, 1, j)[i] = p[i]
      BY <1>3
    <2>2. PICK s : s = SubSeq(p, 1, j - 1)
      OBVIOUS
    <2>3. s \in Seq(Titles) /\ Len(s) = j - 1 /\ \A i \in 1 .. j - 1 : s[i] = p[i]
      BY <1>3, <2>2
    <2>4. /\ Append(s, p[j]) \in Seq(Titles) /\ Len(Append(s, p[j])) = j
          /\ \A i \in 1 .. j : Append(s, p[j])[i] = p[i]
      BY <1>3, <2>3
    <2> QED
      BY <2>1, <2>2, <2>4, SeqEqual
  <1> QED
    BY <1>2, <1>4, <1>5, <1>6 DEF Way

(* Folders of two workspaces: neither is on the way to the other.          *)
LEMMA WaysPart ==
  ASSUME NEW v \in Workspaces, NEW w \in Workspaces, NEW j \in 1 .. Len(Path[v]), Way(v, j) = Path[w]
  PROVE  v = w
  BY FoldersAssumption DEF Way

-----------------------------------------------------------------------------
(* What is under a folder has its titles.                                  *)
LEMMA UnderHasTitles ==
  ASSUME NEW F, TreeInv(F), FolderTypes, NEW id, NEW n \in Under(id)
  PROVE  id \in Ids /\ n \in Ids /\ Len(F[id]) <= Len(F[n]) /\ SubSeq(F[n], 1, Len(F[id])) = F[id]
  <1>1. n \in Ids /\ \A S \in SUBSET Ids : (\A m \in Ids : m = id \/ nodes[m].parent \in S => m \in S) => n \in S
    BY DEF Under
  <1>2. id \in Ids
    <2>1. CASE id \notin Ids
      <3>1. \A m \in Ids : m = id \/ nodes[m].parent \in {} => m \in {}
        BY <2>1
      <3>2. {} \in SUBSET Ids
        OBVIOUS
      <3>3. n \in {}
        BY <1>1, <3>1, <3>2
      <3> QED
        BY <3>3
    <2> QED
      BY <2>1
  <1>3. PICK s : s = F[id]
    OBVIOUS
  <1>4. s \in Seq(Titles) /\ Len(s) \in Nat
    BY <1>2, <1>3 DEF TreeInv
  <1> DEFINE S == {m \in Ids : Len(s) <= Len(F[m]) /\ SubSeq(F[m], 1, Len(s)) = s}
  <1>5. ASSUME NEW m \in Ids, m = id \/ nodes[m].parent \in S
        PROVE  m \in S
    <2>1. CASE m = id
      <3>1. SubSeq(s, 1, Len(s)) = s
        BY <1>4, SeqEqual
      <3> QED
        BY <1>3, <1>4, <2>1, <3>1
    <2>2. CASE nodes[m].parent \in S
      <3>1. PICK q : q = nodes[m].parent
        OBVIOUS
      <3>2. q \in S /\ q \in Ids /\ Len(s) <= Len(F[q]) /\ SubSeq(F[q], 1, Len(s)) = s
        BY <2>2, <3>1
      <3>3. PICK r : r = F[q]
        OBVIOUS
      <3>4. PICK c : c = nodes[m].title
        OBVIOUS
      <3>5. F[q] \in Seq(Titles) /\ F[m] \in Seq(Titles)
        BY <3>2 DEF TreeInv
      <3>6. CASE q # Container
        <4>1. F[m] = Append(r, c)
          BY <3>1, <3>3, <3>4, <3>6 DEF TreeInv
        <4>2. Len(F[m]) = Len(r) + 1 /\ \A i \in 1 .. Len(r) : F[m][i] = r[i]
          BY <3>3, <3>5, <4>1
        <4>3. PICK e : e = F[m]
          OBVIOUS
        <4>4. Len(e) = Len(r) + 1 /\ (\A i \in 1 .. Len(r) : e[i] = r[i]) /\ e \in Seq(Titles) /\ r \in Seq(Titles)
              /\ Len(s) <= Len(r) /\ SubSeq(r, 1, Len(s)) = s
          BY <3>2, <3>3, <3>5, <4>2, <4>3
        <4>5. /\ SubSeq(e, 1, Len(s)) \in Seq(Titles) /\ Len(SubSeq(e, 1, Len(s))) = Len(s)
              /\ \A i \in 1 .. Len(s) : SubSeq(e, 1, Len(s))[i] = e[i]
          BY <1>4, <4>4
        <4>6. \A i \in 1 .. Len(s) : s[i] = r[i]
          BY <1>4, <4>4
        <4>7. SubSeq(e, 1, Len(s)) = s
          BY <1>4, <4>4, <4>5, <4>6, SeqEqual
        <4> QED
          BY <1>4, <4>3, <4>4, <4>7
      <3>7. CASE q = Container
        BY <3>2, <3>7 DEF Container, FolderTypes
      <3> QED
        BY <3>6, <3>7
    <2> QED
      BY <1>5, <2>1, <2>2
  <1>6. S \in SUBSET Ids /\ \A m \in Ids : m = id \/ nodes[m].parent \in S => m \in S
    BY <1>5
  <1>7. n \in S
    BY <1>1, <1>6
  <1> QED
    BY <1>1, <1>2, <1>3, <1>7

LEMMA UnderOnWay ==
  ASSUME NEW F, TreeInv(F), FolderTypes, NEW w \in Workspaces, NEW j \in 1 .. Len(Path[w]), NEW id, NEW n \in Under(id),
         F[n] = Way(w, j), F[id] # <<>>
  PROVE  id \in Ids /\ \E k \in 1 .. j : F[id] = Way(w, k)
  <1>1. id \in Ids /\ n \in Ids /\ Len(F[id]) <= Len(F[n]) /\ SubSeq(F[n], 1, Len(F[id])) = F[id]
    BY UnderHasTitles
  <1>2. F[id] \in Seq(Titles)
    BY <1>1 DEF TreeInv
  <1>3. PICK k : k = Len(F[id])
    OBVIOUS
  <1>4. Len(Way(w, j)) = j /\ \A i \in 1 .. j : SubSeq(Way(w, j), 1, i) = Way(w, i)
    BY WayTitles
  <1>5. k \in 1 .. j
    <2>1. k \in Nat /\ k # 0
      BY <1>2, <1>3
    <2>2. j \in Nat /\ k <= j
      BY <1>1, <1>3, <1>4
    <2> QED
      BY <2>1, <2>2
  <1>6. F[id] = Way(w, k)
    BY <1>1, <1>3, <1>4, <1>5
  <1> QED
    BY <1>1, <1>5, <1>6

LEMMA TitlesNotEmpty ==
  ASSUME NEW F, TreeInv(F), FolderTypes, NEW n \in Ids
  PROVE  F[n] \in Seq(Titles) /\ Len(F[n]) \in Nat \ {0} /\ F[n] # <<>>
  <1>1. F[n] \in Seq(Titles)
    BY DEF TreeInv
  <1>2. CASE nodes[n].parent = Container
    <2>1. PICK c : c = nodes[n].title
      OBVIOUS
    <2>2. F[n] = <<c>>
      BY <1>2, <2>1 DEF TreeInv
    <2> QED
      BY <1>1, <2>2
  <1>3. CASE nodes[n].parent # Container
    <2>1. PICK q \in Seq(Titles) : q = F[nodes[n].parent]
      BY <1>3 DEF TreeInv
    <2>2. PICK c : c = nodes[n].title
      OBVIOUS
    <2>3. F[n] = Append(q, c)
      BY <1>3, <2>1, <2>2 DEF TreeInv
    <2>4. Len(Append(q, c)) = Len(q) + 1 /\ Len(q) \in Nat
      BY <2>1
    <2> QED
      BY <1>1, <2>3, <2>4
  <1> QED
    BY <1>2, <1>3

(* What is left when a folder goes with all that is in it.                 *)
Below(gone) == \A m \in Ids : nodes[m].parent \in gone => m \in gone
LEMMA UnderIsBelow == ASSUME NEW id PROVE Below(Under(id)) /\ Under(id) \subseteq Ids /\ (id \in Ids => id \in Under(id))
  BY DEF Below, Under

LEMMA TreeLeft ==
  ASSUME NEW F, TreeInv(F), FolderTypes, NEW gone, Below(gone), nodes' = Without(gone)
  PROVE  TreeInv(F)' \/ \E G : TreeInv(G)' /\ \A n \in Ids' : G[n] = F[n]
  <1> DEFINE G == [n \in Ids \ gone |-> F[n]]
  <1>1. Ids' = Ids \ gone /\ \A n \in Ids' : nodes'[n] = nodes[n]
    BY DEF Ids, Without
  <1>2. \A n \in Ids' : n \in Ids /\ G[n] = F[n]
    BY <1>1
  <1>3. PICK H : H = G
    OBVIOUS
  <1>4. \A n \in Ids' : n \in Ids /\ H[n] = F[n]
    BY <1>2, <1>3
  <1>5. H \in [Ids' -> Seq(Titles)]
    BY <1>1, <1>3 DEF TreeInv
  <1> HIDE DEF G
  <1>6. \A n \in Ids' : nodes'[n].parent = Container => H[n] = <<nodes'[n].title>>
    BY <1>1, <1>4 DEF TreeInv
  <1>7. ASSUME NEW n \in Ids', nodes'[n].parent # Container
        PROVE  nodes'[n].parent \in Ids' /\ H[n] = Append(H[nodes'[n].parent], nodes'[n].title)
    <2>1. nodes[n].parent \in Ids /\ F[n] = Append(F[nodes[n].parent], nodes[n].title) /\ nodes'[n] = nodes[n]
      BY <1>1, <1>4, <1>7 DEF TreeInv
    <2>2. nodes[n].parent \notin gone
      BY <1>1, <1>4 DEF Below
    <2> QED
      BY <1>1, <1>4, <2>1, <2>2
  <1>8. \A m, n \in Ids' : H[m] = H[n] => m = n
    BY <1>4 DEF TreeInv
  <1>9. \A n \in Ids' : Len(H[n]) > 1 => H[n][1] # Legacy
    BY <1>4 DEF TreeInv
  <1>10. \A n \in Ids' : nodes'[n].holds # "nothing" => H[n] = Path[nodes'[n].holds]
    BY <1>1, <1>4 DEF TreeInv
  <1>11. TreeInv(H)'
    BY <1>5, <1>6, <1>7, <1>8, <1>9, <1>10 DEF TreeInv
  <1> QED
    BY <1>4, <1>11

(* Ids that have gone stay gone: the next ones are new.                    *)
LEMMA LeadsOn ==
  ASSUME NEW F, NEW G, NEW w, NEW p, Leads(F, w, p), p \in Seq(Nat), nextId' >= nextId, nextId \in Nat, nextId' \in Nat,
         \A n \in Ids' : n < nextId => n \in Ids /\ (\A j \in 1 .. Len(Path[w]) : F[n] = Way(w, j) => G[n] = Way(w, j)),
         Len(Path[w]) \in Nat
  PROVE  Leads(G, w, p)'
  <1>1. ASSUME NEW j \in 1 .. Len(p)
        PROVE  0 < p[j] /\ p[j] < nextId' /\ (p[j] \in Ids' => G[p[j]] = Way(w, j))
    <2>1. p[j] \in Nat /\ 0 < p[j] /\ p[j] < nextId /\ (p[j] \in Ids => F[p[j]] = Way(w, j))
      BY DEF Leads
    <2>2. j \in 1 .. Len(Path[w])
      BY DEF Leads
    <2> QED
      BY <2>1, <2>2
  <1> QED
    BY <1>1 DEF Leads, Way

-----------------------------------------------------------------------------
(* The folders and the rebuilds stay as they are.                          *)
Still == UNCHANGED <<nodes, nextId, rebuild, pathQueue>>

LEMMA TreeStays ==
  ASSUME UNCHANGED <<nodes, nextId>>, NEW F
  PROVE  /\ TreeInv(F) => TreeInv(F)'
         /\ \A w, p : Leads(F, w, p) => Leads(F, w, p)'
         /\ Ids' = Ids /\ \A w : Held(w)' = Held(w)
  BY DEF TreeInv, Leads, Ids, Held, Way

LEMMA Records ==
  /\ NoTask \in TaskRecords /\ NoTask.pc = "done" /\ NoTask.kind = "none" /\ NoTask.want = {}
  /\ Absent \in ProjectionRecords /\ Absent.path = <<>> /\ ~Absent.exists /\ ~Absent.ready
  /\ Unbuilt \in ProjectionRecords /\ Unbuilt.path = <<>> /\ Unbuilt.exists /\ ~Unbuilt.ready
  /\ Idle \in RebuildRecords /\ Idle.pc = "idle" /\ Idle.path = <<>> /\ Idle.at = Container
  <1>1. <<>> \in Seq(Nat)
    OBVIOUS
  <1> QED
    BY <1>1 DEF NoTask, TaskRecords, Absent, Unbuilt, ProjectionRecords, Idle, RebuildRecords, Container

LEMMA LeadsNowhere ==
  ASSUME NEW F, NEW w \in Workspaces
  PROVE  Leads(F, w, <<>>) /\ Leads(F, w, <<>>)'
  <1>1. Len(Path[w]) \in Nat /\ Len(<<>>) = 0
    BY PathTitles
  <1> QED
    BY <1>1 DEF Leads

LEMMA StillTitled ==
  ASSUME NEW F, Titled(F), QueueInv, FolderTypes, Still,
         \A w \in Workspaces : projection'[w] \in {projection[w], Absent, Unbuilt}
  PROVE  Titled(F)' /\ QueueInv'
  <1>1. UNCHANGED <<nodes, nextId>> /\ UNCHANGED rebuild /\ UNCHANGED pathQueue
    BY DEF Still
  <1>2. TreeInv(F)'
    BY <1>1, TreeStays DEF Titled
  <1>3. QueueInv'
    BY <1>1 DEF QueueInv, Walking
  <1>4. WalkInv(F)'
    <2>1. \A w \in Workspaces : Leads(F, w, rebuild[w].path)'
      BY <1>1, TreeStays DEF Titled, WalkInv, WalkOf
    <2>2. \A w \in Workspaces : Child(rebuild[w].at, Title(w))' = Child(rebuild[w].at, Title(w))
      BY <1>1 DEF Child, Ids, Title
    <2> QED
      BY <1>1, <2>1, <2>2 DEF Titled, WalkInv, WalkOf, Walking, Walks
  <1>5. StoredInv(F)'
    <2> SUFFICES ASSUME NEW w \in Workspaces
                 PROVE  /\ Leads(F, w, projection[w].path)'
                        /\ Built(w)' => Len(projection'[w].path) = Len(Path[w])
                        /\ ~projection'[w].exists => projection'[w] = Absent
                        /\ Active(w)' => ~projection'[w].ready
      BY DEF StoredInv, StoredOf, Absent
    <2>1. CASE projection'[w] = projection[w]
      BY <1>1, <2>1, TreeStays DEF Titled, StoredInv, StoredOf, Built, Active, Absent
    <2>2. CASE projection'[w] \in {Absent, Unbuilt}
      <3>1. Leads(F, w, <<>>)'
        BY LeadsNowhere
      <3>2. projection'[w].path = <<>>
        BY <2>2, Records
      <3>3. Leads(F, w, projection[w].path)'
        BY <3>1, <3>2 DEF Leads
      <3> QED
        BY <2>2, <3>2, <3>3, Records DEF Built
    <2> QED
      BY <2>1, <2>2
  <1> QED
    BY <1>2, <1>3, <1>4, <1>5 DEF Titled

LEMMA TasksMove ==
  ASSUME FolderInv, Still, \A w \in Workspaces : projection'[w] \in {projection[w], Absent, Unbuilt},
         projection' \in [Workspaces -> ProjectionRecords],
         session' \in BOOLEAN, selected' \subseteq Workspaces, owed' \subseteq Workspaces,
         unseen' \subseteq Workspaces, astray' \subseteq Workspaces, task' \in [Tasks -> TaskRecords],
         TaskInv', OwnInv'
  PROVE  FolderInv'
  <1>1. PICK F : Titled(F)
    BY DEF FolderInv
  <1>2. Titled(F)' /\ QueueInv'
    BY <1>1, StillTitled DEF FolderInv
  <1>3. FolderTypes'
    BY DEF FolderInv, FolderTypes, Still, Ids
  <1> QED
    BY <1>2, <1>3 DEF FolderInv

LEMMA OwnStays ==
  ASSUME NEW w \in Workspaces, Own(w), Still, projection'[w] = projection[w],
         projection[w].exists => w \in selected',
         projection[w].ready => w \in unseen' \union owed' \/ w \notin unseen \union owed \/ Resolves(w),
         \A t \in Tasks : Taking(t, w) /\ w \notin task[t].todo => Taking(t, w)' /\ w \notin task'[t].todo,
         \A t \in Tasks : Taking(t, w)' /\ (Active(w) \/ Held(w) # {}) => w \in task'[t].todo /\ w \in task'[t].before
  PROVE  Own(w)'
  <1>1. UNCHANGED <<nodes, nextId>> /\ UNCHANGED rebuild
    BY DEF Still
  <1>2. Ids' = Ids /\ Held(w)' = Held(w)
    BY <1>1, TreeStays
  <1>3. Resolves(w)' = Resolves(w) /\ FolderOf(w)' = FolderOf(w) /\ Built(w)' = Built(w) /\ Active(w)' = Active(w)
    BY <1>1, <1>2 DEF Resolves, FolderOf, Built, Active
  <1>4. Chosen(w)' /\ Ahead(w)'
    BY <1>2, <1>3 DEF Own, Chosen, Ahead
  <1>5. Kept(w)'
    BY <1>1, <1>2, <1>3 DEF Own, Kept
  <1>6. Shown(w)'
    BY <1>1, <1>2, <1>3 DEF Own, Shown, Emptied
  <1> QED
    BY <1>4, <1>5, <1>6 DEF Own

(* A projection that begins or ends where there is nothing to be had.      *)
LEMMA OwnOfNothing ==
  ASSUME NEW w \in Workspaces, Still, ~Active(w), Held(w) = {}, Range(rebuild[w].path) \subseteq Ids,
         projection'[w] \in {Absent, Unbuilt}, projection'[w].exists => w \in selected'
  PROVE  Own(w)'
  <1>1. UNCHANGED <<nodes, nextId>> /\ UNCHANGED rebuild
    BY DEF Still
  <1>2. Ids' = Ids /\ Held(w)' = {}
    BY <1>1, TreeStays
  <1>3. ~Active(w)' /\ rebuild'[w].pc = "idle"
    BY <1>1 DEF Active
  <1>4. Chosen(w)' /\ Ahead(w)'
    BY <1>2, <1>3 DEF Chosen, Ahead
  <1>5. Kept(w)'
    BY <1>1, <1>2, <1>3 DEF Kept
  <1>6. Shown(w)'
    BY Records DEF Shown
  <1> QED
    BY <1>4, <1>5, <1>6 DEF Own

LEMMA TaskSet ==
  ASSUME FolderTypes, TaskInv, NEW t \in Tasks, NEW new \in TaskRecords, task' = [task EXCEPT ![t] = new],
         new.pc = "clear" => new.kind = "logout", new.pc = "remove" => new.kind \in {"select", "logout"},
         new.pc = "remove" /\ new.kind = "select" => new.todo \intersect new.want = {}
  PROVE  /\ task' \in [Tasks -> TaskRecords] /\ TaskInv'
         /\ \A u \in Tasks : task'[u] = IF u = t THEN new ELSE task[u]
  <1>1. \A u \in Tasks : task'[u] = IF u = t THEN new ELSE task[u]
    BY DEF FolderTypes
  <1>2. TaskInv'
    BY <1>1 DEF TaskInv, At
  <1> QED
    BY <1>1, <1>2 DEF FolderTypes

(* A task that goes on, or ends, and takes nothing away after that.        *)
LEMMA TaskGoesOn ==
  ASSUME FolderTypes, TaskInv, NEW t \in Tasks, NEW new \in TaskRecords, task' = [task EXCEPT ![t] = new],
         new.pc \notin {"clear", "remove"}
  PROVE  /\ task' \in [Tasks -> TaskRecords] /\ TaskInv'
         /\ \A w \in Workspaces : ~Taking(t, w) =>
              \A u \in Tasks : Taking(u, w) /\ w \notin task[u].todo => Taking(u, w)' /\ w \notin task'[u].todo
         /\ \A u \in Tasks : At(u, "remove")' => u # t /\ task'[u] = task[u]
         /\ \A w \in Workspaces : Ahead(w) => \A u \in Tasks : Taking(u, w)' /\ (Active(w) \/ Held(w) # {})
              => w \in task'[u].todo /\ w \in task'[u].before
  <1>1. task' \in [Tasks -> TaskRecords] /\ TaskInv' /\ \A u \in Tasks : task'[u] = IF u = t THEN new ELSE task[u]
    BY TaskSet
  <1>2. \A u \in Tasks : At(u, "remove")' => u # t /\ task'[u] = task[u]
    BY <1>1 DEF At
  <1>3. \A u \in Tasks, w \in Workspaces : Taking(u, w)' => Taking(u, w) /\ task'[u] = task[u]
    BY <1>2 DEF Taking, At
  <1>4. \A u \in Tasks, w \in Workspaces : u # t => Taking(u, w)' = Taking(u, w) /\ task'[u] = task[u]
    BY <1>1 DEF Taking, At
  <1> QED
    BY <1>1, <1>2, <1>3, <1>4 DEF Ahead

-----------------------------------------------------------------------------
(* The messages.                                                           *)
LEMMA InvParts ==
  ASSUME FolderInv
  PROVE  FolderTypes /\ TaskInv /\ QueueInv /\ OwnInv
         /\ \A w \in Workspaces \ astray : Own(w) /\ Chosen(w) /\ Kept(w) /\ Shown(w) /\ Ahead(w)
  BY DEF FolderInv, OwnInv, Own

LEMMA TaskFields ==
  ASSUME FolderTypes, NEW t \in Tasks
  PROVE  /\ task[t] \in TaskRecords /\ DOMAIN task[t] = {"kind", "pc", "todo", "want", "before"}
         /\ task[t].todo \subseteq Workspaces /\ task[t].want \subseteq Workspaces /\ task[t].before \subseteq Workspaces
         /\ task \in [Tasks -> TaskRecords]
  BY DEF FolderTypes, TaskRecords

LEMMA SelectKeeps ==
  ASSUME FolderInv, NEW t \in Tasks, NEW ids \in SUBSET Workspaces, Select(t, ids)
  PROVE  FolderInv'
  <1>1. PICK new : new = [NoTask EXCEPT !.kind = "select", !.pc = "remove", !.want = ids,
                !.todo = selected \ ids, !.before = {w \in Workspaces : projection[w].exists}]
    OBVIOUS
  <1>2. task' = [task EXCEPT ![t] = new] /\ UNCHANGED <<unseen, stateVars, chromeVars, repairVars, astray>>
    BY <1>1 DEF Select
  <1>3. /\ new \in TaskRecords /\ new.kind = "select" /\ new.pc = "remove" /\ new.want = ids
        /\ new.todo = selected \ ids /\ new.before = {w \in Workspaces : projection[w].exists}
    BY <1>1, InvParts DEF NoTask, TaskRecords, FolderTypes
  <1>4. Still /\ UNCHANGED <<session, selected, projection, owed, unseen, astray>>
    BY <1>2 DEF Still, stateVars, chromeVars, repairVars
  <1>5. task' \in [Tasks -> TaskRecords] /\ TaskInv' /\ \A u \in Tasks : task'[u] = IF u = t THEN new ELSE task[u]
    BY <1>2, <1>3, InvParts, TaskSet
  <1>6. ASSUME NEW w \in Workspaces \ astray PROVE Own(w)'
    <2>1. Own(w) /\ Chosen(w) /\ Kept(w) /\ Ahead(w)
      BY InvParts
    <2>2. ASSUME NEW u \in Tasks, Taking(u, w)', Active(w) \/ Held(w) # {}
          PROVE  w \in task'[u].todo /\ w \in task'[u].before
      <3>1. CASE u = t
        <4>1. w \notin ids
          BY <1>3, <1>5, <2>2, <3>1 DEF Taking
        <4>2. projection[w].exists /\ w \in selected
          BY <2>1, <2>2 DEF Chosen, Kept
        <4> QED
          BY <1>3, <1>5, <3>1, <4>1, <4>2
      <3>2. CASE u # t
        BY <1>5, <2>1, <2>2, <3>2 DEF Taking, At, Ahead
      <3> QED
        BY <3>1, <3>2
    <2>3. \A u \in Tasks : Taking(u, w) /\ w \notin task[u].todo => Taking(u, w)' /\ w \notin task'[u].todo
      BY <1>5 DEF Taking, At, Select
    <2> QED
      BY <1>4, <2>1, <2>2, <2>3, OwnStays DEF Chosen
  <1> QED
    BY <1>4, <1>5, <1>6, InvParts, TasksMove DEF OwnInv, FolderTypes

LEMMA ClearKeeps ==
  ASSUME FolderInv, NEW t \in Tasks, Clear(t)
  PROVE  FolderInv'
  <1>1. PICK old : old = {w \in Workspaces : projection[w].exists}
    OBVIOUS
  <1>2. PICK new : new = [task[t] EXCEPT !.pc = "remove", !.todo = old, !.before = old]
    OBVIOUS
  <1>3. task' = [task EXCEPT ![t] = new] /\ session' = FALSE
        /\ UNCHANGED <<unseen, selected, projection, chromeVars, repairVars, astray>>
    BY <1>1, <1>2, InvParts, TaskFields DEF Clear
  <1>4. /\ new \in TaskRecords /\ new.kind = "logout" /\ new.pc = "remove" /\ new.todo = old /\ new.before = old
    BY <1>1, <1>2, InvParts, TaskFields DEF TaskRecords, TaskInv, Clear
  <1>5. Still /\ UNCHANGED <<selected, projection, owed, unseen, astray>>
    BY <1>3 DEF Still, chromeVars, repairVars
  <1>6. task' \in [Tasks -> TaskRecords] /\ TaskInv' /\ \A u \in Tasks : task'[u] = IF u = t THEN new ELSE task[u]
    BY <1>3, <1>4, InvParts, TaskSet
  <1>7. ASSUME NEW w \in Workspaces \ astray PROVE Own(w)'
    <2>1. Own(w) /\ Chosen(w) /\ Kept(w) /\ Ahead(w)
      BY InvParts
    <2>2. ASSUME NEW u \in Tasks, Taking(u, w)', Active(w) \/ Held(w) # {}
          PROVE  w \in task'[u].todo /\ w \in task'[u].before
      <3>1. CASE u = t
        <4>1. w \in old
          BY <1>1, <2>1, <2>2 DEF Chosen, Kept
        <4>2. task'[u] = new
          BY <1>6, <3>1
        <4>3. new.todo = old /\ new.before = old
          BY <1>4
        <4> QED
          BY <4>1, <4>2, <4>3
      <3>2. CASE u # t
        BY <1>6, <2>1, <2>2, <3>2 DEF Taking, At, Ahead
      <3> QED
        BY <3>1, <3>2
    <2>3. \A u \in Tasks : Taking(u, w) /\ w \notin task[u].todo => Taking(u, w)' /\ w \notin task'[u].todo
      BY <1>6 DEF Taking, At, Clear
    <2> QED
      BY <1>5, <2>1, <2>2, <2>3, OwnStays DEF Chosen
  <1> QED
    BY <1>3, <1>5, <1>6, <1>7, InvParts, TasksMove DEF OwnInv, FolderTypes

(* What changes only a task that takes nothing away, or the session.       *)
LEMMA MessageKeeps ==
  ASSUME FolderInv, Still, UNCHANGED <<selected, projection, owed, unseen, astray>>, session' \in BOOLEAN,
         task' \in [Tasks -> TaskRecords], TaskInv',
         \A u \in Tasks : At(u, "remove") \/ At(u, "remove")' => task'[u] = task[u]
  PROVE  FolderInv'
  <1>1. ASSUME NEW w \in Workspaces \ astray PROVE Own(w)'
    <2>1. Own(w) /\ Chosen(w) /\ Ahead(w)
      BY InvParts
    <2>2. \A u \in Tasks : Taking(u, w)' => Taking(u, w) /\ task'[u] = task[u]
      BY DEF Taking, At
    <2>3. \A u \in Tasks : Taking(u, w) /\ w \notin task[u].todo => Taking(u, w)' /\ w \notin task'[u].todo
      BY DEF Taking, At
    <2> QED
      BY <2>1, <2>2, <2>3, OwnStays DEF Chosen, Ahead
  <1> QED
    BY <1>1, InvParts, TasksMove DEF OwnInv, FolderTypes

LEMMA SessionLostKeeps ==
  ASSUME FolderInv, SessionLost
  PROVE  FolderInv'
  <1>1. Still /\ UNCHANGED <<selected, projection, owed, unseen, astray, task>> /\ session' \in BOOLEAN
    BY DEF SessionLost, Still, chromeVars, repairVars
  <1> QED
    BY <1>1, InvParts, MessageKeeps DEF TaskInv, At, FolderTypes

LEMMA SessionKeeps ==
  ASSUME FolderInv, NEW t \in Tasks, Login(t) \/ Logout(t) \/ Sync(t)
  PROVE  FolderInv'
  <1>1. Still /\ UNCHANGED <<selected, projection, owed, unseen, astray>> /\ session' \in BOOLEAN
    BY InvParts DEF Login, Logout, Sync, Still, stateVars, chromeVars, repairVars, FolderTypes
  <1>2. ASSUME NEW new \in TaskRecords, task' = [task EXCEPT ![t] = new], new.pc # "remove",
               new.pc = "clear" => new.kind = "logout", ~At(t, "remove")
        PROVE  FolderInv'
    <2>1. task' \in [Tasks -> TaskRecords] /\ TaskInv' /\ \A u \in Tasks : task'[u] = IF u = t THEN new ELSE task[u]
      BY <1>2, InvParts, TaskSet
    <2> QED
      BY <1>1, <1>2, <2>1, MessageKeeps DEF At
  <1>3. CASE Login(t) \/ Logout(t)
    <2>1. PICK new : /\ task' = [task EXCEPT ![t] = new]
                     /\ \/ new = [NoTask EXCEPT !.kind = "login", !.pc = "sync"]
                        \/ new = [NoTask EXCEPT !.kind = "logout", !.pc = "clear"]
      BY <1>3 DEF Login, Logout
    <2>2. new \in TaskRecords /\ new.pc # "remove" /\ (new.pc = "clear" => new.kind = "logout")
      BY <2>1 DEF NoTask, TaskRecords
    <2> QED
      BY <1>2, <1>3, <2>1, <2>2 DEF Login, Logout, At
  <1>4. CASE Sync(t)
    <2>1. PICK new : /\ task' = [task EXCEPT ![t] = new]
                     /\ new = [task[t] EXCEPT !.pc = "ensure", !.todo = selected] \/ new = NoTask
      BY <1>4, InvParts, TaskFields DEF Sync, Ends
    <2>2. new \in TaskRecords /\ new.pc \notin {"remove", "clear"}
      BY <2>1, InvParts, TaskFields, Records, ZenonT(60) DEF TaskRecords, FolderTypes
    <2> QED
      BY <1>2, <1>4, <2>1, <2>2 DEF Sync, At
  <1> QED
    BY <1>3, <1>4

LEMMA LookKeeps ==
  ASSUME FolderInv, NEW t \in Tasks, NEW w \in Workspaces, Look(t, w)
  PROVE  FolderInv'
  <1>1. Still /\ UNCHANGED <<session, selected, projection, astray>>
    BY DEF Look, Still, stateVars, chromeVars
  <1>2. PICK new : task' = [task EXCEPT ![t] = new] /\ (new = NoTask \/ new = [task[t] EXCEPT !.pc = "ensure"])
    BY InvParts, TaskFields DEF Look, Ends, Goes
  <1>3. new \in TaskRecords /\ new.pc \notin {"remove", "clear"}
    BY <1>2, InvParts, TaskFields, Records DEF TaskRecords
  <1>4. /\ task' \in [Tasks -> TaskRecords] /\ TaskInv'
        /\ \A v \in Workspaces : Ahead(v) => \A u \in Tasks : Taking(u, v)' /\ (Active(v) \/ Held(v) # {})
              => v \in task'[u].todo /\ v \in task'[u].before
        /\ \A v \in Workspaces : ~Taking(t, v) =>
              \A u \in Tasks : Taking(u, v) /\ v \notin task[u].todo => Taking(u, v)' /\ v \notin task'[u].todo
    BY <1>2, <1>3, InvParts, TaskGoesOn
  <1>5. owed' \subseteq Workspaces /\ unseen' \subseteq Workspaces
    BY InvParts DEF Look, FolderTypes
  <1>6. ASSUME NEW v \in Workspaces \ astray PROVE Own(v)'
    <2>1. Own(v) /\ Chosen(v) /\ Ahead(v)
      BY InvParts
    <2>2. projection[v].ready => projection[v].exists
      BY Records DEF FolderInv, Titled, StoredInv, StoredOf
    <2>3. projection[v].ready => v \in unseen' \union owed' \/ v \notin unseen \union owed \/ Resolves(v)
      BY <2>2 DEF Look
    <2>4. ~Taking(t, v)
      BY DEF Look, Taking, At
    <2> QED
      BY <1>1, <1>4, <2>1, <2>3, <2>4, OwnStays DEF Chosen
  <1> QED
    BY <1>1, <1>4, <1>5, <1>6, InvParts, TasksMove DEF OwnInv, FolderTypes

LEMMA EnsureKeeps ==
  ASSUME FolderInv, NEW t \in Tasks, NEW w \in Workspaces, Ensure(t, w)
  PROVE  FolderInv'
  <1>1. Still /\ UNCHANGED <<session, selected, owed, unseen>>
    BY DEF Ensure, Still, chromeVars, repairVars
  <1>2. PICK new : task' = [task EXCEPT ![t] = new]
                   /\ new = [task[t] EXCEPT !.pc = "look", !.want = {w}, !.todo = task[t].todo \ {w}]
    BY InvParts, TaskFields DEF Ensure
  <1>3. new \in TaskRecords /\ new.pc \notin {"remove", "clear"}
    BY <1>2, InvParts, TaskFields DEF TaskRecords
  <1>4. /\ task' \in [Tasks -> TaskRecords] /\ TaskInv'
        /\ \A v \in Workspaces : Ahead(v) => \A u \in Tasks : Taking(u, v)' /\ (Active(v) \/ Held(v) # {})
              => v \in task'[u].todo /\ v \in task'[u].before
        /\ \A v \in Workspaces : ~Taking(t, v) =>
              \A u \in Tasks : Taking(u, v) /\ v \notin task[u].todo => Taking(u, v)' /\ v \notin task'[u].todo
    BY <1>2, <1>3, InvParts, TaskGoesOn, ZenonT(60)
  <1>5. /\ projection' = projection \/ (session /\ ~projection[w].exists /\ projection' = [projection EXCEPT ![w] = Unbuilt])
        /\ astray' \subseteq Workspaces /\ astray \subseteq astray'
        /\ session /\ w \notin selected => w \in astray'
    BY InvParts DEF Ensure, FolderTypes
  <1>6. projection \in [Workspaces -> ProjectionRecords]
    BY InvParts DEF FolderTypes
  <1>7. /\ projection' \in [Workspaces -> ProjectionRecords]
        /\ \A v \in Workspaces : projection'[v] \in {projection[v], Unbuilt}
        /\ \A v \in Workspaces : v # w => projection'[v] = projection[v]
    BY <1>5, <1>6, Records
  <1>8. ASSUME NEW v \in Workspaces \ astray' PROVE Own(v)'
    <2>1. v \in Workspaces \ astray
      BY <1>5
    <2>2. Own(v) /\ Chosen(v) /\ Kept(v) /\ Ahead(v)
      BY <2>1, InvParts
    <2>3. CASE projection'[v] = projection[v]
      <3>1. ~Taking(t, v)
        BY DEF Ensure, Taking, At
      <3> QED
        BY <1>1, <1>4, <2>2, <2>3, <3>1, OwnStays DEF Chosen
    <2>4. CASE projection'[v] # projection[v]
      <3>1. v = w /\ session /\ ~projection[v].exists /\ projection'[v] = Unbuilt
        BY <1>5, <1>6, <2>4
      <3>2. ~Active(v) /\ Held(v) = {} /\ Range(rebuild[v].path) \subseteq Ids /\ v \in selected
        BY <1>5, <2>2, <3>1 DEF Chosen, Kept
      <3> QED
        BY <1>1, <3>1, <3>2, OwnOfNothing
    <2> QED
      BY <2>3, <2>4
  <1> QED
    BY <1>1, <1>4, <1>5, <1>7, <1>8, InvParts, TasksMove DEF OwnInv, FolderTypes

LEMMA StoreSelectionKeeps ==
  ASSUME FolderInv, NEW t \in Tasks, StoreSelection(t)
  PROVE  FolderInv'
  <1>1. Still /\ UNCHANGED <<session, owed, unseen>>
    BY DEF StoreSelection, Still, chromeVars, repairVars
  <1>2. PICK new : task' = [task EXCEPT ![t] = new] /\ new = [task[t] EXCEPT !.pc = "sync"]
    BY InvParts, TaskFields DEF StoreSelection, Goes
  <1>3. new \in TaskRecords /\ new.pc \notin {"remove", "clear"}
    BY <1>2, InvParts, TaskFields DEF TaskRecords
  <1>4. /\ task' \in [Tasks -> TaskRecords] /\ TaskInv'
        /\ \A v \in Workspaces : Ahead(v) => \A u \in Tasks : Taking(u, v)' /\ (Active(v) \/ Held(v) # {})
              => v \in task'[u].todo /\ v \in task'[u].before
        /\ \A v \in Workspaces : ~Taking(t, v) =>
              \A u \in Tasks : Taking(u, v) /\ v \notin task[u].todo => Taking(u, v)' /\ v \notin task'[u].todo
    BY <1>2, <1>3, InvParts, TaskGoesOn, ZenonT(60)
  <1>5. PICK want : want = task[t].want
    OBVIOUS
  <1>6. /\ selected' = want /\ want \subseteq Workspaces
        /\ projection' = [w \in Workspaces |-> IF w \in want THEN projection[w] ELSE Absent]
        /\ astray' = astray \union {w \in Workspaces \ want : projection[w].exists /\ Busy(w, t)}
    BY <1>5, InvParts, TaskFields DEF StoreSelection
  <1>7. astray' \subseteq Workspaces /\ astray \subseteq astray'
    BY <1>6, InvParts DEF FolderTypes
  <1>8. projection' \in [Workspaces -> ProjectionRecords]
    BY <1>6, InvParts, Records DEF FolderTypes
  <1>9. ASSUME NEW v \in Workspaces \ astray' PROVE Own(v)'
    <2>1. Own(v) /\ Chosen(v) /\ Kept(v) /\ Ahead(v)
      BY <1>7, InvParts
    <2>2. CASE v \in want
      <3>1. ~Taking(t, v)
        BY <1>5, <2>2 DEF StoreSelection, Taking
      <3> QED
        BY <1>1, <1>4, <1>6, <2>1, <2>2, <3>1, OwnStays DEF Chosen
    <2>3. CASE v \notin want
      <3>1. Taking(t, v) /\ v \notin task[t].todo
        BY <1>5, <2>3 DEF StoreSelection, Taking
      <3>2. ~Active(v) /\ Held(v) = {} /\ Range(rebuild[v].path) \subseteq Ids
        BY <2>1, <3>1 DEF Ahead, Kept
      <3> QED
        BY <1>1, <1>6, <2>3, <3>2, Records, OwnOfNothing
    <2> QED
      BY <2>2, <2>3
  <1> QED
    BY <1>1, <1>4, <1>6, <1>7, <1>8, <1>9, InvParts, TasksMove DEF OwnInv, FolderTypes

LEMMA ResetKeeps ==
  ASSUME FolderInv, NEW t \in Tasks, Reset(t)
  PROVE  FolderInv'
  <1>1. Still /\ UNCHANGED <<owed, unseen>>
    BY DEF Reset, Still, chromeVars, repairVars
  <1>2. task' = [task EXCEPT ![t] = NoTask]
    BY DEF Reset, Ends
  <1>3. /\ task' \in [Tasks -> TaskRecords] /\ TaskInv'
    BY <1>2, InvParts, TaskGoesOn, Records
  <1>4. /\ selected' = {} /\ session' = FALSE /\ projection' = [w \in Workspaces |-> Absent]
        /\ astray' \subseteq Workspaces /\ astray \subseteq astray'
    BY InvParts DEF Reset, FolderTypes
  <1>5. projection' \in [Workspaces -> ProjectionRecords] /\ \A w \in Workspaces : projection'[w] = Absent
    BY <1>4, Records
  <1>6. ASSUME NEW v \in Workspaces \ astray' PROVE Own(v)'
    <2>1. Own(v) /\ Kept(v) /\ Ahead(v)
      BY <1>4, InvParts
    <2>2. Taking(t, v) /\ v \notin task[t].todo
      BY DEF Reset, Taking
    <2>3. ~Active(v) /\ Held(v) = {} /\ Range(rebuild[v].path) \subseteq Ids
      BY <2>1, <2>2 DEF Ahead, Kept
    <2> QED
      BY <1>1, <1>5, <2>3, Records, OwnOfNothing
  <1> QED
    BY <1>1, <1>3, <1>4, <1>5, <1>6, InvParts, TasksMove DEF OwnInv, FolderTypes

-----------------------------------------------------------------------------
(* Folders that go.                                                        *)
Halts == rebuild' = [w \in Workspaces |-> Idle] /\ pathQueue' = <<>>

LEMMA TitledLeft ==
  ASSUME NEW F, Titled(F), QueueInv, FolderTypes, NEW gone, Below(gone), nodes' = Without(gone),
         UNCHANGED <<nextId, projection>>, UNCHANGED <<rebuild, pathQueue>> \/ Halts
  PROVE  (\E G : Titled(G)') /\ QueueInv'
  <1>1. PICK G : TreeInv(G)' /\ \A n \in Ids' : G[n] = F[n]
    BY TreeLeft DEF Titled
  <1>2. Ids' \subseteq Ids /\ \A n \in Ids' : nodes'[n] = nodes[n]
    BY DEF Ids, Without
  <1>3. \A w \in Workspaces, p \in Seq(Nat) : Leads(F, w, p) => Leads(G, w, p)'
    <2> SUFFICES ASSUME NEW w \in Workspaces, NEW p \in Seq(Nat), Leads(F, w, p) PROVE Leads(G, w, p)'
      OBVIOUS
    <2>1. Len(Path[w]) \in Nat
      BY PathTitles
    <2>2. nextId' >= nextId /\ nextId \in Nat /\ nextId' \in Nat
      BY DEF FolderTypes
    <2> QED
      BY <1>1, <1>2, <2>1, <2>2, LeadsOn
  <1>4. \A w \in Workspaces : rebuild[w] \in RebuildRecords /\ projection[w] \in ProjectionRecords
    BY DEF FolderTypes
  <1>5. StoredInv(G)'
    <2> SUFFICES ASSUME NEW w \in Workspaces
                 PROVE  /\ Leads(G, w, projection[w].path)'
                        /\ Built(w)' => Len(projection'[w].path) = Len(Path[w])
                        /\ ~projection'[w].exists => projection'[w] = Absent
                        /\ Active(w)' => ~projection'[w].ready
      BY DEF StoredInv, StoredOf, Absent
    <2>1. PICK p : p = projection[w].path
      OBVIOUS
    <2>2. Leads(F, w, p) /\ p \in Seq(Nat)
      BY <1>4, <2>1 DEF Titled, StoredInv, StoredOf, ProjectionRecords
    <2>3. Leads(G, w, p)' /\ (projection[w].path)' = p
      BY <1>3, <2>1, <2>2
    <2>4. Leads(G, w, projection[w].path)'
      BY <2>3 DEF Leads
    <2>5. Active(w)' => Active(w)
      BY Records DEF Active, Halts
    <2> QED
      BY <2>4, <2>5 DEF Titled, StoredInv, StoredOf, Built
  <1>6. CASE UNCHANGED <<rebuild, pathQueue>>
    <2>1. QueueInv'
      BY <1>6 DEF QueueInv, Walking
    <2>2. WalkInv(G)'
      <3> SUFFICES ASSUME NEW w \in Workspaces
                   PROVE  /\ Leads(G, w, rebuild[w].path)'
                          /\ rebuild[w].pc = "create" => Child(rebuild[w].at, Title(w))' = {}
        BY <1>6 DEF Titled, WalkInv, WalkOf, Walking, Walks
      <3>1. PICK p : p = rebuild[w].path
        OBVIOUS
      <3>2. Leads(F, w, p) /\ p \in Seq(Nat)
        BY <1>4, <3>1 DEF Titled, WalkInv, WalkOf, RebuildRecords
      <3>3. Leads(G, w, p)' /\ (rebuild[w].path)' = p
        BY <1>3, <1>6, <3>1, <3>2
      <3>4. Leads(G, w, rebuild[w].path)'
        BY <3>3 DEF Leads
      <3>5. Child(rebuild[w].at, Title(w))' \subseteq Child(rebuild[w].at, Title(w))
        BY <1>2, <1>6 DEF Child, Title
      <3> QED
        BY <3>4, <3>5 DEF Titled, WalkInv, WalkOf
    <2> QED
      BY <1>1, <1>5, <2>1, <2>2 DEF Titled
  <1>7. CASE Halts
    <2>1. \A w \in Workspaces : rebuild'[w] = Idle
      BY <1>7 DEF Halts
    <2>2. QueueInv'
      BY <1>7, <2>1, Records DEF QueueInv, Walking, Halts
    <2>3. WalkInv(G)'
      <3> SUFFICES ASSUME NEW w \in Workspaces PROVE Leads(G, w, rebuild[w].path)'
        BY <2>1, Records DEF WalkInv, WalkOf, Walking
      <3>1. Leads(G, w, <<>>)' /\ rebuild'[w].path = <<>>
        BY <2>1, LeadsNowhere, Records
      <3> QED
        BY <3>1 DEF Leads
    <2> QED
      BY <1>1, <1>5, <2>2, <2>3 DEF Titled
  <1> QED
    BY <1>6, <1>7

LEMMA FoldersLeft ==
  ASSUME FolderInv, NEW gone, Below(gone), nodes' = Without(gone),
         UNCHANGED <<nextId, projection, selected, session>>, UNCHANGED <<rebuild, pathQueue>> \/ Halts,
         owed' \subseteq Workspaces, unseen' \subseteq Workspaces, astray' \subseteq Workspaces,
         task' \in [Tasks -> TaskRecords], TaskInv', OwnInv'
  PROVE  FolderInv'
  <1>1. PICK F : Titled(F)
    BY DEF FolderInv
  <1>2. (\E G : Titled(G)') /\ QueueInv'
    BY <1>1, InvParts, TitledLeft
  <1>3. FolderTypes'
    <2>1. Ids' = Ids \ gone /\ \A n \in Ids' : nodes'[n] = nodes[n]
      BY DEF Ids, Without
    <2>2. nodes' \in [Ids' -> NodeRecords] /\ \A n \in Ids' : n \in Nat /\ 0 < n /\ n < nextId'
      BY <2>1, InvParts DEF FolderTypes, Without
    <2>3. rebuild' \in [Workspaces -> RebuildRecords] /\ pathQueue' \in Seq(Workspaces)
      <3>1. rebuild \in [Workspaces -> RebuildRecords] /\ pathQueue \in Seq(Workspaces)
        BY InvParts DEF FolderTypes
      <3>2. CASE Halts
        BY <3>2, Records DEF Halts
      <3>3. CASE UNCHANGED <<rebuild, pathQueue>>
        BY <3>1, <3>3
      <3> QED
        BY <3>2, <3>3
    <2> QED
      BY <2>2, <2>3, InvParts DEF FolderTypes
  <1> QED
    BY <1>2, <1>3 DEF FolderInv

LEMMA FolderOnPath ==
  ASSUME FolderTypes, NEW w \in Workspaces, Built(w)
  PROVE  FolderOf(w) \in Range(projection[w].path)
  <1>1. PICK p : p = projection[w].path
    OBVIOUS
  <1>2. p \in Seq(Nat) /\ p # <<>>
    BY <1>1 DEF FolderTypes, ProjectionRecords, Built
  <1>3. Len(p) \in DOMAIN p
    BY <1>2
  <1> QED
    BY <1>1, <1>3 DEF FolderOf, Last, Range

LEMMA OwnLeft ==
  ASSUME FolderTypes, NEW w \in Workspaces, Own(w), NEW gone, nodes' = Without(gone), UNCHANGED <<projection, selected>>,
         rebuild'[w] = Idle \/ (rebuild'[w] = rebuild[w] /\ Range(rebuild[w].path) \cap gone = {}),
         rebuild'[w].pc = "settle" => Range(projection[w].path) \cap gone = {},
         projection[w].ready => w \in unseen' \union owed' \/ Emptied(w)'
                                \/ Range(projection[w].path) \subseteq Ids \ gone,
         \A t \in Tasks : Taking(t, w)' /\ (Active(w) \/ Held(w) \ gone # {}) => w \in task'[t].todo /\ w \in task'[t].before
  PROVE  Own(w)'
  <1>1. Ids' = Ids \ gone /\ \A n \in Ids' : nodes'[n] = nodes[n]
    BY DEF Ids, Without
  <1>2. Held(w)' = Held(w) \ gone /\ Held(w) \subseteq Ids
    BY <1>1 DEF Held
  <1>3. FolderOf(w)' = FolderOf(w) /\ Built(w)' = Built(w) /\ (Active(w)' => Active(w))
    BY Records DEF FolderOf, Built, Active
  <1>4. Chosen(w)' /\ Ahead(w)'
    BY <1>2, <1>3 DEF Own, Chosen, Ahead
  <1>5. /\ Resolves(w)' => Resolves(w) /\ FolderOf(w) \notin gone
        /\ Resolves(w) /\ Range(projection[w].path) \cap gone = {} => Resolves(w)'
        /\ Built(w) /\ Range(projection[w].path) \subseteq Ids \ gone => Resolves(w)'
    <2>1. PICK R : R = Range(projection[w].path)
      OBVIOUS
    <2>2. Resolves(w)' <=> Built(w) /\ R \subseteq Ids \ gone
      BY <1>1, <1>3, <2>1 DEF Resolves
    <2>3. Resolves(w) <=> Built(w) /\ R \subseteq Ids
      BY <2>1 DEF Resolves
    <2>4. Built(w) => FolderOf(w) \in R
      BY <2>1, FolderOnPath
    <2> QED
      BY <2>1, <2>2, <2>3, <2>4
  <1>6. Kept(w)'
    <2>1. \A id \in Held(w)' : projection'[w].exists /\ Built(w)' /\ FolderOf(w)' = id
      BY <1>2, <1>3 DEF Own, Kept
    <2>2. Range(rebuild'[w].path) \subseteq Ids'
      <3>1. CASE rebuild'[w] = Idle
        BY <3>1, Records DEF Range
      <3>2. CASE rebuild'[w] = rebuild[w] /\ Range(rebuild[w].path) \cap gone = {}
        <4>1. PICK R : R = Range(rebuild[w].path)
          OBVIOUS
        <4>2. R \subseteq Ids /\ R \cap gone = {}
          BY <3>2, <4>1 DEF Own, Kept
        <4> QED
          BY <1>1, <3>2, <4>1, <4>2
      <3> QED
        BY <3>1, <3>2
    <2>3. rebuild'[w].pc = "settle" => Resolves(w)' /\ FolderOf(w)' \in Held(w)'
      <3> SUFFICES ASSUME rebuild'[w].pc = "settle" PROVE Resolves(w)' /\ FolderOf(w)' \in Held(w)'
        OBVIOUS
      <3>1. Resolves(w) /\ FolderOf(w) \in Held(w) /\ Resolves(w)'
        BY <1>5, Records DEF Own, Kept
      <3> QED
        BY <1>2, <1>3, <1>5, <3>1
    <2> QED
      BY <2>1, <2>2, <2>3 DEF Kept
  <1>7. Shown(w)'
    <2> SUFFICES ASSUME projection[w].ready
                 PROVE  /\ Built(w)'
                        /\ Resolves(w)' => FolderOf(w)' \in Held(w)'
                        /\ w \in unseen' \union owed' \/ Emptied(w)' \/ Resolves(w)'
      BY DEF Shown
    <2>1. Resolves(w)' => FolderOf(w)' \in Held(w)'
      BY <1>2, <1>3, <1>5 DEF Own, Shown
    <2>2. w \in unseen' \union owed' \/ Emptied(w)' \/ Resolves(w)'
      BY <1>5 DEF Own, Shown
    <2> QED
      BY <1>3, <2>1, <2>2 DEF Own, Shown
  <1> QED
    BY <1>4, <1>6, <1>7 DEF Own

LEMMA OthersClear ==
  ASSUME NEW F, TreeInv(F), StoredInv(F), FolderTypes, NEW v \in Workspaces, NEW w \in Workspaces, v # w, Built(w),
         NEW p \in Seq(Nat), Leads(F, v, p)
  PROVE  Range(p) \cap Under(FolderOf(w)) = {}
  <1> SUFFICES ASSUME NEW n \in Range(p), n \in Under(FolderOf(w)) PROVE FALSE
    OBVIOUS
  <1>1. PICK id : id = FolderOf(w)
    OBVIOUS
  <1>2. id \in Ids /\ n \in Ids
    BY <1>1, UnderHasTitles
  <1>3. F[id] = Path[w]
    <2>1. PICK q : q = projection[w].path
      OBVIOUS
    <2>2. Leads(F, w, q) /\ Len(q) = Len(Path[w]) /\ q \in Seq(Nat) /\ id = q[Len(q)]
      BY <1>1, <2>1 DEF StoredInv, StoredOf, FolderTypes, ProjectionRecords, FolderOf, Last
    <2>3. Len(Path[w]) \in 1 .. Len(q)
      BY <2>2, PathTitles
    <2>4. F[id] = Way(w, Len(Path[w]))
      BY <1>2, <2>2, <2>3 DEF Leads
    <2> QED
      BY <2>4, WayOn
  <1>4. PICK j \in 1 .. Len(p) : n = p[j]
    BY DEF Range
  <1>5. j \in 1 .. Len(Path[v]) /\ F[n] = Way(v, j)
    BY <1>2, <1>4, PathTitles DEF Leads
  <1>6. F[id] # <<>>
    BY <1>2, TitlesNotEmpty
  <1>7. PICK k \in 1 .. j : F[id] = Way(v, k)
    BY <1>1, <1>5, <1>6, UnderOnWay
  <1>8. k \in 1 .. Len(Path[v])
    BY <1>5, <1>7, PathTitles
  <1> QED
    BY <1>3, <1>7, <1>8, WaysPart

LEMMA TakeAway ==
  ASSUME FolderInv, NEW t \in Tasks, NEW w \in Workspaces, RemoveFolder(w, t), At(t, "remove"), w \in task[t].todo,
         task' = [task EXCEPT ![t].todo = task[t].todo \ {w}],
         UNCHANGED <<unseen, stateVars, nextId, repairVars>>
  PROVE  FolderInv'
  <1>1. UNCHANGED <<session, selected, projection, nextId, owed, rebuild, pathQueue, unseen>>
    BY DEF stateVars, repairVars
  <1>2. PICK new : new = [task[t] EXCEPT !.todo = task[t].todo \ {w}]
    OBVIOUS
  <1>3. /\ new \in TaskRecords /\ new.pc = "remove" /\ new.kind = task[t].kind /\ new.want = task[t].want
        /\ new.todo = task[t].todo \ {w} /\ new.before = task[t].before
        /\ new.kind \in {"select", "logout"} /\ (new.kind = "select" => new.todo \intersect new.want = {} /\ w \notin new.want)
    BY <1>2, InvParts, TaskFields DEF TaskRecords, TaskInv, At
  <1>4. task' = [task EXCEPT ![t] = new]
    BY <1>2, InvParts, TaskFields
  <1>5. task' \in [Tasks -> TaskRecords] /\ TaskInv' /\ \A u \in Tasks : task'[u] = IF u = t THEN new ELSE task[u]
    BY <1>3, <1>4, InvParts, TaskSet
  <1>6. \A u \in Tasks, v \in Workspaces :
          /\ Taking(u, v)' = Taking(u, v) /\ task'[u].before = task[u].before
          /\ task'[u].todo \subseteq task[u].todo /\ (v # w => (v \in task'[u].todo <=> v \in task[u].todo))
    BY <1>3, <1>5 DEF Taking, At
  <1>7. PICK gone : gone = IF Built(w) /\ w \in task[t].before THEN Under(FolderOf(w)) ELSE {}
    OBVIOUS
  <1>8. nodes' = Without(gone) /\ Below(gone)
    <2>1. Without({}) = nodes
      BY InvParts DEF Without, FolderTypes
    <2> QED
      BY <1>7, <2>1, UnderIsBelow DEF RemoveFolder, Below
  <1>9. astray \subseteq astray' /\ astray' \subseteq Workspaces /\ (Busy(w, t) => w \in astray')
    BY InvParts DEF RemoveFolder, FolderTypes
  <1>10. PICK F : Titled(F)
    BY DEF FolderInv
  <1>11. ASSUME NEW v \in Workspaces \ astray' PROVE Own(v)'
    <2>1. Own(v) /\ Shown(v) /\ Ahead(v) /\ Kept(v) /\ FolderTypes
      BY <1>9, InvParts
    <2>2. CASE v # w
      <3>1. rebuild[v].path \in Seq(Nat) /\ projection[v].path \in Seq(Nat)
        BY <2>1 DEF FolderTypes, RebuildRecords, ProjectionRecords
      <3>2. Leads(F, v, rebuild[v].path) /\ Leads(F, v, projection[v].path) /\ TreeInv(F) /\ StoredInv(F)
        BY <1>10 DEF Titled, WalkInv, WalkOf, StoredInv, StoredOf
      <3>3. Range(rebuild[v].path) \cap gone = {} /\ Range(projection[v].path) \cap gone = {}
        BY <1>7, <2>1, <2>2, <3>1, <3>2, OthersClear
      <3>4. projection[v].ready => v \in unseen \union owed \/ Emptied(v)' \/ Range(projection[v].path) \subseteq Ids \ gone
        <4>1. Emptied(v) => Emptied(v)'
          BY <1>6 DEF Emptied
        <4>2. Resolves(v) => Range(projection[v].path) \subseteq Ids \ gone
          <5>1. PICK R : R = Range(projection[v].path)
            OBVIOUS
          <5> QED
            BY <3>3, <5>1 DEF Resolves
        <4> QED
          BY <2>1, <4>1, <4>2 DEF Shown
      <3>5. \A u \in Tasks : Taking(u, v)' /\ (Active(v) \/ Held(v) \ gone # {}) => v \in task'[u].todo /\ v \in task'[u].before
        BY <1>6, <2>1, <2>2 DEF Ahead
      <3> QED
        BY <1>1, <1>8, <2>1, <3>3, <3>4, <3>5, OwnLeft
    <2>3. CASE v = w
      <3>1. ~Busy(w, t)
        BY <1>9, <2>3
      <3>2. ~Active(w) /\ rebuild[w].path = <<>> /\ rebuild[w].pc = "idle"
        BY <1>10, <3>1 DEF Busy, Active, Titled, WalkInv, WalkOf
      <3>3. Taking(t, w)
        BY <1>3 DEF Taking
      <3>4. Held(w) \ gone = {}
        <4> SUFFICES ASSUME NEW id \in Held(w) PROVE id \in gone
          OBVIOUS
        <4>1. Built(w) /\ FolderOf(w) = id /\ w \in task[t].before /\ id \in Ids
          BY <2>1, <2>3, <3>3 DEF Kept, Ahead, Held
        <4> QED
          BY <1>7, <4>1, UnderIsBelow
      <3>5. Emptied(w)'
        BY <1>3, <1>5, <1>6, <3>3 DEF Emptied
      <3>6. Range(rebuild[w].path) \cap gone = {}
        BY <3>2 DEF Range
      <3> QED
        BY <1>1, <1>8, <2>1, <2>3, <3>2, <3>4, <3>5, <3>6, OwnLeft
    <2> QED
      BY <2>2, <2>3
  <1> QED
    BY <1>1, <1>5, <1>8, <1>9, <1>11, InvParts, FoldersLeft DEF OwnInv, FolderTypes

LEMMA UserDeletesKeeps ==
  ASSUME FolderInv, NEW id \in Ids, UserDeletes(id)
  PROVE  FolderInv'
  <1>1. UNCHANGED <<session, selected, projection, nextId, rebuild, pathQueue, task>>
    BY DEF UserDeletes, stateVars
  <1>2. PICK gone : gone = Under(id)
    OBVIOUS
  <1>3. nodes' = Without(gone) /\ Below(gone)
    BY <1>2, UnderIsBelow DEF UserDeletes
  <1>4. PICK hit : hit = {w \in Workspaces : Tracks(w, id)}
    OBVIOUS
  <1>5. /\ owed \subseteq owed' /\ unseen \subseteq unseen' /\ hit \subseteq owed' \union unseen'
        /\ owed' \subseteq Workspaces /\ unseen' \subseteq Workspaces
    BY <1>4, InvParts DEF UserDeletes, FolderTypes
  <1>6. astray' = astray \union {w \in Workspaces : rebuild[w].pc # "idle"} /\ astray' \subseteq Workspaces
    BY InvParts DEF UserDeletes, FolderTypes
  <1>7. PICK F : Titled(F)
    BY DEF FolderInv
  <1>8. TaskInv' /\ \A w \in Workspaces, u \in Tasks : Taking(u, w)' = Taking(u, w)
    BY <1>1, InvParts DEF TaskInv, At, Taking
  <1>9. ASSUME NEW w \in Workspaces \ astray' PROVE Own(w)'
    <2>1. Own(w) /\ Chosen(w) /\ Shown(w) /\ Ahead(w) /\ FolderTypes
      BY <1>6, InvParts
    <2>2. rebuild[w].pc = "idle" /\ rebuild[w].path = <<>>
      BY <1>6, <1>7 DEF Titled, WalkInv, WalkOf
    <2>3. Range(rebuild[w].path) \cap gone = {}
      BY <2>2 DEF Range
    <2>4. ASSUME projection[w].ready, w \notin unseen' \union owed', ~Emptied(w)'
          PROVE  Range(projection[w].path) \subseteq Ids \ gone
      <3>1. ~Emptied(w)
        BY <1>1, <1>8, <2>4 DEF Emptied
      <3>2. Resolves(w) /\ w \notin hit
        BY <1>5, <2>1, <2>4, <3>1 DEF Shown
      <3>3. projection[w].exists
        BY <1>7, <2>4, Records DEF Titled, StoredInv, StoredOf
      <3>4. id \notin Range(projection[w].path)
        BY <1>4, <2>1, <3>2, <3>3 DEF Tracks, Chosen
      <3>5. PICK p : p = projection[w].path
        OBVIOUS
      <3>6. p \in Seq(Nat) /\ Leads(F, w, p) /\ Range(p) \subseteq Ids /\ id \notin Range(p) /\ TreeInv(F)
        BY <1>7, <2>1, <3>2, <3>4, <3>5 DEF FolderTypes, ProjectionRecords, Titled, StoredInv, StoredOf, Resolves
      <3>7. ASSUME NEW n \in Range(p), n \in gone PROVE FALSE
        <4>1. PICK j \in 1 .. Len(p) : n = p[j]
          BY <3>6 DEF Range
        <4>2. j \in 1 .. Len(Path[w]) /\ F[n] = Way(w, j)
          BY <3>6, <3>7, <4>1, PathTitles DEF Leads
        <4>3. F[id] # <<>>
          BY <2>1, <3>6, TitlesNotEmpty
        <4>4. PICK k \in 1 .. j : F[id] = Way(w, k)
          BY <1>2, <2>1, <3>6, <3>7, <4>2, <4>3, UnderOnWay
        <4>5. k \in 1 .. Len(p) /\ p[k] \in Range(p) /\ p[k] \in Ids
          BY <3>6, <4>1, <4>4 DEF Range
        <4>6. F[p[k]] = Way(w, k)
          BY <3>6, <4>5 DEF Leads
        <4>7. p[k] = id
          BY <3>6, <4>4, <4>5, <4>6 DEF TreeInv
        <4> QED
          BY <3>6, <4>5, <4>7
      <3> QED
        BY <3>5, <3>6, <3>7
    <2>5. \A u \in Tasks : Taking(u, w)' /\ (Active(w) \/ Held(w) \ gone # {}) => w \in task'[u].todo /\ w \in task'[u].before
      BY <1>1, <1>8, <2>1 DEF Ahead
    <2> QED
      BY <1>1, <1>3, <2>1, <2>2, <2>3, <2>4, <2>5, OwnLeft
  <1> QED
    BY <1>1, <1>3, <1>5, <1>6, <1>8, <1>9, InvParts, FoldersLeft DEF OwnInv, FolderTypes

LEMMA StartsAre ==
  ASSUME NEW s \in Starts
  PROVE  s \in [Tasks -> TaskRecords] /\ \A u \in Tasks : s[u].pc \in {"sync", "done"}
  <1>1. PICK t \in Tasks : s = [u \in Tasks |-> IF u = t THEN [NoTask EXCEPT !.kind = "start", !.pc = "sync"] ELSE NoTask]
    BY DEF Starts
  <1>2. [NoTask EXCEPT !.kind = "start", !.pc = "sync"] \in TaskRecords
        /\ [NoTask EXCEPT !.kind = "start", !.pc = "sync"].pc = "sync"
    BY DEF NoTask, TaskRecords
  <1> QED
    BY <1>1, <1>2, Records

LEMMA EvictKeeps ==
  ASSUME FolderInv, NEW gone, Below(gone), Evict(gone)
  PROVE  FolderInv'
  <1>1. UNCHANGED <<session, selected, projection, nextId, astray>> /\ nodes' = Without(gone) /\ Halts /\ owed' = {}
    BY DEF Evict, stateVars, Halts
  <1>2. task' \in [Tasks -> TaskRecords] /\ \A u \in Tasks : ~At(u, "remove")' /\ ~At(u, "clear")'
    BY StartsAre DEF Evict, At
  <1>3. TaskInv' /\ \A u \in Tasks, w \in Workspaces : ~Taking(u, w)'
    BY <1>2 DEF TaskInv, Taking
  <1>4. unseen' = unseen \union owed \union {w \in Workspaces : ~(Range(projection[w].path) \subseteq Ids \ gone)}
    BY DEF Evict
  <1>5. ASSUME NEW w \in Workspaces \ astray' PROVE Own(w)'
    <2>1. Own(w) /\ FolderTypes
      BY <1>1, InvParts
    <2>2. rebuild'[w] = Idle
      BY <1>1 DEF Halts
    <2>3. projection[w].ready => w \in unseen' \union owed' \/ Range(projection[w].path) \subseteq Ids \ gone
      BY <1>4
    <2> QED
      BY <1>1, <1>3, <2>1, <2>2, <2>3, Records, OwnLeft
  <1> QED
    BY <1>1, <1>2, <1>3, <1>4, <1>5, InvParts, FoldersLeft DEF OwnInv, FolderTypes

-----------------------------------------------------------------------------
(* Rebuilds.                                                               *)
LEMMA AppendOnce ==
  ASSUME NEW S, NEW s \in Seq(S), NEW r \in Seq(S), NEW a \in S, NEW b \in S, Append(s, a) = Append(r, b)
  PROVE  s = r /\ a = b
  <1>1. Len(Append(s, a)) = Len(s) + 1 /\ Len(Append(r, b)) = Len(r) + 1 /\ Len(s) \in Nat /\ Len(r) \in Nat
    OBVIOUS
  <1>2. Len(s) = Len(r)
    BY <1>1
  <1>3. Append(s, a)[Len(s) + 1] = a /\ Append(r, b)[Len(r) + 1] = b
    OBVIOUS
  <1>4. \A i \in 1 .. Len(s) : Append(s, a)[i] = s[i] /\ Append(r, b)[i] = r[i]
    BY <1>2
  <1>5. s = r
    BY <1>2, <1>4, SeqEqual
  <1> QED
    BY <1>2, <1>3, <1>5

LEMMA TailKeeps ==
  ASSUME NEW q \in Seq(Workspaces), q # <<>>
  PROVE  /\ Tail(q) \in Seq(Workspaces) /\ Len(Tail(q)) = Len(q) - 1 /\ Len(q) \in Nat \ {0}
         /\ \A i \in 1 .. Len(Tail(q)) : Tail(q)[i] = q[i + 1]
         /\ Head(q) = q[1]
  OBVIOUS

LEMMA RebuildSet ==
  ASSUME FolderTypes, NEW w \in Workspaces, NEW r \in RebuildRecords, Rebuilds(w, r)
  PROVE  /\ rebuild' \in [Workspaces -> RebuildRecords]
         /\ rebuild'[w] = r /\ \A v \in Workspaces : v # w => rebuild'[v] = rebuild[v]
  BY DEF Rebuilds, FolderTypes

(* The queue: nobody comes or goes, the last one comes, the first goes.    *)
LEMMA QueueSame ==
  ASSUME QueueInv, NEW w \in Workspaces, \A v \in Workspaces : v # w => rebuild'[v] = rebuild[v],
         Walking(w)' = Walking(w), pathQueue' = pathQueue
  PROVE  QueueInv'
  <1>1. \A v \in Workspaces : Walking(v)' = Walking(v)
    BY DEF Walking
  <1> QED
    BY <1>1 DEF QueueInv

LEMMA QueueGrows ==
  ASSUME QueueInv, pathQueue \in Seq(Workspaces), NEW w \in Workspaces,
         \A v \in Workspaces : v # w => rebuild'[v] = rebuild[v],
         ~Walking(w), Walking(w)', pathQueue' = Append(pathQueue, w)
  PROVE  QueueInv' /\ pathQueue' \in Seq(Workspaces) /\ \A v \in Workspaces : Walks(v) => Walks(v)'
  <1>1. \A v \in Workspaces : v # w => Walking(v)' = Walking(v)
    BY DEF Walking
  <1>2. PICK q : q = pathQueue
    OBVIOUS
  <1>3. PICK r : r = pathQueue'
    OBVIOUS
  <1>4. /\ q \in Seq(Workspaces) /\ Len(r) = Len(q) + 1 /\ Len(q) \in Nat /\ r[Len(r)] = w /\ r \in Seq(Workspaces)
        /\ \A i \in 1 .. Len(q) : r[i] = q[i]
    BY <1>2, <1>3
  <1>5. \A i \in 1 .. Len(q) : q[i] # w
    BY <1>2 DEF QueueInv
  <1>6. \A i, j \in 1 .. Len(r) : r[i] = r[j] => i = j
    <2> SUFFICES ASSUME NEW i \in 1 .. Len(r), NEW j \in 1 .. Len(r), r[i] = r[j] PROVE i = j
      OBVIOUS
    <2>1. CASE i \in 1 .. Len(q) /\ j \in 1 .. Len(q)
      BY <1>2, <1>4, <2>1 DEF QueueInv
    <2>2. CASE i = Len(r) \/ j = Len(r)
      <3>1. r[i] = w /\ r[j] = w
        BY <1>4, <2>2
      <3>2. i \notin 1 .. Len(q) /\ j \notin 1 .. Len(q)
        BY <1>4, <1>5, <3>1
      <3>3. i = Len(r) /\ j = Len(r)
        BY <1>4, <3>2
      <3> QED
        BY <3>3
    <2> QED
      BY <1>4, <2>1, <2>2
  <1>7. \A v \in Workspaces : Walking(v)' <=> \E i \in 1 .. Len(r) : r[i] = v
    <2> SUFFICES ASSUME NEW v \in Workspaces PROVE Walking(v)' <=> \E i \in 1 .. Len(r) : r[i] = v
      OBVIOUS
    <2>1. CASE v = w
      <3>1. Len(r) \in 1 .. Len(r) /\ r[Len(r)] = w
        BY <1>4
      <3> QED
        BY <2>1, <3>1
    <2>2. CASE v # w
      <3>1. Walking(v) <=> \E i \in 1 .. Len(q) : q[i] = v
        BY <1>2 DEF QueueInv
      <3>2. ASSUME NEW i \in 1 .. Len(q), q[i] = v PROVE \E j \in 1 .. Len(r) : r[j] = v
        <4>1. i \in 1 .. Len(r) /\ r[i] = q[i]
          BY <1>4
        <4> QED
          BY <3>2, <4>1
      <3>3. ASSUME NEW j \in 1 .. Len(r), r[j] = v PROVE \E i \in 1 .. Len(q) : q[i] = v
        <4>1. j # Len(r)
          BY <1>4, <2>2, <3>3
        <4>2. j \in 1 .. Len(q) /\ q[j] = r[j]
          BY <1>4, <4>1
        <4> QED
          BY <3>3, <4>2
      <3> QED
        BY <1>1, <2>2, <3>1, <3>2, <3>3
    <2> QED
      BY <2>1, <2>2
  <1>8. q # <<>> => r # <<>> /\ Head(r) = Head(q)
    BY <1>4
  <1> QED
    BY <1>2, <1>3, <1>4, <1>6, <1>7, <1>8 DEF QueueInv, Walks

LEMMA QueueShrinks ==
  ASSUME QueueInv, pathQueue \in Seq(Workspaces), NEW w \in Workspaces,
         \A v \in Workspaces : v # w => rebuild'[v] = rebuild[v],
         Walks(w), ~Walking(w)', pathQueue' = Tail(pathQueue)
  PROVE  QueueInv' /\ pathQueue' \in Seq(Workspaces)
  <1>1. \A v \in Workspaces : v # w => Walking(v)' = Walking(v)
    BY DEF Walking
  <1>2. PICK q : q = pathQueue
    OBVIOUS
  <1>3. PICK r : r = pathQueue'
    OBVIOUS
  <1>4. /\ q \in Seq(Workspaces) /\ q # <<>> /\ q[1] = w
        /\ r \in Seq(Workspaces) /\ Len(r) = Len(q) - 1 /\ Len(q) \in Nat \ {0}
        /\ \A i \in 1 .. Len(r) : r[i] = q[i + 1]
    BY <1>2, <1>3, TailKeeps DEF Walks
  <1>5. \A i, j \in 1 .. Len(q) : q[i] = q[j] => i = j
    BY <1>2 DEF QueueInv
  <1>6. ASSUME NEW i \in 1 .. Len(r), NEW j \in 1 .. Len(r), r[i] = r[j]
        PROVE  i = j
    <2>1. i \in Nat /\ j \in Nat /\ i + 1 \in 1 .. Len(q) /\ j + 1 \in 1 .. Len(q)
      BY <1>4
    <2>2. q[i + 1] = q[j + 1]
      BY <1>4, <1>6
    <2>3. i + 1 = j + 1
      BY <1>5, <2>1, <2>2
    <2> QED
      BY <2>1, <2>3
  <1>7. \A v \in Workspaces : Walking(v)' <=> \E i \in 1 .. Len(r) : r[i] = v
    <2> SUFFICES ASSUME NEW v \in Workspaces PROVE Walking(v)' <=> \E i \in 1 .. Len(r) : r[i] = v
      OBVIOUS
    <2>1. CASE v = w
      <3>1. \A i \in 1 .. Len(r) : r[i] # w
        <4> SUFFICES ASSUME NEW i \in 1 .. Len(r), r[i] = w PROVE FALSE
          OBVIOUS
        <4>1. i + 1 \in 1 .. Len(q) /\ 1 \in 1 .. Len(q) /\ i + 1 # 1
          BY <1>4
        <4>2. q[i + 1] = q[1]
          BY <1>4
        <4> QED
          BY <1>5, <4>1, <4>2
      <3> QED
        BY <2>1, <3>1
    <2>2. CASE v # w
      <3>1. Walking(v) <=> \E i \in 1 .. Len(q) : q[i] = v
        BY <1>2 DEF QueueInv
      <3>2. (\E i \in 1 .. Len(q) : q[i] = v) <=> \E i \in 1 .. Len(r) : r[i] = v
        <4>1. ASSUME NEW i \in 1 .. Len(q), q[i] = v PROVE \E j \in 1 .. Len(r) : r[j] = v
          <5>1. i # 1
            BY <1>4, <2>2, <4>1
          <5>2. i - 1 \in 1 .. Len(r) /\ r[i - 1] = q[i]
            BY <1>4, <5>1
          <5> QED
            BY <4>1, <5>2
        <4>2. ASSUME NEW i \in 1 .. Len(r), r[i] = v PROVE \E j \in 1 .. Len(q) : q[j] = v
          <5>1. i + 1 \in 1 .. Len(q)
            BY <1>4
          <5>2. q[i + 1] = v
            BY <1>4, <4>2
          <5> QED
            BY <5>1, <5>2
        <4> QED
          BY <4>1, <4>2
      <3> QED
        BY <1>1, <2>2, <3>1, <3>2
    <2> QED
      BY <2>1, <2>2
  <1> QED
    BY <1>2, <1>3, <1>4, <1>6, <1>7 DEF QueueInv

(* A workspace that a rebuild goes on with, or that it leaves alone.       *)
LEMMA OwnGoesOn ==
  ASSUME NEW w \in Workspaces, Own(w), UNCHANGED <<task, selected>>, Ids \subseteq Ids', Held(w)' = Held(w),
         projection'[w].exists = projection[w].exists, projection'[w].path = projection[w].path,
         projection'[w].ready => projection[w].ready /\ (w \in unseen \union owed => w \in unseen' \union owed'),
         \A id \in Range(projection[w].path) : id \in Ids' => id \in Ids,
         Range(rebuild'[w].path) \subseteq Ids', rebuild'[w].pc = "settle" => rebuild[w].pc = "settle",
         Active(w)' => projection[w].exists /\ (Active(w) \/ \A t \in Tasks : ~Taking(t, w))
  PROVE  Own(w)'
  <1>1. FolderOf(w)' = FolderOf(w) /\ Built(w)' = Built(w)
    BY DEF FolderOf, Built
  <1>2. Resolves(w)' <=> Resolves(w)
    <2>1. PICK R : R = Range(projection[w].path)
      OBVIOUS
    <2>2. Resolves(w)' <=> Built(w) /\ R \subseteq Ids'
      BY <1>1, <2>1 DEF Resolves
    <2>3. Resolves(w) <=> Built(w) /\ R \subseteq Ids
      BY <2>1 DEF Resolves
    <2>4. \A id \in R : id \in Ids' => id \in Ids
      BY <2>1
    <2> QED
      BY <2>2, <2>3, <2>4
  <1>3. \A t \in Tasks : Taking(t, w)' = Taking(t, w)
    BY DEF Taking, At
  <1>4. Emptied(w)' = Emptied(w)
    BY <1>3 DEF Emptied
  <1>5. Chosen(w)' /\ Ahead(w)'
    BY <1>3 DEF Own, Chosen, Ahead
  <1>6. Kept(w)'
    BY <1>1, <1>2 DEF Own, Kept
  <1>7. Shown(w)'
    BY <1>1, <1>2, <1>4 DEF Own, Shown
  <1> QED
    BY <1>5, <1>6, <1>7 DEF Own

(* The rebuild of one workspace goes on; the titles of the others stay.    *)
LEMMA RebuildTitled ==
  ASSUME FolderTypes, NEW F, Titled(F), NEW G, TreeInv(G)', NEW w \in Workspaces,
         \A v \in Workspaces, p \in Seq(Nat) : Leads(F, v, p) => Leads(G, v, p)',
         \A v \in Workspaces : v # w => rebuild'[v] = rebuild[v] /\ projection'[v] = projection[v],
         \A v \in Workspaces : v # w /\ rebuild[v].pc = "create" =>
             Walks(v)' /\ Child(rebuild[v].at, Title(v))' = {},
         WalkOf(G, w)', StoredOf(G, w)'
  PROVE  Titled(G)'
  <1>1. ASSUME NEW v \in Workspaces, v # w PROVE WalkOf(G, v)' /\ StoredOf(G, v)'
    <2>1. WalkOf(F, v) /\ StoredOf(F, v)
      BY DEF Titled, WalkInv, StoredInv
    <2>2. PICK p : p = rebuild[v].path
      OBVIOUS
    <2>3. PICK q : q = projection[v].path
      OBVIOUS
    <2>4. p \in Seq(Nat) /\ q \in Seq(Nat) /\ Leads(F, v, p) /\ Leads(F, v, q)
      BY <2>1, <2>2, <2>3 DEF WalkOf, StoredOf, FolderTypes, RebuildRecords, ProjectionRecords
    <2>5. Leads(G, v, p)' /\ Leads(G, v, q)' /\ (rebuild[v].path)' = p /\ (projection[v].path)' = q
      BY <1>1, <2>2, <2>3, <2>4
    <2>6. Leads(G, v, rebuild[v].path)' /\ Leads(G, v, projection[v].path)'
      BY <2>5 DEF Leads
    <2>7. rebuild'[v] = rebuild[v] /\ projection'[v] = projection[v]
      BY <1>1
    <2>8. WalkOf(G, v)'
      BY <1>1, <2>1, <2>6, <2>7 DEF WalkOf, Walking
    <2>9. StoredOf(G, v)'
      BY <1>1, <2>1, <2>6, <2>7 DEF StoredOf, Built, Active, Absent
    <2> QED
      BY <2>8, <2>9
  <1> QED
    BY <1>1 DEF Titled, WalkInv, StoredInv

(* The next folder on the way, and where it is found.                      *)
LEMMA WayNext ==
  ASSUME FolderTypes, NEW F, NEW w \in Workspaces, WalkOf(F, w), Walking(w), ~Gone(w)
  PROVE  /\ rebuild[w].level \in 1 .. Len(Path[w]) /\ Title(w) = Path[w][rebuild[w].level] /\ Title(w) \in Titles
         /\ rebuild[w].level = 1 => rebuild[w].at = Container /\ Way(w, rebuild[w].level) = <<Title(w)>>
         /\ rebuild[w].level > 1 =>
              /\ rebuild[w].at \in Ids /\ rebuild[w].at # Container
              /\ F[rebuild[w].at] = Way(w, rebuild[w].level - 1)
              /\ Way(w, rebuild[w].level) = Append(F[rebuild[w].at], Title(w))
  <1>1. PICK k : k = rebuild[w].level
    OBVIOUS
  <1>2. PICK p : p = rebuild[w].path
    OBVIOUS
  <1>3. k \in 1 .. Len(Path[w]) /\ Len(p) = k - 1 /\ Leads(F, w, p) /\ p \in Seq(Nat) /\ Len(Path[w]) \in Nat
    BY <1>1, <1>2, PathTitles DEF WalkOf, FolderTypes, RebuildRecords
  <1>4. Title(w) = Path[w][k] /\ Title(w) \in Titles
    BY <1>1, <1>3, PathTitles DEF Title
  <1>5. CASE k = 1
    BY <1>1, <1>3, <1>4, <1>5, WayOn DEF WalkOf
  <1>6. CASE k > 1
    <2>1. rebuild[w].at = p[k - 1] /\ k - 1 \in 1 .. Len(p) /\ k \in 2 .. Len(Path[w])
      BY <1>1, <1>2, <1>3, <1>6 DEF WalkOf
    <2>2. rebuild[w].at # Container /\ rebuild[w].at \in Ids
      BY <1>3, <2>1 DEF Leads, Container, Gone
    <2>3. F[rebuild[w].at] = Way(w, k - 1)
      BY <1>3, <2>1, <2>2 DEF Leads
    <2>4. Way(w, k) = Append(Way(w, k - 1), Path[w][k])
      BY <2>1, WayOn
    <2> QED
      BY <1>1, <1>3, <1>4, <1>6, <2>2, <2>3, <2>4
  <1> QED
    BY <1>3, <1>5, <1>6

LEMMA ChildOnWay ==
  ASSUME FolderTypes, NEW F, TreeInv(F), NEW w \in Workspaces, WalkOf(F, w), Walking(w), ~Gone(w),
         NEW id \in Child(rebuild[w].at, Title(w))
  PROVE  id \in Ids /\ F[id] = Way(w, rebuild[w].level) /\ id \in Nat /\ 0 < id /\ id < nextId
  <1>1. id \in Ids /\ nodes[id].parent = rebuild[w].at /\ nodes[id].title = Title(w)
    BY DEF Child
  <1>2. rebuild[w].level = 1 \/ rebuild[w].level > 1
    BY WayNext
  <1>3. F[id] = Way(w, rebuild[w].level)
    <2>1. CASE rebuild[w].level = 1
      <3>1. nodes[id].parent = Container /\ Way(w, rebuild[w].level) = <<Title(w)>>
        BY <1>1, <2>1, WayNext
      <3>2. F[id] = <<nodes[id].title>>
        BY <1>1, <3>1 DEF TreeInv
      <3> QED
        BY <1>1, <3>1, <3>2
    <2>2. CASE rebuild[w].level > 1
      <3>1. PICK q : q = nodes[id].parent
        OBVIOUS
      <3>2. q # Container /\ Way(w, rebuild[w].level) = Append(F[q], Title(w))
        BY <1>1, <2>2, <3>1, WayNext
      <3>3. F[id] = Append(F[q], nodes[id].title)
        BY <1>1, <3>1, <3>2 DEF TreeInv
      <3> QED
        BY <1>1, <3>2, <3>3
    <2> QED
      BY <1>2, <2>1, <2>2
  <1> QED
    BY <1>1, <1>3 DEF FolderTypes

LEMMA LeadsFurther ==
  ASSUME NEW G, NEW w \in Workspaces, NEW p \in Seq(Nat), Leads(G, w, p)', NEW k \in 1 .. Len(Path[w]), Len(p) = k - 1,
         NEW id \in Nat, 0 < id, id < nextId', G[id] = Way(w, k)
  PROVE  Leads(G, w, Append(p, id))'
  <1>1. PICK q : q = Append(p, id)
    OBVIOUS
  <1>2. Len(q) = k /\ q[k] = id /\ (\A j \in 1 .. Len(p) : q[j] = p[j]) /\ Len(Path[w]) \in Nat
    BY <1>1, PathTitles
  <1>3. \A j \in 1 .. Len(q) : 0 < q[j] /\ q[j] < nextId' /\ (q[j] \in Ids' => G[q[j]] = Way(w, j))
    <2> SUFFICES ASSUME NEW j \in 1 .. Len(q)
                 PROVE  0 < q[j] /\ q[j] < nextId' /\ (q[j] \in Ids' => G[q[j]] = Way(w, j))
      OBVIOUS
    <2>1. CASE j = k
      BY <1>2, <2>1
    <2>2. CASE j # k
      <3>1. j \in 1 .. Len(p) /\ q[j] = p[j]
        BY <1>2, <2>2
      <3> QED
        BY <3>1 DEF Leads, Way
    <2> QED
      BY <2>1, <2>2
  <1>4. Leads(G, w, q)'
    BY <1>2, <1>3 DEF Leads, Way
  <1> QED
    BY <1>1, <1>4

LEMMA HeadIsAlone ==
  ASSUME NEW F, WalkInv(F), NEW w \in Workspaces, Walks(w), NEW v \in Workspaces, v # w
  PROVE  rebuild[v].pc # "create"
  BY DEF WalkInv, WalkOf, Walks

LEMMA StoredStays ==
  ASSUME FolderTypes, NEW F, NEW G, NEW w \in Workspaces, StoredOf(F, w),
         \A p \in Seq(Nat) : Leads(F, w, p) => Leads(G, w, p)',
         projection'[w] = projection[w], Active(w)' => Active(w)
  PROVE  StoredOf(G, w)'
  <1>1. PICK p : p = projection[w].path
    OBVIOUS
  <1>2. p \in Seq(Nat) /\ Leads(F, w, p)
    BY <1>1 DEF StoredOf, FolderTypes, ProjectionRecords
  <1>3. Leads(G, w, p)' /\ (projection[w].path)' = p
    BY <1>1, <1>2
  <1>4. Leads(G, w, projection[w].path)'
    BY <1>3 DEF Leads
  <1> QED
    BY <1>4 DEF StoredOf, Built, Absent

LEMMA DownKeeps ==
  ASSUME FolderTypes, QueueInv, NEW F, Titled(F), NEW w \in Workspaces, Walks(w), Walking(w),
         NEW id \in Nat, Down(w, id), NEW G, TreeInv(G)',
         \A v \in Workspaces, p \in Seq(Nat) : Leads(F, v, p) => Leads(G, v, p)',
         0 < id, id < nextId', G[id] = Way(w, rebuild[w].level), projection' = projection
  PROVE  /\ QueueInv' /\ Titled(G)' /\ rebuild' \in [Workspaces -> RebuildRecords] /\ pathQueue' \in Seq(Workspaces)
         /\ rebuild'[w].path = Append(rebuild[w].path, id) /\ rebuild'[w].pc \in {"path", "place"}
         /\ \A v \in Workspaces : v # w => rebuild'[v] = rebuild[v]
  <1>1. PICK k : k = rebuild[w].level
    OBVIOUS
  <1>2. PICK p : p = rebuild[w].path
    OBVIOUS
  <1>3. WalkOf(F, w) /\ StoredOf(F, w)
    BY DEF Titled, WalkInv, StoredInv
  <1>4. k \in 1 .. Len(Path[w]) /\ Len(p) = k - 1 /\ Leads(F, w, p) /\ p \in Seq(Nat) /\ Len(Path[w]) \in Nat /\ k \in Nat
    BY <1>1, <1>2, <1>3, PathTitles DEF WalkOf, FolderTypes, RebuildRecords
  <1>5. PICK q : q = Append(p, id)
    OBVIOUS
  <1>6. q \in Seq(Nat) /\ Len(q) = k /\ Leads(G, w, q)' /\ q[k] = id
    <2>1. Leads(G, w, p)'
      BY <1>4
    <2>2. G[id] = Way(w, k)
      BY <1>1
    <2>3. Leads(G, w, Append(p, id))'
      BY <1>4, <2>1, <2>2, LeadsFurther
    <2>4. q \in Seq(Nat) /\ Len(q) = k /\ q[k] = id
      BY <1>4, <1>5
    <2> QED
      BY <1>5, <2>3, <2>4
  <1>7. pathQueue \in Seq(Workspaces) /\ \A v \in Workspaces : v # w => rebuild[v].pc # "create"
    BY HeadIsAlone DEF FolderTypes, Titled
  <1>8. CASE k = Len(Path[w])
    <2>1. PICK r : r = [Idle EXCEPT !.pc = "place", !.path = q]
      OBVIOUS
    <2>2. r \in RebuildRecords /\ r.pc = "place" /\ r.path = q
      BY <1>6, <2>1, Records DEF Idle, RebuildRecords, Container
    <2>3. pathQueue' = Tail(pathQueue) /\ Rebuilds(w, r)
      BY <1>1, <1>2, <1>5, <1>8, <2>1 DEF Down
    <2>4. /\ rebuild' \in [Workspaces -> RebuildRecords] /\ rebuild'[w] = r
          /\ \A v \in Workspaces : v # w => rebuild'[v] = rebuild[v]
      BY <2>2, <2>3, RebuildSet
    <2>5. ~Walking(w)'
      BY <2>2, <2>4 DEF Walking
    <2>6. QueueInv' /\ pathQueue' \in Seq(Workspaces)
      BY <1>7, <2>3, <2>4, <2>5, QueueShrinks
    <2>7. WalkOf(G, w)'
      <3>1. (rebuild[w].path)' = q
        BY <2>2, <2>4
      <3>2. Leads(G, w, rebuild[w].path)'
        BY <1>6, <3>1 DEF Leads
      <3> QED
        BY <1>6, <1>8, <2>2, <2>4, <2>5, <3>2 DEF WalkOf
    <2>8. StoredOf(G, w)'
      BY <1>3, StoredStays DEF Active, Walking
    <2>9. Titled(G)'
      BY <1>7, <2>4, <2>7, <2>8, RebuildTitled
    <2> QED
      BY <1>2, <1>5, <2>2, <2>4, <2>6, <2>9
  <1>9. CASE k # Len(Path[w])
    <2>1. PICK r : r = [pc |-> "path", level |-> k + 1, at |-> id, path |-> q]
      OBVIOUS
    <2>2. r \in RebuildRecords /\ r.pc = "path" /\ r.path = q /\ r.level = k + 1 /\ r.at = id
      BY <1>4, <1>6, <2>1 DEF RebuildRecords
    <2>3. pathQueue' = pathQueue /\ Rebuilds(w, r)
      BY <1>1, <1>2, <1>5, <1>9, <2>1 DEF Down
    <2>4. /\ rebuild' \in [Workspaces -> RebuildRecords] /\ rebuild'[w] = r
          /\ \A v \in Workspaces : v # w => rebuild'[v] = rebuild[v]
      BY <2>2, <2>3, RebuildSet
    <2>5. Walking(w)'
      BY <2>2, <2>4 DEF Walking
    <2>6. QueueInv' /\ pathQueue' \in Seq(Workspaces)
      BY <1>7, <2>3, <2>4, <2>5, QueueSame
    <2>7. WalkOf(G, w)'
      <3>1. (rebuild[w].path)' = q
        BY <2>2, <2>4
      <3>2. Leads(G, w, rebuild[w].path)'
        BY <1>6, <3>1 DEF Leads
      <3>3. k + 1 \in 1 .. Len(Path[w]) /\ k + 1 > 1
        BY <1>4, <1>9
      <3> QED
        BY <1>4, <1>6, <2>2, <2>4, <3>2, <3>3 DEF WalkOf
    <2>8. StoredOf(G, w)'
      BY <1>3, StoredStays DEF Active, Walking
    <2>9. Titled(G)'
      BY <1>7, <2>4, <2>7, <2>8, RebuildTitled
    <2> QED
      BY <1>2, <1>5, <2>2, <2>4, <2>6, <2>9
  <1> QED
    BY <1>8, <1>9

LEMMA StoredOld ==
  ASSUME FolderInv, NEW w \in Workspaces, NEW id \in Range(projection[w].path)
  PROVE  id < nextId
  <1>1. PICK F : Titled(F)
    BY DEF FolderInv
  <1>2. PICK p : p = projection[w].path
    OBVIOUS
  <1>3. Leads(F, w, p) /\ p \in Seq(Nat)
    BY <1>1, <1>2, InvParts DEF Titled, StoredInv, StoredOf, FolderTypes, ProjectionRecords
  <1>4. PICK j \in 1 .. Len(p) : id = p[j]
    BY <1>2, <1>3 DEF Range
  <1> QED
    BY <1>3, <1>4 DEF Leads

LEMMA OthersGoOn ==
  ASSUME FolderInv, NEW w \in Workspaces, UNCHANGED <<task, selected>>, Ids \subseteq Ids',
         \A n \in Ids' : n < nextId => n \in Ids, astray \subseteq astray' \union {w},
         \A v \in Workspaces : v # w =>
           /\ Held(v)' = Held(v) /\ rebuild'[v] = rebuild[v] /\ projection'[v] = projection[v]
           /\ v \in unseen \union owed => v \in unseen' \union owed'
  PROVE  \A v \in Workspaces \ astray' : v # w => Own(v)'
  <1> SUFFICES ASSUME NEW v \in Workspaces \ astray', v # w PROVE Own(v)'
    OBVIOUS
  <1>1. Own(v) /\ Chosen(v) /\ Kept(v)
    BY InvParts
  <1>2. \A id \in Range(projection[v].path) : id \in Ids' => id \in Ids
    BY StoredOld
  <1>3. Active(v)' => projection[v].exists /\ Active(v)
    BY <1>1 DEF Active, Chosen
  <1>4. Range(rebuild'[v].path) \subseteq Ids'
    BY <1>1 DEF Kept
  <1> QED
    BY <1>1, <1>2, <1>3, <1>4, OwnGoesOn

LEMMA RebuildMoves ==
  ASSUME FolderInv, NEW w \in Workspaces, UNCHANGED <<session, selected, task>>,
         nodes' \in [Ids' -> NodeRecords], nextId' \in Nat \ {0}, \A n \in Ids' : n \in Nat /\ 0 < n /\ n < nextId',
         owed' \subseteq Workspaces, unseen' \subseteq Workspaces, astray' \subseteq Workspaces,
         rebuild' \in [Workspaces -> RebuildRecords], pathQueue' \in Seq(Workspaces),
         projection' \in [Workspaces -> ProjectionRecords],
         QueueInv', \E G : Titled(G)', \A v \in Workspaces \ astray' : v # w => Own(v)', w \notin astray' => Own(w)'
  PROVE  FolderInv'
  <1>1. FolderTypes'
    BY InvParts DEF FolderTypes
  <1>2. TaskInv'
    BY InvParts DEF TaskInv, At
  <1>3. OwnInv'
    BY DEF OwnInv
  <1> QED
    BY <1>1, <1>2, <1>3 DEF FolderInv

LEMMA WalkOver ==
  ASSUME NEW G, NEW w \in Workspaces, rebuild'[w].path = <<>>, rebuild'[w].pc \notin {"path", "create", "place"}
  PROVE  WalkOf(G, w)'
  <1>1. Leads(G, w, <<>>)'
    BY LeadsNowhere
  <1>2. Leads(G, w, rebuild[w].path)'
    BY <1>1 DEF Leads
  <1> QED
    BY <1>2 DEF WalkOf, Walking

LEMMA FacesOf ==
  ASSUME FolderInv, NEW w \in Workspaces, UNCHANGED chromeVars
  PROVE  /\ Ids' = Ids /\ (\A v \in Workspaces : Held(v)' = Held(v))
         /\ UNCHANGED <<nodes, nextId>>
         /\ nodes' \in [Ids' -> NodeRecords] /\ nextId' \in Nat \ {0} /\ \A n \in Ids' : n \in Nat /\ 0 < n /\ n < nextId'
         /\ \A F : TreeInv(F) => TreeInv(F)'
         /\ \A F, v, p : Leads(F, v, p) => Leads(F, v, p)'
  <1>1. UNCHANGED <<nodes, nextId>>
    BY DEF chromeVars
  <1>2. Ids' = Ids /\ \A v \in Workspaces : Held(v)' = Held(v)
    BY <1>1, TreeStays
  <1> QED
    BY <1>1, <1>2, InvParts, TreeStays DEF FolderTypes

(* A step outside the queue, after which the workspace is not on its way.  *)
LEMMA AsideKeeps ==
  ASSUME FolderInv, NEW w \in Workspaces, UNCHANGED chromeVars, UNCHANGED <<session, selected, task, pathQueue>>,
         ~Walking(w), NEW r \in RebuildRecords, r.pc \in {"idle", "tree", "fill", "settle"}, r.path = <<>>,
         Rebuilds(w, r), NEW x \in ProjectionRecords, projection' = [projection EXCEPT ![w] = x],
         owed' \subseteq Workspaces, unseen' \subseteq Workspaces, astray \subseteq astray', astray' \subseteq Workspaces,
         \A v \in Workspaces : v # w => (v \in unseen \union owed => v \in unseen' \union owed'),
         \A F : Titled(F) => StoredOf(F, w)', w \notin astray' => Own(w)'
  PROVE  FolderInv'
  <1>1. PICK F : Titled(F)
    BY DEF FolderInv
  <1>2. /\ rebuild' \in [Workspaces -> RebuildRecords] /\ rebuild'[w] = r
        /\ \A v \in Workspaces : v # w => rebuild'[v] = rebuild[v]
    BY InvParts, RebuildSet
  <1>3. /\ projection' \in [Workspaces -> ProjectionRecords]
        /\ \A v \in Workspaces : v # w => projection'[v] = projection[v]
    BY InvParts DEF FolderTypes
  <1>4. QueueInv'
    <2>1. ~Walking(w)'
      BY <1>2 DEF Walking
    <2>2. Walking(w)' = Walking(w)
      BY <2>1 DEF Walking
    <2> QED
      BY <1>2, <2>2, InvParts, QueueSame
  <1>5. Titled(F)'
    <2>1. TreeInv(F)' /\ \A v \in Workspaces, p \in Seq(Nat) : Leads(F, v, p) => Leads(F, v, p)'
      BY <1>1, FacesOf DEF Titled
    <2>2. WalkOf(F, w)'
      BY <1>2, WalkOver
    <2>3. ASSUME NEW v \in Workspaces, v # w, rebuild[v].pc = "create"
          PROVE  Walks(v)' /\ Child(rebuild[v].at, Title(v))' = {}
      <3>1. Walks(v) /\ Child(rebuild[v].at, Title(v)) = {}
        BY <1>1, <2>3 DEF Titled, WalkInv, WalkOf
      <3> QED
        BY <1>2, <2>3, <3>1, FacesOf DEF Child, Title, Walks
    <2> QED
      BY <1>1, <1>2, <1>3, <2>1, <2>2, <2>3, InvParts, RebuildTitled
  <1>6. \A v \in Workspaces \ astray' : v # w => Own(v)'
    BY <1>2, <1>3, FacesOf, OthersGoOn
  <1>7. pathQueue' \in Seq(Workspaces)
    BY InvParts DEF FolderTypes
  <1> QED
    BY <1>2, <1>3, <1>4, <1>5, <1>6, <1>7, FacesOf, RebuildMoves

LEMMA StoredSame ==
  ASSUME FolderInv, NEW w \in Workspaces, UNCHANGED chromeVars, NEW F, Titled(F),
         projection'[w].exists = projection[w].exists, projection'[w].path = projection[w].path,
         projection'[w] \in ProjectionRecords, projection'[w].ready => projection[w].ready,
         Active(w)' => Active(w) \/ ~projection'[w].ready
  PROVE  StoredOf(F, w)'
  <1>1. Leads(F, w, projection[w].path)'
    <2>1. PICK p : p = projection[w].path
      OBVIOUS
    <2>2. Leads(F, w, p)' /\ (projection[w].path)' = p
      BY <2>1, FacesOf DEF Titled, StoredInv, StoredOf
    <2> QED
      BY <2>2 DEF Leads
  <1>2. ~projection'[w].exists => projection'[w] = Absent
    BY Records DEF Titled, StoredInv, StoredOf, ProjectionRecords, Absent
  <1>3. StoredOf(F, w)
    BY DEF Titled, StoredInv
  <1> QED
    BY <1>1, <1>2, <1>3 DEF StoredOf, Built, Absent

LEMMA SameRecord ==
  ASSUME FolderTypes, NEW w \in Workspaces
  PROVE  /\ projection = [projection EXCEPT ![w] = projection[w]] /\ rebuild = [rebuild EXCEPT ![w] = rebuild[w]]
         /\ projection[w] \in ProjectionRecords /\ rebuild[w] \in RebuildRecords
         /\ DOMAIN projection[w] = {"exists", "path", "ready"}
  BY DEF FolderTypes, ProjectionRecords

LEMMA IdleWith ==
  ASSUME NEW c \in {"tree", "fill", "settle"}
  PROVE  [Idle EXCEPT !.pc = c] \in RebuildRecords /\ [Idle EXCEPT !.pc = c].pc = c /\ [Idle EXCEPT !.pc = c].path = <<>>
  BY Records DEF Idle, RebuildRecords, Container

LEMMA NothingYet == Range(<<>>) = {}
  BY DEF Range

LEMMA RepairKeeps ==
  ASSUME FolderInv, NEW w \in Workspaces, Repair(w)
  PROVE  FolderInv'
  <1>1. /\ UNCHANGED chromeVars /\ UNCHANGED <<session, selected, task, pathQueue>>
        /\ w \in owed /\ rebuild[w].pc = "idle" /\ owed' = owed \ {w} /\ ~Walking(w) /\ ~Active(w)
    BY DEF Repair, Walking, Active
  <1>2. /\ owed' \subseteq Workspaces /\ unseen' \subseteq Workspaces
        /\ astray \subseteq astray' /\ astray' \subseteq Workspaces
    BY <1>1, InvParts DEF Repair, FolderTypes
  <1>3. \A v \in Workspaces : v # w => (v \in unseen \union owed => v \in unseen' \union owed')
    BY <1>1 DEF Repair
  <1>4. PICK r : r = IF Wanted(w) THEN [Idle EXCEPT !.pc = "tree"] ELSE rebuild[w]
    OBVIOUS
  <1>5. PICK x : x = IF Wanted(w) THEN [projection[w] EXCEPT !.ready = FALSE] ELSE projection[w]
    OBVIOUS
  <1>6. /\ r \in RebuildRecords /\ r.path = <<>> /\ r.pc \in {"idle", "tree"} /\ (~Wanted(w) => r.pc = "idle")
    <2>1. rebuild[w].path = <<>>
      BY <1>1 DEF FolderInv, Titled, WalkInv, WalkOf
    <2> QED
      BY <1>1, <1>4, <2>1, IdleWith, InvParts, SameRecord
  <1>7. /\ x \in ProjectionRecords /\ x.exists = projection[w].exists /\ x.path = projection[w].path
        /\ (Wanted(w) => ~x.ready) /\ (x.ready => projection[w].ready)
    BY <1>5, InvParts, SameRecord DEF ProjectionRecords
  <1>8. Rebuilds(w, r) /\ projection' = [projection EXCEPT ![w] = x]
    <2>1. CASE Wanted(w)
      BY <1>4, <1>5, <2>1, InvParts, SameRecord DEF Repair
    <2>2. CASE ~Wanted(w)
      BY <1>4, <1>5, <2>2, InvParts, SameRecord DEF Repair, Rebuilds
    <2> QED
      BY <2>1, <2>2
  <1>9. rebuild'[w] = r /\ projection'[w] = x
    BY <1>8, InvParts DEF Rebuilds, FolderTypes
  <1>10. \A F : Titled(F) => StoredOf(F, w)'
    BY <1>1, <1>6, <1>7, <1>9, StoredSame DEF Active
  <1>11. ASSUME w \notin astray' PROVE Own(w)'
    <2>1. Own(w)
      BY <1>2, <1>11, InvParts
    <2>2. Active(w)' => projection[w].exists /\ \A t \in Tasks : ~Taking(t, w)
      <3> SUFFICES ASSUME Wanted(w) PROVE projection[w].exists /\ \A t \in Tasks : ~Taking(t, w)
        BY <1>6, <1>9 DEF Active
      <3>1. ~Leaving(w)
        BY <1>11 DEF Repair
      <3> QED
        BY <3>1, InvParts DEF Leaving, Taking, TaskInv, Wanted
    <2>3. projection'[w].ready => projection[w].ready /\ (w \in unseen \union owed => w \in unseen' \union owed')
      BY <1>7, <1>9 DEF Repair
    <2>4. Range(rebuild'[w].path) \subseteq Ids'
      BY <1>6, <1>9, NothingYet
    <2>5. Ids' = Ids /\ Held(w)' = Held(w)
      BY <1>1, FacesOf
    <2>6. \A id \in Range(projection[w].path) : id \in Ids' => id \in Ids
      BY <2>5
    <2> QED
      BY <1>1, <1>6, <1>7, <1>9, <2>1, <2>2, <2>3, <2>4, <2>5, <2>6, OwnGoesOn
  <1> QED
    BY <1>1, <1>2, <1>3, <1>6, <1>7, <1>8, <1>10, <1>11, AsideKeeps

(* The rebuild gives up, or comes to fill the folder.                      *)
LEMMA GivesUp ==
  ASSUME FolderInv, NEW w \in Workspaces, rebuild[w].pc \in {"tree", "fill"}, Rebuilds(w, Idle),
         UNCHANGED <<unseen, stateVars, chromeVars, owed, pathQueue, task, astray>>
  PROVE  FolderInv'
  <1>1. /\ UNCHANGED chromeVars /\ UNCHANGED <<session, selected, task, pathQueue>>
        /\ UNCHANGED <<unseen, projection, owed, astray>> /\ ~Walking(w)
    BY DEF stateVars, Walking
  <1>2. Idle \in RebuildRecords /\ Idle.pc = "idle" /\ Idle.path = <<>>
    BY Records
  <1>3. projection' = [projection EXCEPT ![w] = projection[w]] /\ projection[w] \in ProjectionRecords
    BY <1>1, InvParts, SameRecord
  <1>4. rebuild'[w] = Idle /\ projection'[w] = projection[w] /\ ~Active(w)'
    BY <1>1, <1>2, InvParts DEF Rebuilds, FolderTypes, Active
  <1>5. \A F : Titled(F) => StoredOf(F, w)'
    BY <1>1, <1>3, <1>4, StoredSame
  <1>6. ASSUME w \notin astray' PROVE Own(w)'
    <2>1. Own(w)
      BY <1>1, <1>6, InvParts
    <2>2. Range(rebuild'[w].path) \subseteq Ids'
      BY <1>2, <1>4, NothingYet
    <2>3. Ids' = Ids /\ Held(w)' = Held(w)
      BY <1>1, FacesOf
    <2>4. \A id \in Range(projection[w].path) : id \in Ids' => id \in Ids
      BY <2>3
    <2> QED
      BY <1>1, <1>2, <1>4, <2>1, <2>2, <2>3, <2>4, OwnGoesOn
  <1>7. owed' \subseteq Workspaces /\ unseen' \subseteq Workspaces /\ astray \subseteq astray' /\ astray' \subseteq Workspaces
    BY <1>1, InvParts DEF FolderTypes
  <1> QED
    BY <1>1, <1>2, <1>3, <1>5, <1>6, <1>7, AsideKeeps

LEMMA PlaceKeeps ==
  ASSUME FolderInv, NEW w \in Workspaces, Place(w)
  PROVE  FolderInv'
  <1>1. /\ UNCHANGED chromeVars /\ UNCHANGED <<session, selected, task, pathQueue>>
        /\ UNCHANGED <<unseen, owed, astray>> /\ ~Walking(w) /\ Active(w) /\ rebuild[w].pc = "place"
    BY DEF Place, Walking, Active
  <1>2. PICK p : p = rebuild[w].path
    OBVIOUS
  <1>3. p \in Seq(Nat)
    BY <1>2, InvParts, SameRecord DEF RebuildRecords
  <1>4. PICK x : x = [exists |-> TRUE, path |-> p, ready |-> FALSE]
    OBVIOUS
  <1>5. x \in ProjectionRecords /\ x.exists /\ x.path = p /\ ~x.ready
    BY <1>3, <1>4 DEF ProjectionRecords
  <1>6. PICK r : r = [Idle EXCEPT !.pc = "fill"]
    OBVIOUS
  <1>7. r \in RebuildRecords /\ r.pc = "fill" /\ r.path = <<>>
    BY <1>6, IdleWith
  <1>8. Rebuilds(w, r) /\ projection' = [projection EXCEPT ![w] = x]
    BY <1>2, <1>4, <1>6 DEF Place
  <1>9. rebuild'[w] = r /\ projection'[w] = x
    BY <1>8, InvParts DEF Rebuilds, FolderTypes
  <1>10. ASSUME NEW F, Titled(F) PROVE Leads(F, w, p) /\ Len(p) = Len(Path[w]) /\ StoredOf(F, w)'
    <2>1. Leads(F, w, p) /\ Len(p) = Len(Path[w])
      BY <1>1, <1>2, <1>10 DEF Titled, WalkInv, WalkOf
    <2>2. Leads(F, w, p)' /\ (projection[w].path)' = p
      BY <1>1, <1>5, <1>9, <2>1, FacesOf
    <2>3. Leads(F, w, projection[w].path)'
      BY <2>2 DEF Leads
    <2> QED
      BY <1>5, <1>9, <2>1, <2>3 DEF StoredOf
  <1>11. ASSUME w \notin astray' PROVE Own(w)'
    <2>1. Own(w) /\ Chosen(w) /\ Kept(w) /\ Ahead(w) /\ FolderTypes
      BY <1>1, <1>11, InvParts
    <2>2. Ids' = Ids /\ Held(w)' = Held(w)
      BY <1>1, FacesOf
    <2>3. Chosen(w)' /\ Ahead(w)'
      BY <1>1, <1>5, <1>9, <2>1, <2>2 DEF Chosen, Ahead, Taking, At
    <2>4. Shown(w)'
      BY <1>5, <1>9 DEF Shown
    <2>5. p # <<>> /\ FolderOf(w)' = p[Len(p)] /\ Built(w)'
      <3>1. Len(p) # 0
        BY <1>10, PathTitles DEF FolderInv
      <3> QED
        BY <1>3, <1>5, <1>9, <3>1 DEF FolderOf, Last, Built
    <2>6. ASSUME NEW id \in Held(w) PROVE id = p[Len(p)]
      <3>1. PICK F : Titled(F)
        BY DEF FolderInv
      <3>2. id \in Ids /\ F[id] = Path[w]
        <4>1. id \in Ids /\ nodes[id].holds = w /\ w # "nothing"
          BY <2>6, PathAssumption DEF Held
        <4> QED
          BY <3>1, <4>1 DEF Titled, TreeInv
      <3>3. Leads(F, w, p) /\ Len(p) = Len(Path[w]) /\ Len(p) \in 1 .. Len(p)
        BY <1>3, <1>10, <3>1, PathTitles
      <3>4. p[Len(p)] \in Ids
        BY <1>2, <2>1, <3>3 DEF Kept, Range
      <3>5. F[p[Len(p)]] = Path[w]
        BY <3>3, <3>4, WayOn DEF Leads
      <3> QED
        BY <3>1, <3>2, <3>4, <3>5 DEF Titled, TreeInv
    <2>7. Kept(w)'
      BY <1>5, <1>7, <1>9, <2>2, <2>5, <2>6, NothingYet DEF Kept
    <2> QED
      BY <2>3, <2>4, <2>7 DEF Own
  <1>12. owed' \subseteq Workspaces /\ unseen' \subseteq Workspaces /\ astray \subseteq astray' /\ astray' \subseteq Workspaces
    BY <1>1, InvParts DEF FolderTypes
  <1> QED
    BY <1>1, <1>5, <1>7, <1>8, <1>10, <1>11, <1>12, AsideKeeps

LEMMA SettleKeeps ==
  ASSUME FolderInv, NEW w \in Workspaces, Settle(w)
  PROVE  FolderInv'
  <1>1. /\ UNCHANGED chromeVars /\ UNCHANGED <<session, selected, task, pathQueue>>
        /\ UNCHANGED <<unseen, owed, astray>> /\ ~Walking(w) /\ Active(w) /\ rebuild[w].pc = "settle" /\ Rebuilds(w, Idle)
    BY DEF Settle, Walking, Active
  <1>2. Idle \in RebuildRecords /\ Idle.pc = "idle" /\ Idle.path = <<>>
    BY Records
  <1>3. PICK x : /\ x = projection[w] \/ x = [projection[w] EXCEPT !.exists = TRUE, !.ready = TRUE]
                 /\ projection' = [projection EXCEPT ![w] = x]
    <2>1. [projection EXCEPT ![w].exists = TRUE, ![w].ready = TRUE]
            = [projection EXCEPT ![w] = [projection[w] EXCEPT !.exists = TRUE, !.ready = TRUE]]
      BY InvParts DEF FolderTypes, ProjectionRecords
    <2> QED
      BY <2>1, InvParts, SameRecord, ZenonT(60) DEF Settle
  <1>4. x \in ProjectionRecords /\ x.path = projection[w].path /\ (x = projection[w] \/ x.exists)
    BY <1>3, InvParts, SameRecord DEF ProjectionRecords
  <1>5. rebuild'[w] = Idle /\ projection'[w] = x /\ ~Active(w)'
    BY <1>1, <1>2, <1>3, InvParts DEF Rebuilds, FolderTypes, Active
  <1>6. ASSUME NEW F, Titled(F) PROVE StoredOf(F, w)'
    <2>1. PICK p : p = projection[w].path
      OBVIOUS
    <2>2. Leads(F, w, p)' /\ (projection[w].path)' = p
      BY <1>1, <1>4, <1>5, <1>6, <2>1, FacesOf DEF Titled, StoredInv, StoredOf
    <2>3. Leads(F, w, projection[w].path)'
      BY <2>2 DEF Leads
    <2> QED
      BY <1>4, <1>5, <1>6, <2>3 DEF Titled, StoredInv, StoredOf, Built, Absent
  <1>7. ASSUME w \notin astray' PROVE Own(w)'
    <2>1. Own(w) /\ Chosen(w) /\ Kept(w) /\ Ahead(w)
      BY <1>1, <1>7, InvParts
    <2>2. Ids' = Ids /\ Held(w)' = Held(w)
      BY <1>1, FacesOf
    <2>3. projection[w].exists /\ w \in selected /\ x.exists
      BY <1>1, <1>4, <2>1 DEF Chosen
    <2>4. Resolves(w) /\ FolderOf(w) \in Held(w)
      BY <1>1, <2>1 DEF Kept
    <2>5. FolderOf(w)' = FolderOf(w) /\ Built(w)' /\ Resolves(w)'
      BY <1>4, <1>5, <2>2, <2>4 DEF FolderOf, Built, Resolves
    <2>6. Chosen(w)' /\ Ahead(w)'
      BY <1>1, <1>5, <2>1, <2>2, <2>3 DEF Chosen, Ahead, Taking, At
    <2>7. Kept(w)'
      BY <1>2, <1>5, <2>1, <2>2, <2>3, <2>5, NothingYet DEF Kept
    <2>8. Shown(w)'
      BY <2>2, <2>4, <2>5 DEF Shown
    <2> QED
      BY <2>6, <2>7, <2>8 DEF Own
  <1>8. owed' \subseteq Workspaces /\ unseen' \subseteq Workspaces /\ astray \subseteq astray' /\ astray' \subseteq Workspaces
    BY <1>1, InvParts DEF FolderTypes
  <1> QED
    BY <1>1, <1>2, <1>3, <1>4, <1>6, <1>7, <1>8, AsideKeeps

LEMMA FillKeeps ==
  ASSUME FolderInv, NEW w \in Workspaces, Fill(w), projection[w].exists /\ Resolves(w)
  PROVE  FolderInv'
  <1>1. /\ UNCHANGED <<session, selected, task, pathQueue>> /\ UNCHANGED <<unseen, projection, owed, nextId>>
        /\ ~Walking(w) /\ Active(w) /\ rebuild[w].pc = "fill"
        /\ astray' = IF Wanted(w) /\ ~Leaving(w) THEN astray \ {w} ELSE astray
    BY DEF Fill, stateVars, Walking, Active
  <1>2. PICK f : f = FolderOf(w)
    OBVIOUS
  <1>3. PICK F : Titled(F)
    BY DEF FolderInv
  <1>4. f \in Ids /\ F[f] = Path[w]
    <2>1. PICK q : q = projection[w].path
      OBVIOUS
    <2>2. /\ Leads(F, w, q) /\ Len(q) = Len(Path[w]) /\ q \in Seq(Nat) /\ f = q[Len(q)] /\ Range(q) \subseteq Ids
          /\ f \in Range(q)
      BY <1>2, <1>3, <2>1, InvParts, SameRecord, FolderOnPath
      DEF Titled, StoredInv, StoredOf, ProjectionRecords, FolderOf, Last, Resolves
    <2>3. Len(q) \in 1 .. Len(q)
      BY <2>2, PathTitles
    <2> QED
      BY <2>2, <2>3, WayOn DEF Leads
  <1>5. nodes' = [nodes EXCEPT ![f].holds = w]
    BY <1>2 DEF Fill
  <1>6. nodes \in [Ids -> NodeRecords] /\ w \in Workspaces \union {"nothing"} /\ w # "nothing"
    BY InvParts, PathAssumption DEF FolderTypes
  <1>7. /\ Ids' = Ids /\ nodes' \in [Ids -> NodeRecords]
        /\ \A n \in Ids : nodes'[n].parent = nodes[n].parent /\ nodes'[n].title = nodes[n].title
                          /\ nodes'[n].holds = IF n = f THEN w ELSE nodes[n].holds
    BY <1>4, <1>5, <1>6 DEF Ids, NodeRecords
  <1>8. PICK r : r = [Idle EXCEPT !.pc = "settle"]
    OBVIOUS
  <1>9. r \in RebuildRecords /\ r.pc = "settle" /\ r.path = <<>>
    BY <1>8, IdleWith
  <1>10. /\ rebuild' \in [Workspaces -> RebuildRecords] /\ rebuild'[w] = r
         /\ \A v \in Workspaces : v # w => rebuild'[v] = rebuild[v]
    BY <1>8, <1>9, InvParts, RebuildSet DEF Fill
  <1>11. QueueInv'
    <2>1. ~Walking(w)'
      BY <1>9, <1>10 DEF Walking
    <2>2. Walking(w)' = Walking(w)
      BY <1>1, <2>1 DEF Walking
    <2> QED
      BY <1>1, <1>10, <2>2, InvParts, QueueSame
  <1>12. \A v \in Workspaces, id \in Ids : nodes[id].holds = v => F[id] = Path[v]
    BY <1>3, PathAssumption DEF Titled, TreeInv
  <1>13. Held(w)' = {f}
    <2>1. \A id \in Held(w) : id = f
      BY <1>3, <1>4, <1>12 DEF Held, Titled, TreeInv
    <2> QED
      BY <1>4, <1>7, <2>1 DEF Held
  <1>14. \A v \in Workspaces : v # w => Held(v)' = Held(v)
    <2> SUFFICES ASSUME NEW v \in Workspaces, v # w PROVE Held(v)' = Held(v)
      OBVIOUS
    <2>1. nodes[f].holds # v
      <3> SUFFICES ASSUME nodes[f].holds = v PROVE FALSE
        OBVIOUS
      <3>1. Path[v] = Path[w]
        BY <1>4, <1>12
      <3>2. Len(Path[v]) \in 1 .. Len(Path[v]) /\ Way(v, Len(Path[v])) = Path[w]
        BY <3>1, PathTitles, WayOn
      <3> QED
        BY <3>2, WaysPart
    <2> QED
      BY <1>7, <2>1 DEF Held
  <1>15. TreeInv(F)'
    <2>1. TreeInv(F)
      BY <1>3 DEF Titled
    <2> QED
      BY <1>4, <1>7, <2>1, ZenonT(60) DEF TreeInv
  <1>16. \A v \in Workspaces, p \in Seq(Nat) : Leads(F, v, p) => Leads(F, v, p)'
    BY <1>1, <1>7 DEF Leads, Way
  <1>17. Titled(F)'
    <2>1. WalkOf(F, w)'
      BY <1>9, <1>10, WalkOver
    <2>2. ASSUME NEW v \in Workspaces, v # w, rebuild[v].pc = "create"
          PROVE  Walks(v)' /\ Child(rebuild[v].at, Title(v))' = {}
      <3>1. Walks(v) /\ Child(rebuild[v].at, Title(v)) = {}
        BY <1>3, <2>2 DEF Titled, WalkInv, WalkOf
      <3> QED
        BY <1>1, <1>7, <1>10, <2>2, <3>1 DEF Child, Title, Walks
    <2>3. StoredOf(F, w)'
      <3>1. StoredOf(F, w)
        BY <1>3 DEF Titled, StoredInv
      <3> QED
        BY <1>1, <1>16, <3>1, InvParts, StoredStays
    <2> QED
      BY <1>1, <1>3, <1>10, <1>15, <1>16, <2>1, <2>2, <2>3, InvParts, RebuildTitled
  <1>18. \A v \in Workspaces \ astray' : v # w => Own(v)'
    BY <1>1, <1>7, <1>10, <1>14, OthersGoOn
  <1>19. ASSUME w \notin astray' PROVE Own(w)'
    <2>1. Chosen(w)' /\ Ahead(w)'
      <3>1. CASE Wanted(w) /\ ~Leaving(w)
        <4>1. \A t \in Tasks : ~Taking(t, w)
          BY <3>1, InvParts DEF Leaving, Taking, TaskInv
        <4> QED
          BY <1>1, <3>1, <4>1 DEF Chosen, Ahead, Taking, At, Wanted
      <3>2. CASE ~(Wanted(w) /\ ~Leaving(w))
        <4>1. Chosen(w) /\ Ahead(w)
          BY <1>1, <1>19, <3>2, InvParts
        <4> QED
          BY <1>1, <4>1 DEF Chosen, Ahead, Taking, At
      <3> QED
        BY <3>1, <3>2
    <2>2. Built(w)' /\ Resolves(w)' /\ FolderOf(w)' = f
      BY <1>1, <1>2, <1>7 DEF Resolves, Built, FolderOf
    <2>3. Kept(w)'
      BY <1>1, <1>9, <1>10, <1>13, <2>2, NothingYet DEF Kept
    <2>4. Shown(w)'
      BY <1>1, <1>3 DEF Shown, Titled, StoredInv, StoredOf
    <2> QED
      BY <2>1, <2>3, <2>4 DEF Own
  <1>20. /\ nodes' \in [Ids' -> NodeRecords] /\ nextId' \in Nat \ {0} /\ \A n \in Ids' : n \in Nat /\ 0 < n /\ n < nextId'
         /\ owed' \subseteq Workspaces /\ unseen' \subseteq Workspaces /\ astray' \subseteq Workspaces
         /\ pathQueue' \in Seq(Workspaces) /\ projection' \in [Workspaces -> ProjectionRecords]
    BY <1>1, <1>7, InvParts DEF FolderTypes
  <1> QED
    BY <1>1, <1>10, <1>11, <1>17, <1>18, <1>19, <1>20, RebuildMoves

(* Steps of the walk: nothing changes but the folders and the queue.       *)
LEMMA WalkKeeps ==
  ASSUME FolderInv, NEW w \in Workspaces, UNCHANGED <<unseen, stateVars, owed, task, astray>>,
         nodes' \in [Ids' -> NodeRecords], nextId' \in Nat \ {0}, \A n \in Ids' : n \in Nat /\ 0 < n /\ n < nextId',
         Ids \subseteq Ids', \A n \in Ids' : n < nextId => n \in Ids, \A v \in Workspaces : Held(v)' = Held(v),
         rebuild' \in [Workspaces -> RebuildRecords], pathQueue' \in Seq(Workspaces),
         \A v \in Workspaces : v # w => rebuild'[v] = rebuild[v],
         QueueInv', \E G : Titled(G)',
         Active(w), rebuild'[w].pc # "settle", Range(rebuild[w].path) \subseteq Ids => Range(rebuild'[w].path) \subseteq Ids'
  PROVE  FolderInv'
  <1>1. UNCHANGED <<session, selected, projection, unseen, owed, task, astray>>
    BY DEF stateVars
  <1>2. \A v \in Workspaces \ astray' : v # w => Own(v)'
    BY <1>1, OthersGoOn
  <1>3. ASSUME w \notin astray' PROVE Own(w)'
    <2>1. Own(w) /\ Chosen(w) /\ Kept(w)
      BY <1>1, <1>3, InvParts
    <2>2. \A id \in Range(projection[w].path) : id \in Ids' => id \in Ids
      BY StoredOld
    <2>3. projection[w].exists /\ Range(rebuild'[w].path) \subseteq Ids'
      BY <2>1 DEF Chosen, Kept
    <2> QED
      BY <1>1, <2>1, <2>2, <2>3, OwnGoesOn
  <1>4. /\ owed' \subseteq Workspaces /\ unseen' \subseteq Workspaces /\ astray' \subseteq Workspaces
        /\ projection' \in [Workspaces -> ProjectionRecords]
    BY <1>1, InvParts DEF FolderTypes
  <1> QED
    BY <1>1, <1>2, <1>3, <1>4, RebuildMoves

LEMMA TreeComesKeeps ==
  ASSUME FolderInv, NEW w \in Workspaces, TreeComes(w)
  PROVE  FolderInv'
  <1>1. /\ UNCHANGED <<unseen, stateVars, owed, task, astray>> /\ UNCHANGED chromeVars /\ projection' = projection
        /\ rebuild[w].pc = "tree" /\ Active(w) /\ ~Walking(w) /\ pathQueue' = Append(pathQueue, w)
    BY DEF TreeComes, stateVars, Active, Walking
  <1>2. PICK r : r = [Idle EXCEPT !.pc = "path", !.level = 1]
    OBVIOUS
  <1>3. r \in RebuildRecords /\ r.pc = "path" /\ r.path = <<>> /\ r.level = 1 /\ r.at = Container
    BY <1>2, Records DEF Idle, RebuildRecords, Container
  <1>4. /\ rebuild' \in [Workspaces -> RebuildRecords] /\ rebuild'[w] = r
        /\ \A v \in Workspaces : v # w => rebuild'[v] = rebuild[v]
    BY <1>2, <1>3, InvParts, RebuildSet DEF TreeComes
  <1>5. Walking(w)'
    BY <1>3, <1>4 DEF Walking
  <1>6. pathQueue \in Seq(Workspaces)
    BY InvParts DEF FolderTypes
  <1>7. QueueInv' /\ pathQueue' \in Seq(Workspaces) /\ \A v \in Workspaces : Walks(v) => Walks(v)'
    BY <1>1, <1>4, <1>5, <1>6, InvParts, QueueGrows
  <1>8. PICK F : Titled(F)
    BY DEF FolderInv
  <1>9. Titled(F)'
    <2>1. TreeInv(F)' /\ \A v \in Workspaces, p \in Seq(Nat) : Leads(F, v, p) => Leads(F, v, p)'
      BY <1>1, <1>8, FacesOf DEF Titled
    <2>2. WalkOf(F, w)'
      <3>1. Leads(F, w, <<>>)' /\ (rebuild[w].path)' = <<>> /\ Len(Path[w]) \in Nat \ {0} /\ Len(<<>>) = 0
        BY <1>3, <1>4, LeadsNowhere, PathTitles
      <3>2. Leads(F, w, rebuild[w].path)'
        BY <3>1 DEF Leads
      <3> QED
        BY <1>3, <1>4, <3>1, <3>2 DEF WalkOf, Walking
    <2>3. ASSUME NEW v \in Workspaces, v # w, rebuild[v].pc = "create"
          PROVE  Walks(v)' /\ Child(rebuild[v].at, Title(v))' = {}
      <3>1. Walks(v) /\ Child(rebuild[v].at, Title(v)) = {}
        BY <1>8, <2>3 DEF Titled, WalkInv, WalkOf
      <3> QED
        BY <1>1, <1>4, <1>7, <2>3, <3>1, FacesOf DEF Child, Title
    <2>4. StoredOf(F, w)'
      BY <1>1, <1>8, <2>1, InvParts, StoredStays DEF Titled, StoredInv
    <2> QED
      BY <1>1, <1>4, <1>8, <2>1, <2>2, <2>3, <2>4, InvParts, RebuildTitled
  <1>10. Range(rebuild'[w].path) \subseteq Ids'
    BY <1>3, <1>4, NothingYet
  <1> QED
    BY <1>1, <1>3, <1>4, <1>7, <1>9, <1>10, FacesOf, WalkKeeps

LEMMA FailsKeeps ==
  ASSUME FolderInv, NEW w \in Workspaces, Walking(w), Walks(w), Fails(w),
         UNCHANGED <<unseen, stateVars, chromeVars, owed, task, astray>>
  PROVE  FolderInv'
  <1>1. /\ UNCHANGED <<unseen, stateVars, owed, task, astray>> /\ UNCHANGED chromeVars /\ projection' = projection
        /\ Active(w) /\ pathQueue' = Tail(pathQueue) /\ pathQueue \in Seq(Workspaces)
    BY InvParts DEF Fails, stateVars, Active, Walking, FolderTypes
  <1>2. Idle \in RebuildRecords /\ Idle.pc = "idle" /\ Idle.path = <<>>
    BY Records
  <1>3. /\ rebuild' \in [Workspaces -> RebuildRecords] /\ rebuild'[w] = Idle
        /\ \A v \in Workspaces : v # w => rebuild'[v] = rebuild[v]
    BY <1>2, InvParts, RebuildSet DEF Fails
  <1>4. QueueInv' /\ pathQueue' \in Seq(Workspaces)
    BY <1>1, <1>2, <1>3, InvParts, QueueShrinks DEF Walking
  <1>5. PICK F : Titled(F)
    BY DEF FolderInv
  <1>6. Titled(F)'
    <2>1. TreeInv(F)' /\ \A v \in Workspaces, p \in Seq(Nat) : Leads(F, v, p) => Leads(F, v, p)'
      BY <1>1, <1>5, FacesOf DEF Titled
    <2>2. WalkOf(F, w)'
      BY <1>2, <1>3, WalkOver
    <2>3. \A v \in Workspaces : v # w => rebuild[v].pc # "create"
      BY <1>5, HeadIsAlone DEF Titled
    <2>4. StoredOf(F, w)'
      BY <1>1, <1>5, <2>1, InvParts, StoredStays DEF Titled, StoredInv
    <2> QED
      BY <1>1, <1>3, <1>5, <2>1, <2>2, <2>3, <2>4, InvParts, RebuildTitled
  <1>7. Range(rebuild'[w].path) \subseteq Ids'
    BY <1>2, <1>3, NothingYet
  <1> QED
    BY <1>1, <1>2, <1>3, <1>4, <1>6, <1>7, FacesOf, WalkKeeps

LEMMA StepsDown ==
  ASSUME FolderInv, NEW w \in Workspaces, Walking(w), Walks(w), UNCHANGED <<unseen, stateVars, owed, task, astray>>,
         nodes' \in [Ids' -> NodeRecords], nextId' \in Nat \ {0}, \A n \in Ids' : n \in Nat /\ 0 < n /\ n < nextId',
         Ids \subseteq Ids', \A n \in Ids' : n < nextId => n \in Ids, \A v \in Workspaces : Held(v)' = Held(v),
         NEW id \in Ids', Down(w, id), NEW F, Titled(F), NEW G, TreeInv(G)',
         \A v \in Workspaces, p \in Seq(Nat) : Leads(F, v, p) => Leads(G, v, p)',
         G[id] = Way(w, rebuild[w].level)
  PROVE  FolderInv'
  <1>1. /\ QueueInv' /\ Titled(G)' /\ rebuild' \in [Workspaces -> RebuildRecords] /\ pathQueue' \in Seq(Workspaces)
        /\ rebuild'[w].path = Append(rebuild[w].path, id) /\ rebuild'[w].pc \in {"path", "place"}
        /\ \A v \in Workspaces : v # w => rebuild'[v] = rebuild[v]
    BY InvParts, DownKeeps DEF stateVars
  <1>2. Range(rebuild[w].path) \subseteq Ids => Range(rebuild'[w].path) \subseteq Ids'
    <2>1. PICK p : p = rebuild[w].path
      OBVIOUS
    <2>2. p \in Seq(Nat) /\ id \in Nat
      BY <2>1, InvParts, SameRecord DEF RebuildRecords
    <2>3. PICK q : q = Append(p, id)
      OBVIOUS
    <2>4. Range(q) \subseteq Range(p) \union {id}
      BY <2>2, <2>3 DEF Range
    <2> QED
      BY <1>1, <2>1, <2>3, <2>4
  <1> QED
    BY <1>1, <1>2, WalkKeeps DEF Active, Walking

LEMMA FindFolderKeeps ==
  ASSUME FolderInv, NEW w \in Workspaces, FindFolder(w)
  PROVE  FolderInv'
  <1>1. /\ UNCHANGED <<unseen, stateVars, chromeVars, owed, task, astray>> /\ UNCHANGED <<unseen, stateVars, owed, task, astray>>
        /\ UNCHANGED chromeVars /\ UNCHANGED <<nodes, nextId, projection>>
        /\ rebuild[w].pc = "path" /\ Walks(w) /\ Walking(w) /\ Active(w)
    BY DEF FindFolder, stateVars, chromeVars, Walking, Active
  <1>2. PICK F : Titled(F)
    BY DEF FolderInv
  <1>3. TreeInv(F)' /\ \A v \in Workspaces, p \in Seq(Nat) : Leads(F, v, p) => Leads(F, v, p)'
    BY <1>1, <1>2, FacesOf DEF Titled
  <1>4. CASE Gone(w) /\ Fails(w)
    BY <1>1, <1>4, FailsKeeps
  <1>5. CASE ~Gone(w) /\ \E id \in Child(rebuild[w].at, Title(w)) : Down(w, id)
    <2>1. PICK id \in Child(rebuild[w].at, Title(w)) : Down(w, id)
      BY <1>5
    <2>2. id \in Ids /\ F[id] = Way(w, rebuild[w].level)
      BY <1>1, <1>2, <1>5, InvParts, ChildOnWay DEF Titled, WalkInv
    <2>3. \A v \in Workspaces : Held(v)' = Held(v)
      BY <1>1, FacesOf
    <2>4. /\ nodes' \in [Ids' -> NodeRecords] /\ nextId' \in Nat \ {0} /\ \A n \in Ids' : n \in Nat /\ 0 < n /\ n < nextId'
          /\ Ids' = Ids
      BY <1>1, FacesOf
    <2> QED
      BY <1>1, <1>2, <1>3, <2>1, <2>2, <2>3, <2>4, StepsDown
  <1>6. CASE /\ Child(rebuild[w].at, Title(w)) = {} /\ Rebuilds(w, [rebuild[w] EXCEPT !.pc = "create"])
             /\ pathQueue' = pathQueue
    <2>1. PICK r : r = [rebuild[w] EXCEPT !.pc = "create"]
      OBVIOUS
    <2>2. /\ r \in RebuildRecords /\ r.pc = "create" /\ r.path = rebuild[w].path /\ r.level = rebuild[w].level
          /\ r.at = rebuild[w].at
      BY <2>1, InvParts, SameRecord DEF RebuildRecords
    <2>3. /\ rebuild' \in [Workspaces -> RebuildRecords] /\ rebuild'[w] = r
          /\ \A v \in Workspaces : v # w => rebuild'[v] = rebuild[v]
      BY <1>6, <2>1, <2>2, InvParts, RebuildSet
    <2>4. Walking(w)' = Walking(w)
      <3>1. Walking(w)'
        BY <2>2, <2>3 DEF Walking
      <3> QED
        BY <1>1, <3>1 DEF Walking
    <2>5. QueueInv'
      BY <1>6, <2>3, <2>4, InvParts, QueueSame
    <2>6. Titled(F)'
      <3>1. WalkOf(F, w)'
        <4>1. PICK p : p = rebuild[w].path
          OBVIOUS
        <4>2. Leads(F, w, p)' /\ (rebuild[w].path)' = p
          BY <1>1, <1>2, <2>2, <2>3, <4>1, FacesOf DEF Titled, WalkInv, WalkOf
        <4>3. Leads(F, w, rebuild[w].path)'
          BY <4>2 DEF Leads
        <4>4. Walks(w)' /\ Child(rebuild[w].at, Title(w))' = {}
          BY <1>1, <1>6, <2>2, <2>3 DEF Walks, Child, Ids, Title
        <4>5. WalkOf(F, w)
          BY <1>2 DEF Titled, WalkInv
        <4> QED
          BY <1>1, <2>2, <2>3, <4>3, <4>4, <4>5 DEF WalkOf, Walking
      <3>2. \A v \in Workspaces : v # w => rebuild[v].pc # "create"
        BY <1>1, <1>2, HeadIsAlone DEF Titled
      <3>3. StoredOf(F, w)'
        BY <1>1, <1>2, <1>3, InvParts, StoredStays DEF Titled, StoredInv
      <3> QED
        BY <1>1, <1>2, <1>3, <2>3, <3>1, <3>2, <3>3, InvParts, RebuildTitled
    <2>7. /\ nodes' \in [Ids' -> NodeRecords] /\ nextId' \in Nat \ {0} /\ \A n \in Ids' : n \in Nat /\ 0 < n /\ n < nextId'
          /\ Ids' = Ids /\ (\A v \in Workspaces : Held(v)' = Held(v)) /\ pathQueue' \in Seq(Workspaces)
      BY <1>1, <1>6, InvParts, FacesOf DEF FolderTypes
    <2> QED
      BY <1>1, <2>2, <2>3, <2>5, <2>6, <2>7, WalkKeeps
  <1> QED
    BY <1>4, <1>5, <1>6 DEF FindFolder

(* No folder has the titles that the walk has found no folder for.         *)
LEMMA WayIsFree ==
  ASSUME FolderTypes, NEW F, TreeInv(F), NEW w \in Workspaces, WalkOf(F, w), Walking(w), ~Gone(w),
         Child(rebuild[w].at, Title(w)) = {}, NEW m \in Ids
  PROVE  F[m] # Way(w, rebuild[w].level)
  <1> SUFFICES ASSUME F[m] = Way(w, rebuild[w].level) PROVE FALSE
    OBVIOUS
  <1>1. PICK q : q = nodes[m].parent
    OBVIOUS
  <1>2. PICK c : c = nodes[m].title
    OBVIOUS
  <1>3. PICK a : a = rebuild[w].at
    OBVIOUS
  <1>4. PICK b : b = Title(w)
    OBVIOUS
  <1>5. c \in Titles /\ b \in Titles /\ (rebuild[w].level = 1 \/ rebuild[w].level > 1)
    BY <1>2, <1>4, WayNext DEF FolderTypes, NodeRecords
  <1>6. /\ q = Container => F[m] = <<c>>
        /\ q # Container => q \in Ids /\ F[q] \in Seq(Titles) /\ Len(F[q]) \in Nat \ {0} /\ F[m] = Append(F[q], c)
    BY <1>1, <1>2, TitlesNotEmpty DEF TreeInv
  <1>7. ~(q = a /\ c = b)
    BY <1>1, <1>2, <1>3, <1>4 DEF Child
  <1>8. CASE rebuild[w].level = 1
    <2>1. a = Container /\ F[m] = <<b>>
      BY <1>3, <1>4, <1>8, WayNext
    <2>2. CASE q = Container
      BY <1>6, <1>7, <2>1, <2>2
    <2>3. CASE q # Container
      <3>1. PICK s : s = F[q]
        OBVIOUS
      <3>2. s \in Seq(Titles) /\ Len(s) \in Nat \ {0}
        BY <1>6, <2>1, <2>3, <3>1
      <3>3. Append(s, c) = <<b>>
        BY <1>6, <2>1, <2>3, <3>1
      <3>4. Len(Append(s, c)) = Len(s) + 1
        BY <1>5, <3>2
      <3>5. Len(<<b>>) = 1
        OBVIOUS
      <3> QED
        BY <3>2, <3>3, <3>4, <3>5
    <2> QED
      BY <2>2, <2>3
  <1>9. CASE rebuild[w].level > 1
    <2>1. a \in Ids /\ a # Container /\ F[m] = Append(F[a], b) /\ F[a] \in Seq(Titles) /\ Len(F[a]) \in Nat \ {0}
      BY <1>3, <1>4, <1>9, WayNext, TitlesNotEmpty
    <2>2. CASE q = Container
      <3>1. PICK s : s = F[a]
        OBVIOUS
      <3>2. s \in Seq(Titles) /\ Len(s) \in Nat \ {0}
        BY <1>6, <2>1, <2>2, <3>1
      <3>3. Append(s, b) = <<c>>
        BY <1>6, <2>1, <2>2, <3>1
      <3>4. Len(Append(s, b)) = Len(s) + 1
        BY <1>5, <3>2
      <3>5. Len(<<c>>) = 1
        OBVIOUS
      <3> QED
        BY <3>2, <3>3, <3>4, <3>5
    <2>3. CASE q # Container
      <3>1. F[q] = F[a] /\ c = b
        <4>1. PICK s : s = F[q]
          OBVIOUS
        <4>2. PICK r : r = F[a]
          OBVIOUS
        <4>3. s \in Seq(Titles) /\ r \in Seq(Titles) /\ Append(s, c) = Append(r, b)
          BY <1>6, <2>1, <2>3, <4>1, <4>2
        <4>4. s = r /\ c = b
          BY <1>5, <4>3, AppendOnce
        <4> QED
          BY <4>1, <4>2, <4>4
      <3>2. q = a
        BY <1>6, <2>1, <2>3, <3>1 DEF TreeInv
      <3> QED
        BY <1>7, <3>1, <3>2
    <2> QED
      BY <2>2, <2>3
  <1> QED
    BY <1>5, <1>8, <1>9

LEMMA NewFolder ==
  ASSUME FolderTypes, NEW F, TreeInv(F), NEW w \in Workspaces, WalkOf(F, w), Walking(w), ~Gone(w),
         Child(rebuild[w].at, Title(w)) = {}, nextId' = nextId + 1,
         nodes' = [n \in Ids \union {nextId} |->
                     IF n = nextId THEN [parent |-> rebuild[w].at, title |-> Title(w), holds |-> "nothing"] ELSE nodes[n]]
  PROVE  /\ \E K : TreeInv(K)' /\ K[nextId] = Way(w, rebuild[w].level) /\ \A n \in Ids : K[n] = F[n]
         /\ Ids' = Ids \union {nextId} /\ nodes' \in [Ids' -> NodeRecords] /\ nextId' \in Nat \ {0}
         /\ \A n \in Ids' : n \in Nat /\ 0 < n /\ n < nextId'
         /\ \A v \in Workspaces : Held(v)' = Held(v)
  <1>1. PICK new : new = nextId
    OBVIOUS
  <1>2. PICK a : a = rebuild[w].at
    OBVIOUS
  <1>3. PICK b : b = Title(w)
    OBVIOUS
  <1>4. PICK s : s = Way(w, rebuild[w].level)
    OBVIOUS
  <1>5. new \in Nat /\ new \notin Ids /\ \A n \in Ids : n \in Nat /\ 0 < n /\ n < new
    BY <1>1 DEF FolderTypes
  <1>6. /\ Ids' = Ids \union {new} /\ nodes'[new] = [parent |-> a, title |-> b, holds |-> "nothing"]
        /\ \A n \in Ids : nodes'[n] = nodes[n]
    BY <1>1, <1>2, <1>3, <1>5 DEF Ids
  <1>7. /\ s \in Seq(Titles) /\ (Len(s) > 1 => s[1] # Legacy) /\ b \in Titles
        /\ rebuild[w].level \in 1 .. Len(Path[w]) /\ (rebuild[w].level = 1 \/ rebuild[w].level > 1)
    <2>1. PICK k : k = rebuild[w].level
      OBVIOUS
    <2>2. k \in 1 .. Len(Path[w]) /\ b \in Titles
      BY <1>3, <2>1, WayNext
    <2>3. Path[w] \in Seq(Titles) /\ Len(Path[w]) \in Nat /\ Path[w][1] # Legacy
      BY PathTitles
    <2>4. k = 1 \/ k > 1
      BY <2>2, <2>3
    <2>5. s \in Seq(Titles) /\ (Len(s) > 1 => s[1] # Legacy)
      BY <1>4, <2>1, <2>2, <2>3, WayTitles
    <2> QED
      BY <2>1, <2>2, <2>4, <2>5
  <1>8. /\ a = Container => s = <<b>>
        /\ a # Container => a \in Ids /\ s = Append(F[a], b)
    BY <1>2, <1>3, <1>4, <1>7, WayNext
  <1>9. \A m \in Ids : F[m] # s
    BY <1>4, WayIsFree
  <1>10. 0 < new
    BY <1>1 DEF FolderTypes
  <1> DEFINE G == [n \in Ids \union {new} |-> IF n = new THEN s ELSE F[n]]
  <1>11. PICK H : H = G
    OBVIOUS
  <1>12. H \in [Ids' -> Seq(Titles)] /\ H[new] = s /\ \A n \in Ids : H[n] = F[n]
    BY <1>5, <1>6, <1>7, <1>11 DEF TreeInv
  <1> HIDE DEF G
  <1>13. \A n \in Ids' : nodes'[n].parent = Container => H[n] = <<nodes'[n].title>>
    <2> SUFFICES ASSUME NEW n \in Ids', nodes'[n].parent = Container PROVE H[n] = <<nodes'[n].title>>
      OBVIOUS
    <2>1. CASE n = new
      BY <1>6, <1>8, <1>12, <2>1
    <2>2. CASE n # new
      <3>1. n \in Ids /\ nodes[n].parent = Container /\ nodes'[n] = nodes[n]
        BY <1>6, <2>2
      <3>2. nodes[n].parent = Container => F[n] = <<nodes[n].title>>
        BY <3>1, ZenonT(60) DEF TreeInv
      <3> QED
        BY <1>12, <3>1, <3>2
    <2> QED
      BY <2>1, <2>2
  <1>14. \A n \in Ids' : nodes'[n].parent # Container =>
           nodes'[n].parent \in Ids' /\ H[n] = Append(H[nodes'[n].parent], nodes'[n].title)
    <2> SUFFICES ASSUME NEW n \in Ids', nodes'[n].parent # Container
                 PROVE  nodes'[n].parent \in Ids' /\ H[n] = Append(H[nodes'[n].parent], nodes'[n].title)
      OBVIOUS
    <2>1. CASE n = new
      <3>1. nodes'[n].parent = a /\ nodes'[n].title = b /\ H[n] = s
        BY <1>6, <1>12, <2>1
      <3>2. a \in Ids /\ s = Append(F[a], b) /\ H[a] = F[a]
        BY <1>8, <1>12, <3>1
      <3>3. nodes'[n].parent \in Ids'
        BY <1>6, <3>1, <3>2
      <3>4. H[n] = Append(H[a], b)
        BY <3>1, <3>2
      <3> QED
        BY <3>1, <3>3, <3>4
    <2>2. CASE n # new
      <3>1. n \in Ids /\ nodes[n].parent # Container /\ nodes'[n] = nodes[n]
        BY <1>6, <2>2
      <3>2. nodes[n].parent \in Ids /\ F[n] = Append(F[nodes[n].parent], nodes[n].title)
        BY <3>1 DEF TreeInv
      <3> QED
        BY <1>6, <1>12, <3>1, <3>2
    <2> QED
      BY <2>1, <2>2
  <1>15. \A m, n \in Ids' : H[m] = H[n] => m = n
    BY <1>6, <1>9, <1>12 DEF TreeInv
  <1>16. \A n \in Ids' : Len(H[n]) > 1 => H[n][1] # Legacy
    BY <1>6, <1>7, <1>12 DEF TreeInv
  <1>17. \A n \in Ids' : nodes'[n].holds # "nothing" => H[n] = Path[nodes'[n].holds]
    <2> SUFFICES ASSUME NEW n \in Ids', nodes'[n].holds # "nothing" PROVE H[n] = Path[nodes'[n].holds]
      OBVIOUS
    <2>1. n # new
      BY <1>6
    <2>2. n \in Ids /\ nodes'[n] = nodes[n] /\ H[n] = F[n]
      BY <1>6, <1>12, <2>1
    <2>3. nodes[n].holds # "nothing" => F[n] = Path[nodes[n].holds]
      BY <2>2, ZenonT(60) DEF TreeInv
    <2> QED
      BY <2>2, <2>3
  <1>18. TreeInv(H)'
    BY <1>12, <1>13, <1>14, <1>15, <1>16, <1>17 DEF TreeInv
  <1>19. \A v \in Workspaces : Held(v)' = Held(v)
    <2>1. \A v \in Workspaces : v # "nothing"
      BY PathAssumption
    <2>2. nodes'[new].holds = "nothing"
      BY <1>6
    <2>3. \A v \in Workspaces : \A n : (n \in Ids' /\ nodes'[n].holds = v) <=> (n \in Ids /\ nodes[n].holds = v)
      BY <1>5, <1>6, <2>1, <2>2
    <2>4. ASSUME NEW v \in Workspaces PROVE Held(v)' = Held(v)
      <3>1. \A n : n \in Held(v)' <=> n \in Held(v)
        BY <2>3 DEF Held
      <3> QED
        BY <3>1 DEF Held
    <2> QED
      BY <2>4
  <1>20. nodes' \in [Ids' -> NodeRecords]
    <2>1. a \in Nat /\ nodes \in [Ids -> NodeRecords]
      BY <1>2 DEF FolderTypes, RebuildRecords
    <2>2. [parent |-> a, title |-> b, holds |-> "nothing"] \in NodeRecords /\ \A n \in Ids : nodes[n] \in NodeRecords
      BY <1>7, <2>1 DEF NodeRecords
    <2> QED
      BY <1>1, <1>2, <1>3, <1>6, <2>2
  <1>21. \A n \in Ids' : n \in Nat /\ 0 < n /\ n < nextId'
    BY <1>1, <1>5, <1>6, <1>10
  <1>22. \E K : TreeInv(K)' /\ K[nextId] = Way(w, rebuild[w].level) /\ \A n \in Ids : K[n] = F[n]
    BY <1>1, <1>4, <1>12, <1>18
  <1>23. nextId' \in Nat \ {0}
    BY <1>1, <1>5
  <1> QED
    BY <1>1, <1>6, <1>19, <1>20, <1>21, <1>22, <1>23

(* The root under its old title gets the new one.                          *)
LEMMA RootRenamed ==
  ASSUME FolderTypes, NEW F, TreeInv(F), NEW w \in Workspaces, WalkOf(F, w), Walking(w), ~Gone(w),
         Child(rebuild[w].at, Title(w)) = {}, rebuild[w].level = 1, NEW id \in Child(Container, Legacy),
         nodes' = [nodes EXCEPT ![id].title = Title(w)], nextId' = nextId
  PROVE  /\ \E K : /\ TreeInv(K)' /\ K[id] = Way(w, rebuild[w].level)
                   /\ \A v \in Workspaces, p \in Seq(Nat) : Leads(F, v, p) => Leads(K, v, p)'
         /\ Ids' = Ids /\ id \in Ids /\ nodes' \in [Ids' -> NodeRecords] /\ \A v \in Workspaces : Held(v)' = Held(v)
  <1>1. PICK b : b = Title(w)
    OBVIOUS
  <1>2. PICK s : s = <<b>>
    OBVIOUS
  <1>3. /\ rebuild[w].at = Container /\ Way(w, rebuild[w].level) = s /\ b \in Titles
        /\ s \in Seq(Titles) /\ Len(s) = 1
    BY <1>1, <1>2, WayNext
  <1>4. id \in Ids /\ nodes[id].parent = Container /\ nodes[id].title = Legacy /\ F[id] = <<Legacy>>
    BY DEF Child, TreeInv
  <1>5. nodes \in [Ids -> NodeRecords] /\ \A n \in Ids : n # Container
    BY DEF FolderTypes, Container
  <1>6. /\ Ids' = Ids /\ nodes' \in [Ids' -> NodeRecords]
        /\ \A n \in Ids : nodes'[n].parent = nodes[n].parent /\ nodes'[n].holds = nodes[n].holds
                          /\ nodes'[n].title = IF n = id THEN b ELSE nodes[n].title
    BY <1>1, <1>3, <1>4, <1>5 DEF Ids, NodeRecords
  <1>7. \A m \in Ids : F[m] # s
    BY <1>3, WayIsFree
  <1>8. \A v \in Workspaces : \A j \in 1 .. Len(Path[v]) : F[id] # Way(v, j)
    <2> SUFFICES ASSUME NEW v \in Workspaces, NEW j \in 1 .. Len(Path[v]), F[id] = Way(v, j) PROVE FALSE
      OBVIOUS
    <2>1. Way(v, j)[1] # Legacy
      BY WayTitles, PathTitles
    <2>2. F[id][1] = Legacy
      BY <1>4
    <2> QED
      BY <2>1, <2>2
  <1>9. \A n \in Ids : nodes[n].parent # id
    <2> SUFFICES ASSUME NEW n \in Ids, nodes[n].parent = id PROVE FALSE
      OBVIOUS
    <2>1. PICK c : c = nodes[n].title
      OBVIOUS
    <2>2. c \in Titles /\ Legacy \in Titles
      <3>1. Legacy \in Titles
        BY DEF Titles
      <3> QED
        BY <1>5, <2>1, <3>1 DEF NodeRecords
    <2>3. F[n] = Append(<<Legacy>>, c)
      BY <1>4, <1>5, <2>1 DEF TreeInv
    <2>4. PICK z : z = Append(<<Legacy>>, c)
      OBVIOUS
    <2>5. Len(z) = 2 /\ z[1] = Legacy
      <3>1. PICK d \in Titles : d = Legacy
        BY <2>2
      <3>2. Len(Append(<<d>>, c)) = 2 /\ Append(<<d>>, c)[1] = d
        BY <2>2
      <3> QED
        BY <2>4, <3>1, <3>2
    <2>6. Len(z) > 1 => z[1] # Legacy
      BY <2>3, <2>4 DEF TreeInv
    <2> QED
      BY <2>5, <2>6
  <1>10. nodes[id].holds = "nothing"
    <2> SUFFICES ASSUME nodes[id].holds # "nothing" PROVE FALSE
      OBVIOUS
    <2>1. PICK v : v = nodes[id].holds
      OBVIOUS
    <2>2. v \in Workspaces /\ F[id] = Path[v]
      BY <1>4, <1>5, <2>1 DEF NodeRecords, TreeInv
    <2>3. Len(Path[v]) \in 1 .. Len(Path[v]) /\ Path[v] = Way(v, Len(Path[v]))
      BY <2>2, WayOn, PathTitles
    <2> QED
      BY <1>8, <2>2, <2>3
  <1> DEFINE G == [n \in Ids |-> IF n = id THEN s ELSE F[n]]
  <1>11. PICK H : H = G
    OBVIOUS
  <1>12. H \in [Ids' -> Seq(Titles)] /\ H[id] = s /\ \A n \in Ids : n # id => H[n] = F[n]
    BY <1>3, <1>4, <1>6, <1>11 DEF TreeInv
  <1> HIDE DEF G
  <1>13. \A n \in Ids' : nodes'[n].parent = Container => H[n] = <<nodes'[n].title>>
    <2> SUFFICES ASSUME NEW n \in Ids', nodes'[n].parent = Container PROVE H[n] = <<nodes'[n].title>>
      OBVIOUS
    <2>1. CASE n = id
      BY <1>2, <1>4, <1>6, <1>12, <2>1
    <2>2. CASE n # id
      BY <1>6, <1>12, <2>2 DEF TreeInv
    <2> QED
      BY <2>1, <2>2
  <1>14. ASSUME NEW n \in Ids', nodes'[n].parent # Container
         PROVE  nodes'[n].parent \in Ids' /\ H[n] = Append(H[nodes'[n].parent], nodes'[n].title)
    <2>1. n \in Ids /\ n # id /\ nodes'[n].parent = nodes[n].parent /\ nodes'[n].title = nodes[n].title
      BY <1>4, <1>6, <1>14
    <2>2. nodes[n].parent \in Ids /\ F[n] = Append(F[nodes[n].parent], nodes[n].title) /\ nodes[n].parent # id
      BY <1>9, <1>14, <2>1 DEF TreeInv
    <2>3. H[n] = F[n] /\ H[nodes[n].parent] = F[nodes[n].parent]
      BY <1>12, <2>1, <2>2
    <2> QED
      BY <1>6, <2>1, <2>2, <2>3
  <1>15. \A m, n \in Ids' : H[m] = H[n] => m = n
    <2>1. \A m, n \in Ids : F[m] = F[n] => m = n
      BY DEF TreeInv
    <2> QED
      BY <1>6, <1>7, <1>12, <2>1
  <1>16. \A n \in Ids' : Len(H[n]) > 1 => H[n][1] # Legacy
    <2>1. \A m \in Ids : Len(F[m]) > 1 => F[m][1] # Legacy
      BY DEF TreeInv
    <2>2. ~(Len(H[id]) > 1)
      <3>1. H[id] = s /\ Len(s) = 1
        BY <1>3, <1>12
      <3> QED
        BY <3>1
    <2> QED
      BY <1>6, <1>12, <2>1, <2>2
  <1>17. \A n \in Ids' : nodes'[n].holds # "nothing" => H[n] = Path[nodes'[n].holds]
    BY <1>6, <1>10, <1>12 DEF TreeInv
  <1>18. TreeInv(H)'
    BY <1>12, <1>13, <1>14, <1>15, <1>16, <1>17 DEF TreeInv
  <1>19. \A v \in Workspaces : Held(v)' = Held(v)
    BY <1>6 DEF Held
  <1>20. \A v \in Workspaces, p \in Seq(Nat) : Leads(F, v, p) => Leads(H, v, p)'
    <2> SUFFICES ASSUME NEW v \in Workspaces, NEW p \in Seq(Nat), Leads(F, v, p) PROVE Leads(H, v, p)'
      OBVIOUS
    <2>1. \A n \in Ids' : n < nextId => n \in Ids /\ (\A j \in 1 .. Len(Path[v]) : F[n] = Way(v, j) => H[n] = Way(v, j))
      BY <1>6, <1>8, <1>12
    <2>2. Len(Path[v]) \in Nat /\ nextId' >= nextId /\ nextId \in Nat /\ nextId' \in Nat
      BY PathTitles DEF FolderTypes
    <2> QED
      BY <2>1, <2>2, LeadsOn
  <1>21. H[id] = Way(w, rebuild[w].level)
    BY <1>3, <1>12
  <1> QED
    BY <1>4, <1>6, <1>18, <1>19, <1>20, <1>21

LEMMA CreateFolderKeeps ==
  ASSUME FolderInv, NEW w \in Workspaces, CreateFolder(w)
  PROVE  FolderInv'
  <1>1. PICK F : Titled(F)
    BY DEF FolderInv
  <1>2. TreeInv(F) /\ WalkOf(F, w) /\ rebuild[w].pc = "create" /\ Walking(w)
    BY <1>1 DEF CreateFolder, Walking, Titled, WalkInv
  <1>3. Walks(w) /\ Child(rebuild[w].at, Title(w)) = {} /\ UNCHANGED <<unseen, stateVars, owed, task, astray>>
    BY <1>2 DEF WalkOf, CreateFolder
  <1>4. CASE Gone(w) /\ Fails(w) /\ UNCHANGED chromeVars
    <2>1. UNCHANGED <<unseen, stateVars, chromeVars, owed, task, astray>>
      BY <1>3, <1>4
    <2> QED
      BY <1>2, <1>3, <1>4, <2>1, FailsKeeps
  <1>5. ASSUME ~Gone(w), NEW id \in OldRoot(w), nodes' = [nodes EXCEPT ![id].title = Title(w)], Down(w, id), nextId' = nextId
        PROVE  FolderInv'
    <2>1. rebuild[w].level = 1 /\ id \in Child(Container, Legacy)
      BY <1>5 DEF OldRoot
    <2>2. PICK K : /\ TreeInv(K)' /\ K[id] = Way(w, rebuild[w].level)
                   /\ \A v \in Workspaces, p \in Seq(Nat) : Leads(F, v, p) => Leads(K, v, p)'
      BY <1>2, <1>3, <1>5, <2>1, InvParts, RootRenamed
    <2>3. Ids' = Ids /\ id \in Ids /\ nodes' \in [Ids' -> NodeRecords] /\ \A v \in Workspaces : Held(v)' = Held(v)
      BY <1>2, <1>3, <1>5, <2>1, InvParts, RootRenamed
    <2>4. nextId' \in Nat \ {0} /\ \A n \in Ids' : n \in Nat /\ 0 < n /\ n < nextId'
      BY <1>5, <2>3, InvParts DEF FolderTypes
    <2> QED
      BY <1>1, <1>2, <1>3, <1>5, <2>2, <2>3, <2>4, StepsDown
  <1>6. ASSUME ~Gone(w), nextId' = nextId + 1, Down(w, nextId),
               nodes' = [n \in Ids \union {nextId} |->
                           IF n = nextId THEN [parent |-> rebuild[w].at, title |-> Title(w), holds |-> "nothing"] ELSE nodes[n]]
        PROVE  FolderInv'
    <2>1. PICK new : new = nextId
      OBVIOUS
    <2>2. PICK K : TreeInv(K)' /\ K[new] = Way(w, rebuild[w].level) /\ \A n \in Ids : K[n] = F[n]
      BY <1>2, <1>3, <1>6, <2>1, InvParts, NewFolder
    <2>3. /\ Ids' = Ids \union {new} /\ nodes' \in [Ids' -> NodeRecords] /\ nextId' \in Nat \ {0}
          /\ \A n \in Ids' : n \in Nat /\ 0 < n /\ n < nextId'
          /\ \A v \in Workspaces : Held(v)' = Held(v)
      BY <1>2, <1>3, <1>6, <2>1, InvParts, NewFolder
    <2>4. new \in Nat /\ nextId' = new + 1
      BY <1>6, <2>1, InvParts DEF FolderTypes
    <2>5. \A n \in Ids' : n < new => n \in Ids
      BY <2>3, <2>4
    <2>6. \A v \in Workspaces, p \in Seq(Nat) : Leads(F, v, p) => Leads(K, v, p)'
      <3> SUFFICES ASSUME NEW v \in Workspaces, NEW p \in Seq(Nat), Leads(F, v, p) PROVE Leads(K, v, p)'
        OBVIOUS
      <3>1. Len(Path[v]) \in Nat /\ nextId' >= nextId /\ nextId \in Nat /\ nextId' \in Nat
        BY <2>1, <2>4, PathTitles
      <3>2. \A n \in Ids' : n < nextId => n \in Ids /\ (\A j \in 1 .. Len(Path[v]) : F[n] = Way(v, j) => K[n] = Way(v, j))
        BY <2>1, <2>2, <2>5
      <3> QED
        BY <3>1, <3>2, LeadsOn
    <2>7. Down(w, new) /\ new \in Ids' /\ Ids \subseteq Ids' /\ \A n \in Ids' : n < nextId => n \in Ids
      BY <1>6, <2>1, <2>3, <2>5
    <2> QED
      BY <1>1, <1>2, <1>3, <2>2, <2>3, <2>6, <2>7, StepsDown
  <1> QED
    BY <1>4, <1>5, <1>6 DEF CreateFolder

-----------------------------------------------------------------------------
(* The first state, and every step.                                        *)
LEMMA FoldersFirst == ASSUME Init PROVE FolderInv
  <1>1. /\ session = TRUE /\ selected \subseteq Workspaces
        /\ projection = [w \in Workspaces |-> IF w \in selected THEN Unbuilt ELSE Absent]
        /\ nextId = 2 /\ owed = {} /\ rebuild = [w \in Workspaces |-> Idle] /\ pathQueue = <<>>
        /\ unseen = {} /\ astray = {} /\ task \in Starts
    BY DEF Init
  <1>2. \A w \in Workspaces : rebuild[w] = Idle /\ rebuild[w].pc = "idle" /\ rebuild[w].path = <<>>
                              /\ projection[w] \in {Absent, Unbuilt} /\ projection[w].path = <<>> /\ ~projection[w].ready
                              /\ (projection[w].exists <=> w \in selected) /\ (w \notin selected => projection[w] = Absent)
    BY <1>1, Records
  <1>3. task \in [Tasks -> TaskRecords] /\ \A u \in Tasks : ~At(u, "remove") /\ ~At(u, "clear")
    BY <1>1, StartsAre DEF At
  <1>4. Legacy \in Titles
    BY DEF Titles
  <1>5. PICK F : F = [n \in Ids |-> <<Legacy>>]
    OBVIOUS
  <1>6. /\ nodes \in [Ids -> NodeRecords] /\ (\A n \in Ids : n = 1)
        /\ \A n \in Ids : nodes[n].parent = Container /\ nodes[n].title = Legacy /\ nodes[n].holds = "nothing"
    <2>1. CASE nodes = <<>>
      <3>1. Ids = {}
        BY <2>1 DEF Ids
      <3> QED
        BY <2>1, <3>1
    <2>2. CASE nodes = [i \in {1} |-> [parent |-> Container, title |-> Legacy, holds |-> "nothing"]]
      <3>1. Ids = {1}
        BY <2>2 DEF Ids
      <3>2. [parent |-> Container, title |-> Legacy, holds |-> "nothing"] \in NodeRecords
        BY <1>4 DEF NodeRecords, Container
      <3> QED
        BY <2>2, <3>1, <3>2
    <2> QED
      BY <2>1, <2>2 DEF Init
  <1>7. TreeInv(F)
    <2>1. <<Legacy>> \in Seq(Titles) /\ Len(<<Legacy>>) = 1
      BY <1>4
    <2>2. F \in [Ids -> Seq(Titles)] /\ \A n \in Ids : F[n] = <<Legacy>> /\ ~(Len(F[n]) > 1)
      BY <1>5, <2>1
    <2> QED
      BY <1>6, <2>2 DEF TreeInv
  <1>8. \A w \in Workspaces : Held(w) = {}
    BY <1>6, PathAssumption DEF Held
  <1>9. FolderTypes
    <2>1. rebuild \in [Workspaces -> RebuildRecords] /\ projection \in [Workspaces -> ProjectionRecords]
      BY <1>1, Records
    <2>2. pathQueue \in Seq(Workspaces) /\ session \in BOOLEAN /\ nextId \in Nat \ {0}
      BY <1>1
    <2>3. \A n \in Ids : n \in Nat /\ 0 < n /\ n < nextId
      BY <1>1, <1>6
    <2> QED
      BY <1>1, <1>3, <1>6, <2>1, <2>2, <2>3 DEF FolderTypes
  <1>10. TaskInv
    BY <1>3 DEF TaskInv
  <1>11. QueueInv
    BY <1>1, <1>2 DEF QueueInv, Walking
  <1>12. Titled(F)
    <2>1. \A w \in Workspaces : Leads(F, w, rebuild[w].path) /\ Leads(F, w, projection[w].path)
      BY <1>2, LeadsNowhere
    <2>2. WalkInv(F)
      BY <1>2, <2>1 DEF WalkInv, WalkOf, Walking
    <2>3. StoredInv(F)
      BY <1>2, <2>1 DEF StoredInv, StoredOf, Built, Active
    <2> QED
      BY <1>7, <2>2, <2>3 DEF Titled
  <1>13. ASSUME NEW w \in Workspaces PROVE Own(w)
    <2>1. Chosen(w) /\ Shown(w)
      BY <1>2 DEF Chosen, Shown, Active
    <2>2. Kept(w) /\ Ahead(w)
      BY <1>2, <1>3, <1>8, NothingYet DEF Kept, Ahead, Taking
    <2> QED
      BY <2>1, <2>2 DEF Own
  <1> QED
    BY <1>9, <1>10, <1>11, <1>12, <1>13 DEF FolderInv, OwnInv

LEMMA TaskStepKeeps ==
  ASSUME FolderInv, NEW t \in Tasks, TaskStep(t)
  PROVE  FolderInv'
  <1>1. CASE StoreSelection(t)
    BY <1>1, StoreSelectionKeeps
  <1>2. CASE Sync(t)
    BY <1>2, SessionKeeps
  <1>3. CASE Clear(t)
    BY <1>3, ClearKeeps
  <1>4. CASE Reset(t)
    BY <1>4, ResetKeeps
  <1>5. ASSUME NEW w \in Workspaces, Deselect(t, w) \/ RemoveProjection(t, w) PROVE FolderInv'
    <2>1. /\ RemoveFolder(w, t) /\ At(t, "remove") /\ w \in task[t].todo
          /\ task' = [task EXCEPT ![t].todo = task[t].todo \ {w}] /\ UNCHANGED <<unseen, stateVars, nextId, repairVars>>
      BY <1>5 DEF Deselect, RemoveProjection
    <2> QED
      BY <2>1, TakeAway
  <1>6. ASSUME NEW w \in Workspaces, Ensure(t, w) PROVE FolderInv'
    BY <1>6, EnsureKeeps
  <1>7. ASSUME NEW w \in Workspaces, Look(t, w) PROVE FolderInv'
    BY <1>7, LookKeeps
  <1> QED
    BY <1>1, <1>2, <1>3, <1>4, <1>5, <1>6, <1>7 DEF TaskStep

LEMMA RebuildStepKeeps ==
  ASSUME FolderInv, NEW w \in Workspaces, RebuildStep(w)
  PROVE  FolderInv'
  <1>1. CASE Repair(w)
    BY <1>1, RepairKeeps
  <1>2. CASE TreeComes(w)
    BY <1>2, TreeComesKeeps
  <1>3. CASE TreeFails(w)
    BY <1>3, GivesUp DEF TreeFails
  <1>4. CASE FindFolder(w)
    BY <1>4, FindFolderKeeps
  <1>5. CASE CreateFolder(w)
    BY <1>5, CreateFolderKeeps
  <1>6. CASE Place(w)
    BY <1>6, PlaceKeeps
  <1>7. CASE Fill(w)
    <2>1. CASE projection[w].exists /\ Resolves(w)
      BY <1>7, <2>1, FillKeeps
    <2>2. CASE ~(projection[w].exists /\ Resolves(w))
      <3>1. rebuild[w].pc \in {"tree", "fill"} /\ Rebuilds(w, Idle)
            /\ UNCHANGED <<unseen, stateVars, chromeVars, owed, pathQueue, task, astray>>
        BY <1>7, <2>2 DEF Fill, chromeVars
      <3> QED
        BY <3>1, GivesUp
    <2> QED
      BY <2>1, <2>2
  <1>8. CASE Settle(w)
    BY <1>8, SettleKeeps
  <1> QED
    BY <1>1, <1>2, <1>3, <1>4, <1>5, <1>6, <1>7, <1>8 DEF RebuildStep

LEMMA FolderStep ==
  ASSUME FolderInv, Next
  PROVE  FolderInv'
  <1>1. CASE Worker
    BY <1>1, TaskStepKeeps, RebuildStepKeeps DEF Worker
  <1>2. CASE Environment
    <2>1. ASSUME NEW t \in Tasks, Login(t) \/ Logout(t) PROVE FolderInv'
      BY <2>1, SessionKeeps
    <2>2. ASSUME NEW t \in Tasks, NEW ids \in SUBSET Workspaces, Select(t, ids) PROVE FolderInv'
      BY <2>2, SelectKeeps
    <2>3. ASSUME NEW id \in Ids, UserDeletes(id) PROVE FolderInv'
      BY <2>3, UserDeletesKeeps
    <2>4. ASSUME NEW id \in Ids, Evict(Under(id)) PROVE FolderInv'
      <3>1. Below(Under(id))
        BY UnderIsBelow
      <3> QED
        BY <2>4, <3>1, EvictKeeps
    <2>5. CASE Evict({})
      <3>1. Below({})
        BY DEF Below
      <3> QED
        BY <2>5, <3>1, EvictKeeps
    <2>6. CASE SessionLost
      BY <2>6, SessionLostKeeps
    <2> QED
      BY <1>2, <2>1, <2>2, <2>3, <2>4, <2>5, <2>6 DEF Environment
  <1> QED
    BY <1>1, <1>2 DEF Next

LEMMA FolderStutter ==
  ASSUME FolderInv, UNCHANGED vars
  PROVE  FolderInv'
  <1>1. UNCHANGED <<session, selected, projection, nodes, nextId, owed, rebuild, pathQueue, task, unseen, astray>>
    BY DEF vars, stateVars, chromeVars, repairVars
  <1>2. Still /\ TaskInv' /\ \A u \in Tasks : At(u, "remove") \/ At(u, "remove")' => task'[u] = task[u]
    BY <1>1, InvParts DEF Still, TaskInv, At
  <1> QED
    BY <1>1, <1>2, InvParts, MessageKeeps DEF FolderTypes

(* What the invariant says of folders at rest.                             *)
LEMMA FoldersHoldNow ==
  ASSUME FolderInv
  PROVE  FoldersHold
  <1>1. PICK F : Titled(F)
    BY DEF FolderInv
  <1>2. OneFolder
    <2> SUFFICES ASSUME NEW m \in Ids, NEW n \in Ids, nodes[m].parent = nodes[n].parent, nodes[m].title = nodes[n].title
                 PROVE  m = n
      BY DEF OneFolder
    <2>1. F[m] = F[n]
      <3>1. PICK q : q = nodes[m].parent /\ q = nodes[n].parent
        OBVIOUS
      <3>2. PICK c : c = nodes[m].title /\ c = nodes[n].title
        OBVIOUS
      <3>3. /\ q = Container => F[m] = <<c>> /\ F[n] = <<c>>
            /\ q # Container => F[m] = Append(F[q], c) /\ F[n] = Append(F[q], c)
        BY <1>1, <3>1, <3>2, ZenonT(60) DEF Titled, TreeInv
      <3> QED
        BY <3>3
    <2> QED
      BY <1>1, <2>1 DEF Titled, TreeInv
  <1>3. ASSUME AtRest, NEW w \in Workspaces \ astray
        PROVE  /\ projection[w].exists => w \in selected
               /\ \A id \in Ids : nodes[id].holds = w => projection[w].exists
               /\ w \notin unseen /\ projection[w].ready => Resolves(w) /\ nodes[FolderOf(w)].holds = w
    <2>1. Chosen(w) /\ Kept(w) /\ Shown(w)
      BY InvParts
    <2>2. ~Emptied(w)
      BY <1>3, InvParts DEF AtRest, Emptied, Taking, TaskInv
    <2>3. w \notin owed
      BY <1>3 DEF AtRest
    <2> QED
      BY <2>1, <2>2, <2>3 DEF Chosen, Kept, Shown, Held
  <1>4. ReadyHasFolder
    BY <1>3 DEF ReadyHasFolder
  <1>5. NoLeftovers
    BY <1>3 DEF NoLeftovers
  <1> QED
    BY <1>2, <1>4, <1>5 DEF FoldersHold

(* Whatever is selected, logged out, deleted or evicted while rebuilds go  *)
(* on, a folder is made once under its parent (ensureFolderByTitle,        *)
(* enqueueManagedPathTask); and once all is at rest, each workspace that   *)
(* no overlapping operation has disturbed has its folder with its tree if  *)
(* it is ready, and leaves nothing in Chrome if it is not projected.       *)
THEOREM FoldersAreKept == FoldersSpec => []FoldersHold
  <1>1. FoldersInit \/ WindowsInit => FolderInv
    BY FoldersFirst DEF FoldersInit, WindowsInit
  <1>2. FolderInv /\ [FoldersNext]_<<part, vars, windowVars>> => FolderInv'
    <2> SUFFICES ASSUME FolderInv, [FoldersNext]_<<part, vars, windowVars>> PROVE FolderInv'
      OBVIOUS
    <2>1. Next \/ UNCHANGED vars
      BY DEF FoldersNext
    <2> QED
      BY <2>1, FolderStep, FolderStutter
  <1>3. FolderInv => FoldersHold
    BY FoldersHoldNow
  <1> QED
    BY <1>1, <1>2, <1>3, PTL DEF FoldersSpec

(***************************************************************************)
(* The windows.                                                            *)
(***************************************************************************)
AnyWindow == Windows \cup {None}
CallRecords ==
  [pc : {"idle", "host", "target", "read", "focus", "create", "store"}, key : P!Kinds \cup {None},
   stored : AnyWindow, host : AnyWindow]

WindowTypes ==
  /\ kind \in [Windows -> P!Kinds \cup {"normal", "unused", "closed"}]
  /\ focus \in AnyWindow /\ target \in AnyWindow /\ tracked \in [P!Kinds -> AnyWindow]
  /\ calls \in [Calls -> CallRecords]
  /\ \A c \in Calls :
       /\ calls[c].pc = "idle" => calls[c] = P!Idle
       /\ calls[c].pc # "idle" => calls[c].key \in P!Kinds
       /\ calls[c].pc = "store" => calls[c].stored # None
  /\ removals \subseteq P!Kinds /\ closing \subseteq Windows /\ calm \in BOOLEAN
  /\ result \in [pc : {"none", "create", "focus", "opened"}, window : AnyWindow]

(* What is remembered as a host of tabs has held tabs, and a window never  *)
(* changes its kind but to be closed.                                      *)
HoldsTabs(w) == w # None => kind[w] \in {"normal", "closed"}
HostInv ==
  /\ HoldsTabs(target) /\ HoldsTabs(result.window)
  /\ \A c \in Calls : HoldsTabs(calls[c].host)
  /\ result.pc \in {"focus", "opened"} => result.window # None

(* While calm, one call, one removal or one closing is under way at most,  *)
(* and what it has read is still so.                                       *)
Under_way(c) == calls[c] # P!Idle
OneAtATime ==
  /\ \A c, d \in Calls : Under_way(c) /\ Under_way(d) => c = d
  /\ (\E c \in Calls : Under_way(c)) => removals = {} /\ closing = {}
  /\ \A w \in closing : closing = {w} /\ kind[w] = "closed" /\ removals = {}
  /\ \A k \in removals : P!OfKind(k) = {}
Remembered ==
  \A k \in P!Kinds : \A w \in P!OfKind(k) :
    tracked[k] = w \/ \E c \in Calls : calls[c].pc = "store" /\ calls[c].key = k
CallKnows(c) ==
  /\ calls[c].pc = "focus" => calls[c].stored = tracked[calls[c].key]
  /\ calls[c].pc = "create" => P!OfKind(calls[c].key) = {}
  /\ calls[c].pc = "store" => P!OfKind(calls[c].key) \subseteq {calls[c].stored}
CalmInv == calm => OneAtATime /\ Remembered /\ \A c \in Calls : CallKnows(c)

WindowInv == WindowTypes /\ HostInv /\ CalmInv

LEMMA WindowFirst == ASSUME P!Init PROVE WindowInv
  <1>1. WindowTypes
    BY FoldersAssumption
    DEF P!Init, WindowTypes, AnyWindow, CallRecords, P!Idle, P!NoResult, P!Kinds
  <1>2. HostInv
    BY DEF P!Init, HostInv, HoldsTabs, P!Idle, P!NoResult
  <1>3. CalmInv
    BY DEF P!Init, CalmInv, OneAtATime, Under_way, Remembered, CallKnows, P!Idle, P!OfKind, P!Kinds
  <1> QED
    BY <1>1, <1>2, <1>3 DEF WindowInv

(* Nothing is under way where everything is quiet.                         *)
LEMMA QuietKnows ==
  ASSUME WindowInv, calm, P!Quiet
  PROVE  /\ \A k \in P!Kinds : \A w \in P!OfKind(k) : tracked[k] = w
         /\ \A c \in Calls : calls[c].pc = "idle"
         /\ removals = {} /\ closing = {}
  BY DEF WindowInv, WindowTypes, CalmInv, Remembered, P!Quiet, P!Idle

(* One call is under way: what holds after a step of it.                   *)
LEMMA OpenKeeps ==
  ASSUME WindowInv, NEW c \in Calls, NEW k \in P!Kinds, P!open(c, k)
  PROVE  WindowInv'
  <1> DEFINE new == [P!Idle EXCEPT !.key = k, !.pc = IF k = "quick-search" THEN "host" ELSE "read"]
  <1>1. /\ calls[c] = P!Idle /\ calls' = [calls EXCEPT ![c] = new]
        /\ calm' = (calm /\ P!Quiet)
        /\ UNCHANGED <<kind, focus, tracked, target, removals, closing, result>>
    BY DEF P!open
  <1>2. new.pc \in {"host", "read"} /\ new.key = k /\ new.stored = None /\ new.host = None /\ new \in CallRecords
    BY DEF P!Idle, CallRecords, AnyWindow
  <1> HIDE DEF new
  <1>3. calls'[c] = new /\ \A d \in Calls : d # c => calls'[d] = calls[d]
    BY <1>1 DEF WindowInv, WindowTypes
  <1>4. WindowTypes'
    <2>1. calm' \in BOOLEAN
      BY <1>1
    <2> QED
      BY <1>1, <1>2, <1>3, <2>1 DEF WindowInv, WindowTypes
  <1>5. HostInv'
    BY <1>1, <1>2, <1>3 DEF WindowInv, HostInv, HoldsTabs
  <1>6. CalmInv'
    <2> SUFFICES ASSUME calm' PROVE OneAtATime' /\ Remembered' /\ \A d \in Calls : CallKnows(d)'
      BY DEF CalmInv
    <2>1. /\ \A j \in P!Kinds : \A w \in P!OfKind(j) : tracked[j] = w
          /\ \A d \in Calls : calls[d].pc = "idle"
          /\ removals = {} /\ closing = {}
      BY <1>1, QuietKnows
    <2>2. \A d \in Calls : d # c => calls'[d] = P!Idle
      BY <1>3, <2>1 DEF WindowInv, WindowTypes
    <2>3. \A j : P!OfKind(j)' = P!OfKind(j)
      BY <1>1 DEF P!OfKind
    <2>4. OneAtATime'
      BY <1>1, <2>1, <2>2 DEF OneAtATime, Under_way
    <2>5. Remembered'
      BY <1>1, <2>1, <2>3 DEF Remembered
    <2>6. \A d \in Calls : CallKnows(d)'
      BY <1>2, <1>3, <2>1 DEF CallKnows
    <2> QED
      BY <2>4, <2>5, <2>6
  <1> QED
    BY <1>4, <1>5, <1>6 DEF WindowInv

(* A call that goes on leaves the windows alone, or opens or focuses one.  *)
LEMMA CallMoves ==
  ASSUME WindowInv, NEW c \in Calls, NEW new \in CallRecords, calls[c].pc # "idle",
         calls' = [calls EXCEPT ![c] = new], UNCHANGED <<removals, closing, result, calm>>,
         new.pc = "idle" => new = P!Idle,
         new.pc # "idle" => new.key = calls[c].key, new.pc = "store" => new.stored # None,
         HoldsTabs(new.host)', HoldsTabs(target)', focus' \in AnyWindow, target' \in AnyWindow,
         tracked' \in [P!Kinds -> AnyWindow],
         kind' \in [Windows -> P!Kinds \cup {"normal", "unused", "closed"}],
         \A w \in Windows : kind'[w] = kind[w] \/ kind[w] = "unused",
         calm => Remembered' /\ CallKnows(c)'
  PROVE  WindowInv'
  <1>1. calls'[c] = new /\ \A d \in Calls : d # c => calls'[d] = calls[d]
    BY DEF WindowInv, WindowTypes
  <1>2. WindowTypes'
    BY <1>1 DEF WindowInv, WindowTypes
  <1>3. HostInv'
    <2>1. \A w \in AnyWindow : HoldsTabs(w) => HoldsTabs(w)'
      BY DEF HoldsTabs, AnyWindow
    <2>2. result.window \in AnyWindow /\ \A d \in Calls : calls[d].host \in AnyWindow
      BY DEF WindowInv, WindowTypes, CallRecords
    <2>3. \A d \in Calls : HoldsTabs(calls[d].host)'
      <3> SUFFICES ASSUME NEW d \in Calls PROVE HoldsTabs(calls[d].host)'
        OBVIOUS
      <3>1. CASE d = c
        BY <1>1, <3>1 DEF HoldsTabs
      <3>2. CASE d # c
        <4>1. HoldsTabs(calls[d].host)
          BY DEF WindowInv, HostInv
        <4>2. (calls[d].host)' = calls[d].host
          BY <1>1, <3>2
        <4> QED
          BY <2>1, <2>2, <4>1, <4>2 DEF HoldsTabs
      <3> QED
        BY <3>1, <3>2
    <2>4. HoldsTabs(result.window)'
      BY <2>1, <2>2 DEF WindowInv, HostInv, HoldsTabs
    <2> QED
      BY <2>3, <2>4 DEF WindowInv, HostInv
  <1>4. CalmInv'
    <2> SUFFICES ASSUME calm PROVE OneAtATime' /\ Remembered' /\ \A d \in Calls : CallKnows(d)'
      BY DEF CalmInv
    <2>1. OneAtATime /\ Under_way(c)
      BY DEF WindowInv, CalmInv, Under_way, P!Idle
    <2>2. \A d \in Calls : d # c => calls'[d] = P!Idle
      BY <1>1, <2>1 DEF OneAtATime, Under_way
    <2>3. OneAtATime'
      BY <2>1, <2>2 DEF OneAtATime, Under_way
    <2>4. \A d \in Calls : CallKnows(d)'
      BY <2>2 DEF CallKnows, P!Idle
    <2> QED
      BY <2>3, <2>4
  <1> QED
    BY <1>2, <1>3, <1>4 DEF WindowInv

LEMMA CallKeeps ==
  ASSUME WindowInv, NEW c \in Calls,
         \/ P!hostStep(c) \/ P!getStoredWindowId(c) \/ P!tryFocusWindow(c)
         \/ P!createWindow(c) \/ P!storeWindowId(c)
  PROVE  WindowInv'
  <1> DEFINE a == calls[c]
  <1>1. a \in CallRecords /\ DOMAIN a = {"pc", "key", "stored", "host"}
    BY DEF WindowInv, WindowTypes, CallRecords
  <1>2. /\ a.pc # "idle" => a.key \in P!Kinds
        /\ calm => OneAtATime /\ Remembered /\ CallKnows(c)
        /\ HoldsTabs(a.host) /\ HoldsTabs(target)
    BY DEF WindowInv, WindowTypes, CalmInv, HostInv
  <1>3. P!Idle \in CallRecords /\ P!Idle.pc = "idle" /\ P!Idle.host = None
    BY DEF P!Idle, CallRecords, AnyWindow
  <1>4. /\ focus \in AnyWindow /\ target \in AnyWindow /\ tracked \in [P!Kinds -> AnyWindow]
        /\ kind \in [Windows -> P!Kinds \cup {"normal", "unused", "closed"}]
        /\ calls \in [Calls -> CallRecords]
    BY DEF WindowInv, WindowTypes
  <1>5. a.key \in P!Kinds \cup {None} /\ a.stored \in AnyWindow /\ a.host \in AnyWindow
    BY <1>1 DEF CallRecords
  <1>6. calm /\ a.pc # "idle" => \A d \in Calls : d # c => calls[d] = P!Idle
    BY <1>2, <1>3 DEF OneAtATime, Under_way
  <1> HIDE DEF a
  <1>7. CASE P!hostStep(c)
    <2>1. /\ UNCHANGED <<kind, focus, tracked, removals, closing, result, calm>>
          /\ a.pc \in {"host", "target"}
          /\ \E new \in CallRecords :
               /\ calls' = [calls EXCEPT ![c] = new] /\ new.key = a.key
               /\ new.pc \in {"read", "target"}
               /\ HoldsTabs(new.host) /\ HoldsTabs(target')
               /\ target' \in AnyWindow
      <3>1. CASE a.pc = "host" /\ UNCHANGED target
                 /\ calls' = [calls EXCEPT ![c].host = P!resolveTabHostWindow,
                                ![c].pc = IF P!resolveTabHostWindow = None THEN "read" ELSE "target"]
        <4>1. PICK h : h = P!resolveTabHostWindow
          OBVIOUS
        <4>2. h \in AnyWindow /\ HoldsTabs(h)
          BY <1>4, <4>1 DEF P!resolveTabHostWindow, HoldsTabs, AnyWindow
        <4>3. PICK new : new = [a EXCEPT !.host = h, !.pc = IF h = None THEN "read" ELSE "target"]
          OBVIOUS
        <4>4. new \in CallRecords /\ new.key = a.key /\ new.pc \in {"read", "target"} /\ new.host = h
          BY <1>1, <4>2, <4>3 DEF CallRecords
        <4>5. calls' = [calls EXCEPT ![c] = new]
          BY <1>4, <3>1, <4>1, <4>3 DEF a
        <4> QED
          BY <1>2, <1>4, <3>1, <4>2, <4>4, <4>5, <1>7 DEF P!hostStep
      <3>2. CASE a.pc = "target" /\ target' = a.host /\ calls' = [calls EXCEPT ![c].pc = "read"]
        <4>1. PICK new : new = [a EXCEPT !.pc = "read"]
          OBVIOUS
        <4>2. new \in CallRecords /\ new.key = a.key /\ new.pc = "read" /\ new.host = a.host
          BY <1>1, <4>1 DEF CallRecords
        <4>3. calls' = [calls EXCEPT ![c] = new]
          BY <1>4, <3>2, <4>1 DEF a
        <4> QED
          BY <1>2, <1>5, <3>2, <4>2, <4>3, <1>7 DEF P!hostStep
      <3> QED
        BY <1>7, <3>1, <3>2 DEF P!hostStep, P!openOrFocusQuickSearchWindow, a
    <2>2. PICK new \in CallRecords :
               /\ calls' = [calls EXCEPT ![c] = new] /\ new.key = a.key
               /\ new.pc \in {"read", "target"}
               /\ HoldsTabs(new.host) /\ HoldsTabs(target')
               /\ target' \in AnyWindow
      BY <2>1
    <2>3. HoldsTabs(new.host)' /\ HoldsTabs(target)'
      BY <2>1, <2>2 DEF HoldsTabs
    <2>4. calm => Remembered' /\ CallKnows(c)'
      BY <1>2, <1>4, <2>1, <2>2 DEF Remembered, CallKnows, P!OfKind, a
    <2> QED
      BY <1>4, <2>1, <2>2, <2>3, <2>4, CallMoves DEF a
  <1>8. CASE P!getStoredWindowId(c)
    <2>1. PICK new : new = [a EXCEPT !.stored = tracked[a.key], !.pc = IF tracked[a.key] = None THEN "create" ELSE "focus"]
      OBVIOUS
    <2>2. /\ a.pc = "read" /\ UNCHANGED <<kind, focus, tracked, target, removals, closing, result, calm>>
          /\ calls' = [calls EXCEPT ![c] = new]
      BY <1>4, <1>8, <2>1 DEF P!getStoredWindowId, a
    <2>3. /\ new \in CallRecords /\ new.key = a.key /\ new.host = a.host /\ new.stored = tracked[a.key]
          /\ new.pc = IF tracked[a.key] = None THEN "create" ELSE "focus"
      BY <1>1, <1>2, <1>4, <2>1, <2>2 DEF CallRecords
    <2>4. HoldsTabs(new.host)' /\ HoldsTabs(target)'
      BY <1>2, <2>2, <2>3 DEF HoldsTabs
    <2>5. ASSUME calm PROVE Remembered' /\ CallKnows(c)'
      <3>1. calls'[c] = new /\ \A d \in Calls : d # c => calls'[d] = calls[d]
        BY <1>4, <2>2
      <3>2. \A k : P!OfKind(k)' = P!OfKind(k)
        BY <2>2 DEF P!OfKind
      <3>3. \A d \in Calls : calls[d].pc # "store"
        BY <1>3, <1>6, <2>2, <2>5 DEF a
      <3>4. \A k \in P!Kinds : \A w \in P!OfKind(k) : tracked[k] = w
        BY <1>2, <2>5, <3>3 DEF Remembered
      <3>5. P!OfKind(a.key) \subseteq Windows
        BY DEF P!OfKind
      <3>6. tracked[a.key] = None => P!OfKind(a.key) = {}
        BY <1>2, <2>2, <3>4, <3>5, FoldersAssumption
      <3> QED
        BY <2>2, <2>3, <3>1, <3>2, <3>4, <3>6 DEF Remembered, CallKnows
    <2> QED
      BY <1>4, <2>2, <2>3, <2>4, <2>5, CallMoves DEF a
  <1>9. CASE P!tryFocusWindow(c)
    <2>1. /\ a.pc = "focus" /\ UNCHANGED <<kind, tracked, target, removals, closing, result, calm>>
          /\ \/ P!Alive(a.stored) /\ focus' = a.stored /\ calls' = [calls EXCEPT ![c] = P!Idle]
             \/ ~ P!Alive(a.stored) /\ focus' = focus /\ calls' = [calls EXCEPT ![c].pc = "create"]
      BY <1>9 DEF P!tryFocusWindow, a
    <2>2. PICK new : new = IF P!Alive(a.stored) THEN P!Idle ELSE [a EXCEPT !.pc = "create"]
      OBVIOUS
    <2>3. calls' = [calls EXCEPT ![c] = new]
      BY <1>4, <2>1, <2>2 DEF a
    <2>4. /\ new \in CallRecords /\ HoldsTabs(new.host) /\ focus' \in AnyWindow
          /\ new.pc = "idle" => new = P!Idle
          /\ new.pc \in {"idle", "create"}
          /\ new.pc = "create" => new.key = a.key /\ ~ P!Alive(a.stored)
      BY <1>1, <1>2, <1>3, <1>4, <1>5, <2>1, <2>2 DEF CallRecords, HoldsTabs
    <2>5. HoldsTabs(new.host)' /\ HoldsTabs(target)'
      BY <1>2, <2>1, <2>4 DEF HoldsTabs
    <2>6. ASSUME calm PROVE Remembered' /\ CallKnows(c)'
      <3>1. calls'[c] = new /\ \A d \in Calls : d # c => calls'[d] = calls[d]
        BY <1>4, <2>3
      <3>2. \A k : P!OfKind(k)' = P!OfKind(k)
        BY <2>1 DEF P!OfKind
      <3>3. \A d \in Calls : calls[d].pc # "store"
        BY <1>3, <1>6, <2>1, <2>6 DEF a
      <3>4. \A k \in P!Kinds : \A w \in P!OfKind(k) : tracked[k] = w
        BY <1>2, <2>6, <3>3 DEF Remembered
      <3>5. a.stored = tracked[a.key]
        BY <1>2, <2>1, <2>6 DEF CallKnows, a
      <3>6. \A k \in P!Kinds : \A w \in P!OfKind(k) : P!Alive(w)
        BY FoldersAssumption DEF P!OfKind, P!Alive, P!Kinds
      <3>7. new.pc = "create" => P!OfKind(a.key) = {}
        BY <1>2, <2>1, <2>4, <3>4, <3>5, <3>6
      <3> QED
        BY <2>1, <2>4, <3>1, <3>2, <3>4, <3>7 DEF Remembered, CallKnows
    <2> QED
      BY <1>4, <2>1, <2>3, <2>4, <2>5, <2>6, CallMoves DEF a
  <1>10. CASE P!createWindow(c)
    <2>1. PICK w \in Windows :
            /\ kind[w] = "unused" /\ kind' = [kind EXCEPT ![w] = a.key] /\ focus' = w
            /\ calls' = [calls EXCEPT ![c].pc = "store", ![c].stored = w]
      BY <1>10 DEF P!createWindow, a
    <2>2. a.pc = "create" /\ UNCHANGED <<tracked, target, removals, closing, result, calm>>
      BY <1>10 DEF P!createWindow, a
    <2>3. PICK new : new = [a EXCEPT !.pc = "store", !.stored = w]
      OBVIOUS
    <2>4. calls' = [calls EXCEPT ![c] = new]
      BY <1>4, <2>1, <2>3 DEF a
    <2>5. /\ new \in CallRecords /\ new.key = a.key /\ new.host = a.host /\ new.stored = w /\ new.pc = "store"
          /\ w # None
      BY <1>1, <2>3, FoldersAssumption DEF CallRecords, AnyWindow
    <2>6. /\ kind' \in [Windows -> P!Kinds \cup {"normal", "unused", "closed"}] /\ focus' \in AnyWindow
          /\ \A v \in Windows : kind'[v] = IF v = w THEN a.key ELSE kind[v]
      BY <1>2, <1>4, <2>1, <2>2 DEF AnyWindow
    <2>7. HoldsTabs(new.host)' /\ HoldsTabs(target)'
      BY <1>2, <1>4, <1>5, <2>1, <2>2, <2>5, <2>6 DEF HoldsTabs, AnyWindow
    <2>8. ASSUME calm PROVE Remembered' /\ CallKnows(c)'
      <3>1. PICK k : k = a.key
        OBVIOUS
      <3>2. (calls[c])' = new /\ \A d \in Calls : d # c => calls'[d] = calls[d]
        BY <1>4, <2>4
      <3>3. (calls[c].key)' = k /\ (calls[c].pc)' = "store" /\ (calls[c].stored)' = w
        BY <2>5, <3>1, <3>2
      <3>4. P!OfKind(k) = {} /\ k \in P!Kinds
        BY <1>2, <2>2, <2>8, <3>1 DEF CallKnows, a
      <3>5. \A v \in Windows : kind'[v] = IF v = w THEN k ELSE kind[v]
        BY <2>6, <3>1
      <3>6. P!OfKind(k)' = {w}
        BY <3>4, <3>5 DEF P!OfKind
      <3>7. \A j \in P!Kinds : j # k => P!OfKind(j)' = P!OfKind(j)
        BY <2>1, <3>5 DEF P!OfKind, P!Kinds
      <3>8. CallKnows(c)'
        BY <3>3, <3>6 DEF CallKnows
      <3>9. \A d \in Calls : calls[d].pc # "store"
        BY <1>3, <1>6, <2>2, <2>8 DEF a
      <3>10. Remembered'
        <4> SUFFICES ASSUME NEW j \in P!Kinds, NEW v \in P!OfKind(j)'
                     PROVE  tracked'[j] = v \/ \E d \in Calls : calls'[d].pc = "store" /\ calls'[d].key = j
          BY DEF Remembered
        <4>1. CASE j = k
          BY <3>3, <4>1
        <4>2. CASE j # k
          BY <1>2, <2>2, <2>8, <3>7, <3>9, <4>2 DEF Remembered
        <4> QED
          BY <4>1, <4>2
      <3> QED
        BY <3>8, <3>10
    <2> QED
      BY <1>4, <2>1, <2>2, <2>4, <2>5, <2>6, <2>7, <2>8, CallMoves DEF a
  <1>11. CASE P!storeWindowId(c)
    <2>1. /\ a.pc = "store" /\ tracked' = [tracked EXCEPT ![a.key] = a.stored]
          /\ calls' = [calls EXCEPT ![c] = P!Idle]
          /\ UNCHANGED <<kind, focus, target, removals, closing, result, calm>>
      BY <1>11 DEF P!storeWindowId, a
    <2>2. tracked' \in [P!Kinds -> AnyWindow] /\ HoldsTabs(P!Idle.host)' /\ HoldsTabs(target)'
      BY <1>2, <1>3, <1>4, <1>5, <2>1 DEF HoldsTabs
    <2>3. ASSUME calm PROVE Remembered' /\ CallKnows(c)'
      <3>1. \A d \in Calls : calls'[d] = P!Idle
        BY <1>4, <1>6, <2>1, <2>3
      <3>2. \A k : P!OfKind(k)' = P!OfKind(k)
        BY <2>1 DEF P!OfKind
      <3>3. P!OfKind(a.key) \subseteq {a.stored} /\ a.key \in P!Kinds
        BY <1>2, <2>1, <2>3 DEF CallKnows, a
      <3>4. \A k \in P!Kinds : k # a.key => \A w \in P!OfKind(k) : tracked[k] = w
        BY <1>2, <1>3, <1>6, <2>1, <2>3 DEF Remembered, a
      <3>5. Remembered'
        BY <1>4, <2>1, <3>2, <3>3, <3>4 DEF Remembered
      <3> QED
        BY <1>3, <3>1, <3>5 DEF CallKnows
    <2> QED
      BY <1>3, <1>4, <2>1, <2>2, <2>3, CallMoves DEF a
  <1> QED
    BY <1>7, <1>8, <1>9, <1>10, <1>11

(* A step that leaves the calls alone, and makes at most a browser window. *)
LEMMA KindsKept ==
  ASSUME WindowInv, UNCHANGED <<tracked, target, calls, removals, closing, calm>>,
         \A v \in Windows : kind'[v] = kind[v] \/ (kind[v] = "unused" /\ kind'[v] = "normal")
  PROVE  /\ CalmInv' /\ \A w \in AnyWindow : HoldsTabs(w) => HoldsTabs(w)'
         /\ HoldsTabs(target)' /\ \A c \in Calls : HoldsTabs(calls[c].host)'
  <1>1. \A k \in P!Kinds : P!OfKind(k)' = P!OfKind(k)
    BY DEF P!OfKind, P!Kinds
  <1>2. closing \subseteq Windows /\ removals \subseteq P!Kinds
        /\ \A c \in Calls : calls[c].pc # "idle" => calls[c].key \in P!Kinds
    BY DEF WindowInv, WindowTypes
  <1>3. CalmInv'
    <2> SUFFICES ASSUME calm PROVE OneAtATime' /\ Remembered' /\ \A c \in Calls : CallKnows(c)'
      BY DEF CalmInv
    <2>1. OneAtATime /\ Remembered /\ \A c \in Calls : CallKnows(c)
      BY DEF WindowInv, CalmInv
    <2>2. OneAtATime'
      BY <1>1, <1>2, <2>1 DEF OneAtATime, Under_way
    <2>3. Remembered'
      BY <1>1, <2>1 DEF Remembered
    <2>4. \A c \in Calls : CallKnows(c)'
      BY <1>1, <1>2, <2>1 DEF CallKnows
    <2> QED
      BY <2>2, <2>3, <2>4
  <1>4. \A w \in AnyWindow : HoldsTabs(w) => HoldsTabs(w)'
    BY DEF HoldsTabs, AnyWindow
  <1>5. target \in AnyWindow /\ \A c \in Calls : calls[c].host \in AnyWindow
    BY DEF WindowInv, WindowTypes, CallRecords
  <1>6. HoldsTabs(target)' /\ \A c \in Calls : HoldsTabs(calls[c].host)'
    BY <1>4, <1>5 DEF WindowInv, HostInv, HoldsTabs
  <1> QED
    BY <1>3, <1>4, <1>6

LEMMA ClosingKeeps ==
  ASSUME WindowInv, NEW w \in Windows, P!Closes(w), UNCHANGED <<tracked, target, calls, removals>>,
         result' = result \/ result' = P!NoResult
  PROVE  WindowInv'
  <1>1. /\ kind' = [kind EXCEPT ![w] = "closed"] /\ closing' = closing \cup {w}
        /\ focus' \in AnyWindow /\ calm' = (calm /\ P!Quiet)
    BY DEF P!Closes, AnyWindow
  <1>2. \A v \in Windows : kind'[v] = IF v = w THEN "closed" ELSE kind[v]
    BY <1>1 DEF WindowInv, WindowTypes
  <1>3. WindowTypes'
    <2>1. calm' \in BOOLEAN
      BY <1>1
    <2>2. result' \in [pc : {"none", "create", "focus", "opened"}, window : AnyWindow]
      BY DEF WindowInv, WindowTypes, P!NoResult, AnyWindow
    <2>3. kind' \in [Windows -> P!Kinds \cup {"normal", "unused", "closed"}] /\ closing' \subseteq Windows
      BY <1>1 DEF WindowInv, WindowTypes
    <2> QED
      BY <1>1, <2>1, <2>2, <2>3 DEF WindowInv, WindowTypes, AnyWindow
  <1>4. HostInv'
    <2>1. \A v \in AnyWindow : HoldsTabs(v) => HoldsTabs(v)'
      BY <1>2 DEF HoldsTabs, AnyWindow
    <2>2. target \in AnyWindow /\ result.window \in AnyWindow /\ \A c \in Calls : calls[c].host \in AnyWindow
      BY DEF WindowInv, WindowTypes, CallRecords
    <2>3. HoldsTabs(target)' /\ \A c \in Calls : HoldsTabs(calls[c].host)'
      BY <2>1, <2>2 DEF WindowInv, HostInv, HoldsTabs
    <2>4. HoldsTabs(result.window)' /\ (result'.pc \in {"focus", "opened"} => result'.window # None)
      BY <2>1, <2>2 DEF WindowInv, HostInv, HoldsTabs, P!NoResult
    <2> QED
      BY <2>3, <2>4 DEF HostInv
  <1>5. CalmInv'
    <2> SUFFICES ASSUME calm' PROVE OneAtATime' /\ Remembered' /\ \A c \in Calls : CallKnows(c)'
      BY DEF CalmInv
    <2>1. /\ \A k \in P!Kinds : \A v \in P!OfKind(k) : tracked[k] = v
          /\ \A c \in Calls : calls[c].pc = "idle" /\ calls[c] = P!Idle
          /\ removals = {} /\ closing = {}
      BY <1>1, QuietKnows DEF P!Quiet
    <2>2. OneAtATime'
      BY <1>1, <1>2, <2>1 DEF OneAtATime, Under_way
    <2>3. Remembered'
      BY <1>2, <2>1 DEF Remembered, P!OfKind, P!Kinds
    <2>4. \A c \in Calls : CallKnows(c)'
      BY <2>1 DEF CallKnows
    <2> QED
      BY <2>2, <2>3, <2>4
  <1> QED
    BY <1>3, <1>4, <1>5 DEF WindowInv

(* The popup that goes, and the two steps of windows.onRemoved.            *)
LEMMA PopupGoneKeeps ==
  ASSUME WindowInv, NEW c \in Calls, P!popupGone(c)
  PROVE  WindowInv'
  <1>1. calls' = [calls EXCEPT ![c] = P!Idle] /\ calm' = FALSE
        /\ UNCHANGED <<kind, focus, tracked, target, removals, closing, result>>
    BY DEF P!popupGone
  <1>2. \A d \in Calls : calls'[d] = IF d = c THEN P!Idle ELSE calls[d]
    BY <1>1 DEF WindowInv, WindowTypes
  <1>3. P!Idle \in CallRecords /\ P!Idle.pc = "idle" /\ P!Idle.host = None
    BY DEF P!Idle, CallRecords, AnyWindow
  <1>4. WindowTypes'
    <2>1. calls' \in [Calls -> CallRecords]
      BY <1>1, <1>3 DEF WindowInv, WindowTypes
    <2> QED
      BY <1>1, <1>2, <1>3, <2>1 DEF WindowInv, WindowTypes
  <1>5. HostInv'
    BY <1>1, <1>2, <1>3 DEF WindowInv, HostInv, HoldsTabs
  <1> QED
    BY <1>1, <1>4, <1>5 DEF WindowInv, CalmInv

LEMMA RemovedKeeps ==
  ASSUME WindowInv, NEW w \in Windows, P!onRemoved(w)
  PROVE  WindowInv'
  <1>1. /\ w \in closing /\ closing' = closing \ {w}
        /\ removals' = removals \cup {k \in P!Kinds : tracked[k] = w}
        /\ UNCHANGED <<kind, focus, tracked, target, calls, result, calm>>
    BY DEF P!onRemoved
  <1>2. WindowTypes' /\ HostInv'
    BY <1>1 DEF WindowInv, WindowTypes, HostInv, HoldsTabs
  <1>3. CalmInv'
    <2> SUFFICES ASSUME calm PROVE OneAtATime' /\ Remembered' /\ \A c \in Calls : CallKnows(c)'
      BY <1>1 DEF CalmInv
    <2>1. OneAtATime /\ Remembered
      BY DEF WindowInv, CalmInv
    <2>2. closing = {w} /\ kind[w] = "closed" /\ removals = {} /\ \A c \in Calls : calls[c] = P!Idle
      BY <1>1, <2>1 DEF OneAtATime, Under_way
    <2>3. \A k \in P!Kinds : P!OfKind(k)' = P!OfKind(k) /\ \A v \in P!OfKind(k) : tracked[k] = v /\ v # w
      BY <1>1, <2>1, <2>2 DEF Remembered, P!OfKind, P!Idle, P!Kinds
    <2>4. OneAtATime'
      BY <1>1, <2>2, <2>3 DEF OneAtATime, Under_way
    <2>5. Remembered'
      BY <1>1, <2>3 DEF Remembered
    <2>6. \A c \in Calls : CallKnows(c)'
      BY <1>1, <2>2 DEF CallKnows, P!Idle
    <2> QED
      BY <2>4, <2>5, <2>6
  <1> QED
    BY <1>2, <1>3 DEF WindowInv

LEMMA ForgettingKeeps ==
  ASSUME WindowInv, NEW k \in P!Kinds, P!removeKey(k)
  PROVE  WindowInv'
  <1>1. /\ k \in removals /\ removals' = removals \ {k} /\ tracked' = [tracked EXCEPT ![k] = None]
        /\ UNCHANGED <<kind, focus, target, calls, closing, result, calm>>
    BY DEF P!removeKey
  <1>2. WindowTypes' /\ HostInv'
    BY <1>1 DEF WindowInv, WindowTypes, HostInv, HoldsTabs, AnyWindow
  <1>3. CalmInv'
    <2> SUFFICES ASSUME calm PROVE OneAtATime' /\ Remembered' /\ \A c \in Calls : CallKnows(c)'
      BY <1>1 DEF CalmInv
    <2>1. OneAtATime /\ Remembered /\ tracked \in [P!Kinds -> AnyWindow] /\ removals \subseteq P!Kinds
      BY DEF WindowInv, CalmInv, WindowTypes
    <2>2. P!OfKind(k) = {} /\ \A c \in Calls : calls[c] = P!Idle
      BY <1>1, <2>1 DEF OneAtATime, Under_way
    <2>3. \A j \in P!Kinds : P!OfKind(j)' = P!OfKind(j)
      BY <1>1 DEF P!OfKind
    <2>4. OneAtATime'
      BY <1>1, <2>1, <2>2, <2>3 DEF OneAtATime, Under_way
    <2>5. Remembered'
      BY <1>1, <2>1, <2>2, <2>3 DEF Remembered
    <2>6. \A c \in Calls : CallKnows(c)'
      BY <1>1, <2>2 DEF CallKnows, P!Idle
    <2> QED
      BY <2>4, <2>5, <2>6
  <1> QED
    BY <1>2, <1>3 DEF WindowInv

(* The result of a search: a tab, a focus, a window of its own.            *)
LEMMA ResultKeeps ==
  ASSUME WindowInv, P!getTargetWindowId \/ P!resultTab \/ P!resultFocus \/ P!resultWindow
  PROVE  WindowInv'
  <1>1. /\ UNCHANGED <<tracked, target, calls, removals, closing, calm>>
        /\ \A v \in Windows : kind'[v] = kind[v] \/ (kind[v] = "unused" /\ kind'[v] = "normal")
        /\ kind' \in [Windows -> P!Kinds \cup {"normal", "unused", "closed"}]
        /\ focus' \in AnyWindow
        /\ result' \in [pc : {"none", "create", "focus", "opened"}, window : AnyWindow]
        /\ HoldsTabs(result.window)' /\ (result'.pc \in {"focus", "opened"} => result'.window # None)
    <2> USE DEF WindowInv, WindowTypes, AnyWindow
    <2>1. CASE P!getTargetWindowId
      BY <2>1 DEF P!getTargetWindowId, HostInv, HoldsTabs
    <2>2. CASE P!resultTab
      BY <2>2 DEF P!resultTab, P!Alive, HostInv, HoldsTabs
    <2>3. CASE P!resultFocus
      BY <2>3 DEF P!resultFocus, P!Alive, HostInv, HoldsTabs
    <2>4. CASE P!resultWindow
      <3>1. PICK w \in Windows : /\ kind[w] = "unused" /\ kind' = [kind EXCEPT ![w] = "normal"] /\ focus' = w
                                 /\ result' = [pc |-> "opened", window |-> w]
        BY <2>4 DEF P!resultWindow
      <3> QED
        BY <2>4, <3>1, FoldersAssumption DEF P!resultWindow, HoldsTabs
    <2> QED
      BY <2>1, <2>2, <2>3, <2>4
  <1>2. /\ CalmInv' /\ HoldsTabs(target)' /\ \A c \in Calls : HoldsTabs(calls[c].host)'
    BY <1>1, KindsKept
  <1>3. HostInv'
    BY <1>1, <1>2 DEF HostInv
  <1>4. WindowTypes'
    BY <1>1 DEF WindowInv, WindowTypes
  <1> QED
    BY <1>2, <1>3, <1>4 DEF WindowInv

LEMMA ResultDoneKeeps ==
  ASSUME WindowInv, P!resultDone
  PROVE  WindowInv'
  <1>1. UNCHANGED <<tracked, target, calls, removals>> /\ result' = P!NoResult
    BY DEF P!resultDone
  <1>2. CASE \E w \in Windows : kind[w] = "quick-search"
    <2>1. PICK w \in Windows : P!Closes(w)
      BY <1>2 DEF P!resultDone
    <2> QED
      BY <1>1, <2>1, ClosingKeeps
  <1>3. CASE ~ \E w \in Windows : kind[w] = "quick-search"
    <2>1. UNCHANGED <<kind, closing, focus, calm>>
      BY <1>3 DEF P!resultDone
    <2>2. CalmInv' /\ HoldsTabs(target)' /\ \A c \in Calls : HoldsTabs(calls[c].host)'
      BY <1>1, <2>1, KindsKept
    <2>3. HostInv'
      BY <1>1, <2>2 DEF HostInv, HoldsTabs, P!NoResult
    <2>4. WindowTypes'
      BY <1>1, <2>1 DEF WindowInv, WindowTypes, P!NoResult, AnyWindow
    <2> QED
      BY <2>2, <2>3, <2>4 DEF WindowInv
  <1> QED
    BY <1>2, <1>3

LEMMA FocusKeeps ==
  ASSUME WindowInv, NEW w \in Windows, P!focuses(w)
  PROVE  WindowInv'
  <1>1. focus' = w /\ UNCHANGED <<kind, tracked, target, calls, removals, closing, result, calm>>
    BY DEF P!focuses
  <1>2. CalmInv' /\ HoldsTabs(target)' /\ \A c \in Calls : HoldsTabs(calls[c].host)'
    BY <1>1, KindsKept
  <1>3. HostInv' /\ WindowTypes'
    BY <1>1, <1>2 DEF HostInv, HoldsTabs, WindowInv, WindowTypes, AnyWindow
  <1> QED
    BY <1>2, <1>3 DEF WindowInv

LEMMA WindowStep ==
  ASSUME WindowInv, [P!Next]_windowVars
  PROVE  WindowInv'
  <1>1. CASE UNCHANGED windowVars
    <2>1. UNCHANGED <<kind, focus, tracked, target, calls, removals, closing, result, calm>>
      BY <1>1 DEF windowVars
    <2>2. CalmInv' /\ HoldsTabs(target)' /\ \A c \in Calls : HoldsTabs(calls[c].host)'
      BY <2>1, KindsKept
    <2>3. HostInv' /\ WindowTypes'
      BY <2>1, <2>2 DEF HostInv, HoldsTabs, WindowInv, WindowTypes
    <2> QED
      BY <2>2, <2>3 DEF WindowInv
  <1>2. ASSUME NEW c \in Calls, NEW k \in P!Kinds, P!open(c, k) PROVE WindowInv'
    BY <1>2, OpenKeeps
  <1>3. ASSUME NEW c \in Calls,
               \/ P!hostStep(c) \/ P!getStoredWindowId(c) \/ P!tryFocusWindow(c)
               \/ P!createWindow(c) \/ P!storeWindowId(c)
        PROVE  WindowInv'
    BY <1>3, CallKeeps
  <1>4. ASSUME NEW c \in Calls, P!popupGone(c) PROVE WindowInv'
    BY <1>4, PopupGoneKeeps
  <1>5. ASSUME NEW w \in Windows, P!focuses(w) PROVE WindowInv'
    BY <1>5, FocusKeeps
  <1>6. ASSUME NEW w \in Windows, P!closes(w) PROVE WindowInv'
    BY <1>6, ClosingKeeps DEF P!closes
  <1>7. ASSUME NEW w \in Windows, P!onRemoved(w) PROVE WindowInv'
    BY <1>7, RemovedKeeps
  <1>8. ASSUME NEW k \in P!Kinds, P!removeKey(k) PROVE WindowInv'
    BY <1>8, ForgettingKeeps
  <1>9. CASE P!getTargetWindowId \/ P!resultTab \/ P!resultFocus \/ P!resultWindow
    BY <1>9, ResultKeeps
  <1>10. CASE P!resultDone
    BY <1>10, ResultDoneKeeps
  <1> QED
    BY <1>1, <1>2, <1>3, <1>4, <1>5, <1>6, <1>7, <1>8, <1>9, <1>10 DEF P!Next

LEMMA WindowsHoldNow ==
  ASSUME WindowInv
  PROVE  WindowsHold
  <1>1. P!ResultsHaveTabs
    BY DEF WindowInv, HostInv, HoldsTabs, P!ResultsHaveTabs
  <1>2. ASSUME calm, P!Quiet, NEW k \in P!Kinds
        PROVE  P!Cardinality(P!OfKind(k)) <= 1 /\ (P!OfKind(k) # {} => tracked[k] \in P!OfKind(k))
    <2>1. \A w \in P!OfKind(k) : tracked[k] = w
      BY <1>2, QuietKnows
    <2>2. Cardinality(P!OfKind(k)) = P!Cardinality(P!OfKind(k))
      BY DEF Cardinality, P!Cardinality
    <2>3. CASE P!OfKind(k) = {}
      BY <2>2, <2>3, FS_EmptySet
    <2>4. CASE P!OfKind(k) # {}
      <3>1. PICK w : P!OfKind(k) = {w} /\ tracked[k] = w
        BY <2>1, <2>4
      <3>2. Cardinality({w}) = 1
        BY FS_Singleton
      <3>3. P!Cardinality(P!OfKind(k)) = 1
        BY <2>2, <3>1, <3>2
      <3>4. tracked[k] \in P!OfKind(k)
        BY <3>1
      <3> QED
        BY <3>3, <3>4
    <2> QED
      BY <2>3, <2>4
  <1> QED
    BY <1>1, <1>2 DEF WindowsHold, P!OneWindowIfCalm

(* WindowsHold: openings that do not overlap keep one window of each kind, *)
(* whatever the user closes and however often (service-worker.ts:68-106,   *)
(* popup.ts:65-80), and a result is opened in a window that holds tabs     *)
(* (service-worker.ts:108-121), for any windows and any number of openings.*)
THEOREM WindowsAreKept == FoldersSpec => []WindowsHold
  <1>1. FoldersInit \/ WindowsInit => WindowInv
    BY WindowFirst DEF FoldersInit, WindowsInit
  <1>2. WindowInv /\ [FoldersNext]_<<part, vars, windowVars>> => WindowInv'
    BY WindowStep DEF FoldersNext
  <1>3. WindowInv => WindowsHold
    BY WindowsHoldNow
  <1> QED
    BY <1>1, <1>2, <1>3, PTL DEF FoldersSpec
================================================================================
