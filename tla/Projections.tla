------------------------------- MODULE Projections -------------------------------
(***************************************************************************)
(* Which workspaces the extension projects into Chrome: the selection, the *)
(* session, the managed folders and the rebuilds that fill them            *)
(* (extension/src/background/projection.ts, chrome-bookmarks.ts,           *)
(* options/options.ts).                                                    *)
(*                                                                         *)
(* The worker answers messages concurrently: a selection, a login and a    *)
(* logout walk over the workspaces one await at a time while rebuilds go   *)
(* on, the user deletes folders, and the browser may end the worker        *)
(* between any two steps.  A managed folder is reached from the root by    *)
(* titles (root, organization, workspace) that other workspaces share, so  *)
(* finding and creating the path is serialised.                            *)
(*                                                                         *)
(* Abstracted: what a filled folder holds is the workspace whose tree it   *)
(* is (WorkspaceSync, TreeSync); when a paused workspace is rebuilt is     *)
(* AutoRepair; how the session is lost is Session; the sockets are         *)
(* Sockets.                                                                *)
(*                                                                         *)
(* Two histories: "astray" holds the workspaces that overlapping           *)
(* operations may have left in a state that none of them leaves alone,     *)
(* until they are rebuilt; "unseen" those whose folder may have gone       *)
(* without a look at it since.  The properties say what holds of the       *)
(* others.                                                                 *)
(***************************************************************************)
EXTENDS Naturals, Sequences, FiniteSets, SequencesExt

CONSTANTS
  Workspaces,
  Path,            \* Path[w]: the titles of the root, the folders below it and the workspace's
  Legacy,          \* the title of the root folder before its brand changed
  Tasks,           \* messages that are answered at the same time
  MaxEvents        \* bound: messages, deletions, losses of the session, evictions

ASSUME PathAssumption ==
  /\ \A w \in Workspaces : Path[w] \in Seq(Range(Path[w])) /\ Len(Path[w]) > 0 /\ Path[w][1] # Legacy
  /\ "nothing" \notin Workspaces /\ MaxEvents \in Nat

VARIABLES
  session,      \* state.session
  selected,     \* state.selectedWorkspaceIds
  projection,   \* state.projectionsByWorkspaceId: exists, its managed path, ready
  nodes,        \* Chrome's managed folders: id -> parent, title, the workspace whose tree it holds
  nextId,       \* Chrome's next bookmark id
  owed,         \* workspaces that a pause has handed to the automatic repair
  rebuild,      \* the rebuild of each workspace
  pathQueue,    \* managedPathQueue
  task,         \* the messages being answered
  unseen,       \* history: workspaces whose folder may be gone without a look at it since
  astray, events

stateVars == <<session, selected, projection>>
chromeVars == <<nodes, nextId>>
repairVars == <<owed, rebuild, pathQueue>>
vars == <<stateVars, chromeVars, repairVars, task, unseen, astray, events>>

-----------------------------------------------------------------------------
Container == 0
Absent == [exists |-> FALSE, path |-> <<>>, ready |-> FALSE]
Unbuilt == [exists |-> TRUE, path |-> <<>>, ready |-> FALSE]
NoTask == [kind |-> "none", pc |-> "done", todo |-> {}, want |-> {}, before |-> {}]
Idle == [pc |-> "idle", level |-> 0, at |-> Container, path |-> <<>>]
Ids == DOMAIN nodes
Child(parent, title) == {id \in Ids : nodes[id].parent = parent /\ nodes[id].title = title}
\* The folder and all that is in it, and nothing more.
Under(id) ==
  {n \in Ids : \A S \in SUBSET Ids : (\A m \in Ids : m = id \/ nodes[m].parent \in S => m \in S) => n \in S}
Built(w) == projection[w].path # <<>>
Without(ids) == [n \in Ids \ ids |-> nodes[n]]
Resolves(w) == Built(w) /\ Range(projection[w].path) \subseteq Ids
FolderOf(w) == Last(projection[w].path)
Happens == events < MaxEvents /\ events' = events + 1

(* The worker starts; at first with a selection that has no folders yet. *)
Starts == {[u \in Tasks |-> IF u = t THEN [NoTask EXCEPT !.kind = "start", !.pc = "sync"] ELSE NoTask] : t \in Tasks}

Init ==
  /\ session = TRUE /\ selected \in SUBSET Workspaces
  /\ projection = [w \in Workspaces |-> IF w \in selected THEN Unbuilt ELSE Absent]
  /\ nodes \in {<<>>, [i \in {1} |-> [parent |-> Container, title |-> Legacy, holds |-> "nothing"]]}
  /\ nextId = 2 /\ owed = {} /\ rebuild = [w \in Workspaces |-> Idle]
  /\ pathQueue = <<>> /\ task \in Starts
  /\ unseen = {} /\ astray = {} /\ events = 0

Goes(t, pc) == task' = [task EXCEPT ![t].pc = pc]
Ends(t) == task' = [task EXCEPT ![t] = NoTask]
At(t, pc) == task[t].pc = pc

(* Another operation is in the middle of the workspace. *)
Busy(w, t) ==
  \/ rebuild[w].pc # "idle"
  \/ \E u \in Tasks \ {t} : task[u].kind # "none"

-----------------------------------------------------------------------------
(* setSelectedWorkspaces and the options page that sends it.               *)

Select(t, ids) ==
  /\ Happens /\ session /\ At(t, "done")
  /\ task' = [task EXCEPT ![t] = [NoTask EXCEPT !.kind = "select", !.pc = "remove", !.want = ids,
                !.todo = selected \ ids, !.before = {w \in Workspaces : projection[w].exists}]]
  /\ UNCHANGED <<unseen, stateVars, chromeVars, repairVars, astray>>

(* removeWorkspaceProjection is best effort: a folder may be gone already. *)
RemoveFolder(w, t) ==
  /\ nodes' = IF Built(w) /\ w \in task[t].before THEN Without(Under(FolderOf(w))) ELSE nodes
  /\ astray' = IF Busy(w, t) THEN astray \union {w} ELSE astray

Deselect(t, w) ==
  /\ task[t].kind = "select" /\ At(t, "remove") /\ w \in task[t].todo
  /\ RemoveFolder(w, t)
  /\ task' = [task EXCEPT ![t].todo = @ \ {w}]
  /\ UNCHANGED <<unseen, stateVars, nextId, repairVars, events>>

StoreSelection(t) ==
  /\ task[t].kind = "select" /\ At(t, "remove") /\ task[t].todo = {}
  /\ selected' = task[t].want
  /\ projection' = [w \in Workspaces |-> IF w \in task[t].want THEN projection[w] ELSE Absent]
  /\ astray' = astray \union {w \in Workspaces \ task[t].want : projection[w].exists /\ Busy(w, t)}
  /\ Goes(t, "sync")
  /\ UNCHANGED <<unseen, session, chromeVars, repairVars, events>>

-----------------------------------------------------------------------------
(* syncSelectedWorkspaces, after a selection, a login or a start.          *)

(* refreshWorkspaceCatalog may fail, and the message with it. *)
Sync(t) ==
  /\ At(t, "sync")
  /\ \/ session /\ selected # {} /\ task' = [task EXCEPT ![t].pc = "ensure", ![t].todo = selected]
     \/ Ends(t)
  /\ UNCHANGED <<unseen, stateVars, chromeVars, repairVars, astray, events>>

(* ensureWorkspaceProjection: the workspaces are those selected when the   *)
(* catalog was read.                                                       *)
Ensure(t, w) ==
  /\ At(t, "ensure") /\ w \in task[t].todo
  /\ task' = [task EXCEPT ![t].pc = "look", ![t].want = {w}, ![t].todo = @ \ {w}]
  /\ projection' = IF session /\ ~projection[w].exists THEN [projection EXCEPT ![w] = Unbuilt] ELSE projection
  /\ astray' = IF session /\ w \notin selected THEN astray \union {w} ELSE astray
  /\ UNCHANGED <<unseen, session, selected, chromeVars, repairVars, events>>

(* Mutant: a start looks for stored ids, not for the folders. *)
LookAtIds(t, w) ==
  /\ At(t, "look") /\ task[t].want = {w}
  /\ owed' = IF session /\ projection[w].exists /\ ~Built(w) THEN owed \union {w} ELSE owed
  /\ unseen' = IF session THEN unseen \ {w} ELSE unseen
  /\ IF task[t].todo = {} THEN Ends(t) ELSE Goes(t, "ensure")
  /\ UNCHANGED <<stateVars, chromeVars, rebuild, pathQueue, astray, events>>

(* needsBootstrap and findUnresolvableManagedRoots pause the workspace. *)
Look(t, w) ==
  /\ At(t, "look") /\ task[t].want = {w}
  /\ owed' = IF session /\ projection[w].exists /\ ~Resolves(w) THEN owed \union {w} ELSE owed
  /\ unseen' = IF session THEN unseen \ {w} ELSE unseen
  /\ IF task[t].todo = {} THEN Ends(t) ELSE Goes(t, "ensure")
  /\ UNCHANGED <<stateVars, chromeVars, rebuild, pathQueue, astray, events>>

Wanted(w) == session /\ w \in selected /\ projection[w].exists

-----------------------------------------------------------------------------
(* doResyncWorkspace, which the rebuild lock runs once per workspace.      *)

Rebuilds(w, r) == rebuild' = [rebuild EXCEPT ![w] = r]

(* A walk that ends lets the next one begin. *)
Fails(w) == Rebuilds(w, Idle) /\ pathQueue' = Tail(pathQueue)

(* A selection or a logout is about to take the workspace away. *)
Leaving(w) ==
  \E t \in Tasks : task[t].kind = "logout" \/ (task[t].kind = "select" /\ At(t, "remove") /\ w \notin task[t].want)

(* runAutoRepair checks again what it was dispatched for. *)
Repair(w) ==
  /\ w \in owed /\ rebuild[w].pc = "idle"
  /\ owed' = owed \ {w}
  /\ IF Wanted(w)
       THEN /\ Rebuilds(w, [Idle EXCEPT !.pc = "tree"])
            /\ projection' = [projection EXCEPT ![w].ready = FALSE]
       ELSE UNCHANGED <<rebuild, projection>>
  /\ unseen' = IF Wanted(w) THEN unseen \ {w} ELSE unseen \union {w}
  /\ astray' = IF Wanted(w) /\ Leaving(w) THEN astray \union {w} ELSE astray
  /\ UNCHANGED <<session, selected, chromeVars, pathQueue, task, events>>

TreeComes(w) ==
  /\ rebuild[w].pc = "tree"
  /\ Rebuilds(w, [Idle EXCEPT !.pc = "path", !.level = 1])
  /\ pathQueue' = Append(pathQueue, w)
  /\ UNCHANGED <<unseen, stateVars, chromeVars, owed, task, astray, events>>

TreeFails(w) ==
  /\ rebuild[w].pc = "tree"
  /\ Rebuilds(w, Idle)
  /\ UNCHANGED <<unseen, stateVars, chromeVars, owed, pathQueue, task, astray, events>>

(* ensureManagedPath: enqueueManagedPathTask lets one workspace walk.      *)
Walks(w) == pathQueue # <<>> /\ Head(pathQueue) = w
Down(w, id) ==
  IF rebuild[w].level = Len(Path[w])
    THEN /\ pathQueue' = Tail(pathQueue)
         /\ Rebuilds(w, [Idle EXCEPT !.pc = "place", !.path = Append(rebuild[w].path, id)])
    ELSE /\ UNCHANGED pathQueue
         /\ Rebuilds(w, [pc |-> "path", level |-> rebuild[w].level + 1, at |-> id, path |-> Append(rebuild[w].path, id)])

Gone(w) == rebuild[w].at # Container /\ rebuild[w].at \notin Ids
Title(w) == Path[w][rebuild[w].level]

(* ensureFolderByTitle, ensureManagedRoot: the folder, the root under its  *)
(* old title, or a new one at a later step.                                *)
FindFolder(w) ==
  /\ rebuild[w].pc = "path" /\ Walks(w)
  /\ \/ Gone(w) /\ Fails(w)
     \/ /\ ~Gone(w)
        /\ \E id \in Child(rebuild[w].at, Title(w)) : Down(w, id)
     \/ /\ ~Gone(w) /\ Child(rebuild[w].at, Title(w)) = {}
        /\ Rebuilds(w, [rebuild[w] EXCEPT !.pc = "create"])
        /\ UNCHANGED pathQueue
  /\ UNCHANGED <<unseen, stateVars, chromeVars, owed, task, astray, events>>

OldRoot(w) == IF rebuild[w].level = 1 THEN Child(Container, Legacy) ELSE {}

CreateFolder(w) ==
  /\ rebuild[w].pc = "create"
  /\ \/ Gone(w) /\ Fails(w) /\ UNCHANGED chromeVars
     \/ /\ ~Gone(w)
        /\ \E id \in OldRoot(w) : nodes' = [nodes EXCEPT ![id].title = Title(w)] /\ Down(w, id)
        /\ UNCHANGED nextId
     \/ /\ ~Gone(w) /\ OldRoot(w) = {}
        /\ nodes' = [n \in Ids \union {nextId} |->
                       IF n = nextId THEN [parent |-> rebuild[w].at, title |-> Title(w), holds |-> "nothing"] ELSE nodes[n]]
        /\ nextId' = nextId + 1
        /\ Down(w, nextId)
  /\ UNCHANGED <<unseen, stateVars, owed, task, astray, events>>

(* The path is stored, in a new projection if there is none any more. *)
Place(w) ==
  /\ rebuild[w].pc = "place"
  /\ projection' = [projection EXCEPT ![w] = [exists |-> TRUE, path |-> rebuild[w].path, ready |-> FALSE]]
  /\ Rebuilds(w, [Idle EXCEPT !.pc = "fill"])
  /\ UNCHANGED <<unseen, session, selected, chromeVars, owed, pathQueue, task, astray, events>>

(* The folder is cleared and takes the workspace's tree. *)
Fill(w) ==
  /\ rebuild[w].pc = "fill"
  /\ IF projection[w].exists /\ Resolves(w)
       THEN /\ nodes' = [nodes EXCEPT ![FolderOf(w)].holds = w]
            /\ Rebuilds(w, [Idle EXCEPT !.pc = "settle"])
            /\ astray' = IF Wanted(w) /\ ~Leaving(w) THEN astray \ {w} ELSE astray
       ELSE Rebuilds(w, Idle) /\ UNCHANGED <<nodes, astray>>
  /\ UNCHANGED <<unseen, stateVars, nextId, owed, pathQueue, task, events>>

(* The replay may still fail. *)
Settle(w) ==
  /\ rebuild[w].pc = "settle"
  /\ \/ projection' = [projection EXCEPT ![w].exists = TRUE, ![w].ready = TRUE]
     \/ UNCHANGED projection
  /\ Rebuilds(w, Idle)
  /\ UNCHANGED <<unseen, session, selected, chromeVars, owed, pathQueue, task, astray, events>>

-----------------------------------------------------------------------------
(* login, logout, the loss of the session, the user, and the browser.      *)

Login(t) ==
  /\ Happens /\ ~session /\ At(t, "done")
  /\ session' = TRUE
  /\ task' = [task EXCEPT ![t] = [NoTask EXCEPT !.kind = "login", !.pc = "sync"]]
  /\ UNCHANGED <<unseen, selected, projection, chromeVars, repairVars, astray>>

Logout(t) ==
  /\ Happens /\ session /\ At(t, "done")
  /\ task' = [task EXCEPT ![t] = [NoTask EXCEPT !.kind = "logout", !.pc = "clear"]]
  /\ UNCHANGED <<unseen, stateVars, chromeVars, repairVars, astray>>

Clear(t) ==
  /\ At(t, "clear")
  /\ session' = FALSE
  /\ task' = [task EXCEPT ![t].pc = "remove",
                          ![t].todo = {w \in Workspaces : projection[w].exists},
                          ![t].before = {w \in Workspaces : projection[w].exists}]
  /\ UNCHANGED <<unseen, selected, projection, chromeVars, repairVars, astray, events>>

RemoveProjection(t, w) ==
  /\ task[t].kind = "logout" /\ At(t, "remove") /\ w \in task[t].todo
  /\ RemoveFolder(w, t)
  /\ task' = [task EXCEPT ![t].todo = @ \ {w}]
  /\ UNCHANGED <<unseen, stateVars, nextId, repairVars, events>>

(* resetStatePreservingSettings *)
Reset(t) ==
  /\ task[t].kind = "logout" /\ At(t, "remove") /\ task[t].todo = {}
  /\ session' = FALSE /\ selected' = {}
  /\ projection' = [w \in Workspaces |-> Absent]
  /\ astray' = astray \union {w \in Workspaces : session \/ (projection[w].exists /\ Busy(w, t))}
  /\ Ends(t)
  /\ UNCHANGED <<unseen, chromeVars, repairVars, events>>

(* pauseForLogin keeps the projections. *)
SessionLost ==
  /\ Happens /\ session
  /\ session' = FALSE
  /\ UNCHANGED <<unseen, selected, projection, chromeVars, repairVars, task, astray>>

(* handleBookmarkRemoved: the first selected workspace that tracks the     *)
(* folder is paused, and only that one.                                    *)
Tracks(w, id) == w \in selected /\ id \in Range(projection[w].path)

UserDeletes(id) ==
  /\ Happens
  /\ nodes' = Without(Under(id))
  /\ LET hit == {w \in Workspaces : Tracks(w, id)} IN
       \/ hit = {} /\ UNCHANGED <<owed, unseen>>
       \/ \E w \in hit : owed' = owed \union {w} /\ unseen' = unseen \union (hit \ {w})
  /\ astray' = astray \union {w \in Workspaces : rebuild[w].pc # "idle"}
  /\ UNCHANGED <<stateVars, nextId, rebuild, pathQueue, task>>

(* The worker ends; what the user deletes meanwhile nobody tells it. *)
Evict(gone) ==
  /\ Happens
  /\ nodes' = Without(gone)
  /\ owed' = {} /\ rebuild' = [w \in Workspaces |-> Idle] /\ pathQueue' = <<>>
  /\ task' \in Starts
  /\ unseen' = unseen \union owed \union {w \in Workspaces : ~(Range(projection[w].path) \subseteq Ids \ gone)}
  /\ UNCHANGED <<stateVars, nextId, astray>>

-----------------------------------------------------------------------------
TaskStep(t) ==
  \/ StoreSelection(t) \/ Sync(t) \/ Clear(t) \/ Reset(t)
  \/ \E w \in Workspaces :
       Deselect(t, w) \/ Ensure(t, w) \/ Look(t, w) \/ RemoveProjection(t, w)

RebuildStep(w) ==
  Repair(w) \/ TreeComes(w) \/ TreeFails(w) \/ FindFolder(w) \/ CreateFolder(w) \/ Place(w) \/ Fill(w) \/ Settle(w)

Worker == (\E t \in Tasks : TaskStep(t)) \/ (\E w \in Workspaces : RebuildStep(w))

Environment ==
  \/ \E t \in Tasks : Login(t) \/ Logout(t) \/ \E ids \in SUBSET Workspaces : Select(t, ids)
  \/ \E id \in Ids : UserDeletes(id) \/ Evict(Under(id))
  \/ Evict({}) \/ SessionLost

Next == Worker \/ Environment
Spec == Init /\ [][Next]_vars

-----------------------------------------------------------------------------
TypeOK ==
  /\ session \in BOOLEAN /\ selected \subseteq Workspaces
  /\ projection \in [Workspaces -> [exists : BOOLEAN, path : Seq(Nat), ready : BOOLEAN]]
  /\ Ids \subseteq 1 .. nextId /\ owed \subseteq Workspaces /\ astray \subseteq Workspaces
  /\ \A w \in Workspaces :
       /\ rebuild[w].pc \in {"idle", "tree", "path", "create", "place", "fill", "settle"}
       /\ w \in Range(pathQueue) <=> rebuild[w].pc \in {"path", "create"}

(* Rebuilds of workspaces that share folders create no folder twice. *)
OneFolder ==
  \A m, n \in Ids : nodes[m].parent = nodes[n].parent /\ nodes[m].title = nodes[n].title => m = n

AtRest == /\ \A t \in Tasks : task[t].kind = "none"
          /\ \A w \in Workspaces : rebuild[w].pc = "idle" /\ w \notin owed

(* A workspace that is ready has its folder, and its own tree in it. *)
ReadyHasFolder ==
  AtRest => \A w \in Workspaces \ (astray \union unseen) :
              projection[w].ready => Resolves(w) /\ nodes[FolderOf(w)].holds = w

(* No folder stays without its projection, no projection without its       *)
(* selection.                                                              *)
NoLeftovers ==
  AtRest => \A w \in Workspaces \ astray :
              /\ projection[w].exists => w \in selected
              /\ \A id \in Ids : nodes[id].holds = w => projection[w].exists

(* What documents say and the code does not keep (README, divergences).    *)

(* Deselecting one workspace leaves the folders of the others alone. *)
KeepsOthers == [][\A t \in Tasks : \A w \in Workspaces : Deselect(t, w)
                     => \A id \in Ids : nodes[id].holds \in selected \ {w} => id \in DOMAIN nodes']_vars
==================================================================================
