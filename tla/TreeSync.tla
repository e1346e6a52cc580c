-------------------------------- MODULE TreeSync --------------------------------
(***************************************************************************)
(* The folder tree of one projected workspace: remote events on nested     *)
(* folders, what a viewer hides, what an editor keeps outside the shared   *)
(* folders, and the recovery of a subtree                                  *)
(* (extension/src/background/projection.ts, shared/mapping.ts,             *)
(* shared/exclusions.ts, shared/projection-helpers.ts).                    *)
(*                                                                         *)
(* Events are applied one by one; the user, the server and a rebuild go on *)
(* between them, and the relocation of a user's bookmark goes on between   *)
(* the steps of a rebuild.                                                 *)
(*                                                                         *)
(* Abstracted: positions, titles and urls, receipts and local intents of   *)
(* shared entities (WorkspaceSync), when a paused workspace is rebuilt     *)
(* (AutoRepair), the managed folders above the workspace (Projections).    *)
(* The workspace's own folder stays.  An adopted node is one that shows    *)
(* the entity under the parent the event names.                            *)
(*                                                                         *)
(* Histories: "unhidden" holds the entities whose exclusion was dropped    *)
(* while they live; "late" says that events were lost to the tree that is  *)
(* shown until the next rebuild, and "twice" that two local-only folders   *)
(* were made.  README names the ways there.                                *)
(***************************************************************************)
EXTENDS Naturals, Sequences, FiniteSets, SequencesExt

CONSTANTS
  Folders, Bookmarks,
  MaxRecoveries,    \* MAX_SILENT_RECOVERY_ATTEMPTS (3)
  MaxEvents,        \* bound: mutations on the server
  MaxActs           \* bound: deletions and bookmarks of the user, gaps, failures

ASSUME EntitiesAssumption ==
  /\ IsFiniteSet(Folders) /\ IsFiniteSet(Bookmarks) /\ Folders \intersect Bookmarks = {}
  /\ {"root", "nowhere", "mine", "local only"} \intersect (Folders \union Bookmarks) = {}
  /\ {MaxRecoveries, MaxEvents, MaxActs} \subseteq Nat

VARIABLES
  tree,         \* the server: the parent of each entity, or Nowhere
  log,          \* its events
  nodes,        \* Chrome, below the workspace's folder: id -> parent, what it shows
  map,          \* chromeIdByBackendId
  excluded,     \* excludedBackendNodeIds
  localOnly,    \* localOnlyChromeId
  cursor,       \* lastCursor
  replaying,    \* a replay from the cursor is being applied
  recoveries,   \* recoveryAttemptCount
  recovering,   \* the event whose recovery replays, or 0: it is passed when that stops
  paused,       \* the journal is paused, a rebuild is owed
  rebuild,      \* doResyncWorkspace: its step and the tree it fetched
  relocation,   \* relocateToLocalOnly: its step and its bookmark
  removed,      \* onRemoved callbacks that have not been handled
  unhidden, late, twice, acts

serverVars == <<tree, log>>
projectionVars == <<map, excluded, localOnly>>
syncVars == <<cursor, replaying, recoveries, recovering, paused>>
histories == <<unhidden, late, twice>>
vars == <<serverVars, nodes, projectionVars, syncVars, rebuild, relocation, removed, histories, acts>>

-----------------------------------------------------------------------------
Entities == Folders \union Bookmarks
Root == "root"
Nowhere == "nowhere"
NoNode == 0
Home == 1                    \* workspaceChromeId
Ids == DOMAIN nodes
Exists(id) == id = Home \/ id \in Ids
NoRebuild == [pc |-> "idle", tree |-> [e \in Entities |-> Nowhere]]
NoRelocation == [pc |-> "idle", id |-> NoNode]
Acts == acts < MaxActs /\ acts' = acts + 1

(* The entity and the folders above it, in a tree of the server. *)
Line(t, e) ==
  {x \in Entities : \A S \in SUBSET Entities : e \in S /\ (\A y \in S : t[y] \in Entities => t[y] \in S) => x \in S}
Alive(t) == {e \in Entities : t[e] # Nowhere}
Below(t, f) == {e \in Alive(t) \ {f} : f = Root \/ f \in Line(t, e)}

(* The nodes below a node, itself included. *)
Under(id) ==
  {n \in Ids : \A S \in SUBSET Ids : (\A m \in Ids : m = id \/ nodes[m].parent \in S => m \in S) => n \in S}
Children(id) == {n \in Ids : nodes[n].parent = id}
Without(gone) == [n \in Ids \ gone |-> nodes[n]]
EntityAt(id) == {e \in Entities : map[e] = id /\ id # NoNode}
EntitiesAt(ids) == {e \in Entities : map[e] \in ids \ {NoNode}}
Unmap(es) == [e \in Entities |-> IF e \in es THEN NoNode ELSE map[e]]
Used == Ids \union {Home, localOnly, relocation.id} \union removed \union {map[e] : e \in Entities}
(* Ids that Chrome may give: the first of those that are not used. *)
FreshIds(count) ==
  LET used == Used
      unused == (Home + 1 .. Home + Cardinality(used) + count) \ used IN
  {n \in unused : Cardinality({m \in unused : m < n}) < count}
Fresh == CHOOSE n \in FreshIds(1) : TRUE
Grow(ns, id, parent, shows) == [n \in DOMAIN ns \union {id} |-> IF n = id THEN [parent |-> parent, shows |-> shows] ELSE ns[n]]

Init ==
  /\ tree = [e \in Entities |-> Nowhere] /\ log = <<>>
  /\ nodes = <<>> /\ map = [e \in Entities |-> NoNode] /\ excluded = {} /\ localOnly = NoNode
  /\ cursor = 0 /\ replaying = FALSE /\ recoveries = 0 /\ recovering = 0 /\ paused = FALSE
  /\ rebuild = NoRebuild /\ relocation = NoRelocation /\ removed = {}
  /\ unhidden = {} /\ late = FALSE /\ twice = FALSE /\ acts = 0

-----------------------------------------------------------------------------
(* The server: one event for each mutation; a folder takes its contents    *)
(* with it.                                                                *)

Records(kind, e, parent) == Len(log) < MaxEvents /\ log' = Append(log, [kind |-> kind, entity |-> e, parent |-> parent])
Parents(e) == (Alive(tree) \intersect Folders) \union IF e \in Folders THEN {Root} ELSE {}
Born(e) == \E i \in 1 .. Len(log) : log[i].entity = e
ServerRest == UNCHANGED <<nodes, projectionVars, syncVars, rebuild, relocation, removed, histories, acts>>

ServerPuts(e, p) ==
  /\ p \in Parents(e) /\ p # tree[e]
  /\ tree[e] # Nowhere \/ ~Born(e)
  /\ p \in Entities => e \notin Line(tree, p)
  /\ Records("upsert", e, p)
  /\ tree' = [tree EXCEPT ![e] = p]
  /\ ServerRest

ServerDeletes(e) ==
  /\ e \in Alive(tree)
  /\ Records("delete", e, tree[e])
  /\ tree' = [x \in Entities |-> IF x = e \/ x \in Below(tree, e) THEN Nowhere ELSE tree[x]]
  /\ ServerRest

-----------------------------------------------------------------------------
(* Building a part of the tree.                                            *)

(* What is built below a folder: nothing that is excluded, or inside it. *)
Visible(t, f) == {e \in Below(t, f) : \A x \in Line(t, e) \ (IF f = Root THEN {} ELSE Line(t, f)) : x \notin excluded}

(* materializeFolder and materializeBookmark, over the nodes that stay. *)
Materialize(ns, es, t, at) ==
  LET idOf == CHOOSE f \in [es -> FreshIds(Cardinality(es))] : IsInjective(f) IN
  /\ nodes' = [n \in DOMAIN ns \union {idOf[e] : e \in es} |->
                 IF n \in DOMAIN ns THEN ns[n]
                 ELSE LET e == CHOOSE x \in es : idOf[x] = n IN
                      [parent |-> IF t[e] \in es THEN idOf[t[e]] ELSE at, shows |-> e]]
  /\ map' = [e \in Entities |-> IF e \in es THEN idOf[e] ELSE IF map[e] \in DOMAIN ns THEN map[e] ELSE NoNode]

-----------------------------------------------------------------------------
(* applyRemoteEnvelope: the event that follows the cursor.                 *)

Ready == ~paused /\ cursor < Len(log)
E == log[cursor + 1].entity
P == log[cursor + 1].parent
ParentAt == IF P = Root THEN Home ELSE map[P]
ParentOk == ParentAt # NoNode /\ Exists(ParentAt)
MappedOk == map[E] = NoNode \/ map[E] \in Ids
Hidden == E \in excluded \/ P \in excluded
Advance == cursor' = cursor + 1
Pauses == paused' = TRUE /\ cursor' = Max({cursor, recovering}) /\ recovering' = 0

(* An event that is applied while a rebuild holds an older tree. *)
MayBeLate == late' = (late \/ rebuild.pc # "idle")
Unhides(es) ==
  /\ excluded' = excluded \ es
  /\ unhidden' = unhidden \union {e \in es \intersect excluded : tree[e] # Nowhere}
ApplyRest == UNCHANGED <<serverVars, localOnly, rebuild, relocation, removed, twice>>

(* The upsert of what is hidden removes the node that may still show it. *)
ApplyHidden ==
  /\ Ready /\ log[cursor + 1].kind = "upsert" /\ Hidden
  /\ IF map[E] \in Ids
       THEN LET gone == Under(map[E]) IN
            /\ nodes' = Without(gone) /\ map' = Unmap(EntitiesAt(gone))
            /\ Unhides(EntitiesAt(gone))
       ELSE UNCHANGED <<nodes, map, excluded, unhidden>>
  /\ Advance /\ MayBeLate
  /\ UNCHANGED <<replaying, recoveries, recovering, paused, acts>> /\ ApplyRest

(* findReusableFolderNode, findReusableBookmarkNode *)
Reusable == {n \in Children(ParentAt) : nodes[n].shows = E}

ApplyNew ==
  /\ Ready /\ log[cursor + 1].kind = "upsert" /\ ~Hidden /\ ParentOk /\ map[E] = NoNode
  /\ IF Cardinality(Reusable) = 1
       THEN \E n \in Reusable : map' = [map EXCEPT ![E] = n] /\ UNCHANGED nodes
       ELSE nodes' = Grow(nodes, Fresh, ParentAt, E) /\ map' = [map EXCEPT ![E] = Fresh]
  /\ late' = (late \/ rebuild.pc # "idle" \/ Below(tree, E) \ {log[i].entity : i \in cursor + 1 .. Len(log)} # {})
  /\ Advance
  /\ UNCHANGED <<excluded, unhidden, replaying, recoveries, recovering, paused, acts>> /\ ApplyRest

(* A folder cannot move into itself; the move is rejected. *)
ApplyMove ==
  /\ Ready /\ log[cursor + 1].kind = "upsert" /\ ~Hidden /\ ParentOk /\ map[E] \in Ids
  /\ IF ParentAt \in Under(map[E])
       THEN Pauses /\ UNCHANGED nodes
       ELSE nodes' = [nodes EXCEPT ![map[E]].parent = ParentAt] /\ Advance /\ UNCHANGED <<recovering, paused>>
  /\ MayBeLate
  /\ UNCHANGED <<map, excluded, unhidden, replaying, recoveries, acts>> /\ ApplyRest

-----------------------------------------------------------------------------
(* recoverSubtreeThenWorkspace, within the budget.                         *)

(* Mutant: the budget is compared before it is counted. *)
CountedLate == recoveries > MaxRecoveries

Exhausted == recoveries + 1 > MaxRecoveries

(* invalidateSubtreeMappings: these entities, and what is below the node. *)
Invalid(es) == es \union EntitiesAt(IF map[E] \in Ids THEN Under(map[E]) ELSE {map[E]})

(* resolveCanonicalAnchor: the nearest folder above that has its node. *)
Anchors(lost) ==
  LET good(e) == e \in Alive(tree) \intersect Folders /\ e \notin lost /\ map[e] \in Ids
      start == {c \in ({P} \union IF E \in Folders THEN {E} ELSE {}) \ {Root} : c \in Alive(tree)}
      above(c) == {x \in Line(tree, c) : good(x)}
      first == IF P \in start /\ above(P) # {} THEN above(P) ELSE UNION {above(c) : c \in start} IN
  IF first = {} THEN {Root} ELSE {x \in first : first \subseteq Line(tree, x)}

(* attemptSubtreeRecovery: the folder is cleared and built again from the  *)
(* server's tree, which may be ahead of the events, and the replay goes on *)
(* from the cursor.  The tree may not come; a workspace then pauses.       *)
Recover(lost, prunes) ==
  \/ /\ ~Exhausted
     /\ \E f \in Anchors(lost) :
        LET at == IF f = Root THEN Home ELSE map[f]
            cleared == UNION {Under(n) : n \in Children(at) \ {localOnly}}
            stale == EntitiesAt(cleared) \ Below(tree, f)
            es == Visible(tree, f) IN
        /\ Materialize(Without(cleared), es, tree, at)
        /\ IF prunes THEN Unhides(lost \union stale) ELSE UNCHANGED <<excluded, unhidden>>
     /\ recoveries' = recoveries + 1 /\ replaying' = TRUE /\ recovering' = Max({recovering, cursor + 1})
     /\ UNCHANGED <<cursor, paused, acts>>
  \/ /\ ~Exhausted /\ Acts
     /\ map' = Unmap(lost) /\ Pauses /\ recoveries' = recoveries + 1
     /\ IF prunes THEN Unhides(lost) ELSE UNCHANGED <<excluded, unhidden>>
     /\ UNCHANGED <<nodes, replaying>>
  \/ /\ Exhausted                       \* degraded: the event is passed over
     /\ Advance
     /\ IF prunes THEN Unhides(lost) /\ map' = Unmap(lost) ELSE UNCHANGED <<map, excluded, unhidden>>
     /\ UNCHANGED <<nodes, replaying, recoveries, recovering, paused, acts>>

(* The parent or the node of an upsert is not where it is mapped. *)
ApplyOrphan ==
  /\ Ready /\ log[cursor + 1].kind = "upsert" /\ ~Hidden /\ ~(ParentOk /\ MappedOk)
  /\ Recover(Invalid((IF ParentOk THEN {} ELSE {P}) \union {E}), FALSE)
  /\ late' = (late \/ rebuild.pc # "idle" \/ Exhausted)
  /\ ApplyRest

(* Mutant: what is below the parent is forgotten, not below the node. *)
DropSiblings ==
  map[E] \in Ids /\ map' = Unmap({E} \union EntitiesAt(Under(ParentAt))) /\ Unhides(EntitiesAt(Under(map[E])))

(* deleteChromeNode and finishRemoteDelete. *)
DropSubtree == map[E] \in Ids /\ map' = Unmap(EntitiesAt(Under(map[E]))) /\ Unhides(EntitiesAt(Under(map[E])))

(* The delete of an entity that is shown.  A live delete of a folder then  *)
(* recovers its parent, as if it had not been mapped.                      *)
ApplyDelete ==
  /\ Ready /\ log[cursor + 1].kind = "delete" /\ ParentOk /\ map[E] \in Ids
  /\ nodes' = Without(Under(map[E]))
  /\ DropSubtree
  /\ MayBeLate
  /\ IF E \in Folders /\ ~replaying THEN UNCHANGED cursor ELSE Advance
  /\ UNCHANGED <<replaying, recoveries, recovering, paused, acts>> /\ ApplyRest

(* The delete of one that is not: its parent or itself is not mapped. *)
ApplyDeleteMiss ==
  /\ Ready /\ log[cursor + 1].kind = "delete" /\ ~(ParentOk /\ map[E] \in Ids)
  /\ LET lost == Invalid((IF ParentOk THEN {} ELSE {P}) \union {E}) IN
       IF replaying \/ (ParentOk /\ map[E] = NoNode /\ E \in Bookmarks)
         THEN Unhides(lost) /\ map' = Unmap(lost) /\ Advance
              /\ UNCHANGED <<nodes, replaying, recoveries, recovering, paused, acts>>
         ELSE Recover(lost, TRUE)
  /\ late' = (late \/ rebuild.pc # "idle" \/ (~replaying /\ Exhausted))
  /\ ApplyRest

(* A gap before the next event, or a new socket, starts a replay. *)
ReplayBegins ==
  /\ Ready /\ ~replaying /\ Acts
  /\ replaying' = TRUE
  /\ UNCHANGED <<serverVars, nodes, projectionVars, cursor, recoveries, recovering, paused, rebuild, relocation, removed, histories>>

(* What was replayed is live again. *)
ReplayEnds ==
  /\ replaying /\ ~paused /\ cursor = Len(log)
  /\ replaying' = FALSE /\ recoveries' = 0 /\ recovering' = 0
  /\ UNCHANGED <<serverVars, nodes, projectionVars, cursor, paused, rebuild, relocation, removed, histories, acts>>

-----------------------------------------------------------------------------
(* ensureLocalOnlyFolder, run by a rebuild and by a relocation: the folder *)
(* that is known, one with its title, or a new one at a later step.        *)

Known == localOnly \in Children(Home)
Titled == {n \in Children(Home) : nodes[n].shows = "local only"}

EnsureFinds(found, missing) ==
  \/ Known /\ found /\ UNCHANGED localOnly
  \/ ~Known /\ Titled # {} /\ found /\ \E n \in Titled : localOnly' = n
  \/ ~Known /\ Titled = {} /\ missing /\ UNCHANGED localOnly

EnsureMakes ==
  /\ nodes' = Grow(nodes, Fresh, Home, "local only") /\ localOnly' = Fresh
  /\ twice' = (twice \/ Titled # {})

Rebuilds(pc) == rebuild' = [rebuild EXCEPT !.pc = pc]

(* doResyncWorkspace fetches the tree and forgets the mapping. *)
RebuildBegins ==
  /\ paused /\ rebuild.pc = "idle"
  /\ rebuild' = [pc |-> "find", tree |-> tree]
  /\ paused' = FALSE /\ map' = [e \in Entities |-> NoNode]
  /\ excluded' = excluded \intersect Alive(tree)
  /\ late' = FALSE
  /\ unhidden' = {}
  /\ UNCHANGED <<serverVars, nodes, localOnly, cursor, replaying, recoveries, recovering, relocation, removed, twice, acts>>

RebuildFinds ==
  /\ rebuild.pc = "find"
  /\ EnsureFinds(Rebuilds("clear"), Rebuilds("make"))
  /\ UNCHANGED <<serverVars, nodes, map, excluded, syncVars, relocation, removed, histories, acts>>

RebuildMakes ==
  /\ rebuild.pc = "make" /\ EnsureMakes /\ Rebuilds("clear")
  /\ UNCHANGED <<serverVars, map, excluded, syncVars, relocation, removed, unhidden, late, acts>>

(* Mutant: what is mapped goes, though the mapping was forgotten. *)
ClearMapped ==
  LET cleared == UNION {Under(map[e]) : e \in {x \in Entities : map[x] \in Ids}} IN
  nodes' = Without(cleared) /\ map' = Unmap(EntitiesAt(cleared))

(* Mutant: everything below the workspace's folder goes. *)
ClearAll == nodes' = <<>> /\ map' = [e \in Entities |-> NoNode]

ClearChildren ==
  LET cleared == UNION {Under(n) : n \in Children(Home) \ {localOnly}} IN
  nodes' = Without(cleared) /\ map' = Unmap(EntitiesAt(cleared))

RebuildClears ==
  /\ rebuild.pc = "clear" /\ ClearChildren /\ Rebuilds("fill")
  /\ UNCHANGED <<serverVars, excluded, localOnly, syncVars, relocation, removed, histories, acts>>

RebuildFills ==
  /\ rebuild.pc = "fill" /\ rebuild' = NoRebuild
  /\ Materialize(nodes, Visible(rebuild.tree, Root), rebuild.tree, Home)
  /\ replaying' = TRUE
  /\ UNCHANGED <<serverVars, excluded, localOnly, cursor, recoveries, recovering, paused, relocation, removed, histories, acts>>

-----------------------------------------------------------------------------
(* The user.                                                               *)

(* A viewer deletes a shared node; the callback comes later. *)
UserDeletes(id) ==
  /\ Acts /\ id \in Ids /\ nodes[id].shows \in Entities
  /\ nodes' = Without(Under(id)) /\ removed' = removed \union {id}
  /\ UNCHANGED <<serverVars, projectionVars, syncVars, rebuild, relocation, histories>>

(* handleBookmarkRemoved: what a viewer deletes is excluded and the        *)
(* workspace is rebuilt.                                                   *)
RemoveHandled(id) ==
  /\ id \in removed /\ removed' = removed \ {id}
  /\ IF EntityAt(id) = {}
       THEN late' = TRUE /\ UNCHANGED <<excluded, cursor, recovering, paused>>
       ELSE excluded' = excluded \union EntityAt(id) /\ Pauses /\ MayBeLate
  /\ UNCHANGED <<serverVars, nodes, map, localOnly, replaying, recoveries, rebuild, relocation, unhidden, twice, acts>>

(* An editor's bookmark outside the shared folders goes to the local-only  *)
(* folder.                                                                 *)
UserAdds ==
  /\ Acts /\ relocation.pc = "idle"
  /\ nodes' = Grow(nodes, Fresh, Home, "mine")
  /\ relocation' = [pc |-> "find", id |-> Fresh]
  /\ UNCHANGED <<serverVars, projectionVars, syncVars, rebuild, removed, histories>>

Relocates(pc) == relocation' = [relocation EXCEPT !.pc = pc]

RelocationFinds ==
  /\ relocation.pc = "find"
  /\ EnsureFinds(Relocates("move"), Relocates("make"))
  /\ UNCHANGED <<serverVars, nodes, map, excluded, syncVars, rebuild, removed, histories, acts>>

RelocationMakes ==
  /\ relocation.pc = "make" /\ EnsureMakes /\ Relocates("move")
  /\ UNCHANGED <<serverVars, map, excluded, syncVars, rebuild, removed, unhidden, late, acts>>

(* The bookmark or the folder may be gone: then it stays as it is. *)
RelocationMoves ==
  /\ relocation.pc = "move" /\ relocation' = NoRelocation
  /\ nodes' = IF relocation.id \in Ids /\ localOnly \in Ids THEN [nodes EXCEPT ![relocation.id].parent = localOnly] ELSE nodes
  /\ UNCHANGED <<serverVars, projectionVars, syncVars, rebuild, removed, histories, acts>>

-----------------------------------------------------------------------------
Apply == ApplyHidden \/ ApplyNew \/ ApplyMove \/ ApplyOrphan \/ ApplyDelete \/ ApplyDeleteMiss \/ ReplayEnds
Rebuild == RebuildBegins \/ RebuildFinds \/ RebuildMakes \/ RebuildClears \/ RebuildFills
Relocate == RelocationFinds \/ RelocationMakes \/ RelocationMoves
Handle == \E id \in removed : RemoveHandled(id)
Worker == Apply \/ Rebuild \/ Relocate \/ Handle

Next ==
  \/ Worker \/ ReplayBegins
  \/ \E e \in Entities : ServerDeletes(e) \/ \E p \in Entities \union {Root} : ServerPuts(e, p)
  \/ (\E id \in Ids : UserDeletes(id)) \/ UserAdds

Spec == Init /\ [][Next]_vars
FairSpec == Spec /\ WF_vars(Worker)

-----------------------------------------------------------------------------
TypeOK ==
  /\ tree \in [Entities -> Entities \union {Root, Nowhere}]
  /\ \A id \in Ids : Exists(nodes[id].parent) /\ nodes[id].shows \in Entities \union {"mine", "local only"}
  /\ cursor \in 0 .. Len(log) /\ recoveries \in 0 .. MaxRecoveries
  /\ excluded \subseteq Entities /\ acts \in 0 .. MaxActs

AtRest == cursor = Len(log) /\ ~paused /\ ~replaying /\ rebuild.pc = "idle" /\ removed = {} /\ relocation.pc = "idle"

(* When all is applied, Chrome shows the server's tree but for what the    *)
(* user hides, each entity once and in its folder.                         *)
Mirrors ==
  AtRest /\ ~late /\ unhidden = {} =>
    LET shown == Visible(tree, Root) IN
    /\ {nodes[id].shows : id \in Ids} \intersect Entities = shown
    /\ \A m, n \in Ids : nodes[m].shows = nodes[n].shows /\ nodes[m].shows \in Entities => m = n
    /\ \A id \in Ids : nodes[id].shows \in Entities =>
         LET p == tree[nodes[id].shows] IN
         IF p = Root THEN nodes[id].parent = Home ELSE nodes[id].parent \in Ids /\ nodes[nodes[id].parent].shows = p

(* Every shared node is known as its entity: what the user does to it is   *)
(* sent, and sent for the entity it shows.                                 *)
Owned ==
  AtRest /\ ~late => \A id \in Ids : nodes[id].shows \in Entities => map[nodes[id].shows] = id

(* What the user put into the local-only folder is there to stay, unless    *)
(* a second one was made.                                                   *)
LocalOnlyKept ==
  [][\A id \in Ids : /\ nodes[id].shows = "mine" /\ ~twice'
                     /\ nodes[id].parent \in Ids /\ nodes[nodes[id].parent].shows = "local only"
       => id \in DOMAIN nodes']_vars

(* Recoveries of subtrees do not set each other off for ever. *)
CatchesUp == <>[]AtRest

(* What documents say and the code does not keep (README, divergences).    *)

(* Exclusions survive until the entity is deleted. *)
ExclusionsSurvive == unhidden = {}

(* The content of a local-only folder is never at risk. *)
LocalOnlySafe ==
  [][\A id \in Ids : /\ nodes[id].shows = "mine"
                     /\ nodes[id].parent \in Ids /\ nodes[nodes[id].parent].shows = "local only"
       => id \in DOMAIN nodes']_vars
================================================================================
