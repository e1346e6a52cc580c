----------------------------- MODULE PanelTree ------------------------------
(***************************************************************************)
(* The tree of a workspace in the administration panel                     *)
(* (admin-web/src/lib/bookmarks/treeModel.ts,                              *)
(* features/bookmarks/mutations.ts, queries.ts, BookmarkTree.tsx,          *)
(* BookmarksPage.tsx).                                                     *)
(*                                                                         *)
(* The panel keeps no optimistic state: a drop or a key plans a move over  *)
(* the rows of the last tree it read, sends it under an event id, and      *)
(* reads the tree again when the call has settled, well or badly.  Others  *)
(* edit the same tree meanwhile.                                           *)
(*                                                                         *)
(* A tree is, for each place, the folders and the bookmarks in it, each in *)
(* the order of their positions: two separate spaces.  Which folders are    *)
(* collapsed is chosen at first and kept.  Left out: names, the forms that *)
(* create and rename (they differ in the body they send), and viewers, who *)
(* cannot change anything.                                                 *)
(***************************************************************************)
EXTENDS Integers, Sequences, FiniteSets, SequencesExt

CONSTANTS
    Folders, Bookmarks, Root,
    FirstTree,      \* the tree when the page opens
    Budgets         \* bounds, one of which a behaviour keeps: the mutations
                    \* issued, the changes made by others, the failed connections

Nodes == Folders \union Bookmarks
Everywhere == Folders \union {Root}

Kind(n) == IF n \in Folders THEN "folder" ELSE "bookmark"

Group(t, p, kind) == t[p][kind]
Children(t, p) == ToSet(t[p].folder) \union ToSet(t[p].bookmark)

Parents(t, n) == {p \in Everywhere : n \in Children(t, p)}
Exists(t, n) == n = Root \/ Parents(t, n) # {}
ParentOf(t, n) == CHOOSE p \in Parents(t, n) : TRUE
IndexIn(s, n) == CHOOSE i \in DOMAIN s : s[i] = n
PositionOf(t, n) == IndexIn(Group(t, ParentOf(t, n), Kind(n)), n)

\* The folders above a node, the root left out (ancestorIds).
Over(t, n) == Parents(t, n) \ {Root}
Ancestors(t, n) ==
    {f \in Folders : \A above \in SUBSET Folders :
        Over(t, n) \subseteq above /\ (\A g \in above : Over(t, g) \subseteq above) => f \in above}

Subtree(t, n) == {m \in Nodes : m = n \/ n \in Ancestors(t, m)}

\* The rows of a group but for some.
Others(rows, nodes) ==
    LET kept == {i \in DOMAIN rows : rows[i] \notin nodes}
        At(k) == CHOOSE i \in kept : Cardinality({j \in kept : j < i}) = k - 1
    IN  [k \in 1 .. Cardinality(kept) |-> rows[At(k)]]

Without(t, nodes) ==
    [p \in Everywhere |-> [folder |-> Others(t[p].folder, nodes), bookmark |-> Others(t[p].bookmark, nodes)]]

\* A position among the other nodes of a place, at most after the last.
Clamp(t, n, p, position) ==
    LET last == Len(Group(Without(t, {n}), p, Kind(n))) + 1
    IN  IF position > last THEN last ELSE position

\* The siblings without the node that moves, and it at its position among them.
PutAt(t, n, p, position) ==
    [Without(t, {n}) EXCEPT ![p][Kind(n)] = InsertAt(@, Clamp(t, n, p, position), n)]

-----------------------------------------------------------------------------
(* The planner: what a drop or a key means, over the rows shown.            *)

Visible(t, closed, n) == Exists(t, n) /\ Ancestors(t, n) \intersect closed = {}

\* Rows of one kind in one place: none when the place is closed.
countGroup(t, closed, kind, p) ==
    Cardinality({n \in ToSet(Group(t, p, kind)) : Visible(t, closed, n)})

OnRow(n) == [kind |-> "row", at |-> n]
Into(f) == [kind |-> "into", at |-> f]
IntoRoot == [kind |-> "into-root", at |-> Root]
Targets == {OnRow(n) : n \in Nodes} \union {Into(f) : f \in Folders} \union {IntoRoot}

legalityReason(t, closed, n, target) ==
    CASE target.kind = "row" ->
            IF target.at = n THEN "illegal-target"
            ELSE IF ~Visible(t, closed, target.at) THEN "not-found"
            ELSE IF Kind(target.at) # Kind(n) THEN "illegal-target"
            ELSE IF n \in Ancestors(t, target.at) THEN "cycle" ELSE "ok"
      [] target.kind = "into" ->
            IF target.at = n THEN "illegal-target"
            ELSE IF ~Visible(t, closed, target.at) THEN "not-found"
            ELSE IF n \in Ancestors(t, target.at) THEN "cycle"
            ELSE IF target.at = ParentOf(t, n) THEN "illegal-target" ELSE "ok"
      [] target.kind = "into-root" ->
            IF n \in Folders /\ ParentOf(t, n) # Root THEN "ok" ELSE "illegal-target"

isLegalTarget(t, closed, n, target) ==
    Visible(t, closed, n) /\ legalityReason(t, closed, n, target) = "ok"

Move(n, p, changed, position) ==
    [op |-> "move", node |-> n, parent |-> p, changed |-> changed, position |-> position]

\* Mutant: the place a row leaves is taken off the position.
DropLessOne(t, closed, n, target) ==
    IF target.kind = "row"
    THEN LET down == ParentOf(t, target.at) = ParentOf(t, n) /\ PositionOf(t, n) < PositionOf(t, target.at)
         IN  Move(n, ParentOf(t, target.at), ParentOf(t, target.at) # ParentOf(t, n),
                  PositionOf(t, target.at) - IF down THEN 1 ELSE 0)
    ELSE Move(n, target.at, TRUE, countGroup(t, closed, Kind(n), target.at) + 1)

\* Positions count from one here.
planDrop(t, closed, n, target) ==
    IF target.kind = "row"
    THEN Move(n, ParentOf(t, target.at), ParentOf(t, target.at) # ParentOf(t, n),
              PositionOf(t, target.at))
    ELSE Move(n, target.at, TRUE, countGroup(t, closed, Kind(n), target.at) + 1)

\* The folder shown just above a row, among the rows of the same place.
Preceding(t, n) ==
    LET p == ParentOf(t, n)
        rows == t[p].folder \o t[p].bookmark
        i == IndexIn(rows, n)
    IN  IF i > 1 /\ rows[i - 1] \in Folders THEN {rows[i - 1]} ELSE {}

\* What a key aims at: a row beside it, the grandparent, the folder above.
KeyTargets(t, n) ==
    LET p == ParentOf(t, n)
        group == Group(t, p, Kind(n))
        i == PositionOf(t, n)
        Beside(j) == IF j \in DOMAIN group THEN {OnRow(group[j])} ELSE {}
        Outdent == IF p = Root THEN {}
                   ELSE IF ParentOf(t, p) # Root THEN {Into(ParentOf(t, p))}
                   ELSE IF n \in Bookmarks THEN {} ELSE {IntoRoot}
    IN  Beside(i - 1) \union Beside(i + 1) \union Outdent
            \union {Into(f) : f \in Preceding(t, n)}

-----------------------------------------------------------------------------
VARIABLES
    tree,       \* the server's tree
    shown,      \* the tree of the last read
    closed,     \* folders collapsed by the viewer
    calls,      \* the panel's mutations in flight
    issued,     \* number of mutations issued
    keys,       \* remembered event ids: [plan, event]
    known,      \* the server's receipts: [event, final]
    late,       \* requests the network still holds for a caller that gave up
    fetch,      \* the read in flight
    failed,     \* the last read failed: the page shows an error instead
    behind,     \* someone else changed the tree after the last read was served
    left        \* what is left of the budget: [calls, others, faults]

vars == <<tree, shown, closed, calls, issued, keys, known, late, fetch, failed,
          behind, left>>

NoFetch == [stage |-> "none", tree |-> FirstTree]
Asked == [stage |-> "asked", tree |-> FirstTree]

Init ==
    /\ tree = FirstTree /\ shown = FirstTree
    /\ closed \in SUBSET {f \in Folders : Children(FirstTree, f) # {}}
    /\ calls = {} /\ issued = 0 /\ keys = {} /\ known = {} /\ late = {}
    /\ fetch = NoFetch /\ failed = FALSE /\ behind = FALSE
    /\ left \in Budgets

Spend(what) == left[what] > 0 /\ left' = [left EXCEPT ![what] = @ - 1]

-----------------------------------------------------------------------------
(* The page.                                                                *)

\* keyFor: the id remembered for this very plan, or a new one.
Remembered(plan) == {k \in keys : k.plan = plan}

keyFor(plan) ==
    IF Remembered(plan) = {} THEN issued + 1 ELSE (CHOOSE k \in Remembered(plan) : TRUE).event

mutate(plan, target) ==
    /\ Spend("calls")
    /\ issued' = issued + 1
    /\ keys' = keys \union {[plan |-> plan, event |-> keyFor(plan)]}
    /\ calls' = calls \union
            {[id |-> issued + 1, plan |-> plan, target |-> target, event |-> keyFor(plan),
              seen |-> shown, closed |-> closed, stage |-> "sent"]}
    /\ UNCHANGED <<tree, shown, closed, known, late, fetch, failed, behind>>

\* The bound comes first: it spares TLC the planning.
MayAct == ~failed /\ left["calls"] > 0

handleDragEnd(n, target) ==
    /\ MayAct
    /\ isLegalTarget(shown, closed, n, target)
    /\ mutate(planDrop(shown, closed, n, target), target)

handleKeyboardMove(n) ==
    /\ MayAct /\ Visible(shown, closed, n)
    /\ \E target \in KeyTargets(shown, n) :
          /\ isLegalTarget(shown, closed, n, target)
          /\ mutate(planDrop(shown, closed, n, target), target)

Deletion(n) == [op |-> "delete", node |-> n, parent |-> Root, changed |-> FALSE, position |-> 0]

\* After the viewer confirmed.
deleteNode(n) ==
    /\ MayAct /\ Visible(shown, closed, n)
    /\ mutate(Deletion(n), IntoRoot)

-----------------------------------------------------------------------------
(* The server.                                                              *)

\* Where a PATCH that names no parent leaves the node.
TargetParent(plan) == IF plan.changed THEN plan.parent ELSE ParentOf(tree, plan.node)

\* Mutant: the server relies on the panel's check.
AnyParent(plan) == TRUE

ensureFolderNotDescendant(plan) == TargetParent(plan) \notin Subtree(tree, plan.node)

Acceptable(plan) ==
    /\ Exists(tree, plan.node)
    /\ plan.op = "move" =>
          Exists(tree, TargetParent(plan)) /\ ensureFolderNotDescendant(plan)

Effect(plan) ==
    IF plan.op = "delete"
    THEN Without(tree, Subtree(tree, plan.node))
    ELSE PutAt(tree, plan.node, TargetParent(plan), plan.position)

Reply(call, stage) == calls' = (calls \ {call}) \union {[call EXCEPT !.stage = stage]}

\* What the fingerprint of a PATCH holds (its name and URL do not change here);
\* that of a DELETE holds nothing of the row.
Final(plan) ==
    IF plan.op = "delete" THEN [parent |-> Root, position |-> 0]
    ELSE [parent |-> TargetParent(plan),
          position |-> Clamp(tree, plan.node, TargetParent(plan), plan.position)]

Receipts(call) == {r \in known : r.event = call.event}

Apply(call) ==
    /\ Receipts(call) = {} /\ Acceptable(call.plan)
    /\ tree' = Effect(call.plan)
    /\ known' = known \union {[event |-> call.event, final |-> Final(call.plan)]}

Serve(call) ==
    /\ call.stage = "sent"
    /\ Apply(call)
    /\ Reply(call, "ok")
    /\ UNCHANGED <<shown, closed, issued, keys, late, fetch, failed, behind, left>>

Refuse(call) ==
    /\ call.stage = "sent"
    /\ Receipts(call) = {} /\ ~Acceptable(call.plan)
    /\ Reply(call, "refused")
    /\ UNCHANGED <<tree, shown, closed, issued, keys, known, late, fetch, failed, behind,
                   left>>

\* An event id the server knows: the receipt answers, without effect.  A PATCH
\* is prepared first, and must come to the same final row.
Matches(call) ==
    \/ call.plan.op = "delete"
    \/ Acceptable(call.plan) /\ \E r \in Receipts(call) : r.final = Final(call.plan)

Replay(call) ==
    /\ call.stage = "sent"
    /\ Receipts(call) # {}
    /\ Reply(call, IF Matches(call) THEN "ok" ELSE "refused")
    /\ UNCHANGED <<tree, shown, closed, issued, keys, known, late, fetch, failed, behind,
                   left>>

ServeLate(call) ==
    /\ late' = late \ {call}
    /\ behind' = TRUE
    /\ \/ Apply(call)
       \/ (Receipts(call) # {} \/ ~Acceptable(call.plan)) /\ UNCHANGED <<tree, known>>
    /\ UNCHANGED <<shown, closed, calls, issued, keys, fetch, failed, left>>

OtherMoves(n, p, position) ==
    /\ Spend("others")
    /\ n \in Bookmarks => p # Root
    /\ Exists(tree, n) /\ Exists(tree, p) /\ p \notin Subtree(tree, n)
    /\ position <= Len(Group(tree, p, Kind(n))) + 1
    /\ tree' = PutAt(tree, n, p, position)
    /\ behind' = TRUE
    /\ UNCHANGED <<shown, closed, calls, issued, keys, known, late, fetch, failed>>

OtherDeletes(n) ==
    /\ Spend("others")
    /\ Exists(tree, n)
    /\ tree' = Without(tree, Subtree(tree, n))
    /\ behind' = TRUE
    /\ UNCHANGED <<shown, closed, calls, issued, keys, known, late, fetch, failed>>

-----------------------------------------------------------------------------
(* The end of a mutation, and the reads.                                    *)

Forget(call) == keys' = {k \in keys : k.plan # call.plan}

\* Mutant: a read in flight is joined.
JoinRead == fetch' = IF fetch = NoFetch THEN Asked ELSE fetch

\* invalidateQueries: a read in flight is dropped and another one begins.
invalidateTree == fetch' = Asked

\* Any answer settles the event id: success confirms it, an ApiError drops it.
Settle(call) ==
    /\ call.stage # "sent"
    /\ calls' = calls \ {call}
    /\ Forget(call)
    /\ invalidateTree
    /\ UNCHANGED <<tree, shown, closed, issued, known, late, failed, behind, left>>

\* Mutant: a request that was answered is held too.
HeldTwice(call) == late \union {call}

\* A request the server has not seen may still reach it.
Held(call) == IF call.stage = "sent" THEN late \union {call} ELSE late

\* No answer: the event id is kept for a retry of the same plan.
Cut(call) ==
    /\ Spend("faults")
    /\ calls' = calls \ {call}
    /\ late' = Held(call)
    /\ invalidateTree
    /\ UNCHANGED <<tree, shown, closed, issued, keys, known, failed, behind>>

\* The window gains focus: a read in flight is joined.
Focus ==
    /\ fetch = NoFetch
    /\ fetch' = Asked
    /\ UNCHANGED <<tree, shown, closed, calls, issued, keys, known, late, failed, behind,
                   left>>

\* Refresh, and Retry on the error page: a read in flight is dropped.
Refetch ==
    /\ fetch # NoFetch
    /\ fetch' = Asked
    /\ UNCHANGED <<tree, shown, closed, calls, issued, keys, known, late, failed, behind,
                   left>>

ServeTree ==
    /\ fetch = Asked
    /\ fetch' = [stage |-> "read", tree |-> tree]
    /\ behind' = FALSE
    /\ UNCHANGED <<tree, shown, closed, calls, issued, keys, known, late, failed, left>>

ReadDone ==
    /\ fetch.stage = "read"
    /\ shown' = fetch.tree
    /\ fetch' = NoFetch
    /\ failed' = FALSE
    /\ UNCHANGED <<tree, closed, calls, issued, keys, known, late, behind, left>>

\* The read and its one retry fail: the error takes the place of the tree, and
\* with it goes what was collapsed.
ReadFails ==
    /\ fetch # NoFetch
    /\ Spend("faults")
    /\ fetch' = NoFetch /\ failed' = TRUE /\ closed' = {}
    /\ UNCHANGED <<tree, shown, calls, issued, keys, known, late, behind>>

-----------------------------------------------------------------------------
Respond ==
    \/ \E c \in calls : Serve(c) \/ Refuse(c) \/ Replay(c) \/ Settle(c)
    \/ ServeTree \/ ReadDone

Next ==
    \/ \E n \in Nodes : (\E target \in Targets : handleDragEnd(n, target))
                        \/ handleKeyboardMove(n) \/ deleteNode(n)
    \/ Respond
    \/ \E c \in late : ServeLate(c)
    \/ \E n \in Nodes, p \in Everywhere, i \in 1 .. Cardinality(Nodes) : OtherMoves(n, p, i)
    \/ \E n \in Nodes : OtherDeletes(n)
    \/ \E c \in calls : Cut(c)
    \/ Focus \/ Refetch \/ ReadFails

Spec == Init /\ [][Next]_vars

-----------------------------------------------------------------------------
Trees == [Everywhere -> [folder : Seq(Folders), bookmark : Seq(Bookmarks)]]
Plans == [op : {"move", "delete"}, node : Nodes, parent : Everywhere, changed : BOOLEAN,
          position : 0 .. Cardinality(Nodes)]
CallsIn(stages) ==
    [id : 1 .. issued, plan : Plans, target : Targets, event : 1 .. issued, seen : Trees,
     closed : SUBSET Folders, stage : stages]

\* Every part of the state has its type.
TypeOK ==
    /\ tree \in Trees /\ shown \in Trees /\ closed \subseteq Folders
    /\ calls \subseteq CallsIn({"sent", "ok", "refused"}) /\ late \subseteq CallsIn({"sent"})
    /\ issued \in Nat
    /\ keys \subseteq [plan : Plans, event : 1 .. issued]
    /\ known \subseteq [event : 1 .. issued,
                        final : [parent : Everywhere, position : 0 .. Cardinality(Nodes)]]
    /\ fetch \in [stage : {"none", "asked", "read"}, tree : Trees]
    /\ failed \in BOOLEAN /\ behind \in BOOLEAN
    /\ left \in [{"calls", "others", "faults"} -> Nat]

\* However stale the rows a move was planned on, the server's tree stays one:
\* a node is in one place, no folder below itself, no bookmark at the root
\* (treeModel.ts:124, prepare.go:108).
Forest(t) ==
    /\ t[Root].bookmark = <<>>
    /\ \A p \in Everywhere : IsInjective(t[p].folder) /\ IsInjective(t[p].bookmark)
    /\ \A n \in Nodes : (\A p, q \in Parents(t, n) : p = q) /\ n \notin Ancestors(t, n)
    /\ \A p \in Folders : Children(t, p) # {} => Exists(t, p)

OneForest == Forest(tree)

AtRest == calls = {} /\ fetch = NoFetch /\ ~failed

\* No optimistic state: once nothing is in flight the rows are those of the
\* server, unless somebody else wrote since they were read (mutations.ts:121).
ShownAtRest == AtRest /\ ~behind => shown = tree

\* Where a drop should land, read off the tree it was made on: at the index of
\* the row it was dropped on, or after everything in the folder.
Lands(call, t, u) ==
    LET n == call.plan.node
        kind == Kind(n)
        at == call.target.at
        p == IF call.target.kind = "row" THEN ParentOf(t, at) ELSE at
        place == Group(u, p, kind)
    IN  /\ n \in ToSet(place)
        /\ Without(u, {n}) = Without(t, {n})
        /\ IndexIn(place, n) = IF call.target.kind = "row" THEN PositionOf(t, at) ELSE Len(place)

Applied(call) == Serve(call) /\ call.plan.op = "move" /\ call.seen = tree

\* "The single load-bearing formula" (treeModel.ts:182): a move planned on the
\* tree the server still has lands where it was dropped.  Into a collapsed
\* folder it does not: that folder has no rows to count.
LandsWhereDropped ==
    [][\A call \in calls :
          Applied(call) /\ (call.target.at \in call.closed => call.target.kind = "row")
          => Lands(call, tree, tree')]_vars

\* The same for every drop: "position is the destination group's current size".
IntoAppends == [][\A call \in calls : Applied(call) => Lands(call, tree, tree')]_vars

\* design.md:372: an identical move made later is not falsely deduped.  A call
\* that a receipt answers finds the move in effect.
RepliesHold ==
    [][\A call \in calls :
          Replay(call) /\ call.plan.op = "move" /\ Acceptable(call.plan)
          => Effect(call.plan) = tree]_vars
=============================================================================
