----------------------------- MODULE WorkspaceSync -----------------------------
(***************************************************************************)
(* The extension's side of the sync: how background/projection.ts keeps    *)
(* the Chrome bookmarks of one workspace in step with the server's log,    *)
(* with the journal of convergence.ts.                                     *)
(*                                                                         *)
(* The service worker runs one callback at a time but gives way at every   *)
(* await, so an action is what happens between two awaits that others can  *)
(* observe: a write of chrome.storage, an effect on Chrome's tree, a       *)
(* request.  What it keeps in chrome.storage survives its eviction; its    *)
(* running tasks, its socket and the events queued in it do not.           *)
(*                                                                         *)
(* Abstracted: the folders of the workspace are there and mapped; a        *)
(* bookmark's shape is its title (which stands for the URL too) and its    *)
(* folder, without the index; the client is an editor's; an emptied        *)
(* subtree is recovered by the rebuild the code falls back to; whether     *)
(* chance or the automatic repair's budget decides that a paused workspace *)
(* shows as recovering or degraded is left open.                           *)
(***************************************************************************)
EXTENDS Integers, Sequences, FiniteSets, FiniteSetsExt, SequencesExt

CONSTANTS
  Bookmarks, Titles, Folders, None,
  Tasks,              \* slots for what the worker runs at the same time
  History,            \* the log the client is bootstrapped from
  TitlesOf,           \* the titles a bookmark may be given
  Changes,            \* what other clients do: kinds of change
  Lossy,              \* whether requests and published events get lost
  MaxSilentRecovery,  \* MAX_SILENT_RECOVERY_ATTEMPTS (3)
  MaxLog,             \* bound: events committed
  MaxEdits,           \* bound: edits by the user in Chrome
  MaxEvictions,       \* bound: evictions of the worker
  MaxRebuilds         \* bound: rebuilds

Shapes == [title : Titles, folder : Folders]
Event(b, shape) == [bookmark |-> b, shape |-> shape]

ASSUME SyncAssumption ==
  /\ None \notin Shapes /\ None \notin Bookmarks /\ None \notin Folders
  /\ History \in Seq([bookmark : Bookmarks, shape : Shapes \cup {None}])
  /\ TitlesOf \in [Bookmarks -> SUBSET Titles]
  /\ Lossy \in BOOLEAN
  /\ {MaxSilentRecovery, MaxLog, MaxEdits, MaxEvictions, MaxRebuilds} \subseteq Nat

VARIABLES
  log,        \* the server's events; a deletion has the shape None
  served,     \* the server's receipts of this client's PATCHes: intent -> cursor
  incoming,   \* events published to the client's socket or in its live queue
  socket,     \* "down", "subscribed", "acked" or "abandoned"
  greeting,   \* the cursor of the ack frame
  nodes,      \* Chrome's bookmarks: node id -> shape, None once removed
  callbacks,  \* chrome.bookmarks events not handled yet
  suppressed, \* suppressedChromeIds, and ids whose timer has run unnoticed
  stored,     \* the projection in chrome.storage
  tasks,      \* what the worker is doing
  drain,      \* drainLocalIntents
  spent       \* how much of the bounds is used

server == <<log, served>>
link == <<incoming, socket, greeting>>
chrome == <<nodes, callbacks, suppressed>>
vars == <<log, served, incoming, socket, greeting, nodes, callbacks, suppressed, stored, tasks, drain, spent>>

--------------------------------------------------------------------------------
(* The canonical state after the first n events. *)
About(b, n) == {i \in 1 .. n : log[i].bookmark = b}
Tree(n) ==
  [b \in Bookmarks |-> IF About(b, n) = {} THEN None ELSE log[Max(About(b, n))].shape]
Alive(tree) == {b \in Bookmarks : tree[b] # None}

Idle == [mode |-> "none", step |-> "idle", todo |-> <<>>, top |-> 0, node |-> 0]
Resting == [on |-> FALSE, at |-> "idle", intent |-> None, answer |-> 0]

(* normalizeJournal: an operation that was started and not finished pauses *)
(* the workspace as ambiguous whenever the state is read.                  *)
Blocked == stored.paused \/ stored.started # {}

Owner(s, n) == {b \in Bookmarks : <<n, b>> \in s.owners}
SetMapping(s, b, n) ==
  [s EXCEPT !.mapping[b] = n,
            !.owners = {p \in @ : p[1] # n} \cup {<<n, b>>}]
RemoveMapping(s, b) ==
  [s EXCEPT !.mapping[b] = 0, !.owners = {p \in @ : p[1] # s.mapping[b]}]

(* gateRemoteEffect through pauseWorkspace.  A pause as ambiguous is       *)
(* lifted by the end of any operation that was started.                    *)
Pause(s, repair, health) ==
  [s EXCEPT !.paused = TRUE, !.ambiguous = FALSE,
            !.repair = IF s.receipts # {} THEN "rebuild" ELSE repair,
            !.health = health]
PausedHealth == {"recovering", "degraded"}

Finish(s, op) ==
  [s EXCEPT !.started = @ \ {op}, !.paused = @ /\ ~ s.ambiguous, !.ambiguous = FALSE]

(* Mutant: no budget of attempts. *)
EnterRecoveryUnbounded(s) ==
  [s EXCEPT !.connected = FALSE, !.health = "recovering", !.attempts = @ + 1]

EnterRecovery(s) ==
  IF s.attempts < MaxSilentRecovery
    THEN [s EXCEPT !.connected = FALSE, !.health = "recovering", !.attempts = @ + 1]
    ELSE [s EXCEPT !.connected = FALSE, !.health = "degraded"]
GivesUp(s) == s.attempts >= MaxSilentRecovery

MarkLive(s, top) ==
  IF Blocked THEN s
  ELSE [s EXCEPT !.cursor = Max({@, top}), !.health = "live",
                 !.connected = TRUE, !.attempts = 0]
Refreshed(s) == IF s.connected THEN [s EXCEPT !.health = "live"] ELSE s

(* Bootstrapped from the tree after History: one mapped node per bookmark. *)
Placed(tree) == SetToSeq(Alive(tree))
Init ==
  /\ log = History
  /\ served = <<>>
  /\ incoming = {} /\ socket = "down" /\ greeting = 0
  /\ LET tree == Tree(Len(log))
         order == Placed(tree)
     IN  /\ nodes = [k \in DOMAIN order |-> tree[order[k]]]
         /\ stored =
              [cursor |-> Len(log),
               mapping |-> [b \in Bookmarks |->
                              IF b \in Alive(tree)
                                THEN CHOOSE k \in DOMAIN order : order[k] = b ELSE 0],
               owners |-> {<<k, order[k]>> : k \in DOMAIN order},
               paused |-> FALSE, ambiguous |-> FALSE, repair |-> "retry",
               health |-> "live", connected |-> FALSE, attempts |-> 0,
               receipts |-> {}, started |-> {}, intents |-> <<>>]
  /\ callbacks = <<>> /\ suppressed = {}
  /\ tasks = [t \in Tasks |-> Idle]
  /\ drain = Resting
  /\ spent = [edits |-> 0, evictions |-> 0, rebuilds |-> 0]

--------------------------------------------------------------------------------
(***************************************************************************)
(* Other clients.  Their events are published to the client if it is       *)
(* subscribed, in any order; the hub drops some when a channel is full.    *)
(***************************************************************************)
Kind(b, old, new) ==
  CASE old = None /\ new # None -> "create"
    [] old # None /\ new = None -> "delete"
    [] old # None /\ new # None /\ old.folder = new.folder -> "retitle"
    [] old # None /\ new # None /\ old.title = new.title -> "move"
    [] OTHER -> "both"

OtherChange(b, shape) ==
  LET old == Tree(Len(log))[b] IN
  /\ Len(log) < MaxLog
  /\ shape # old
  /\ shape # None => shape.title \in TitlesOf[b]
  /\ old = None => About(b, Len(log)) = {}
  /\ Kind(b, old, shape) \in Changes
  /\ log' = Append(log, Event(b, shape))
  /\ \/ /\ socket \in {"subscribed", "acked"}
        /\ incoming' = incoming \cup {Len(log) + 1}
     \/ /\ Lossy \/ socket \notin {"subscribed", "acked"}
        /\ UNCHANGED incoming
  /\ UNCHANGED <<served, socket, greeting, chrome, stored, tasks, drain, spent>>

(***************************************************************************)
(* The socket.                                                             *)
(***************************************************************************)
Connect ==
  /\ socket = "down"
  /\ socket' = "subscribed"
  /\ greeting' = Len(log)
  /\ UNCHANGED <<server, incoming, chrome, stored, tasks, drain, spent>>

(* No ticket: tried again until the attempts are used up. *)
ConnectFails ==
  /\ Lossy
  /\ socket = "down"
  /\ socket' = IF GivesUp(stored) THEN "abandoned" ELSE "down"
  /\ stored' = EnterRecovery(stored)
  /\ UNCHANGED <<server, incoming, greeting, chrome, tasks, drain, spent>>

(* recoverSubtreeThenWorkspace and recoverWorkspace(..., "resync").        *)
Resync(s, health) ==
  IF GivesUp(s) THEN EnterRecovery(s) ELSE Pause(EnterRecovery(s), "rebuild", health)

Start(t, mode, step) ==
  tasks' = [tasks EXCEPT ![t] = [Idle EXCEPT !.mode = mode, !.step = step]]

OnAck(t) ==
  /\ socket = "subscribed"
  /\ socket' = "acked"
  /\ LET s == [stored EXCEPT !.connected = TRUE] IN
     \/ /\ greeting > stored.cursor
        /\ tasks[t] = Idle
        /\ Start(t, "replay", "fetch")
        /\ stored' = s
        /\ UNCHANGED drain
     \/ /\ greeting = stored.cursor
        /\ stored' = MarkLive(s, 0)
        /\ drain' = [drain EXCEPT !.on = TRUE]
        /\ UNCHANGED tasks
     \/ /\ greeting < stored.cursor
        /\ \E h \in PausedHealth : stored' = Resync(s, h)
        /\ UNCHANGED <<tasks, drain>>
  /\ UNCHANGED <<server, incoming, greeting, chrome, spent>>

(* onClose: what is in the live queue already is still applied. *)
Close ==
  /\ socket \in {"subscribed", "acked"}
  /\ socket' = IF GivesUp(stored) THEN "abandoned" ELSE "down"
  /\ stored' = EnterRecovery(stored)
  /\ \E kept \in SUBSET incoming : incoming' = kept
  /\ UNCHANGED <<server, greeting, chrome, tasks, drain, spent>>

(***************************************************************************)
(* Applying an event: applyRemoteEnvelope and what it calls.  A task works *)
(* through "todo"; the live queue holds one event at a time.               *)
(***************************************************************************)
LiveQueueBusy == \E t \in Tasks : tasks[t].mode \in {"live", "gap"}
At(t, step) == tasks[t].step = step
Cursor(t) == Head(tasks[t].todo)
EventOf(t) == log[Cursor(t)]
Upsert(t) == EventOf(t).shape # None
MappedTo(t) == stored.mapping[EventOf(t).bookmark]
Gone(n) == nodes[n] = None

Goto(t, step) == tasks' = [tasks EXCEPT ![t].step = step]

(* After an event a replay goes on only if the event was checkpointed; a   *)
(* rebuild fails if it was not.                                            *)
AfterEvent(task, s) ==
  IF task.mode = "live" THEN Idle
  ELSE IF s.cursor >= Head(task.todo)
    THEN [task EXCEPT !.todo = Tail(@), !.node = 0,
                      !.step = IF Len(task.todo) = 1 THEN "end" ELSE "admit"]
  ELSE IF task.mode = "rebuild" THEN [task EXCEPT !.step = "failed"] ELSE Idle

Proceed(t, s) ==
  /\ stored' = s
  /\ tasks' = [tasks EXCEPT ![t] = AfterEvent(tasks[t], s)]

Receive(t, i) ==
  /\ tasks[t] = Idle
  /\ socket = "subscribed" => i <= greeting
  /\ ~ LiveQueueBusy
  /\ i \in incoming
  /\ incoming' = incoming \ {i}
  /\ tasks' = [tasks EXCEPT ![t] =
                 [Idle EXCEPT !.mode = "live", !.step = "admit", !.todo = <<i>>]]
  /\ UNCHANGED <<server, socket, greeting, chrome, stored, drain, spent>>

(* The guards of applyRemoteEnvelope, in its order. *)
Passed(t) == Cursor(t) <= stored.cursor
(* Mutant: events are admitted over a pending receipt. *)
HeldByPauseOnly(t) == Blocked

Held(t) == Blocked \/ stored.receipts # {}
(* Mutant: a gap of one event is not seen. *)
GapOffByOne(t) ==
  tasks[t].mode = "live" /\ stored.cursor > 0 /\ Cursor(t) > stored.cursor + 2

Gap(t) ==
  tasks[t].mode = "live" /\ stored.cursor > 0 /\ Cursor(t) # stored.cursor + 1

Skip(t) ==
  /\ At(t, "admit")
  /\ Passed(t) \/ Held(t)
  /\ Proceed(t, stored)
  /\ UNCHANGED <<server, link, chrome, drain, spent>>

(* Mutant: an event over a gap is dropped and nothing is replayed. *)
RecoverGapIgnored(t) ==
  /\ At(t, "admit")
  /\ ~ Passed(t) /\ ~ Held(t) /\ Gap(t)
  /\ tasks' = [tasks EXCEPT ![t] = Idle]
  /\ UNCHANGED <<server, link, chrome, stored, drain, spent>>

(* recoverWorkspace(..., "replay"), inside the live queue. *)
RecoverGap(t) ==
  /\ At(t, "admit")
  /\ ~ Passed(t) /\ ~ Held(t) /\ Gap(t)
  /\ stored' = EnterRecovery(stored)
  /\ IF GivesUp(stored) THEN tasks' = [tasks EXCEPT ![t] = Idle]
     ELSE Start(t, "gap", "fetch")
  /\ UNCHANGED <<server, link, chrome, drain, spent>>

Admit(t) ==
  /\ At(t, "admit")
  /\ ~ Passed(t) /\ ~ Held(t) /\ ~ Gap(t)
  /\ Goto(t, "resolve")
  /\ UNCHANGED <<server, link, chrome, stored, drain, spent>>

--------------------------------------------------------------------------------
(* A bookmark without a mapping is created, unless exactly one node looks  *)
(* like it: that one is adopted.                                           *)
Lookalikes(t) == {n \in DOMAIN nodes : nodes[n] = EventOf(t).shape}
CreateOp(t) == [effect |-> "create", bookmark |-> EventOf(t).bookmark, cursor |-> Cursor(t), node |-> 0]
DeleteOp(b, n) == [effect |-> "delete", bookmark |-> b, cursor |-> 0, node |-> n]

StartCreate(t) ==
  /\ At(t, "resolve") /\ Upsert(t)
  /\ MappedTo(t) = 0
  /\ Cardinality(Lookalikes(t)) # 1
  /\ stored' = [stored EXCEPT !.started = @ \cup {CreateOp(t)}]
  /\ Goto(t, "create")
  /\ UNCHANGED <<server, link, chrome, drain, spent>>

CreateNode(t) ==
  /\ At(t, "create")
  /\ nodes' = Append(nodes, EventOf(t).shape)
  /\ suppressed' = suppressed \cup {Len(nodes) + 1}
  /\ tasks' = [tasks EXCEPT ![t].step = "map", ![t].node = Len(nodes) + 1]
  /\ UNCHANGED <<server, link, callbacks, stored, drain, spent>>

MapNode(t) ==
  /\ At(t, "map")
  /\ stored' = SetMapping(stored, EventOf(t).bookmark, tasks[t].node)
  /\ Goto(t, "created")
  /\ UNCHANGED <<server, link, chrome, drain, spent>>

(* The operation stays started, and so ambiguous, if the node has changed. *)
FinishCreate(t) ==
  /\ At(t, "created")
  /\ stored' = IF nodes[tasks[t].node] = EventOf(t).shape
                 THEN Finish(stored, CreateOp(t)) ELSE stored
  /\ Goto(t, "checkpoint")
  /\ UNCHANGED <<server, link, chrome, drain, spent>>

(* A bookmark with a node: a receipt before any effect on it.              *)
Receipt(t, n) ==
  [bookmark |-> EventOf(t).bookmark, node |-> n, cursor |-> Cursor(t),
   expected |-> EventOf(t).shape,
   move |-> IF nodes[n].folder = EventOf(t).shape.folder THEN None ELSE nodes[n].folder]

PersistReceipt(s, r) ==
  IF \E p \in s.receipts : p.bookmark = r.bookmark /\ p.node = r.node THEN s
  ELSE [s EXCEPT !.receipts = @ \cup {r}]

Reconcile(t) ==
  /\ At(t, "resolve") /\ Upsert(t)
  /\ MappedTo(t) = 0 => Cardinality(Lookalikes(t)) = 1
  /\ LET b == EventOf(t).bookmark
         n == IF MappedTo(t) # 0 THEN MappedTo(t) ELSE CHOOSE k \in Lookalikes(t) : TRUE
         s == IF MappedTo(t) # 0 THEN stored ELSE SetMapping(stored, b, n)
     IN  /\ ~ Gone(n)
         /\ stored' = IF nodes[n] = EventOf(t).shape THEN s ELSE PersistReceipt(s, Receipt(t, n))
         /\ tasks' = [tasks EXCEPT ![t].node = n,
                        ![t].step = CASE nodes[n] = EventOf(t).shape -> "checkpoint"
                                      [] nodes[n].title # EventOf(t).shape.title -> "retitle"
                                      [] OTHER -> "move"]
  /\ UNCHANGED <<server, link, chrome, drain, spent>>

(* The mapped node is not there: recovery, and then the checkpoint.        *)
Stale(t) ==
  /\ At(t, "resolve") /\ Upsert(t)
  /\ MappedTo(t) # 0 /\ Gone(MappedTo(t))
  /\ \E h \in PausedHealth : stored' = Resync(stored, h)
  /\ Goto(t, "checkpoint")
  /\ UNCHANGED <<server, link, chrome, drain, spent>>

Changed(n) == [kind |-> "changed", node |-> n, from |-> None, to |-> None]
Moved(n, from, to) == [kind |-> "moved", node |-> n, from |-> from, to |-> to]
Removed(n) == [kind |-> "removed", node |-> n, from |-> None, to |-> None]

Retitle(t) ==
  LET n == tasks[t].node
      stays == nodes[n].folder = EventOf(t).shape.folder
  IN
  /\ At(t, "retitle") /\ ~ Gone(n)
  /\ nodes' = [nodes EXCEPT ![n].title = EventOf(t).shape.title]
  /\ callbacks' = Append(callbacks, Changed(n))
  /\ suppressed' = IF stays THEN suppressed \cup {n} ELSE suppressed
  /\ Goto(t, IF stays THEN "defer" ELSE "move")
  /\ UNCHANGED <<server, link, stored, drain, spent>>

Move(t) ==
  LET n == tasks[t].node IN
  /\ At(t, "move") /\ ~ Gone(n)
  /\ nodes' = [nodes EXCEPT ![n].folder = EventOf(t).shape.folder]
  /\ callbacks' = Append(callbacks, Moved(n, nodes[n].folder, EventOf(t).shape.folder))
  /\ Goto(t, "defer")
  /\ UNCHANGED <<server, link, suppressed, stored, drain, spent>>

(* The checkpoint is left to the callback that consumes the receipt.       *)
Defer(t) ==
  /\ At(t, "defer")
  /\ Proceed(t, Refreshed(stored))
  /\ UNCHANGED <<server, link, chrome, drain, spent>>

(* Mutant: the event's cursor is written as it is. *)
CheckpointOverwrites(t) ==
  /\ At(t, "checkpoint")
  /\ Proceed(t, Refreshed([stored EXCEPT !.cursor = Cursor(t)]))
  /\ UNCHANGED <<server, link, chrome, drain, spent>>

Checkpoint(t) ==
  /\ At(t, "checkpoint")
  /\ Proceed(t, Refreshed([stored EXCEPT !.cursor = Max({@, Cursor(t)})]))
  /\ UNCHANGED <<server, link, chrome, drain, spent>>

(* A deletion.  Without a node to delete it is only checkpointed.          *)
DeleteNothing(t) ==
  LET b == EventOf(t).bookmark  n == MappedTo(t) IN
  /\ At(t, "resolve") /\ ~ Upsert(t)
  /\ \/ /\ n = 0
        /\ UNCHANGED stored
     \/ /\ n # 0 /\ Gone(n)
        /\ \E h \in PausedHealth :
             stored' = IF tasks[t].mode = "live" THEN Resync(RemoveMapping(stored, b), h)
                       ELSE RemoveMapping(stored, b)
     \/ /\ n # 0 /\ ~ Gone(n) /\ DeleteOp(b, n) \in stored.started
        /\ UNCHANGED stored
  /\ Goto(t, "checkpoint")
  /\ UNCHANGED <<server, link, chrome, drain, spent>>

StartDelete(t) ==
  LET b == EventOf(t).bookmark  n == MappedTo(t) IN
  /\ At(t, "resolve") /\ ~ Upsert(t)
  /\ n # 0 /\ ~ Gone(n) /\ DeleteOp(b, n) \notin stored.started
  /\ stored' = [stored EXCEPT !.started = @ \cup {DeleteOp(b, n)}]
  /\ tasks' = [tasks EXCEPT ![t].step = "remove", ![t].node = n]
  /\ UNCHANGED <<server, link, chrome, drain, spent>>

RemoveNode(t) ==
  LET n == tasks[t].node IN
  /\ At(t, "remove") /\ ~ Gone(n)
  /\ nodes' = [nodes EXCEPT ![n] = None]
  /\ callbacks' = Append(callbacks, Removed(n))
  /\ suppressed' = suppressed \cup {n}
  /\ Goto(t, "removed")
  /\ UNCHANGED <<server, link, stored, drain, spent>>

Deleted(s, b, n) ==
  IF DeleteOp(b, n) \in s.started
    THEN Finish(RemoveMapping(s, b), DeleteOp(b, n)) ELSE s

FinishDelete(t) ==
  /\ At(t, "removed")
  /\ stored' = Deleted(stored, EventOf(t).bookmark, tasks[t].node)
  /\ Goto(t, "checkpoint")
  /\ UNCHANGED <<server, link, chrome, drain, spent>>

(* Chrome refuses the effect: the node was removed meanwhile.              *)
EffectFails(t) ==
  /\ tasks[t].step \in {"retitle", "move", "remove"}
  /\ Gone(tasks[t].node)
  /\ \E h \in PausedHealth : Proceed(t, Pause(stored, "retry", h))
  /\ UNCHANGED <<server, link, chrome, drain, spent>>

--------------------------------------------------------------------------------
(* replayWorkspaceDelta.                                                   *)
Pending(from) == [k \in 1 .. Len(log) - from |-> from + k]

Fetch(t) ==
  /\ At(t, "fetch")
  /\ tasks' = [tasks EXCEPT ![t].todo = Pending(stored.cursor), ![t].top = Len(log),
                            ![t].step = IF Len(log) > stored.cursor THEN "admit" ELSE "end"]
  /\ UNCHANGED <<server, link, chrome, stored, drain, spent>>

(* The request fails, or the server demands a resynchronization.           *)
FetchFails(t) ==
  /\ Lossy
  /\ At(t, "fetch")
  /\ tasks' = [tasks EXCEPT ![t] = Idle]
  /\ \/ UNCHANGED stored
     \/ \E h \in PausedHealth : stored' = Resync(stored, h)
  /\ UNCHANGED <<server, link, chrome, drain, spent>>

EndReplay(t) ==
  /\ At(t, "end") /\ tasks[t].mode \in {"replay", "gap"}
  /\ stored' = MarkLive(stored, tasks[t].top)
  /\ tasks' = [tasks EXCEPT ![t] = Idle]
  /\ drain' = [drain EXCEPT !.on = TRUE]
  /\ UNCHANGED <<server, link, chrome, spent>>

(* retryWorkspace: by the user or the automatic repair.                    *)
Retry(t) ==
  /\ stored.paused
  /\ tasks[t] = Idle
  /\ IF stored.repair = "rebuild" \/ stored.receipts # {}
       THEN stored' = [stored EXCEPT !.repair = "rebuild"] /\ UNCHANGED tasks
       ELSE stored' = [stored EXCEPT !.paused = FALSE, !.ambiguous = FALSE] /\ Start(t, "replay", "fetch")
  /\ UNCHANGED <<server, link, chrome, drain, spent>>

(* rebuildWorkspace and doResyncWorkspace: the journal forgets everything  *)
(* unfinished, the tree is fetched, the nodes are removed and made again,  *)
(* and the log is replayed from its start.                                 *)
Unacked(x) == x.status # "acked"
KeepAcked(intents) ==
  LET acked == {k \in DOMAIN intents : ~ Unacked(intents[k])}
      Rank(k) == Cardinality({m \in acked : m <= k})
  IN  [j \in 1 .. Cardinality(acked) |-> intents[CHOOSE k \in acked : Rank(k) = j]]

Rebuild(t) ==
  /\ Blocked
  /\ spent.rebuilds < MaxRebuilds
  /\ tasks[t] = Idle
  /\ \A u \in Tasks : tasks[u].mode # "rebuild"
  /\ stored' = [stored EXCEPT !.receipts = {}, !.started = {}, !.paused = FALSE, !.ambiguous = FALSE,
                              !.repair = "rebuild", !.health = "recovering",
                              !.intents = KeepAcked(@)]
  /\ Start(t, "rebuild", "clear")
  /\ spent' = [spent EXCEPT !.rebuilds = @ + 1]
  /\ UNCHANGED <<server, link, chrome, drain>>

(* Mutant: the mapping is emptied and the nodes stay. *)
ClearKeepsNodes(t) ==
  /\ At(t, "clear")
  /\ stored' = [stored EXCEPT !.mapping = [b \in Bookmarks |-> 0], !.owners = {}]
  /\ tasks' = [tasks EXCEPT ![t].step = "fill", ![t].top = Len(log)]
  /\ UNCHANGED <<server, link, chrome, drain, spent>>

Clear(t) ==
  /\ At(t, "clear")
  /\ stored' = [stored EXCEPT !.mapping = [b \in Bookmarks |-> 0], !.owners = {}]
  /\ nodes' = [n \in DOMAIN nodes |-> None]
  /\ tasks' = [tasks EXCEPT ![t].step = "fill", ![t].top = Len(log)]
  /\ UNCHANGED <<server, link, callbacks, suppressed, drain, spent>>

Fill(t) ==
  /\ At(t, "fill")
  /\ LET tree == Tree(tasks[t].top)
         order == Placed(tree)
         Id(k) == Len(nodes) + k
     IN  /\ nodes' = nodes \o [k \in DOMAIN order |-> tree[order[k]]]
         /\ stored' = [stored EXCEPT
              !.mapping = [b \in Bookmarks |->
                             IF b \in Alive(tree)
                               THEN Id(CHOOSE k \in DOMAIN order : order[k] = b) ELSE @[b]],
              !.owners = @ \cup {<<Id(k), order[k]>> : k \in DOMAIN order}]
  /\ tasks' = [tasks EXCEPT ![t].todo = Pending(stored.cursor), ![t].top = Len(log),
                            ![t].step = IF Len(log) > stored.cursor THEN "admit" ELSE "end"]
  /\ UNCHANGED <<server, link, callbacks, suppressed, drain, spent>>

(* The end clears the pause, whatever it was for, and connects anew.       *)
EndRebuild(t) ==
  /\ At(t, "end") /\ tasks[t].mode = "rebuild"
  /\ stored' = [stored EXCEPT !.cursor = Max({@, tasks[t].top}),
                              !.paused = FALSE, !.ambiguous = FALSE,
                              !.health = IF stored.connected THEN "live" ELSE "recovering",
                              !.attempts = IF stored.connected THEN 0 ELSE @]
  /\ tasks' = [tasks EXCEPT ![t] = Idle]
  /\ socket' = "down"
  /\ \E kept \in SUBSET incoming : incoming' = kept
  /\ UNCHANGED <<server, greeting, chrome, drain, spent>>

RebuildFails(t) ==
  /\ At(t, "failed") \/ (Lossy /\ At(t, "clear"))
  /\ \E h \in PausedHealth : stored' = Pause(stored, "retry", h)
  /\ tasks' = [tasks EXCEPT ![t] = Idle]
  /\ UNCHANGED <<server, link, chrome, drain, spent>>

--------------------------------------------------------------------------------
(***************************************************************************)
(* The user's edits and Chrome's events.                                   *)
(***************************************************************************)
UserEdit(n, shape) ==
  /\ spent.edits < MaxEdits
  /\ ~ Gone(n)
  /\ \E b \in Owner(stored, n) : shape.title \in TitlesOf[b]
  /\ nodes' = [nodes EXCEPT ![n] = shape]
  /\ \/ /\ shape.title # nodes[n].title /\ shape.folder = nodes[n].folder
        /\ callbacks' = Append(callbacks, Changed(n))
     \/ /\ shape.title = nodes[n].title /\ shape.folder # nodes[n].folder
        /\ callbacks' = Append(callbacks, Moved(n, nodes[n].folder, shape.folder))
  /\ spent' = [spent EXCEPT !.edits = @ + 1]
  /\ UNCHANGED <<server, link, suppressed, stored, tasks, drain>>

(* captureLocalIntent: the event id is the content, so an intent like one  *)
(* that is already there is not recorded again.                            *)
Intent(b, c) == [bookmark |-> b, node |-> c.node, kind |-> c.kind, shape |-> nodes[c.node]]
Capture(s, what) ==
  IF \E k \in DOMAIN s.intents : s.intents[k].what = what THEN s
  ELSE [s EXCEPT !.intents = Append(@, [what |-> what, status |-> "queued"])]

(* Mutant: any callback of the node proves its receipt. *)
ProvesUnread(r, c) == c.kind \in {"changed", "moved"}

Proves(r, c) ==
  /\ nodes[c.node] = r.expected
  /\ IF c.kind = "changed" THEN r.move = None ELSE r.move = c.from /\ r.expected.folder = c.to

ReceiptsFor(b, n) == {r \in stored.receipts : r.bookmark = b /\ r.node = n}
Next_callback == Head(callbacks)
Handled == callbacks' = Tail(callbacks)

(* An event about a node that is not mapped is ignored.                    *)
IgnoreCallback ==
  /\ callbacks # <<>>
  /\ Next_callback.kind # "removed"
  /\ Owner(stored, Next_callback.node) = {}
  /\ Handled
  /\ UNCHANGED <<server, link, nodes, suppressed, stored, tasks, drain, spent>>

(* isSuppressed.  A timer drops the id after 250 ms, so an id that is      *)
(* found may count or not; looking takes it out either way.                *)
Suppressed(n) == n \in suppressed
Look(n) == suppressed' = suppressed \ {n}

(* reduceRemoteCallback: the pending receipt is consumed if the complete   *)
(* node proves it; if it does not the workspace pauses and the change is   *)
(* queued as the user's, unless the node is suppressed.  Without a receipt *)
(* the change is queued, and sent unless the node is suppressed.           *)
HandleCallback ==
  LET c == Next_callback IN
  /\ callbacks # <<>>
  /\ c.kind # "removed" /\ ~ Gone(c.node)
  /\ \E b \in Owner(stored, c.node) :
     \/ \E r \in ReceiptsFor(b, c.node) :
          /\ Proves(r, c)
          /\ stored' = [stored EXCEPT !.receipts = @ \ {r}, !.cursor = Max({@, r.cursor})]
          /\ UNCHANGED <<drain, suppressed>>
     \/ \E r \in ReceiptsFor(b, c.node) :
          /\ ~ Proves(r, c)
          /\ LET s == [stored EXCEPT !.paused = TRUE, !.ambiguous = FALSE, !.repair = "retry"] IN
             \/ Suppressed(c.node) /\ stored' = s /\ UNCHANGED drain
             \/ stored' = Capture(s, Intent(b, c)) /\ drain' = [drain EXCEPT !.on = TRUE]
          /\ Look(c.node)
     \/ /\ ReceiptsFor(b, c.node) = {}
        /\ stored' = Capture(stored, Intent(b, c))
        /\ \/ Suppressed(c.node) /\ UNCHANGED drain
           \/ drain' = [drain EXCEPT !.on = TRUE]
        /\ Look(c.node)
  /\ Handled
  /\ UNCHANGED <<server, link, nodes, tasks, spent>>

(* The node is gone before its event is handled.                           *)
MissingNode ==
  LET n == Next_callback.node IN
  /\ callbacks # <<>>
  /\ Next_callback.kind # "removed" /\ Gone(n)
  /\ Owner(stored, n) # {}
  /\ \/ Suppressed(n) /\ UNCHANGED stored
     \/ \E h \in PausedHealth :
          stored' = [Pause(stored, "retry", h) EXCEPT !.ambiguous = stored.cursor > 0]
  /\ Look(n)
  /\ Handled
  /\ UNCHANGED <<server, link, nodes, tasks, drain, spent>>

(* ownsRemoteDelete: the event completes a deletion that was started.      *)
HandleRemoved ==
  LET n == Next_callback.node IN
  /\ callbacks # <<>>
  /\ Next_callback.kind = "removed"
  /\ \/ /\ \E b \in Bookmarks : DeleteOp(b, n) \in stored.started /\ stored' = Deleted(stored, b, n)
        /\ UNCHANGED suppressed
     \/ /\ \A b \in Bookmarks : DeleteOp(b, n) \notin stored.started
        /\ Look(n) /\ UNCHANGED stored
  /\ Handled
  /\ UNCHANGED <<server, link, nodes, tasks, drain, spent>>

--------------------------------------------------------------------------------
(***************************************************************************)
(* drainLocalIntents: the first intent that is not acknowledged becomes a  *)
(* PATCH of the complete shape.                                            *)
(***************************************************************************)
Waiting == {k \in DOMAIN stored.intents : Unacked(stored.intents[k])}
(* Mutant: the status is set for every intent of the bookmark. *)
SetStatusOfBookmark(s, what, status) ==
  [s EXCEPT !.intents = [k \in DOMAIN @ |->
     IF @[k].what.bookmark = what.bookmark THEN [what |-> @[k].what, status |-> status] ELSE @[k]]]

SetStatus(s, what, status) ==
  [s EXCEPT !.intents = [k \in DOMAIN @ |->
     IF @[k].what = what THEN [what |-> what, status |-> status] ELSE @[k]]]

DrainDone ==
  /\ drain.on /\ drain.at = "idle"
  /\ Blocked \/ Waiting = {}
  /\ drain' = Resting
  /\ UNCHANGED <<server, link, chrome, stored, tasks, spent>>

SendIntent ==
  /\ drain.on /\ drain.at = "idle"
  /\ ~ Blocked /\ Waiting # {}
  /\ LET what == stored.intents[Min(Waiting)].what IN
     IF what.bookmark \in Owner(stored, what.node) /\ ~ Gone(what.node)
       THEN /\ stored' = SetStatus(stored, what, "sent")
            /\ drain' = [drain EXCEPT !.at = "sent", !.intent = what]
       ELSE /\ \E h \in PausedHealth : stored' = Pause(stored, "retry", h)
            /\ drain' = Resting
  /\ UNCHANGED <<server, link, chrome, tasks, spent>>

(* The server: a repeated key has its acknowledgement repeated, an equal   *)
(* shape is acknowledged with cursor 0.  Its event goes to others only.    *)
ServePatch ==
  LET b == drain.intent.bookmark
      now == Tree(Len(log))[b]
      Answer(n) == drain' = [drain EXCEPT !.at = "answered", !.answer = n]
  IN
  /\ drain.at = "sent"
  /\ \/ /\ now = None
        /\ Answer(-1)
        /\ UNCHANGED server
     \/ /\ now # None /\ drain.intent \in DOMAIN served
        /\ Answer(served[drain.intent])
        /\ UNCHANGED server
     \/ /\ now # None /\ drain.intent \notin DOMAIN served /\ drain.intent.shape = now
        /\ Answer(0)
        /\ served' = [w \in DOMAIN served \cup {drain.intent} |->
                        IF w \in DOMAIN served THEN served[w] ELSE 0]
        /\ UNCHANGED log
     \/ /\ now # None /\ drain.intent \notin DOMAIN served /\ drain.intent.shape # now
        /\ Len(log) < MaxLog
        /\ log' = Append(log, Event(b, drain.intent.shape))
        /\ Answer(Len(log) + 1)
        /\ served' = [w \in DOMAIN served \cup {drain.intent} |->
                        IF w \in DOMAIN served THEN served[w] ELSE Len(log) + 1]
  /\ UNCHANGED <<link, chrome, stored, tasks, spent>>

(* settleLocalMutation. *)
Settle ==
  /\ drain.at = "answered" /\ drain.answer >= 0
  /\ stored' = Refreshed([SetStatus(stored, drain.intent, "acked")
                            EXCEPT !.cursor = Max({@, drain.answer})])
  /\ drain' = [Resting EXCEPT !.on = TRUE]
  /\ UNCHANGED <<server, link, chrome, tasks, spent>>

PatchFails ==
  /\ \/ drain.at = "answered" /\ (Lossy \/ drain.answer < 0)
     \/ drain.at = "sent" /\ Lossy
  /\ \E h \in PausedHealth : stored' = Pause(stored, "retry", h)
  /\ drain' = Resting
  /\ UNCHANGED <<server, link, chrome, tasks, spent>>

(* Chrome evicts the worker and starts a new one: the events it had been   *)
(* given and had not handled are lost.                                     *)
Evict ==
  /\ spent.evictions < MaxEvictions
  /\ spent' = [spent EXCEPT !.evictions = @ + 1]
  /\ tasks' = [t \in Tasks |-> Idle]
  /\ drain' = Resting
  /\ incoming' = {} /\ socket' = "down" /\ suppressed' = {}
  /\ \E k \in 1 .. Len(callbacks) + 1 : callbacks' = SubSeq(callbacks, k, Len(callbacks))
  /\ UNCHANGED <<server, greeting, nodes, stored>>

--------------------------------------------------------------------------------
Apply(t) ==
  \/ Skip(t) \/ RecoverGap(t) \/ Admit(t)
  \/ StartCreate(t) \/ CreateNode(t) \/ MapNode(t) \/ FinishCreate(t)
  \/ Reconcile(t) \/ Stale(t) \/ Retitle(t) \/ Move(t) \/ Defer(t) \/ Checkpoint(t)
  \/ DeleteNothing(t) \/ StartDelete(t) \/ RemoveNode(t) \/ FinishDelete(t) \/ EffectFails(t)
  \/ Fetch(t) \/ EndReplay(t)
  \/ Clear(t) \/ Fill(t) \/ EndRebuild(t)

Callback == IgnoreCallback \/ HandleCallback \/ MissingNode \/ HandleRemoved
Drain == DrainDone \/ SendIntent \/ ServePatch \/ Settle

Next ==
  \/ \E b \in Bookmarks, shape \in Shapes \cup {None} : OtherChange(b, shape)
  \/ Connect \/ ConnectFails \/ Close \/ Evict
  \/ \E t \in Tasks :
       \/ OnAck(t) \/ Apply(t) \/ FetchFails(t) \/ Retry(t) \/ Rebuild(t) \/ RebuildFails(t)
       \/ \E i \in incoming : Receive(t, i)
  \/ \E n \in DOMAIN nodes, shape \in Shapes : UserEdit(n, shape)
  \/ Callback \/ Drain \/ PatchFails

Spec == Init /\ [][Next]_vars

(* The worker's event loop runs what is ready; Chrome and the server       *)
(* answer.  Nothing is assumed of the others, the user or the link.        *)
Fairness ==
  /\ WF_vars(Connect) /\ WF_vars(Callback) /\ WF_vars(Drain)
  /\ \A t \in Tasks : WF_vars(Apply(t)) /\ WF_vars(RebuildFails(t))
  /\ WF_vars(\E t \in Tasks : OnAck(t))
  /\ WF_vars(\E t \in Tasks, i \in incoming : Receive(t, i))

FairSpec == Spec /\ Fairness

--------------------------------------------------------------------------------
Intents == [bookmark : Bookmarks, node : Nat, kind : {"changed", "moved"}, shape : Shapes]

(* Types of the state. *)
TypeOK ==
  /\ log \in Seq([bookmark : Bookmarks, shape : Shapes \cup {None}])
  /\ DOMAIN served \subseteq Intents /\ \A w \in DOMAIN served : served[w] \in 0 .. Len(log)
  /\ incoming \subseteq 1 .. Len(log)
  /\ socket \in {"down", "subscribed", "acked", "abandoned"} /\ greeting \in 0 .. Len(log)
  /\ nodes \in Seq(Shapes \cup {None})
  /\ \A k \in DOMAIN callbacks :
       callbacks[k].kind \in {"changed", "moved", "removed"} /\ callbacks[k].node \in DOMAIN nodes
  /\ suppressed \subseteq DOMAIN nodes
  /\ stored.cursor \in 0 .. Len(log)
  /\ stored.mapping \in [Bookmarks -> 0 .. Len(nodes)]
  /\ stored.owners \subseteq (DOMAIN nodes) \X Bookmarks
  /\ stored.paused \in BOOLEAN /\ stored.ambiguous \in BOOLEAN /\ stored.connected \in BOOLEAN
  /\ stored.repair \in {"retry", "rebuild"}
  /\ stored.health \in {"live", "recovering", "degraded"}
  /\ stored.attempts \in 0 .. MaxSilentRecovery
  /\ \A r \in stored.receipts : r.cursor \in 1 .. Len(log) /\ r.node \in DOMAIN nodes
  /\ \A k \in DOMAIN stored.intents :
       stored.intents[k].what \in Intents /\ stored.intents[k].status \in {"queued", "sent", "acked"}
  /\ \A t \in Tasks : \A k \in DOMAIN tasks[t].todo : tasks[t].todo[k] \in 1 .. Len(log)
  /\ drain.on \in BOOLEAN /\ drain.at \in {"idle", "sent", "answered"}

(* The bookmarks Chrome shows are those of the server: one mapped node for *)
(* each, of its shape, and no other.                                       *)
InStep(tree) ==
  /\ \A b \in Bookmarks :
       IF tree[b] = None THEN stored.mapping[b] = 0
       ELSE stored.mapping[b] # 0 /\ nodes[stored.mapping[b]] = tree[b]
  /\ Cardinality({n \in DOMAIN nodes : ~ Gone(n)}) = Cardinality(Alive(tree))

Quiet ==
  /\ \A t \in Tasks : tasks[t] = Idle
  /\ incoming = {} /\ callbacks = <<>> /\ drain = Resting

Settled == Quiet /\ ~ Blocked /\ stored.receipts = {} /\ Waiting = {}

(* What Chrome shows of a bookmark; and that no bookmark is behind the     *)
(* cursor, each node being that of a bookmark.                             *)
Shows(b) == IF stored.mapping[b] = 0 THEN None ELSE nodes[stored.mapping[b]]
NoneBehind ==
  /\ \A b \in Bookmarks : \E k \in stored.cursor .. Len(log) : Shows(b) = Tree(k)[b]
  /\ \A n \in DOMAIN nodes : ~ Gone(n) => \E b \in Bookmarks : stored.mapping[b] = n

(* The log is the truth and the cursor says how much of it Chrome shows    *)
(* ("Persist cursor advancement only after the effect completes"): when    *)
(* nothing is going on and the workspace is not paused Chrome shows        *)
(* exactly the canonical tree at the stored cursor, whatever was lost,     *)
(* reordered, repeated or interrupted.  It may be ahead of the cursor,     *)
(* never behind: by one event after an eviction; by what the tree of a     *)
(* rebuild has and its replay has not come to, if that was cut short.      *)
Converged ==
  Settled =>
    \/ InStep(Tree(stored.cursor))
    \/ /\ spent.evictions > 0 /\ stored.cursor < Len(log)
       /\ InStep(Tree(stored.cursor + 1))
    \/ spent.rebuilds > 0 /\ NoneBehind

(* At most one receipt is pending and its event is the next one, so that   *)
(* the callback that consumes it moves the cursor over nothing else.       *)
ReceiptNext == \A r \in stored.receipts : stored.receipts = {r} /\ r.cursor = stored.cursor + 1

(* "Replay at/below checkpoint MUST be refused": no task, callback or      *)
(* acknowledgement takes the cursor back, in whatever order they end.      *)
CursorMonotone == [][stored'.cursor >= stored.cursor]_vars

(* A receipt is consumed only by a callback that finds the node in the     *)
(* final shape of the event it stands for.                                 *)
ConsumptionProves ==
  [][\A r \in stored.receipts :
       r \notin stored'.receipts /\ spent' = spent =>
         nodes[r.node] = log[r.cursor].shape /\ stored'.cursor >= r.cursor]_vars

(* An edit of the user's that was queued leaves the queue only when the    *)
(* server has acknowledged it, or by an explicit rebuild.                  *)
IntentKept ==
  [][\A k \in DOMAIN stored.intents :
       \/ spent'.rebuilds > spent.rebuilds
       \/ /\ k \in DOMAIN stored'.intents
          /\ stored'.intents[k].what = stored.intents[k].what
          /\ Unacked(stored.intents[k]) /\ ~ Unacked(stored'.intents[k]) =>
               stored.intents[k].what \in DOMAIN served]_vars

Behind == stored.cursor < Len(log)

(* What the server has and the client does not yet reaches the client, or  *)
(* the workspace shows that it is degraded, unless the client has given up *)
(* connecting: "Remote folder/bookmark changes appear in Chrome            *)
(* automatically".                                                         *)
CatchesUp == Behind ~> (~ Behind \/ stored.health = "degraded" \/ socket = "abandoned")

--------------------------------------------------------------------------------
(* What the documents say and the code does not do.                        *)

(* "The extension does not create duplicate folders/bookmarks in Chrome    *)
(* when the backend has a single canonical node."                          *)
NoDuplicates ==
  Settled => \A b \in Bookmarks :
    Cardinality({n \in DOMAIN nodes : ~ Gone(n) /\ b \in Owner(stored, n)}) <= 1

(* "Reuse a Chrome node only when identity is unambiguous": no two         *)
(* bookmarks share one node.                                               *)
OwnNode ==
  \A b, c \in Bookmarks : stored.mapping[b] = stored.mapping[c] => b = c \/ stored.mapping[b] = 0

(* A local edit is queued, "not suppressed": once everything is settled    *)
(* and the client is at the server's head, both show the same.             *)
EditsArrive == Settled /\ ~ Behind => InStep(Tree(stored.cursor))

(* "When healthy live sync cannot be maintained silently, the extension    *)
(* shows a visible degraded-state indicator": the popup shows the health,  *)
(* so a workspace that stays paused must not have the health "live".       *)
PauseShows == Quiet /\ Blocked => stored.health # "live"

(* "Recovery avoids ... repeated self-triggered resync churn": the ack of  *)
(* a new socket does not demand a rebuild of a workspace whose nodes are   *)
(* those of its cursor.                                                    *)
AckKeepsGoing ==
  [][socket = "subscribed" /\ socket' = "acked" /\ ~ stored.paused /\ InStep(Tree(stored.cursor)) =>
       ~ stored'.paused]_vars

(* After a restart with a pending receipt the extension "safely            *)
(* proves/resumes or pauses", once it is connected.                        *)
ReceiptEnds == stored.receipts # {} ~> (stored.receipts = {} \/ Blocked \/ socket = "abandoned")

(* "MUST NOT use timing, Chrome-ID-wide suppression": an edit that is      *)
(* queued is picked up by the drain, or the workspace is paused.           *)
QueuedIsSent == Waiting # {} ~> (Waiting = {} \/ Blocked \/ drain.on)

(* "When healthy live sync cannot be maintained silently, the extension    *)
(* shows a visible degraded-state indicator": a client that has given up   *)
(* connecting does not show the workspace as live.                         *)
GivenUpShows == Quiet /\ socket = "abandoned" => stored.health # "live"

(* A workspace that says it is live and at the server's head shows the     *)
(* server's tree, also after a repair was interrupted.                     *)
LiveIsComplete ==
  Settled /\ ~ Behind /\ socket = "acked" /\ stored.health = "live" => InStep(Tree(stored.cursor))
================================================================================
