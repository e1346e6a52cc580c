# Urlises: verification of the bookmark sync

Urlises keeps the bookmarks of teams in PostgreSQL, serves them through a Go API
and projects each workspace into the Chrome bookmarks of its members with an
extension.  An admin panel edits the same data over HTTP.  What is hard in it is
concurrency without a coordinator: requests that interleave statement by
statement in the database, a service worker that may be evicted at any await, a
panel whose answers arrive out of order, and a network that loses any of it.

This directory holds TLA+ models of those parts, the TLC configurations that
check them on small instances, and proofs that hold for every instance.

- [The system](#the-system): inventory, state, operations, hazards
- [The modules](#the-modules): what each models and how it corresponds to the code
- [The runs](#the-runs): what each checks, its bounds and its fairness
- [What the code does otherwise](#what-the-code-does-otherwise)
- [The proofs](#the-proofs)
- [What is not modelled](#what-is-not-modelled)

A run is `tlc -config Store.cfg MCSyncStore`, and so on for each line of the
table of runs; a proof is `tlapm SyncStoreProofs.tla`, and so on for each module
whose name ends in `Proofs`.

## The system

    admin panel ── HTTP ──┐                       ┌── websocket ──> extension A
                          v                       │                  (worker,
    extension A ─ HTTP ─> sync store ── publish ─> hub                journal,
    extension B ─ HTTP ─>  (PostgreSQL)           │                  Chrome tree)
                                                  └── websocket ──> extension B

| Part | State | Operations | Hard |
|---|---|---|---|
| Sync store (`backend/internal/sync`, `bookmarks`, `httpapi/idempotency.go`) | rows of bookmarks and folders, `workspace_cursors`, `sync_events` (unique per cursor and per event id), `idempotency_records` | POST, PATCH, DELETE under a client-chosen `X-Event-ID`; `GET /sync/events?after=`; expiry of receipts | transactions interleave statement by statement at READ COMMITTED; a retry meets its own first copy; POST and DELETE wait for their advisory lock, PATCH answers 409; only PATCH sorts its locks |
| Hub (`backend/internal/websocket`) | subscriptions, two channels of 16 for each | Subscribe, Close, Publish, PublishToUser; a handler for each socket | Publish never waits and drops; publishers overlap; Close closes channels that Publish sends on |
| Journal and events of a workspace (`extension/src/background/projection.ts`, `convergence.ts`) | cursor, mapping, health, receipts, started operations, local intents, pause; in memory the socket and the live queue | connect, ack, close, receive, replay, apply, handle Chrome's callbacks, capture and drain intents, settle, pause, retry, rebuild | everything gives way at every await; events come in any order or not at all; a callback does not say who made the change; eviction |
| Tree of a workspace (the same, with `mapping.ts`, `exclusions.ts`) | Chrome's folders and bookmarks, mapping, exclusions of a viewer, the local-only folder | upserts and deletions, recovery of a subtree, rebuild, hiding, relocation | the user moves and removes what events need; a rebuild goes on between |
| Managed folders, selection (`projection.ts`, `chrome-bookmarks.ts`) | which workspaces are projected, the path of folders of each | select, clear, login, logout, start, rebuild | two messages walk over the same workspaces one await at a time |
| Sockets (`projection.ts`, `shared/websocket.ts`) | tokens, closers, flights, retry timers | connect, close, retry, ack | results must be recognised as current |
| Automatic repair (`projection.ts`) | budget, claim, chain | pause, repair, settle, retry, rebuild | chains run detached from whoever starts them |
| Session (`shared/session.ts`, `api.ts`; `backend/internal/auth`) | refresh token, access token, epoch, flight; families on the server | login, logout, refresh, requests that meet a 401 | a rotation whose answer was lost; reuse detection |
| Pages and windows (`quick-search`, `popup`, `options`, `service-worker.ts`) | query, scope, windows' ids, badge, revisions | type, search, open, focus, acknowledge | answers out of order, windows that close meanwhile |
| Secrets (`secrethide`, `create-secret`, reveal page) | one row for each secret, records of the creator | create, mail, reveal, burn, notify | Burn against Reveal and expiry; a read is told once |
| Organizations, invitations, deactivation, sweep (`organizations`, `auth`, `purge`) | organizations, members, invitations | change a role, remove, delete, restore, invite, accept, resend, cancel, deactivate | the last owner; accepting twice; deletion under an acceptance; the order of locks |
| Panel: import, tree (`admin-web/src/features/bookmarks`, `lib/bookmarks`) | plan, keys of uncertain creations; the tree last read | pick, import, retry; drag, move, delete, refetch | creations of uncertain outcome; a plan over stale rows |
| Panel: session (`admin-web/src/app`) | who is signed in, active organization, client id | restore, sign in and out, register, accept | a continuation writes the snapshot it captured |
| Workspaces, access, groups; rate limiter; activity, mail, configuration, migrations; other views | rows or none | single statements, forms | nothing that interleaves beyond a row's lock |

What makes each part correct is the properties of its runs, below.
`PROJECT.json` lists the components with their sources, and the hazards with the
line where each bites and the properties that would catch it.

## The modules

The definitions that begin with "Mutant:" in a module's comments are not part of
its specification: each is one definition with a plausible mistake in it, and
shows that a property of the runs would notice.

| Module | What it is |
|---|---|
| `SyncLog` | the abstract promise of the store: one log, an event id enters once, acknowledgements name positions |
| `SyncStore` | the transactions of one workspace, statement by statement; implements `SyncLog` |
| `Hub` | hub and websocket handler |
| `Organizations` | organizations, members, invitations, deactivation and sweep as transactions with their row locks |
| `Secrets` | one-time secrets, from the form that makes one to the creator's record of its reading |
| `WorkspaceSync` | one workspace in the extension against an abstract server and an unreliable link |
| `TreeSync` | its tree of nested folders, exclusions and the local-only folder |
| `Projections` | the selection and the managed folders of several workspaces |
| `Sockets` | the websocket of one workspace with its tokens, flights and retries |
| `AutoRepair` | pauses, the automatic repair and what runs beside it |
| `Session` | the extension's session and the refresh families it rotates |
| `QuickSearch`, `PopupWindows`, `Signals` | the search, the extension's windows, badge and acknowledgements |
| `ImportPlan`, `Import` | the plan of a bookmarks file, and its import by the admin panel |
| `PanelTree` | the tree of the admin panel |
| `AdminSession` | the session of the admin panel |
| `MC*` | small instances for TLC |
| `*Proofs` | theorems |

`PROJECT.json` maps every definition to its lines.  The correspondence in short:

### `SyncStore`

A handler serves one request at a time (`pc`, `tx`); its private writes become
visible in `Commit`.  Each SQL statement that another transaction can observe, or
be delayed by, is an action:

| Action | Code |
|---|---|
| `LockEventKey`, `AnswerDuplicate` | `lockEventKey`, `loadDuplicateMutation*` in `sync/postgres.go` |
| `CreateApply`, `LockSibling`, `RecordEvent`, `Commit`, `PublishAndAnswer` | `CreateBookmark` and `recordEvent` |
| `DeleteCheck`, `DeleteApply` | `DeleteBookmark`: the check takes no lock and the UPDATE is not conditional |
| `TryReceiptKey`, `PatchReplay`, `PatchConflict`, `PatchNoOp` | `ExecutePrepared` and `claimReceipt` in `idempotency.go` |
| `PatchDiscover`, `PatchLockScope`, `PatchLockRow`, `PatchLockParent`, `PatchDrifted`, `PatchApply` | `prepareScopesTx` and what follows in `prepare.go` |
| `ReadCursor`, `ReadEvents`, `FinishReplay` | `ReplayEvents`, `ensureContiguous` |
| `Abandon`, `DeadlockAbort`, `ExpireReceipt` | the end of a process or connection; PostgreSQL; `Cleanup` |

The locks are derived from what the transactions hold: the advisory key lock
from `InTx` and `KeyOf`, scope and row locks from `tx[h].scopes` and
`tx[h].rows`, the lock of the cursor row from the stage "recorded".  The
deadlock detector is modelled by its effect: one transaction that waits in, or
for, a cycle is refused.

A shape is a title (standing for the URL too) and a place.  A place is a list of
siblings, the bookmarks or the folders of one parent, which is what the code calls
a scope; `FolderAt` says which folder the list belongs to, `Nobody` at the root.  A PATCH
that moves locks the row of its target's folder after its own (`prepare.go:128` and
`:293`), refuses when that row is gone, and for a folder walks the ancestors of the
target (`Inside`) in committed rows that it does not lock.

Abstracted: the folders that lists belong to may move, but no request creates or
deletes them (`StoreAssumption`), so the cascade of a deletion is left out.
Positions are left out, but the row locks of renumbering siblings are taken.
Access checks are a nondeterministic refusal.

### `Hub`

One action is one critical section of the hub's mutex, except that the walk of
`Publish` over the subscriptions is split by subscription (`walk`), because
channels are drained while it goes on; `Subscribe` and `Close` wait for the end
of all walks (`Unlocked`).  `ReadCursor` and `WriteAck` are the handler's
statements between Subscribe and its forwarding loop.  `unpublished` remembers
events whose COMMIT answered with an error: the code does not publish those.

### `Organizations`

A transaction (`Txs`) is a request and the statement it has reached.  A statement
that reads is an action of its own, named for the function (`requireOrganizationAdmin`,
`lockOrganizationMemberships`, `loadInvitationForUpdate`, ...); what is written
appears at the commit, in the action named for the operation (`PatchMember`,
`DeleteOrganization`, `AcceptInvitation`, ...).  Row locks are derived from the
statements reached (`HoldsRow`, `Lock`).  All rows of one membership statement
are locked at once, where the database takes them one by one in an order of its
choosing and rolls back one of two transactions that meet head on; the sweep is
one step.

### `WorkspaceSync`

An action is what happens between two awaits that others can observe: a write of
`chrome.storage` (`updateProjectionState` serialises those), an effect on Chrome,
a request.  `stored` is the projection; `Evict` keeps `stored` and `nodes` and
loses the rest.  `tasks` are what the worker runs at the same time (replay, the
live queue's current event, gap recovery, rebuild), each working through `todo`:

| Actions | Code in `background/projection.ts` |
|---|---|
| `Connect`, `ConnectFails`, `OnAck`, `Close` | `connectWorkspace` and its socket's handlers |
| `Receive`, `Skip`, `RecoverGap`, `Admit` | the live queue and the guards of `applyRemoteEnvelope`, in order |
| `StartCreate`, `CreateNode`, `MapNode`, `FinishCreate` | the creation of a node as a started operation |
| `Reconcile`, `Retitle`, `Move`, `Defer` | an effect on an existing node under a receipt |
| `DeleteNothing`, `StartDelete`, `RemoveNode`, `FinishDelete` | deletion |
| `Stale`, `EffectFails` | a node that is gone, before or at the effect |
| `Checkpoint` | `checkpointEvent` |
| `Fetch`, `FetchFails`, `EndReplay` | `replayWorkspaceDelta` |
| `Retry`, `Rebuild`, `Clear`, `Fill`, `EndRebuild`, `RebuildFails` | `retryWorkspace`, `rebuildWorkspace`, `doResyncWorkspace` |
| `HandleCallback`, `MissingNode`, `HandleRemoved`, `IgnoreCallback` | `handleBookmarkChanged`, `...Moved`, `...Removed` |
| `SendIntent`, `ServePatch`, `Settle`, `PatchFails`, `DrainDone` | `drainLocalIntents`, `settleLocalMutation` |

The server is its contract as `SyncStore` establishes it (an append-only log, one
acknowledgement for one intent), the link is `Hub`'s (published events reach the
client in any order, or not at all).

Abstracted: folders are there and mapped (`TreeSync` has them); the index of a
node is left out; the client is an editor's; creations and deletions by the user
are not modelled here; an emptied subtree is recovered by the rebuild the code
falls back to; whether a pause shows as recovering or degraded is left open, and
so is when a repair starts (`AutoRepair` has both).  Timers are left out: a
suppressed id may count or not when it is looked up.

### The other parts of the extension

| Module | Unit of an action | Where its actions come from |
|---|---|---|
| `TreeSync` | one event applied; one step of a rebuild or of a relocation | `Apply*` from `applyRemoteFolderUpsert`, `applyRemoteBookmarkUpsert`, `applyRemoteFolderDelete`, `applyRemoteBookmarkDelete`; `Recover` from `recoverSubtreeThenWorkspace`; `Rebuild*` from `doResyncWorkspace`; `Relocation*` from `relocateToLocalOnly` and `ensureLocalOnlyFolder`; `User*`, `RemoveHandled` from Chrome's callbacks |
| `Projections` | one await of a message or a rebuild | `Select`, `Deselect`, `Sync`, `Ensure`, `Login`, `Logout`, `RebuildStep`, `SessionLost`, `Evict` from the functions of the same names in `projection.ts`; `Down`, `FindFolder`, `CreateFolder` from `chrome-bookmarks.ts` |
| `Sockets` | one await of a message, a flight, or an event of the browser's socket | `Connect`, `FlightBegins`, `Opens`, `NoTicket`, `AckLands`, `RetryFires` from `connectWorkspaceNow`; `Recover`, `EnterRecovery`; `CloseHeld`, `CloseAll`; `SocketOpens`, `SocketCloses`, `KeepaliveFails` from `websocket.ts` |
| `AutoRepair` | one slot of the state queue, the answer of a request, or the end of an event | `PauseWorkspace`, `PlanAutoRepair`, `Start`, `End`, `Settle` from `pauseWorkspace` to `settleAfterAutoRepair`; `LiveEvent`, `NeedsSubtree`, `Subtree*`, `FallBack`, `EventApplied` from `recoverSubtreeThenWorkspace` and `attemptSubtreeRecovery`; `RetryJournal`, `RebuildJournal`, `Cleared`, `Fill`; `Replay*`; `Drain*`; `Ack*`; `LoseSession`, `SignIn`, `Evict` |
| `Session` | one await of the client, one transaction of the server, or what the network does | `Send`, `Answered`, `Unauthorized`, `Replay` from `requestRaw`; `KeepAttempt`, `Stored`, `Refused`, `RefreshUnavailable` from `session.ts`; `Rotate`, `ServeRefresh`, `ServeLogout`, `ServeLogin` from `refresh_repository.go` |
| `QuickSearch` | one event of the window or answer of the browser | the functions of `quick-search.ts` by name |
| `PopupWindows` | one await of an opening or closing | the functions of `service-worker.ts` and `popup.ts` by name |
| `Signals` | one update of the state, one call of `chrome.action` | `refreshToolbarBadge`, `render`, `acknowledgeIfNeeded`, `markActivitySeen`, `markSecretReadSeen` |
| `Secrets` | one transaction, one decision of a page, or a frame | the functions of `create-secret.ts`, `SecretRevealPage.tsx`, `service.go` and `crypto.ts` by name |

Some histories in these modules (`astray`, `unseen`, `adrift`, `late`, `twice`,
`unhidden`) mark what overlapping operations of the code leave behind, so that a
property can say what holds of the rest.  They are set where the code goes
wrong and are cleared where it recovers:

- `Projections`: a workspace is `astray` when a selection, a login or a logout
  overlaps a rebuild of it or each other; until a rebuild fills its folder while it
  is wanted and nobody is about to take it away.
- `Sockets`: a workspace is `adrift` when a message joins a flight whose token
  was dropped (`projection.ts:804`), when a flight begins while the workspace is
  being left, when a login meets a logout's reset, when the catalog cannot be
  read at the start (`:761`), when the session is lost and found again before the
  pause is handled, and when a late answer marks it live.
- `TreeSync`: the tree is `late` when an event is applied while a rebuild holds an
  older tree, when a folder moves out of an excluded one and arrives without its
  contents, when the recovery's budget is used up, and when a callback of a
  removal unmaps a node that is needed; `twice` when two relocations both make the
  local-only folder.

### The admin panel

| Module | Unit of an action | Where its actions come from |
|---|---|---|
| `ImportPlan` | no actions: a file as a plan | `parseList`, `toImportPlan` |
| `Import` | one item of a run: its call, the server, its answer | `runImportPlan`, `retryFailedPlan`, `useImportRunner`, `useUncertainCreationKey`, `apiRequest` |
| `PanelTree` | a gesture, a call, the server's patch, an answer, a read | `planDrop`, `planKeyboardMove`, `legalityReason`, `mutations.ts`; the server from `PrepareFolderPatchTx` and `ExecutePrepared` |
| `AdminSession` | a call: its request, the server, its continuation | `AuthProvider.tsx`, `OrganizationProvider.tsx`, `client.ts`, `InvitationAcceptPage.tsx` and the services they call |

Left out of `Import`: the page being left while a run goes on.  `PanelTree` keeps
positions, of one move at a time; the walk of a folder's ancestors and the update
that follows it are one step there, and two in `SyncStore`.

### The modules for TLC

An `MC` module gives a specification its constants.  Several compose independent
parts of the system, each with state of its own, by a variable `part`: it is
chosen at the start, a step is a step of that part, and the state of the others
stays as it was.  A behaviour is then a behaviour of one part, and its properties
are those of the part's module, conjoined under one name where they belong to
one question.  `MCSyncStore` and `MCSyncScenarios` choose a workload or a scenario
in the same way, so that one run explores several environments of the same
specification without their product.
## The runs

A run asks one question of one or more parts.  Bounds are small because the
hazards are: nearly all of them are a race of two, or one thing that happens
between two steps of another.

| Run | Module and configuration | What it checks |
|---|---|---|
| `store` | `MCSyncStore`, `Store.cfg` | the log has no gap (`Contiguity`) and tells the rows (`RowsFollowLog`), a replay's answer has no hole (`ReplayComplete`), an acknowledged request is not refused (`RetryAcknowledged`), a PATCH keeps what it does not set (`PatchKeepsUnset`), sorted scopes deadlock only over the rows of crossing target folders (`ScopedDeadlockCrosses`), every request ends (`RequestEnds`), and the store implements `SyncLog` (`ImplementsLog`) |
| `store_nest` | `MCSyncStore`, `StoreNest.cfg` | a violation: "folder cannot move into its own subtree" (`FoldersStayATree`) |
| `backend` | `MCBackend`, `Backend.cfg` | organizations: an owner is kept, nobody joins a deleted one, an invitation settles once, the locks form no cycle (`OwnerKept`, `JoinsAreLive`, `SettledOnce`, `SomeoneMoves`); hub: no window between ack and events, each event once and to others only, no send on a closed channel (`HubDelivers`), and what a channel took is forwarded (`Served`) |
| `sync_remote` | `MCSyncScenarios`, `SyncRemote.cfg` | at rest Chrome shows the server's tree at the stored cursor (`Converged`), and a pending receipt is that of the next event (`ReceiptNext`) |
| `rebuild_evicted` | `MCWorkspaceSync`, `SyncRepair.cfg` | a violation: missing mappings and partial writes converge (`LiveIsComplete`) |
| `sync_local` | `MCSyncScenarios`, `SyncLocal.cfg` | an edit leaves the queue only with its acknowledgement (`IntentKept`), a receipt only with its proof (`ConsumptionProves`), the cursor does not go back (`CursorMonotone`) |
| `sync_catch_up` | `MCSyncScenarios`, `SyncCatchUp.cfg` | what the server has reaches Chrome, or the workspace shows that it is degraded (`CatchesUp`) |
| `repair` | `MCAutoRepair`, `Repair.cfg` | one chain and one rebuild at a time (`OneAtATime`), no workspace left as recovering with nobody at work (`RecoveringHasChain`), a budget that is kept (`BudgetKept`) and bounds the chains (`BudgetBounds`) |
| `folders` | `MCFolders`, `Folders.cfg` | each ready workspace has its own folder, made once (`FoldersHold`); one window of each kind (`WindowsHold`) |
| `tree` | `MCTree`, `Tree.cfg` | Chrome mirrors what is not hidden (`TreeMirrors`), the local-only folder is kept (`LocalOnlyKept`), list and badge tell what is stored (`PagesTell`); the panel's tree is one forest, shown as it is at rest (`TreeShownAtRest`), and moves land where they were dropped (`LandsWhereDropped`) |
| `sessions` | `MCSessions`, `Sessions.cfg` | the stored token can be renewed (`TokenRenews`), a session ends for a cause (`EndsForCause`), one socket (`OneSocket`) and an end to retries (`Quiesces`), the panel shows one account (`OneAccountShown`) |
| `forms` | `MCForms`, `Forms.cfg` | secrets: a link opens its secret and only for who holds the key, a burn is confirmed once, form and service agree on the limit (`SecretsHold`), a read that is told reaches the record (`FramesLand`); an import places its items as the file has them and ends (`ItemsInPlace`, `RunsEnd`) |

### Bounds

- `store`: two handlers, since every hazard of the store is a race of two, and
  one reader; the workloads of `MCSyncStore`, each with every request any number
  of times and crashes at any statement; in one of them two folders cross, each moved
  into the other, which is the one deadlock that sorted scopes leave.  What two
  transactions cannot show, a deadlock of three, is covered by the proofs.
- `backend`: two transactions over one organization, two users and an invitation,
  three transactions begun; two sockets that are reused, channels of capacity 1 so that they
  overflow, two events, restarts of the process.
- `sync_*`: `MaxLog` counts the history, which is one event; two or three more
  are enough for an event to be overtaken, lost and replayed while another is
  applied.  Each behaviour keeps to a scenario (`MCSyncScenarios`): one task with
  an eviction or with a rebuild (`sync_remote`); one task with edits of the
  user's, or two tasks at work on one rename and deletion (`sync_local`).
  `MaxSilentRecovery`, 3 in the code, is 2 in `sync_remote`, where one attempt would
  leave no room for a rebuild that fails and is tried again, and 1 in the two
  others, so that giving up is reached early.  The scenario without rebuilds keeps
  to one event less than `MaxLog`.
- `repair`: two tasks of any kind and two happenings from outside; a budget of two
  automatic repairs (so that a second and a refused third occur) and of one silent
  recovery.  Recoveries of subtrees that need recoveries themselves nest to
  `MaxSilentRecovery`, as in the code.  `BudgetBounds` leaves out behaviours that end with both
  tasks taken and a fallback that waits for a slot for its chain (`Crowded`), which is the
  model's bound on tasks and not the code's.  The three safety properties are
  proved, so that the number of happenings limits only the liveness property.
- `folders`: two workspaces of one organization, two messages at a time, a depth
  of folders of two, and a folder of the old title only where nothing was selected
  yet (`FoldersRun`); two openings of windows.
- `tree`: two nested folders, a bookmark, four events and one deletion, gap or
  failure on the side of Chrome, or three events and two of those (`Bounded`).  In the
  panel a forest of two folders and two bookmarks, with two gestures of the user's, or
  one and a change by another client, and one fault (`TwoBudgets`): a move is stale
  after one change, and a second gesture shows what a late answer does to the next.
- `sessions`: two requests, two logins and five events of the extension and its
  server; two messages about one workspace, two attempts and three events of
  its socket; two accounts and organizations in the panel, five steps of the user.
- `forms`: two secrets, of which one may be mailed or locked by a passphrase
  (`OneSent`), one mail, one reader, two connections in turn; two small files with
  nested folders, three runs (one import and its retries) and three faults of four
  kinds.

### Fairness

None is assumed of users, other clients, crashes, evictions or loss.

| Run | Assumed | Because |
|---|---|---|
| `store` | strong, of each handler's own steps | PostgreSQL grants a lock to its waiters in turn, so a handler that can proceed again and again does |
| `backend` (hub) | weak of publish, offer and forward; strong of `Close` | a goroutine that can run does; Go's RWMutex prefers a waiting writer to later readers; `select` chooses at random among ready cases |
| `sync_catch_up` | weak of the worker's tasks, Chrome's callbacks and the drain | an event loop runs what is ready; Chrome and the server answer |
| `repair` | weak of what is under way | the state queue runs its next slot, requests are answered or fail |
| `sessions` | weak of the worker's continuations and timers | the same |
| `forms` | weak of a run's next step and of the delivery to a connected socket | the browser settles every fetch, with an answer or an error, and hands over the frames it has |

Deadlock is checked in `store`.  Elsewhere a system may stop: once the bounds on
events, edits and evictions are used up, one that is in step is at rest.

`Converged` and `CatchesUp` hold in the environments of their runs and not in
every one; the boundary is part of the result.  `Converged` fails with a local
edit, since an acknowledgement raises the cursor over an event that was not
applied, with an empty workspace (`SyncFirst.cfg`), and without the third case of
its definition: a rebuild fetches the newest tree and then replays the log; if an
acknowledgement of an old connection pauses it in between and the retry's replay
fails, some bookmarks stay ahead of the cursor.  None is behind, and the next
replay brings the others up.  `CatchesUp` holds for
creations and deletions, which checkpoint themselves, while the worker does one
task at a time.  For retitles, which wait for a callback, it fails
(`SyncDropped.cfg`); with two tasks it fails because the live queue drops an
event that arrives while a replay has an operation started, which reads as a
paused workspace, and nothing replays it before the next event or connection.

## What the code does otherwise

Each is a disagreement between the code and a sentence of the repository's
documents.  The properties, with the sentences they state, stand at the end of
their modules.  `store_nest` and `rebuild_evicted` are among the runs.  For the others, a
configuration is named under which TLC ends in a counterexample: one that is
beside the runs (`tlc -config SyncTwins.cfg MCWorkspaceSync`), or the one of a run
with the property alone in place of the run's properties.

| Configuration | Property | What happens | Code |
|---|---|---|---|
| `StoreNest.cfg` | `FoldersStayATree` | two folders, moved at once each into a subfolder of the other: both walk the ancestors before either has committed, no lock of theirs is shared, and the four are a cycle that no tree from the root reaches | `service.go:607` |
| `RepairBroken.cfg` | `BrokenKeepsCount` | the end of a subtree's recovery sets the attempts back over a journal that another change has paused meanwhile (`types.ts:238`: "only on a genuine return to live") | `projection.ts:2450` |
| `PanelAppends.cfg` | `IntoAppends` | a row dropped into a collapsed folder: no rows to count, so position 0 is sent and it is put first | `treeModel.ts:229` |
| `Store.cfg` | `ResyncOnlyForGap` | the cursor and the events of a replay are read in two statements; a commit in between makes the answer look discontinuous, and a resync is demanded of a client whose log has no gap (`docs/roadmap.md:41`) | `postgres.go:251` |
| `Store.cfg` | `PatchRetryAcknowledged` | a PATCH is retried after a change of another field, or a deletion, and is refused (`docs/api.md:87`) | `idempotency.go:185` |
| `Backend.cfg` | `EnabledOwner` | accepting an invitation or signing in does not look at `disabled_at`: the last enabled owner can go | `auth/service.go:226` |
| `Backend.cfg` (two organizations) | `NobodyOrphaned` | two deletions at once leave a member without an organization; the design accepts it (`lifecycle-management/design.md:263`) | `organizations` |
| `SyncLocal.cfg` (`MaxEvictions = 0`) | `Converged` | a local acknowledgement raises the cursor over an event that was not applied, which is dropped as passed (`docs/extension.md:42`) | `projection.ts:468` |
| `SyncLocal.cfg` | `EditsArrive` | an edit that returns to an earlier value has the id of an acknowledged intent and is dropped | `convergence.ts:51` |
| `SyncLocal.cfg`, `SyncRemote.cfg` | `PauseShows` | a change of title and folder at once pauses the workspace, which shows as live | `projection.ts:1607` |
| `SyncLocal.cfg`, `SyncRemote.cfg` | `GivenUpShows` | a replay that outlives the last socket marks the workspace live | `projection.ts:1943` |
| `SyncRemote.cfg` | `AckKeepsGoing` | a greeting that is behind the stored cursor when it is handled demands a rebuild | `projection.ts:865` |
| `SyncLocal.cfg`, `SyncRepair.cfg` | `LiveIsComplete` | a rebuild that is evicted half-way leaves an empty workspace that shows as live and up to date | `projection.ts:1103` |
| `SyncOverlapDup.cfg` | `NoDuplicates` | a live event and a replay create a bookmark's node at the same time | `projection.ts:1505` |
| `SyncRestart.cfg` | `ReceiptEnds` | an eviction between an effect and its callback leaves a receipt that nothing resolves, and no pause | `projection.ts:1254` |
| `SyncDropped.cfg` | `CatchesUp` | of two retitles in a row the second waits until something else starts a replay | `projection.ts:1254` |
| `SyncTwins.cfg` | `OwnNode` | two equal bookmarks in a folder share a node | `projection-helpers.ts:65` |
| `SyncFirst.cfg` | `Converged` | the gap check is off while the cursor is 0 | `projection.ts:1258` |
| `SyncSuppressed.cfg` | `QueuedIsSent` | an edit shortly after an effect on the same node is queued and not sent | `projection.ts:655` |
| `Repair.cfg` | `AlwaysEnds` | a replay resets the attempts before the drain that fails again, so that chains go on for ever | `projection.ts:934` |
| `Repair.cfg` | `IntentVeto` | an edit captured between the decision to rebuild and the rebuild of the journal is pruned | `projection.ts` |
| `Repair.cfg` | `PausedNotLive` | the acknowledgement of a PATCH in flight shows a paused workspace as live | `projection.ts` |
| `Repair.cfg` | `DegradedHasCause` | a late settlement degrades a workspace that has come live | `projection.ts` |
| `Repair.cfg` | `PauseNotLost` | the end of a rebuild clears a pause that came meanwhile | `projection.ts` |
| `Folders.cfg` (equal titles, without `FoldersAssumption`) | `KeepsOthers` | two workspaces of one title adopt and clear each other's folder | `projection.ts:408` |
| `Folders.cfg` | `OneWindow` | two openings at once make two windows | `popup.ts:65` |
| `TreeReplay.cfg` (`TreeSync`) | `CatchesUp` | a replay over the newest tree rejects an older move as circular | `projection.ts:1117` |
| `Tree.cfg` | `ExclusionsSurvive` | exclusions of a viewer are lost when their node's mapping is | `projection.ts:1655` |
| `Tree.cfg` | `LocalOnlySafe` | what a relocation saves can be cleared by a rebuild that goes on | `projection.ts` |
| `Tree.cfg` | `AnswerInScope`, `ToggleIsStored`, `OpenedOnce` | the search shows an answer of the other scope, loses the order of two toggles, opens a result twice | `quick-search.ts:62`, `:212` |
| `Tree.cfg` | `TitleTells`, `SeenWasShown` | the badge's title is an older one; activity is marked as seen that was never shown | `service-worker.ts:207`, `projection.ts:269` |
| `Sessions.cfg` | `OneRefresh` | two requests refresh one token at a time | `api.ts:349` |
| `Sessions.cfg` | `SignedOutStays` (`Session`), `LoginSurvives` | an answer that comes late restores a session that was signed out; drops one that was just made | `session.ts:102` |
| `Sessions.cfg` | `DegradedUntilRestored` | a late answer shows a workspace as live without a socket | `projection.ts:1943` |
| `Sessions.cfg` | `SignedOutStays` (`AdminSession`), `NothingLost` | a continuation writes the snapshot it captured over a sign-out, or over an organization made meanwhile | `AuthProvider.tsx:141` |
| `Forms.cfg` (two files) | `StoredOnce`, `OneCallAtATime` | a creation of uncertain outcome is stored twice when its key was dropped; two runs call at a time | `useUncertainCreationKey.ts:22` |
| `PanelAppends.cfg` (`Budgets <- MCRepeated`) | `RepliesHold` | a move that is sent again after a change by others is refused or lands elsewhere | `BookmarksPage.tsx` |
| `Forms.cfg` | `OfflineKept` | a read that happens while the creator has no socket is never told | `hub.go:119` |
| `Forms.cfg` | `MailsLiveOnly`, `ExpiredUnread` | a link is mailed that is burned already; a secret shows as expired that was read | `service.go:227`, `secret-history.ts:58` |
| `Forms.cfg` (two readers) | `ViewedOnce` | two readers see a secret before either burns it | `SecretRevealPage.tsx:164` |

## The proofs

A run shows a property for two handlers or two tasks; a theorem shows it for any
number of them, any history and any bound.  Each proof has the same shape: an
inductive invariant `I`, a lemma for every action that `I /\ action => I'`, the
implication from `I` to the property, and PTL for `Spec => []P`.  An action
property follows from `I /\ [Next]_vars`.

| Module | Theorem | Property |
|---|---|---|
| `SyncStoreProofs` | `TypeCorrect` | `TypeOK`, and what a handler knows at each stage |
| | `LogIsContiguous` | `Contiguity` |
| | `AcksNameEvents` | `AckNamesEvent` |
| | `StoreImplementsLog` | `ImplementsLog` |
| | `ReplaysAreComplete` | `ReplayComplete` |
| | `RowsFollowTheLog` | `RowsFollowLog` |
| | `PatchesKeepUnset` | `PatchKeepsUnset` |
| | `ScopedDeadlocksCross` | `ScopedDeadlockCrosses` |
| | `RetriesAreAcknowledged` | `RetryAcknowledged` |
| `BackendProofs` | `HubDeliversOnce`, `BackendDelivers` | `HubDelivers` |
| | `LocksProtect` | `IInv` |
| | `OrganizationsKeepOwners` | `OwnerKept` |
| | `NobodyJoinsTheDeleted` | `JoinsAreLive` |
| | `InvitationsSettleOnce` | `SettledOnce` |
| `WorkspaceSyncProofs` | `CursorNeverBack` | `CursorMonotone` |
| | `ReceiptsNeedProof` | `ConsumptionProves` |
| | `EditsAreKept` | `IntentKept` |
| | `RemoteConverges` | `Converged` |
| | `ReceiptsAreNext` | `ReceiptNext` |
| `AutoRepairProofs` | `RepairTypeCorrect` | `TypeOK`, the bounds of the counters included |
| | `RepairsOneAtATime` | `OneAtATime` |
| | `BudgetIsKept` | `BudgetKept` |
| | `PausesAreAttended` | `RecoveringHasChain` |
| `SessionsProofs` | `TokensRenew` | `TokenRenews` |
| | `LoginsHaveCause` | `EndsForCause` |
| | `SocketIsOne` | `OneSocket` |
| | `OneAccountIsShown` | `OneAccountShown` |
| `SecretsProofs` | `SecretsAreKept` | `SecretsHold` |
| `FoldersProofs` | `FoldersAreKept` | `FoldersHold` |
| | `WindowsAreKept` | `WindowsHold` |
| `TreeProofs` | `PagesAreTrue` | `PagesTell` |
| | `LocalOnlyStays` | `LocalOnlyKept` |
| | `TreeIsShown` | `TreeShownAtRest` |
| | `DropsLand` | `LandsWhereDropped` |

### The arguments

**The log** (`LogInv`).  `Contiguity` alone is not inductive: a commit could log
any number.  What makes it so is the handler that is about to commit: it has
claimed `cursor + 1`, its event id is in no event, and it is the only one at that
stage, because `UPDATE workspace_cursors` locks the row until the commit
(`ClaimInv`).  Every acknowledgement, and every receipt kept for a retry, names an
event of its own id (`AnswerInv`), since an answer is sent after a commit or read
from a row.  With both, a commit is an append of `SyncLog`, an answer an
acknowledgement, and every other statement a stutter: `StoreImplementsLog`.

**Replays** (`ReplayInv`).  The cursor read first bounds what the second statement
finds from below, the log at that moment from above; whatever commits between
them, what was found has no hole up to the cursor that was read.

**Rows and locks** (`LockInv`, `LifeInv`).  Two handlers hold no row, no scope and
no new entity in common (`Apart`), and what a handler holds at each stage is what
its code path has asked for (`Own`).  So nobody else writes the row between a
handler's write and its claim of the cursor, and the newest event of an entity
tells its row.  `LifeInv` adds that a live row has no deletion in the log, which
keeps a POST from being the second of its entity.  Of two copies of a POST or
DELETE the later one holds the key lock only after the earlier one has committed,
and then finds it (`RetryInv`).

**Deadlocks.**  A handler that has locked its scopes in ascending order waits for a
scope above all it holds, for a row inside its scopes, or for the row of its target
folder, which is in another scope.  In a cycle without the last kind the scopes waited
for would ascend for ever, and there are finitely many.  So of PATCHes that are where
they found their rows, and wait for each other in a cycle, one waits for another over
the row of a folder that is the target of one of them and is moved or renumbered by
the other (`Crosses`); PATCHes of bookmarks alone never deadlock.  A into B against B into A does: the database refuses one of them, as it
refuses one of any cycle, and `RequestEnds` covers it.

**The hub** (`HubInv`).  An event that was committed is for each connection in at
most one place: to be published, being offered, queued, sent, or dropped
(`OnePlace`); `NoWindow` says that whatever is later than the cursor a handler has
read, and not yet offered, will be offered to it, as it subscribed before it read.
`MCBackend` composes the hub with `Organizations`, and `BackendDelivers` carries the
theorem over.

**Organizations** (`IInv`).  A transaction that holds an organization's row, a
membership or an invitation knows it as it is: what it has read stays true until
it commits (`TxInv`), because a step of another leaves alone what it holds
(`Others`).  The last owner is then counted correctly by whoever removes one,
since it holds all memberships of the organization.

**The workspace** (`SyncInv`).  A task that is at an event has that event in its
list, all cursors that circulate are of the log, a receipt tells the shape of its
event, and whatever the server answered without refusal it has a receipt of.
`CursorMonotone` needs the first two: a checkpoint takes the maximum, and an
acknowledgement names a position of the log; `ConsumptionProves` the third;
`IntentKept` the fourth, and that the head of the queue is what the drain has sent.

**Convergence** (`ConvInv`).  The theorem is about `ScenarioSpec` with the scenarios
of `sync_remote`, for any constants that `RemoteAssumption` allows.  At rest the
claim is about `mapping` and `nodes`; while a task works it is about much more.
`LevelInv` says of each bookmark that Chrome shows it as the log has it at the
cursor or at the next event, unless a rebuild has filled it in further ahead, and
`MapInv` that mapping, owners and nodes are one relation, one to one.  Between the
effect of an event and the checkpoint one of three marks stands for the
difference: a started operation (`StartedInv`), a receipt (`ReceiptInv`) or the step
of the task (`EffectInv`); an eviction drops the step and leaves the marks.  A
change callback can only be the one that proves the receipt (`CallbackInv`), so that
no callback is taken for an edit of the user's.  Three things in this needed an
assumption that the run had made silently, and they are in `RemoteAssumption`: titles
that no two bookmarks share (else a lookalike is adopted), a history that is not
empty (else the gap check is off), and one change at a time from other clients
(else a rename and a move in one event make two callbacks for one receipt).
A creation that an eviction interrupts before its node is mapped leaves the
workspace blocked (`Orphan`): nothing is claimed of its tree until a rebuild.

**The repair** (`RepairInv`, `AttendInv`).  `BudgetKept` says of every step that the count
goes back only with a return to live on a journal that is not paused, or with the last
update of a subtree's recovery (`projection.ts:2450`), which does not look at the journal.  A chain that works holds the claim, and
a task inside `doResyncWorkspace` holds its lock (`HoldInv`).  That a pause shown as
recovering is attended needs a case for a chain that has let go of its claim: it
read the pause before, and answers it when it settles (`Attends`).

**The session** (`SessionInv`, with `TokenTypes`, `TokenInv`, `CauseInv`).  The stored
token is the newest of its family, or was retired by the attempt that is stored
beside it while the window for repeating that attempt is open; a request on the
network that could retire the token carries that attempt; a token once retired is
in no store but with its attempt.  So a renewal never looks like reuse
(`NeverForeign`), and a login is asked for only after a revocation or a logout.

**Sockets** (`SocketsInv`).  A flight whose token is current is the only one that
may store its socket (`FlightInv`).  A workspace that is wanted is supplied, or some
task is on the way to supply it ("caring"), or it is adrift (`SupplyInv`); one that
is not wanted is down, or some task is ending it (`GoneInv`).  At rest there is no
task, so the first alternatives hold.

**The session of the panel** (`PanelInv` of `SessionsProofs`).  A call that is still under way may only write what
belongs to the account it was made for: `CallsInv` says for each kind of call what
its snapshot shares with what is shown, as long as its continuation would be let
through; `ShownInv` and `RolesInv` that what is shown and stored belongs to one
account and to what it administers; `VisitInv` that a visit to an invitation's page
sends one acceptance at a time.

**Secrets** (`SecretsInv`).  A form that has its answer has a row with its own
wrapping (`FormInv`); a link that is under way opens its row (`LinkInv`); a row is
read only after a page showed it, and only then are there notices and frames of it
(`ReadInv`); a confirmation is added once (`ConfInv`).  That form and service agree
on the limit is arithmetic: Base64 has four characters for every three bytes begun
(`LengthsAgree`).

**Folders** (`FolderInv`).  Managed folders are found by titles and stored by ids, and
the invariant says that the two agree.  `TreeInv` gives each folder its titles from
the root down and no two folders the same ones, whatever is deleted above them; that
needs the queue (`QueueInv`): only the head of it walks, so what a walk did not find
is still missing when it creates it (`WayIsFree`).  Ids that are stored, or that a
walk has collected, may be gone, but never lead to other titles (`Leads`), since
Chrome's ids are not used again.  `OwnInv` is about the workspaces that nothing has
disturbed: a selection or a logout that takes one away has yet to come to it, knew of
its projection when it began (`Ahead`), and leaves it neither a folder nor a rebuild
(`Emptied`); what holds the workspace's tree is the folder its projection names
(`Kept`); and if the folder of a ready one has gone, a repair is owed or nobody has
looked (`Shown`).  The proof found the history `astray` to be cleared too early: a
repair that begins after a selection has passed the workspace by does not yet undo
what the overlap left, the filling of the folder does.

**Windows** (`WindowInv`).  While no two of the chrome calls have overlapped, one
opening, one closing or one removal is under way at most, and what it has read is
still so: an opening that creates a window has seen that there is none of its kind
(`CallKnows`), and a removal is of a key whose window is gone (`OneAtATime`).  Of the
results, that what is remembered as a host of tabs held tabs when it was remembered
(`HoldsTabs`), and a window changes its kind only to be closed.

**The search** (`SearchInv`).  A search that may still answer carries the newest token
and asks for what is in the input, and so does the timer (`SearchesAsk`); an answer
with an older token is dropped.  What the page knows of scope and workspaces is what
the worker stores, once it was told (`ScopeKnown`).  So when nothing is under way the
list is what the pipeline makes of the input's own answer (`Listed`).  That the
pipeline keeps the first matches, in their order and no others, is a lemma about
counting places (`KeptTwice`): the code filters twice and then cuts.

**The badge** (`SignalInv`).  Every change that the badge tells of starts a refresh, which
reads the state later and then makes its calls in order.  Once none is left to read,
the last text on its way is that of the stored state, and the colour comes behind it
(`BadgeFollows`); revisions of workspaces are never ahead of the signal's own
(`RevisionsKnown`), which is why popup and badge agree.

**The local-only folder** (`TreeInv`).  An id that is mapped shows its entity
(`MapShows`), though a user, a recovery and a rebuild all take nodes away between two
steps, as Chrome gives no id twice (`FreshAre`).  So what an event or a viewer deletes
is the subtree of a shared node, and a bookmark in the local-only folder is below
that folder and the workspace's only (`KeptIsBelow`).  What a recovery or a rebuild
clears is below a shared folder, or below the workspace's but for the folder that is
known, and that is the only one there is until a second is made (`LocalShows`).

**The tree of the panel** (`PanelInv` of `TreeProofs`).  `OneForest` is about the server's
tree, and a move reaches it that was planned on an older one; so the invariant says
that every tree there is, the server's, the one shown and the one being read, is a
forest (`Whole`), and that a call carries a tree of its own which is one too and a plan
made legally on it (`CallOk`).  A change keeps a forest whole although it is not the
tree of the plan, because the server looks again at what could have gone wrong: the
destination is there and is not below the folder that moves.  "Above" is the least
set that is closed under parents, so that nothing is proved by induction over depth: a move
makes only nodes below the moved one have other ancestors (`AboveShrinks`, `PutKeeps`).
For rest, rows that nobody overtook are the server's, or a call or a read is under way
that will make them so (`RowsFollow`): a read that began before a change is asked again
when the change settles.  `DropsLand` is arithmetic on positions:
the moved row is taken out before it is put in, and yet the index of the row it was
dropped on is the right one whether it came from above or from below, even for the last
place, where the server clamps what it is sent (`Clamps`); where the folder is open, the
rows that are shown are all there are (`OpenCounts`); and what the server puts at a
position is found there and nothing else has moved (`PutLands`, `PutAndTaken`).

### Assumptions on constants

All are named in the modules that declare the constants, and TLC evaluates them
in the runs.

- `StoreAssumption`: requests have the fields of their kind; places are finitely
  many numbers (the identifiers by which the code sorts its locks); "keep" is
  neither a title nor a place.  `FolderAssumption`: a list belongs to a folder or to
  the root, and no request deletes such a folder.  `PastAssumption`: the log that is there at the
  start is contiguous, with one event for each id and entity.
- `OrganizationsAssumption`, `BoundsAssumption` of `AutoRepair`,
  `SessionAssumption`, `SecretsAssumption`, `ImportAssumption`, `SyncAssumption`: that `None` is none of
  the values it stands beside, that bounds are natural numbers, and that a channel
  has a place.
- `RemoteAssumption`: what the scenarios without edits take for granted of titles,
  history and other clients (above, under convergence); it says nothing of the other
  scenarios.
- `FilesAssumption`: that an entry of a file is one deeper than the one above it only when that is a folder.
- `PathAssumption`: that a workspace's path has a title, that the root's is not the old
  one, and that "nothing" is no workspace.
- `FoldersAssumption`: that `None` is no window and the first one is; and that no
  workspace's path is another's or leads to it.  Workspaces of one organization may
  share a name (the unique index of `migrations/000003` has the type in it): what
  happens then is among the divergences.
- `EntitiesAssumption`: that folders and bookmarks are finitely many and differ from
  each other and from the words that stand beside them.  `TreeAssumption`: that the
  browser answers with sequences, that there are finitely many workspaces and room for a
  result, and that "nothing" is no query and `None` neither a colour nor a timer.
- `PanelAssumption`: that the panel's folders and bookmarks are finitely many and differ from
  each other and from the root, and that the first tree is a forest of them.
- `SessionsAssumption`: that `None` is none of the kinds of calls and roles that are
  written as strings in `AdminSession`.

### What is only model-checked

- Liveness: `RequestEnds`, `Served`, `CatchesUp`, `BudgetBounds`, `Quiesces`,
  `RunsEnd`, `FramesLand`; and `SomeoneMoves`, which is about
  what is ENABLED.  Both are out of the prover's reach.
- `TreeMirrors`, which relates a tree of any depth to what a sequence of events has
  made of it, and `ItemsInPlace`, which relates the tree that an import leaves to the
  order of a file: no invariant of theirs is proved.

## What is not modelled

- In `SyncStore` the cascade of a folder's deletion and the positions of siblings,
  which are in `PanelTree` for one move at a time; the KEY SHARE lock that a foreign
  key takes of the parent's row, which only a POST takes without having locked that
  row, and a POST is unscoped; and a scoped call of `logRejectedMutation`, which the code
  does not make.
- In `AutoRepair` the hold of the live queue while a gap is recovered.
- The URL and the index of a bookmark, which follow its title and its folder.
- In `WorkspaceSync` creations and deletions that the user makes in Chrome.
- Workspaces, access grants and groups (single statements under one organization's
  locks); the rate limiter (one mutex); activity, mail, configuration, migrations,
  start-up; views of the panel that are forms over what the API answers; the lists
  and forms of the options page.
- Cryptography: keys and ciphertexts are names, and a key opens what it closed.
- The hub does not look at memberships again after a socket is up: a socket
  outlives a removal from the organization, and the extension learns of it at the
  next request.
- Deployment and scripts.
