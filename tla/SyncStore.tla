------------------------------- MODULE SyncStore -------------------------------
(***************************************************************************)
(* The mutation and replay paths of one workspace in the Go backend:       *)
(* backend/internal/sync/postgres.go, the PATCH executor of                *)
(* backend/internal/httpapi/idempotency.go and the row and scope locks of  *)
(* backend/internal/bookmarks/{service,prepare}.go, over PostgreSQL at     *)
(* READ COMMITTED.                                                         *)
(*                                                                         *)
(* A handler serves one HTTP request at a time.  Everything it writes is   *)
(* private (tx[h]) until Commit, and each of its statements is an action,  *)
(* so handlers interleave between statements.  Locks are held to the end   *)
(* of the transaction.                                                     *)
(*                                                                         *)
(* Abstracted: an entity stands for a bookmark or a folder, its shape for  *)
(* the fields a PATCH may set: title (also url) and place (the bookmarks,  *)
(* or the folders, of its parent).  Positions are not represented, but the *)
(* row locks that renumbering siblings takes are.  Access checks are the   *)
(* nondeterministic refusal of CreateRefused.  The cascade of a folder's   *)
(* deletion is left out: folders that places belong to are there from the  *)
(* start, or are not there, and no request deletes them.                   *)
(***************************************************************************)
EXTENDS Integers, FiniteSets

CONSTANTS
  Handlers,      \* requests the server executes at the same time
  Readers,       \* concurrent executions of GET /sync/events
  Entities,      \* bookmark ids
  Ids,           \* client-chosen event ids (X-Event-ID)
  Titles,        \* values of the fields other than the parent
  Places,        \* the sibling lists: the bookmarks, or the folders, of one
                 \* parent, numbered in the order of their scope keys
  FolderAt,      \* the folder a list belongs to; Nobody at the root
  Requests,      \* the requests clients may send, each any number of times
  Past,          \* creations logged before this behaviour starts
  Keep,          \* a field the PATCH body does not set
  Nobody         \* no entity, no request, no folder

Shapes == [title : Titles, place : Places]

Creates == [op : {"create"}, id : Ids, entity : {Nobody}, title : Titles, place : Places]
Deletes == [op : {"delete"}, id : Ids, entity : Entities, title : {Keep}, place : {Keep}]
Patches == [op : {"patch"}, id : Ids, entity : Entities,
            title : Titles \cup {Keep}, place : Places \cup {Keep}]

Kinds == {"created", "updated", "deleted"}

Events == [cursor : Nat, id : Ids, entity : Entities, kind : Kinds, shape : Shapes]

Entries == [id : Ids, entity : Entities, kind : Kinds, shape : Shapes]

ASSUME StoreAssumption ==
  /\ Requests \subseteq Creates \cup Deletes \cup Patches
  /\ Places \subseteq Nat /\ IsFiniteSet(Places)
  /\ Titles # {} /\ Places # {}
  /\ Keep \notin Titles \cup Places
  /\ Nobody \notin Entities \cup Requests

(* A request deletes no folder that a list belongs to.                     *)
Folders == {FolderAt[p] : p \in Places} \ {Nobody}

ASSUME FolderAssumption ==
  /\ FolderAt \in [Places -> Entities \cup {Nobody}]
  /\ \A q \in Requests : q.op = "delete" => q.entity \notin Folders

(* The rows that exist at the start were created through this API.         *)
ASSUME PastAssumption ==
  /\ Past \subseteq Events
  /\ IsFiniteSet(Past)
  /\ {ev.cursor : ev \in Past} = 1 .. Cardinality(Past)
  /\ \A a, b \in Past : a.id = b.id \/ a.cursor = b.cursor \/ a.entity = b.entity => a = b
  /\ \A ev \in Past : ev.kind = "created"

VARIABLES
  cursor,        \* workspace_cursors.current_cursor, committed
  events,        \* sync_events, committed
  status,        \* per entity: "absent", "live" or "deleted"
  shape,         \* per entity: the committed fields
  receipts,      \* idempotency_records of the PATCH routes, committed
  pc,            \* per handler: the last statement it has finished
  tx,            \* per handler: its request, its locks and its private writes
  acks,          \* history: every success answered, [req, cursor]
  reader         \* per replay request: its two reads and its answer

dbVars == <<cursor, events, status, shape, receipts>>
vars == <<cursor, events, status, shape, receipts, pc, tx, acks, reader>>

NoTx == [req |-> Nobody, entity |-> Nobody, target |-> Nobody, wanted |-> {}, scopes |-> {},
         rows |-> {}, todo |-> {}, final |-> Nobody, claimed |-> 0]

Stages == {"idle", "received", "keyed", "discovered", "rowlocked", "preparing",
           "checked", "reordering", "recorded", "committed", "refused"}

(* A transaction that holds its event key's advisory lock.                 *)
InTx(h) == pc[h] \notin {"idle", "received", "committed", "refused"}

(***************************************************************************)
(* Lock names.  lockEventKey: workspaceID:eventID for a create,            *)
(* entityID:eventID for a delete; ExecutePrepared: principal, method,      *)
(* route and event id, the same for every entity.                          *)
(***************************************************************************)
KeyOf(q) == [op |-> q.op, entity |-> IF q.op = "delete" THEN q.entity ELSE Nobody, id |-> q.id]

(* Mutant: no lock on the event key. *)
KeyFreeUnlocked(h) == TRUE

KeyFree(h) == \A g \in Handlers \ {h} : InTx(g) => KeyOf(tx[g].req) # KeyOf(tx[h].req)

(* Mutant: rows are written without waiting for their lock. *)
RowFreeUnlocked(h, e) == TRUE

RowFree(h, e) == \A g \in Handlers \ {h} : e \notin tx[g].rows

ScopeFree(h, p) == \A g \in Handlers \ {h} : p \notin tx[g].scopes

(* Mutant: the next cursor is read without locking its row. *)
CursorFreeUnlocked(h) == TRUE

CursorFree(h) == \A g \in Handlers \ {h} : pc[g] # "recorded"

Siblings(e, p) == {s \in Entities \ {e} : status[s] = "live" /\ shape[s].place = p}

(* The parent of a list: ensureFolderParent, ensureBookmarkFolder.         *)
Standing(p) == FolderAt[p] = Nobody \/ status[FolderAt[p]] = "live"

(* The folder whose list a PATCH is for.                                   *)
ParentOf(t) == IF t.target = Nobody THEN Nobody ELSE FolderAt[t.target]

(* ensureFolderNotDescendant: f is e or lies below it, that is, in every   *)
(* set that holds e and with a folder what the folder's lists hold.        *)
Inside(f, e) ==
  \A T \in SUBSET Entities :
    /\ e \in T
    /\ \A x \in Entities : status[x] = "live" /\ FolderAt[shape[x].place] \in T => x \in T
    => f \in T

Logged(i) == {ev \in events : ev.id = i}

(***************************************************************************)
(* Answers.  Ending a transaction gives up its locks and private writes.   *)
(* A refusal (400, 403, 404) is kept until the handler's next request; a   *)
(* success is kept in acks for ever, with cursor 0 when nothing was logged.*)
(***************************************************************************)
Advance(h, stage, t) ==
  /\ pc' = [pc EXCEPT ![h] = stage]
  /\ tx' = [tx EXCEPT ![h] = t]
  /\ UNCHANGED <<dbVars, acks, reader>>

Refuse(h) == Advance(h, "refused", NoTx)

(* Mutant: locks outlive the transaction, as session locks would. *)
AcknowledgeHolding(h, cur) ==
  /\ acks' = acks \cup {[req |-> tx[h].req, cursor |-> cur]}
  /\ pc' = [pc EXCEPT ![h] = "idle"]
  /\ tx' = [tx EXCEPT ![h] = [NoTx EXCEPT !.scopes = tx[h].scopes]]
  /\ UNCHANGED reader

Acknowledge(h, cur) ==
  /\ acks' = acks \cup {[req |-> tx[h].req, cursor |-> cur]}
  /\ pc' = [pc EXCEPT ![h] = "idle"]
  /\ tx' = [tx EXCEPT ![h] = NoTx]
  /\ UNCHANGED reader

RowOf(e) == {ev \in Past : ev.entity = e}

Init ==
  /\ cursor = Cardinality(Past)
  /\ events = Past
  /\ status = [e \in Entities |-> IF RowOf(e) = {} THEN "absent" ELSE "live"]
  /\ shape = [e \in Entities |-> IF RowOf(e) = {} THEN CHOOSE s \in Shapes : TRUE
                                 ELSE (CHOOSE ev \in RowOf(e) : TRUE).shape]
  /\ receipts = {}
  /\ pc = [h \in Handlers |-> "idle"]
  /\ tx = [h \in Handlers |-> NoTx]
  /\ acks = {}
  /\ reader = [r \in Readers |-> [stage |-> "idle", after |-> 0, upTo |-> 0, got |-> {}]]

--------------------------------------------------------------------------------
(***************************************************************************)
(* A request, and its retries: the same request may arrive again at any    *)
(* time, also while an earlier copy of it is still executing.              *)
(***************************************************************************)
Receive(h, q) ==
  /\ pc[h] \in {"idle", "refused"}
  /\ Advance(h, "received", [NoTx EXCEPT !.req = q])

(* pg_advisory_xact_lock: POST and DELETE wait for the key.                *)
LockEventKey(h) ==
  /\ pc[h] = "received"
  /\ tx[h].req.op # "patch"
  /\ KeyFree(h)
  /\ Advance(h, "keyed", tx[h])

(* pg_try_advisory_xact_lock: a PATCH does not wait, it answers 409.       *)
TryReceiptKey(h) ==
  /\ pc[h] = "received"
  /\ tx[h].req.op = "patch"
  /\ IF KeyFree(h) THEN Advance(h, "keyed", tx[h]) ELSE Advance(h, "idle", NoTx)

(* loadDuplicate: a create looks its event id up in the workspace, a       *)
(* delete looks it up for its own entity.                                  *)
Duplicates(q) ==
  {ev \in Logged(q.id) : q.op = "delete" => ev.entity = q.entity}

AnswerDuplicate(h) ==
  /\ pc[h] = "keyed"
  /\ tx[h].req.op # "patch"
  /\ \E ev \in Duplicates(tx[h].req) : Acknowledge(h, ev.cursor)
  /\ UNCHANGED dbVars

(***************************************************************************)
(* POST: validate, insert the row under a fresh id, renumber the siblings. *)
(***************************************************************************)
FreshEntities ==
  {e \in Entities \ Folders :
     status[e] = "absent" /\ \A g \in Handlers : tx[g].entity # e}

CreateApply(h) ==
  /\ pc[h] = "keyed"
  /\ tx[h].req.op = "create"
  /\ Duplicates(tx[h].req) = {}
  /\ Standing(tx[h].req.place)
  /\ \E e \in FreshEntities :
       Advance(h, "reordering",
         [tx[h] EXCEPT !.entity = e,
                       !.final = [title |-> tx[h].req.title, place |-> tx[h].req.place],
                       !.rows = {e},
                       !.todo = Siblings(e, tx[h].req.place)])

(* The parent folder is gone, or the caller lost write access.             *)
CreateRefused(h) ==
  /\ pc[h] = "keyed"
  /\ tx[h].req.op = "create"
  /\ Duplicates(tx[h].req) = {}
  /\ Refuse(h)

(***************************************************************************)
(* DELETE: SELECTs without a lock decide that the entity is live and what  *)
(* the event will say; the UPDATE that follows waits for the row and is    *)
(* not conditional on it.                                                  *)
(***************************************************************************)
DeleteCheck(h) ==
  /\ pc[h] = "keyed"
  /\ tx[h].req.op = "delete"
  /\ Duplicates(tx[h].req) = {}
  /\ IF status[tx[h].req.entity] = "live"
       THEN Advance(h, "checked",
              [tx[h] EXCEPT !.entity = tx[h].req.entity,
                            !.final = shape[tx[h].req.entity]])
       ELSE Refuse(h)

DeleteApply(h) ==
  /\ pc[h] = "checked"
  /\ RowFree(h, tx[h].entity)
  /\ Advance(h, "reordering",
       [tx[h] EXCEPT !.rows = {tx[h].entity},
                     !.todo = Siblings(tx[h].entity, tx[h].final.place)])

(***************************************************************************)
(* PATCH.  prepareScopesTx: discover the places involved without a lock,   *)
(* lock their scopes in order, lock the row, the row of the folder it goes *)
(* to and the siblings there, then compare the scopes again.               *)
(***************************************************************************)
Merge(q, s) == [title |-> IF q.title = Keep THEN s.title ELSE q.title,
                place |-> IF q.place = Keep THEN s.place ELSE q.place]

Scopes(q, s) == {s.place, Merge(q, s).place}

PatchDiscover(h) ==
  LET q == tx[h].req
      s == shape[q.entity]
  IN  /\ pc[h] = "keyed"
      /\ q.op = "patch"
      /\ IF status[q.entity] = "live"
           THEN Advance(h, "discovered",
                  [tx[h] EXCEPT !.entity = q.entity,
                                !.target = Merge(q, s).place,
                                !.wanted = Scopes(q, s)])
           ELSE Refuse(h)

(* Mutant: the target's scope first, whatever the order of the keys. *)
NextScopeUnsorted(t) ==
  IF t.target \notin t.scopes THEN t.target ELSE CHOOSE p \in t.wanted \ t.scopes : TRUE

(* lockScopesTx takes the scopes in the order of their keys.               *)
NextScope(t) == CHOOSE p \in t.wanted \ t.scopes : \A o \in t.wanted \ t.scopes : p <= o

PatchLockScope(h) ==
  /\ pc[h] = "discovered"
  /\ tx[h].wanted # tx[h].scopes
  /\ ScopeFree(h, NextScope(tx[h]))
  /\ Advance(h, "discovered", [tx[h] EXCEPT !.scopes = @ \cup {NextScope(tx[h])}])

(* SELECT ... FOR UPDATE reads the row again once it has the lock.         *)
PatchLockRow(h) ==
  LET e == tx[h].entity
  IN  /\ pc[h] = "discovered"
      /\ tx[h].wanted = tx[h].scopes
      /\ RowFree(h, e)
      /\ IF status[e] = "live"
           THEN Advance(h, "rowlocked", [tx[h] EXCEPT !.rows = {e}])
           ELSE Refuse(h)

(* The row of the target's folder is locked too, unless it is the root; it *)
(* must be live and, for a folder that moves, not lie below it.            *)
PatchLockParent(h) ==
  LET e == tx[h].entity
      f == ParentOf(tx[h])
  IN  /\ pc[h] = "rowlocked"
      /\ RowFree(h, f)
      /\ IF Standing(tx[h].target) /\ ~Inside(f, e)
           THEN Advance(h, "preparing",
                  [tx[h] EXCEPT !.rows = @ \cup ({f} \ {Nobody}),
                                !.todo = Siblings(e, tx[h].target)])
           ELSE Refuse(h)

(* One sibling row more: FOR UPDATE in a prepare, UPDATE in a reorder.     *)
LockSibling(h) ==
  /\ pc[h] \in {"preparing", "reordering"}
  /\ \E s \in tx[h].todo :
       /\ RowFree(h, s)
       /\ Advance(h, pc[h], [tx[h] EXCEPT !.rows = @ \cup {s}, !.todo = @ \ {s}])

(* The row as it will be, read under its lock.                             *)
Final(h) == [title |-> Merge(tx[h].req, shape[tx[h].entity]).title, place |-> tx[h].target]

Prepared(h) == pc[h] = "preparing" /\ tx[h].todo = {}

(* Mutant: the scopes are not compared again. *)
InScopeUnchecked(h) == TRUE

InScope(h) == Scopes(tx[h].req, shape[tx[h].entity]) = tx[h].wanted

(* claimReceipt compares the fingerprint: the entity and its whole shape.  *)
ReceiptOf(h) == {rc \in receipts : rc.id = tx[h].req.id}

Matches(h, rc) == rc.entity = tx[h].entity /\ rc.final = Final(h)

PatchDrifted(h) ==
  /\ Prepared(h)
  /\ ~InScope(h)
  /\ Refuse(h)

PatchConflict(h) ==
  /\ Prepared(h) /\ InScope(h)
  /\ \E rc \in ReceiptOf(h) : ~Matches(h, rc)
  /\ Refuse(h)

PatchReplay(h) ==
  /\ Prepared(h) /\ InScope(h)
  /\ \E rc \in ReceiptOf(h) : Matches(h, rc) /\ Acknowledge(h, rc.cursor)
  /\ UNCHANGED dbVars

Receipt(h, cur) == [id |-> tx[h].req.id, entity |-> tx[h].entity,
                    final |-> Final(h), cursor |-> cur]

(* Nothing to change: a receipt without a cursor, and no event.            *)
PatchNoOp(h) ==
  /\ Prepared(h) /\ InScope(h)
  /\ ReceiptOf(h) = {}
  /\ Final(h) = shape[tx[h].entity]
  /\ receipts' = receipts \cup {Receipt(h, 0)}
  /\ Acknowledge(h, 0)
  /\ UNCHANGED <<cursor, events, status, shape>>

(* A move also renumbers the siblings left behind.                         *)
PatchApply(h) ==
  LET from == shape[tx[h].entity].place
  IN  /\ Prepared(h) /\ InScope(h)
      /\ ReceiptOf(h) = {}
      /\ Final(h) # shape[tx[h].entity]
      /\ Advance(h, "reordering",
           [tx[h] EXCEPT !.final = Final(h),
                         !.todo = IF from = tx[h].target THEN {}
                                  ELSE Siblings(tx[h].entity, from)])

(* Mutant: no UNIQUE (workspace_id, event_id). *)
RecordEventTwice(h) ==
  /\ pc[h] = "reordering"
  /\ tx[h].todo = {}
  /\ CursorFree(h)
  /\ Advance(h, "recorded", [tx[h] EXCEPT !.claimed = cursor + 1])

(***************************************************************************)
(* recordEvent: one statement takes the next cursor, whose row it locks,   *)
(* and inserts the event; UNIQUE (workspace_id, event_id) may refuse it.   *)
(***************************************************************************)
RecordEvent(h) ==
  /\ pc[h] = "reordering"
  /\ tx[h].todo = {}
  /\ CursorFree(h)
  /\ IF Logged(tx[h].req.id) = {}
       THEN Advance(h, "recorded", [tx[h] EXCEPT !.claimed = cursor + 1])
       ELSE Refuse(h)

KindOf(op) == CASE op = "create" -> "created" [] op = "patch" -> "updated" [] op = "delete" -> "deleted"

EventOf(t) == [cursor |-> t.claimed, id |-> t.req.id, entity |-> t.entity,
               kind |-> KindOf(t.req.op), shape |-> t.final]

Commit(h) ==
  LET t == tx[h]
  IN  /\ pc[h] = "recorded"
      /\ cursor' = t.claimed
      /\ events' = events \cup {EventOf(t)}
      /\ status' = IF t.req.op = "patch" THEN status
                   ELSE [status EXCEPT ![t.entity] =
                           IF t.req.op = "create" THEN "live" ELSE "deleted"]
      /\ shape' = IF t.req.op = "delete" THEN shape ELSE [shape EXCEPT ![t.entity] = t.final]
      /\ receipts' = IF t.req.op = "patch"
                       THEN receipts \cup {[id |-> t.req.id, entity |-> t.entity,
                                            final |-> t.final, cursor |-> t.claimed]}
                       ELSE receipts
      /\ pc' = [pc EXCEPT ![h] = "committed"]
      /\ tx' = [tx EXCEPT ![h].scopes = {}, ![h].rows = {}]
      /\ UNCHANGED <<acks, reader>>

(* Only now is the event handed to the websocket hub (module Hub), and the *)
(* caller gets its answer.                                                 *)
PublishAndAnswer(h) ==
  /\ pc[h] = "committed"
  /\ Acknowledge(h, tx[h].claimed)
  /\ UNCHANGED dbVars

(***************************************************************************)
(* The process dies, or the connection to the database does: an open       *)
(* transaction rolls back; a committed one stays, unpublished.             *)
(***************************************************************************)
Abandon(h) ==
  /\ pc[h] \notin {"idle", "refused"}
  /\ Advance(h, "idle", NoTx)

(* The handlers that h cannot proceed without.                             *)
WaitsFor(h) ==
  {g \in Handlers \ {h} :
     \/ /\ pc[h] = "received" /\ tx[h].req.op # "patch"
        /\ InTx(g) /\ KeyOf(tx[g].req) = KeyOf(tx[h].req)
     \/ /\ pc[h] = "discovered" /\ tx[h].wanted # tx[h].scopes
        /\ NextScope(tx[h]) \in tx[g].scopes
     \/ /\ pc[h] = "discovered" /\ tx[h].wanted = tx[h].scopes
        /\ tx[h].entity \in tx[g].rows
     \/ /\ pc[h] = "rowlocked" /\ ParentOf(tx[h]) \in tx[g].rows
     \/ /\ pc[h] = "checked" /\ tx[h].entity \in tx[g].rows
     \/ /\ \A s \in tx[h].todo : ~RowFree(h, s)
        /\ tx[h].todo \cap tx[g].rows # {}}

Cycle(S) == \A h \in S : WaitsFor(h) # {} /\ WaitsFor(h) \subseteq S

(* PostgreSQL's deadlock detector aborts one transaction of a cycle.       *)
DeadlockAbort(h) ==
  /\ \E S \in SUBSET Handlers : h \in S /\ Cycle(S)
  /\ Refuse(h)

(* Executor.Cleanup, once a receipt's 24 hours are over.                   *)
ExpireReceipt ==
  /\ \E rc \in receipts : receipts' = receipts \ {rc}
  /\ UNCHANGED <<cursor, events, status, shape, pc, tx, acks, reader>>

(***************************************************************************)
(* ReplayEvents: the current cursor and the events are two statements, and *)
(* ensureContiguous compares what they returned.                           *)
(***************************************************************************)
ReadCursor(r, after) ==
  /\ reader[r].stage = "idle"
  /\ reader' = [reader EXCEPT ![r] =
                  [stage |-> "cursor", after |-> after, upTo |-> cursor, got |-> {}]]
  /\ UNCHANGED <<dbVars, pc, tx, acks>>

Contiguous(after, upTo, got) == after >= upTo \/ got = after + 1 .. upTo

(* Mutant: cursor >= $2 in the query of the events. *)
ReadEventsInclusive(r) ==
  LET after == reader[r].after
      got   == {ev.cursor : ev \in {e \in events : e.cursor >= after}}
  IN  /\ reader[r].stage = "cursor"
      /\ reader' = [reader EXCEPT ![r].got = got, ![r].stage =
                      IF Contiguous(after, reader[r].upTo, got) THEN "replayed" ELSE "resync"]
      /\ UNCHANGED <<dbVars, pc, tx, acks>>

ReadEvents(r) ==
  LET after == reader[r].after
      got   == {ev.cursor : ev \in {e \in events : e.cursor > after}}
  IN  /\ reader[r].stage = "cursor"
      /\ reader' = [reader EXCEPT ![r].got = got, ![r].stage =
                      IF Contiguous(after, reader[r].upTo, got) THEN "replayed" ELSE "resync"]
      /\ UNCHANGED <<dbVars, pc, tx, acks>>

FinishReplay(r) ==
  /\ reader[r].stage \in {"replayed", "resync"}
  /\ reader' = [reader EXCEPT ![r] = [stage |-> "idle", after |-> 0, upTo |-> 0, got |-> {}]]
  /\ UNCHANGED <<dbVars, pc, tx, acks>>

--------------------------------------------------------------------------------
(* The statements of one request after it has arrived.                     *)
Step(h) ==
  \/ LockEventKey(h) \/ TryReceiptKey(h) \/ AnswerDuplicate(h)
  \/ CreateApply(h) \/ CreateRefused(h)
  \/ DeleteCheck(h) \/ DeleteApply(h)
  \/ PatchDiscover(h) \/ PatchLockScope(h) \/ PatchLockRow(h) \/ PatchLockParent(h)
  \/ PatchDrifted(h) \/ PatchConflict(h) \/ PatchReplay(h) \/ PatchNoOp(h) \/ PatchApply(h)
  \/ LockSibling(h) \/ RecordEvent(h) \/ Commit(h) \/ PublishAndAnswer(h)
  \/ DeadlockAbort(h)

Replay(r) == (\E after \in 0 .. cursor : ReadCursor(r, after)) \/ ReadEvents(r) \/ FinishReplay(r)

Next ==
  \/ \E h \in Handlers : (\E q \in Requests : Receive(h, q)) \/ Step(h) \/ Abandon(h)
  \/ ExpireReceipt
  \/ \E r \in Readers : Replay(r)

Spec == Init /\ [][Next]_vars

(* PostgreSQL grants a lock to its waiters in turn, so a handler that can  *)
(* proceed again and again does: strong fairness of its own steps.  No     *)
(* fairness for arrivals, crashes, expiry or replays.                      *)
FairSpec == Spec /\ \A h \in Handlers : SF_vars(Step(h))

--------------------------------------------------------------------------------
(* Types of the state; every committed shape has all its fields.           *)
TxType ==
  [req : Requests \cup {Nobody}, entity : Entities \cup {Nobody},
   target : Places \cup {Nobody}, wanted : SUBSET Places, scopes : SUBSET Places,
   rows : SUBSET Entities, todo : SUBSET Entities, final : Shapes \cup {Nobody},
   claimed : Nat]

TypeOK ==
  /\ cursor \in Nat
  /\ events \subseteq Events
  /\ status \in [Entities -> {"absent", "live", "deleted"}]
  /\ shape \in [Entities -> Shapes]
  /\ receipts \subseteq [id : Ids, entity : Entities, final : Shapes, cursor : Nat]
  /\ pc \in [Handlers -> Stages]
  /\ tx \in [Handlers -> TxType]
  /\ acks \subseteq [req : Requests, cursor : Nat]
  /\ reader \in [Readers -> [stage : {"idle", "cursor", "replayed", "resync"},
                             after : Nat, upTo : Nat, got : SUBSET Nat]]

(* The committed log is numbered 1 .. cursor without a gap, a cursor or an *)
(* event id used twice: what UNIQUE, the key lock and the locked cursor    *)
(* row of recordEvent are for, and what every client's replay relies on.   *)
Contiguity ==
  /\ {ev.cursor : ev \in events} = 1 .. cursor
  /\ \A a, b \in events : a.cursor = b.cursor \/ a.id = b.id => a = b

(* An answer that carries a cursor names the committed event of that       *)
(* request's event id, whichever copy of the request it answers.           *)
AckNamesEvent ==
  \A a \in acks : a.cursor # 0 =>
    \E ev \in events : ev.cursor = a.cursor /\ ev.id = a.req.id

(* The newest event about an entity tells what its row holds: a client     *)
(* that has applied the whole log has the server's data.                   *)
About(e) == {ev \in events : ev.entity = e}

LogTellsRows ==
  \A e \in Entities :
    /\ status[e] = "absent" <=> About(e) = {}
    /\ \A ev \in About(e) :
         (\A o \in About(e) : o.cursor <= ev.cursor) =>
           /\ status[e] = IF ev.kind = "deleted" THEN "deleted" ELSE "live"
           /\ ev.kind # "deleted" => shape[e] = ev.shape

(* Once an entity's deletion is logged no later event revives or changes   *)
(* it, and its creation comes first: a PATCH waits for the row and reads   *)
(* it again.                                                               *)
LifeCycle ==
  \A e \in Entities : \A a, b \in About(e) :
    a.cursor < b.cursor =>
      /\ b.kind # "created"
      /\ a.kind = "deleted" => b.kind = "deleted"

(* The log tells of each row what the row holds, and its life runs one     *)
(* way: what a client that catches up by the log relies on.                *)
RowsFollowLog == LogTellsRows /\ LifeCycle

(* A replay that is answered with events has every one of them from its    *)
(* cursor to the cursor it read, and none is missing between two of them.  *)
ReplayComplete ==
  \A r \in Readers : reader[r].stage = "replayed" =>
    \E top \in reader[r].upTo .. cursor : reader[r].got = reader[r].after + 1 .. top

(* A transaction that takes no row outside the sorted scopes it holds: not *)
(* a POST or DELETE, which take none, nor a PATCH whose row moved between  *)
(* the unlocked read and the lock.                                         *)
Scoped(h) == tx[h].req.op = "patch" /\ (tx[h].rows # {} => InScope(h))

(* h waits for g where two PATCHes of folders cross: g has locked, as its  *)
(* own row or as a sibling, the folder h moves into, or moves into a       *)
(* folder that h is about to renumber.                                     *)
Crosses(h, g) ==
  \/ /\ pc[h] = "rowlocked"
     /\ ParentOf(tx[h]) \in tx[g].rows \ {ParentOf(tx[g])}
  \/ ParentOf(tx[g]) \in tx[h].todo

(* The order of the scope locks leaves no deadlock among PATCHes that are  *)
(* where they found their rows, but for the rows of target folders, which  *)
(* belong to another scope: PATCHes of bookmarks alone never deadlock.     *)
ScopedDeadlockCrosses ==
  \A S \in SUBSET Handlers : S # {} /\ Cycle(S) /\ (\A h \in S : Scoped(h)) =>
    \E h \in S : \E g \in WaitsFor(h) : Crosses(h, g)

(* A committed PATCH changes only the fields its body sets: a concurrent   *)
(* change of another field is not undone.                                  *)
PatchKeepsUnset ==
  [][\A h \in Handlers :
       pc[h] = "recorded" /\ pc'[h] = "committed" /\ tx[h].req.op = "patch" =>
         \A f \in {"title", "place"} :
           tx[h].req[f] = Keep => shape'[tx[h].entity][f] = shape[tx[h].entity][f]]_vars

(* A POST or DELETE that was acknowledged once is never refused later: the *)
(* retry of a lost answer gets the same answer.                            *)
Acked(q) == \E a \in acks : a.req = q

Refused(h) == pc[h] # "refused" /\ pc'[h] = "refused"

RetryAcknowledged ==
  [][\A h \in Handlers : tx[h].req # Nobody /\ tx[h].req.op # "patch" /\ Acked(tx[h].req) =>
       ~Refused(h)]_vars

(* Every request that has arrived is served or given up: lock waits end,   *)
(* with the deadlock detector's help.                                      *)
RequestEnds == \A h \in Handlers : pc[h] = "received" ~> pc[h] \in {"idle", "refused"}

(* The abstract log, read off the committed rows and the answers.          *)
EventAt(log, i) == CHOOSE ev \in log : ev.cursor = i

View(log, n) ==
  [i \in 1 .. n |->
     [id |-> EventAt(log, i).id, entity |-> EventAt(log, i).entity,
      kind |-> EventAt(log, i).kind, shape |-> EventAt(log, i).shape]]

LogView == View(events, cursor)

AckView == {[id |-> a.req.id, cursor |-> a.cursor] : a \in {b \in acks : b.cursor # 0}}

Log == INSTANCE SyncLog WITH
         Entry <- Entries, History <- View(Past, Cardinality(Past)),
         log <- LogView, acked <- AckView

ImplementsLog == Log!Spec

(* Stated by the documents and not kept by the code (see the README).      *)

(* docs/roadmap.md:41: replay gaps are flagged for resync; here, a flagged  *)
(* answer means that the log it was read from has a gap.                   *)
ResyncOnlyForGap ==
  \A r \in Readers : reader[r].stage = "resync" =>
    ~ \A c \in reader[r].after + 1 .. reader[r].upTo : \E ev \in events : ev.cursor = c

(* backend/internal/bookmarks/service_integration_test.go:179 has a folder *)
(* refused a place in its own subtree; here, no folder gets there.         *)
FoldersStayATree ==
  \A e \in Entities : status[e] = "live" => ~Inside(FolderAt[shape[e].place], e)

(* docs/api.md:87: reusing an event id returns the previous                *)
(* acknowledgement; here, a PATCH repeated while its receipt is kept.      *)
PatchRetryAcknowledged ==
  [][\A h \in Handlers :
       /\ tx[h].req # Nobody /\ tx[h].req.op = "patch" /\ Acked(tx[h].req)
       /\ ReceiptOf(h) # {}
       => ~Refused(h)]_vars
================================================================================
