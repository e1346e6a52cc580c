------------------------------- MODULE Import -------------------------------
(***************************************************************************)
(* The import of a bookmarks file by the administration panel              *)
(* (admin-web/src/features/bookmarks/useImportRunner.ts, ImportPanel.tsx,  *)
(* lib/bookmarks/importPlan.ts, parseNetscapeBookmarks.ts,                 *)
(* lib/api/useUncertainCreationKey.ts).                                    *)
(*                                                                         *)
(* A file is read, turned into a plan, and the plan is run: one create     *)
(* call per item, each under an event id the panel remembers while the     *)
(* outcome is uncertain, so that "Retry failed items" repeats the call and *)
(* not its effect.  The network may lose a request or an answer, deliver a *)
(* request late, answer for a server that had committed, or cut an answer  *)
(* short.  The server side is what SyncStore establishes: one event id,    *)
(* one row.                                                                *)
(*                                                                         *)
(* Left out: titles and addresses, the tree shown beside the panel, other  *)
(* editors of the workspace, and the page being left while a run goes on   *)
(* (the run then finishes unseen and the keys are forgotten).              *)
(***************************************************************************)
EXTENDS ImportPlan

CONSTANTS
    Places,     \* folders 1 .. Places exist and can be the destination
    Ceiling,    \* IMPORT_NODE_CEILING
    Faults,     \* the faults the network is allowed, among AllFaults
    MaxPicks, MaxRuns, MaxFaults

AllFaults == {"cut", "refused", "gateway", "garbled"}

Destinations == 0 .. Places

-----------------------------------------------------------------------------
VARIABLES
    picks,      \* number of files picked so far
    reading,    \* the files being read: [pick, file]
    panel,      \* the reducer's state
    runs,       \* the runs started, in order, each with what its loop holds
    keys,       \* the remembered event id of each node key, or Nil
    minted,     \* number of event ids minted
    rows,       \* the server's new rows, in the order they were stored
    late,       \* requests the network still holds for a caller that gave up
    faults,     \* number of faults so far
    abandoned,  \* event ids dropped because an answer looked definite
    unread      \* event ids of create calls that resolved without an id

vars == <<picks, reading, panel, runs, keys, minted, rows, late, faults, abandoned, unread>>

NoCall == [event |-> Nil, import |-> Nil, key |-> Nil, kind |-> "none", parent |-> Nil, row |-> Nil]

\* The id of the n-th new row: the folders that were there come first.
IdOf(n) == Places + n
RowOf(id) == rows[id - Places]

initialState ==
    [status |-> "idle", file |-> Nil, error |-> FALSE, destination |-> Nil,
     created |-> [k \in Keys |-> Nil], failures |-> {}, import |-> Nil]

Init ==
    /\ picks = 0 /\ reading = {} /\ panel = initialState /\ runs = <<>>
    /\ keys = [k \in Keys |-> Nil] /\ minted = 0
    /\ rows = <<>> /\ late = {} /\ faults = 0
    /\ abandoned = {} /\ unread = {}

-----------------------------------------------------------------------------
(* The panel.                                                               *)

\* The file input is there only while nothing is parsed; it stays there while
\* a file is read.
Pick(f) ==
    /\ panel.status = "idle" /\ ~panel.error
    /\ picks < MaxPicks
    /\ picks' = picks + 1
    /\ reading' = reading \union {[pick |-> picks + 1, file |-> f]}
    /\ UNCHANGED <<panel, runs, keys, minted, rows, late, faults, abandoned, unread>>

\* loadFile's end: whatever the panel showed is replaced.
Parsed(r) ==
    /\ Plan[r.file] # <<>>
    /\ panel' = [initialState EXCEPT !.status = "parsed", !.file = r.file]

Unparsable(r) == panel' = [initialState EXCEPT !.error = TRUE]

FileRead(r) ==
    /\ reading' = reading \ {r}
    /\ Parsed(r) \/ Unparsable(r)
    /\ UNCHANGED <<picks, runs, keys, minted, rows, late, faults, abandoned, unread>>

Reset ==
    /\ panel.error
    /\ panel' = initialState
    /\ UNCHANGED <<picks, reading, runs, keys, minted, rows, late, faults, abandoned, unread>>

SetDestination(d) ==
    /\ panel.status \in {"parsed", "done"}
    /\ panel' = [panel EXCEPT !.destination = d]
    /\ UNCHANGED <<picks, reading, runs, keys, minted, rows, late, faults, abandoned, unread>>

Blocked ==
    \/ Len(Plan[panel.file]) > Ceiling
    \/ panel.destination = Nil /\ TopBookmarks(panel.file) # {}

\* runPlan's first half: the run takes the destination shown.
RunPlan(plan, created, import) ==
    /\ Len(runs) < MaxRuns
    /\ runs' = Append(runs, [import |-> import, destination |-> panel.destination,
                             plan |-> plan, created |-> created, failures |-> {},
                             call |-> NoCall, over |-> FALSE])
    /\ panel' = [panel EXCEPT !.status = "running", !.import = import]
    /\ UNCHANGED <<picks, reading, keys, minted, rows, late, faults, abandoned, unread>>

ConfirmImport ==
    /\ panel.status = "parsed" /\ ~Blocked
    /\ RunPlan(Plan[panel.file], [k \in Keys |-> Nil], Len(runs) + 1)

\* Mutant: a retry runs the whole plan again.
WholePlan == Plan[panel.file]

retryFailedPlan == SelectSeq(Plan[panel.file], LAMBDA item : item.key \in panel.failures)

\* Mutant: a retry starts without the ids the earlier run brought back.
RetryFromNothing ==
    /\ panel.status = "done" /\ panel.failures # {}
    /\ RunPlan(retryFailedPlan, [k \in Keys |-> Nil], panel.import)

RetryFailedItems ==
    /\ panel.status = "done" /\ panel.failures # {}
    /\ RunPlan(retryFailedPlan, panel.created, panel.import)

-----------------------------------------------------------------------------
(* A run's loop: one call at a time.                                        *)

\* Mutant: what failed goes to the end of the plan, unlisted.
Requeue(run, key) == [run EXCEPT !.plan = Append(Tail(@), Head(@)), !.call = NoCall]

Fail(run, key) ==
    [run EXCEPT !.plan = Tail(@), !.failures = @ \union {key}, !.call = NoCall]

ParentId(run, item) == IF item.parent = Nil THEN run.destination ELSE run.created[item.parent]

\* Mutant: only a bookmark is kept from the root.
BookmarkForRoot(run, item) == ParentId(run, item) = Nil /\ item.kind = "bookmark"

\* An item whose parent has no id, or a bookmark for the root, is not attempted.
NotAttempted(run, item) ==
    /\ ParentId(run, item) = Nil
    /\ item.parent # Nil \/ item.kind = "bookmark"

SkipItem(r) ==
    LET run == runs[r] IN
    /\ run.plan # <<>> /\ run.call = NoCall
    /\ NotAttempted(run, Head(run.plan))
    /\ runs' = [runs EXCEPT ![r] = Fail(run, Head(run.plan).key)]
    /\ UNCHANGED <<picks, reading, panel, keys, minted, rows, late, faults, abandoned, unread>>

\* keyFor: an event id is minted unless one is remembered for the node key.
keyFor(key) == IF keys[key] = Nil THEN minted + 1 ELSE keys[key]

SendCreate(r) ==
    LET run == runs[r]
        item == Head(run.plan)
    IN
    /\ run.plan # <<>> /\ run.call = NoCall
    /\ ~NotAttempted(run, item)
    /\ keys' = [keys EXCEPT ![item.key] = keyFor(item.key)]
    /\ minted' = IF keys[item.key] = Nil THEN minted + 1 ELSE minted
    /\ runs' = [runs EXCEPT ![r].call =
                    [event |-> keyFor(item.key), import |-> run.import, key |-> item.key,
                     kind |-> item.kind, parent |-> ParentId(run, item), row |-> Nil]]
    /\ UNCHANGED <<picks, reading, panel, rows, late, faults, abandoned, unread>>

\* The server stores a row for an event id it has not seen.
Stored(event) == {n \in DOMAIN rows : rows[n].event = event}

Store(call) ==
    rows' = IF Stored(call.event) # {} THEN rows
            ELSE Append(rows, [event |-> call.event, import |-> call.import, key |-> call.key,
                               kind |-> call.kind, parent |-> call.parent])

\* Its answer names the row of the event, the one just stored or an earlier one.
RowFor(event) ==
    IF Stored(event) = {} THEN IdOf(Len(rows) + 1) ELSE IdOf(CHOOSE n \in Stored(event) : TRUE)

Serve(r) ==
    LET call == runs[r].call IN
    /\ call # NoCall /\ call.row = Nil
    /\ Store(call)
    /\ runs' = [runs EXCEPT ![r].call.row = RowFor(call.event)]
    /\ UNCHANGED <<picks, reading, panel, keys, minted, late, faults, abandoned, unread>>

ServeLate(call) ==
    /\ Store(call)
    /\ late' = late \ {call}
    /\ UNCHANGED <<picks, reading, panel, runs, keys, minted, faults, abandoned, unread>>

\* The call resolves with an id (confirm forgets the key).  An answer that is
\* not JSON resolves too, with no id: only its status is looked at.
Resolve(r, id) ==
    LET run == runs[r] IN
    /\ run.call # NoCall /\ run.call.row # Nil
    /\ runs' = [runs EXCEPT ![r] = [run EXCEPT !.plan = Tail(@), !.call = NoCall,
                                               !.created[run.call.key] = id]]
    /\ keys' = [keys EXCEPT ![run.call.key] = Nil]
    /\ UNCHANGED <<picks, reading, panel, minted, rows, late, abandoned>>

Answered(r) == Resolve(r, runs[r].call.row) /\ UNCHANGED <<faults, unread>>

MayFail(kind) == kind \in Faults /\ faults < MaxFaults /\ faults' = faults + 1

Garbled(r) ==
    /\ MayFail("garbled")
    /\ Resolve(r, Nil)
    /\ unread' = unread \union {runs[r].call.event}

\* The call rejects: the item is listed as failed.  A request the server has
\* not seen by then may still reach it.
Reject(r) ==
    LET run == runs[r] IN
    /\ run.call # NoCall
    /\ runs' = [runs EXCEPT ![r] = Fail(run, run.call.key)]
    /\ UNCHANGED <<picks, reading, panel, minted, rows, unread>>

Held(r) == IF runs[r].call.row = Nil THEN late \union {runs[r].call} ELSE late

\* The connection fails: the event id is kept for the retry.
Cut(r) ==
    /\ MayFail("cut")
    /\ Reject(r)
    /\ late' = Held(r)
    /\ UNCHANGED <<keys, abandoned>>

\* An ApiError: the answer is taken for definite and the event id is dropped.
ApiError(r) ==
    /\ Reject(r)
    /\ keys' = [keys EXCEPT ![runs[r].call.key] = Nil]
    /\ abandoned' = abandoned \union {runs[r].call.event}

\* The server itself refused this request.
Refused(r) ==
    /\ MayFail("refused")
    /\ runs[r].call.row = Nil
    /\ ApiError(r)
    /\ UNCHANGED late

\* A proxy answered in the server's place.
Gateway(r) ==
    /\ MayFail("gateway")
    /\ ApiError(r)
    /\ late' = Held(r)

\* Mutant: only a run without failures reports that it is done.
DoneIfClean(r) ==
    LET run == runs[r] IN
    /\ run.plan = <<>> /\ ~run.over /\ run.failures = {}
    /\ runs' = [runs EXCEPT ![r].over = TRUE]
    /\ panel' = [panel EXCEPT !.status = "done", !.created = run.created, !.failures = {}]
    /\ UNCHANGED <<picks, reading, keys, minted, rows, late, faults, abandoned, unread>>

\* run-done replaces what the panel holds, whatever file it shows by now.
RunDone(r) ==
    LET run == runs[r] IN
    /\ run.plan = <<>> /\ ~run.over
    /\ runs' = [runs EXCEPT ![r].over = TRUE]
    /\ panel' = [panel EXCEPT !.status = "done", !.created = run.created,
                              !.failures = run.failures]
    /\ UNCHANGED <<picks, reading, keys, minted, rows, late, faults, abandoned, unread>>

-----------------------------------------------------------------------------
Step(r) ==
    \/ SkipItem(r) \/ SendCreate(r) \/ Serve(r) \/ Answered(r) \/ RunDone(r)

Fault(r) == Garbled(r) \/ Cut(r) \/ Refused(r) \/ Gateway(r)

Next ==
    \/ \E f \in DOMAIN Files : Pick(f)
    \/ \E r \in reading : FileRead(r)
    \/ Reset
    \/ \E d \in Destinations : SetDestination(d)
    \/ ConfirmImport
    \/ RetryFailedItems
    \/ \E r \in DOMAIN runs : Step(r) \/ Fault(r)
    \/ \E call \in late : ServeLate(call)

Spec == Init /\ [][Next]_vars

\* The loop goes on, and a request is answered or its connection fails.
FairSpec == Spec /\ \A r \in 1 .. MaxRuns : WF_vars(r \in DOMAIN runs /\ Step(r))

-----------------------------------------------------------------------------
Items == UNION {{Plan[f][n] : n \in DOMAIN Plan[f]} : f \in DOMAIN Files}
Ids == 0 .. (Places + Len(rows))
Call == [event : 1 .. minted, import : 1 .. MaxRuns, key : Keys,
         kind : {"folder", "bookmark"}, parent : Ids, row : Ids]

\* Every part of the state has its type.
TypeOK ==
    /\ picks \in 0 .. MaxPicks
    /\ reading \subseteq [pick : 1 .. MaxPicks, file : DOMAIN Files]
    /\ panel \in [status : {"idle", "parsed", "running", "done"},
                  file : DOMAIN Files \union {Nil}, error : BOOLEAN,
                  destination : Destinations, created : [Keys -> Ids],
                  failures : SUBSET Keys, import : 0 .. MaxRuns]
    /\ runs \in Seq([import : 1 .. MaxRuns, destination : Destinations, plan : Seq(Items),
                     created : [Keys -> Ids], failures : SUBSET Keys,
                     call : Call \union {NoCall}, over : BOOLEAN])
    /\ Len(runs) <= MaxRuns
    /\ minted \in Nat
    /\ keys \in [Keys -> 0 .. minted]
    /\ rows \in Seq([event : 1 .. minted, import : 1 .. MaxRuns, key : Keys,
                     kind : {"folder", "bookmark"}, parent : Ids])
    /\ late \subseteq Call
    /\ faults \in 0 .. MaxFaults
    /\ abandoned \subseteq 1 .. minted /\ unread \subseteq 1 .. minted

SameItem(m, n) == rows[m].import = rows[n].import /\ rows[m].key = rows[n].key

\* Decision 14 of the import's design: a retried item is stored once, unless
\* its event id was dropped because some answer to it looked definite
\* (useUncertainCreationKey.ts:22).
OnceUnlessAbandoned ==
    \A m, n \in DOMAIN rows :
        SameItem(m, n) /\ m # n => rows[m].event \in abandoned \/ rows[n].event \in abandoned

\* The requirement itself: an item is stored once.
StoredOnce == \A m, n \in DOMAIN rows : SameItem(m, n) => m = n

After(f, j, k) ==
    \E p, q \in DOMAIN Plan[f] : p > q /\ Plan[f][p].key = j /\ Plan[f][q].key = k

\* What the server holds is nested as the file is: a top-level item under a
\* destination, any other under a row made by the same import for its parent,
\* and no bookmark at the root (importPlan.ts:119).
NestedAsTheFile ==
    \A n \in DOMAIN rows :
        LET row == rows[n] IN
        /\ row.kind = "bookmark" => row.parent # Nil
        /\ \E f \in DOMAIN Files : \E p \in DOMAIN Plan[f] :
              LET item == Plan[f][p] IN
              /\ item.key = row.key /\ item.kind = row.kind
              /\ IF item.parent = Nil THEN row.parent \in Destinations
                 ELSE /\ row.parent > Places
                      /\ RowOf(row.parent).kind = "folder"
                      /\ RowOf(row.parent).import = row.import
                      /\ RowOf(row.parent).key = item.parent

Failed(import, key) == \E r \in DOMAIN runs : runs[r].import = import /\ key \in runs[r].failures

\* Rows are appended, so the order they are stored in is their order: siblings
\* stand in the file's order unless the later one failed at first.
InFileOrder ==
    \A m, n \in DOMAIN rows :
        (/\ m < n
         /\ rows[m].import = rows[n].import /\ rows[m].parent = rows[n].parent
         /\ \E f \in DOMAIN Files : After(f, rows[m].key, rows[n].key))
        => Failed(rows[n].import, rows[n].key)

\* The create call of this item was answered by something without an id.
Unread(import, key) ==
    \E n \in DOMAIN rows :
        rows[n].import = import /\ rows[n].key = key /\ rows[n].event \in unread

\* When a run is over every item of the file is in the list of failures, or is
\* a row of this import that the panel knows by its id or was told of.
Accounted ==
    panel.status = "done" =>
        \A n \in DOMAIN Plan[panel.file] :
            LET key == Plan[panel.file][n].key
                id == panel.created[key]
            IN  \/ key \in panel.failures
                \/ id = Nil /\ Unread(panel.import, key)
                \/ /\ id > Places
                   /\ RowOf(id).import = panel.import /\ RowOf(id).key = key

\* "No concurrent create calls": the panel waits for one call at a time.
OneCallAtATime ==
    \A r, q \in DOMAIN runs : runs[r].call # NoCall /\ runs[q].call # NoCall => r = q

\* A run comes to its end, however its calls end.
RunsEnd == panel.status = "running" ~> panel.status = "done"
=============================================================================
