--------------------------- MODULE WorkspaceSyncProofs ---------------------------
(***************************************************************************)
(* Machine-checked proofs about WorkspaceSync, for any bookmarks, titles,  *)
(* folders, tasks and history, and any bounds.                             *)
(***************************************************************************)
EXTENDS MCSyncScenarios, FiniteSetTheorems, SequenceTheorems, TLAPS

(***************************************************************************)
(* The invariant.  A task that is at an event has it in its todo, and all  *)
(* cursors that circulate are of the log; a receipt tells the shape of its *)
(* event; what the server has answered without refusal it has a receipt    *)
(* of.                                                                     *)
(***************************************************************************)
StoredFields == {"cursor", "mapping", "owners", "paused", "ambiguous", "repair", "health",
                 "connected", "attempts", "receipts", "started", "intents"}
TaskFields == {"mode", "step", "todo", "top", "node"}
AtEvent == {"admit", "resolve", "create", "map", "created", "retitle", "move", "defer",
            "checkpoint", "remove", "removed"}

IsSeq(s) == s \in Seq({s[k] : k \in DOMAIN s})

LogOK ==
  /\ IsSeq(log)
  /\ incoming \subseteq 1 .. Len(log)
  /\ \A w \in DOMAIN served : served[w] \in Nat

StoredOK == DOMAIN stored = StoredFields /\ stored.cursor \in Nat /\ IsSeq(stored.intents)
ReceiptsOK == \A r \in stored.receipts : r.cursor \in 1 .. Len(log) /\ r.expected = log[r.cursor].shape

TaskOK(task, n) ==
  /\ DOMAIN task = TaskFields
  /\ task.todo \in Seq(1 .. n) /\ task.top \in Nat
  /\ task.step \in AtEvent => task.todo # <<>>

TasksOK == DOMAIN tasks = Tasks /\ \A t \in Tasks : TaskOK(tasks[t], Len(log))

DrainOK ==
  /\ DOMAIN drain = {"on", "at", "intent", "answer"} /\ drain.answer \in Int
  /\ drain.at = "answered" /\ drain.answer >= 0 => drain.intent \in DOMAIN served

SpentOK == DOMAIN spent = {"edits", "evictions", "rebuilds"} /\ spent.rebuilds \in Nat

SyncInv == LogOK /\ StoredOK /\ ReceiptsOK /\ TasksOK /\ DrainOK /\ SpentOK

(* What a step may do to the cursor, to a receipt, and to an intent. *)
Forward == stored'.cursor >= stored.cursor
Proved ==
  \A r \in stored.receipts :
    r \notin stored'.receipts /\ spent' = spent =>
      nodes[r.node] = log[r.cursor].shape /\ stored'.cursor >= r.cursor
Queued ==
  \A k \in DOMAIN stored.intents :
    \/ spent'.rebuilds > spent.rebuilds
    \/ /\ k \in DOMAIN stored'.intents
       /\ stored'.intents[k].what = stored.intents[k].what
       /\ Unacked(stored.intents[k]) /\ ~ Unacked(stored'.intents[k]) =>
            stored.intents[k].what \in DOMAIN served

Good == SyncInv' /\ Forward /\ Proved /\ Queued

(***************************************************************************)
(* The operators on the stored projection.                                 *)
(***************************************************************************)
LEMMA MaxOfTwo ==
  ASSUME NEW a \in Int, NEW b \in Int
  PROVE  Max({a, b}) \in {a, b} /\ Max({a, b}) >= a /\ Max({a, b}) >= b
  <1>1. \E x \in {a, b} : \A y \in {a, b} : x >= y
    OBVIOUS
  <1> QED
    BY <1>1 DEF Max

(* The cursor, the receipts and the intents are as they were. *)
Same(s, x) ==
  DOMAIN x = StoredFields /\ x.cursor = s.cursor /\ x.receipts = s.receipts /\ x.intents = s.intents

LEMMA HelpersSame ==
  ASSUME NEW s, DOMAIN s = StoredFields
  PROVE  /\ Same(s, s)
         /\ \A b, n : Same(s, SetMapping(s, b, n))
         /\ \A b : Same(s, RemoveMapping(s, b))
         /\ \A repair, health : Same(s, Pause(s, repair, health))
         /\ \A op : Same(s, Finish(s, op))
         /\ Same(s, EnterRecovery(s))
         /\ Same(s, Refreshed(s))
  BY DEF Same, SetMapping, RemoveMapping, Pause, Finish, EnterRecovery, Refreshed, StoredFields

LEMMA SameTrans == ASSUME NEW r, NEW s, NEW x, Same(r, s), Same(s, x) PROVE Same(r, x)
  BY DEF Same

LEMMA ResyncSame ==
  ASSUME NEW s, DOMAIN s = StoredFields
  PROVE  \A health : Same(s, Resync(s, health))
  <1>1. Same(s, EnterRecovery(s))
    BY HelpersSame
  <1>2. \A health : Same(EnterRecovery(s), Pause(EnterRecovery(s), "rebuild", health))
    <2>1. PICK u : u = EnterRecovery(s)
      OBVIOUS
    <2>2. DOMAIN u = StoredFields
      BY <1>1, <2>1 DEF Same
    <2>3. \A health : Same(u, Pause(u, "rebuild", health))
      BY <2>2, HelpersSame
    <2> QED
      BY <2>1, <2>3
  <1> QED
    BY <1>1, <1>2, SameTrans DEF Resync

LEMMA DeletedSame ==
  ASSUME NEW s, DOMAIN s = StoredFields, NEW b, NEW n
  PROVE  Same(s, Deleted(s, b, n))
  <1>1. Same(s, s) /\ Same(s, RemoveMapping(s, b))
    BY HelpersSame
  <1>2. Same(RemoveMapping(s, b), Finish(RemoveMapping(s, b), DeleteOp(b, n)))
    BY <1>1, HelpersSame DEF Same
  <1> QED
    BY <1>1, <1>2, SameTrans DEF Deleted

(* A function on 1 .. n is a sequence of its values. *)
LEMMA RangeIsSeq ==
  ASSUME NEW n \in Nat, NEW a, a = [k \in 1 .. n |-> a[k]]
  PROVE  IsSeq(a)
  <1> DEFINE S == {a[k] : k \in DOMAIN a}
  <1>1. DOMAIN a = 1 .. n
    OBVIOUS
  <1>2. \A k \in 1 .. n : a[k] \in S
    BY <1>1
  <1> HIDE DEF S
  <1>3. a \in [1 .. n -> S]
    BY <1>1, <1>2
  <1>4. a \in Seq(S)
    BY <1>3
  <1> QED
    BY <1>4 DEF S, IsSeq

(* ... and what is appended to one leaves the rest where it is. *)
LEMMA AppendIsSeq ==
  ASSUME NEW q, IsSeq(q), NEW e
  PROVE  /\ IsSeq(Append(q, e))
         /\ DOMAIN q = 1 .. Len(q) /\ Len(q) \in Nat
         /\ DOMAIN Append(q, e) = 1 .. Len(q) + 1 /\ Len(Append(q, e)) = Len(q) + 1
         /\ \A k \in 1 .. Len(q) : Append(q, e)[k] = q[k]
  <1> DEFINE S == {q[k] : k \in DOMAIN q} \cup {e}
             a == Append(q, e)
  <1>1. q \in Seq(S) /\ e \in S
    BY DEF IsSeq
  <1> HIDE DEF S
  <1>2. /\ DOMAIN q = 1 .. Len(q) /\ Len(q) \in Nat /\ DOMAIN a = 1 .. Len(q) + 1 /\ Len(a) = Len(q) + 1
        /\ \A k \in 1 .. Len(q) : a[k] = q[k]
        /\ a \in Seq(S)
    BY <1>1
  <1>3. a = [k \in 1 .. Len(q) + 1 |-> a[k]]
    <2>1. a \in [1 .. Len(q) + 1 -> S]
      BY <1>2, LenProperties
    <2> QED
      BY <2>1
  <1>4. IsSeq(a)
    BY <1>2, <1>3, RangeIsSeq
  <1> QED
    BY <1>2, <1>4

(* An intent is recorded at the end; the others stay where they are. *)
LEMMA CaptureAppends ==
  ASSUME NEW s, DOMAIN s = StoredFields, IsSeq(s.intents), NEW what
  PROVE  /\ DOMAIN Capture(s, what) = StoredFields
         /\ Capture(s, what).cursor = s.cursor /\ Capture(s, what).receipts = s.receipts
         /\ IsSeq(Capture(s, what).intents)
         /\ \A k \in DOMAIN s.intents : /\ k \in DOMAIN Capture(s, what).intents
                                        /\ Capture(s, what).intents[k] = s.intents[k]
  <1> DEFINE q == s.intents
             e == [what |-> what, status |-> "queued"]
             a == Append(q, e)
  <1>1. CASE \E k \in DOMAIN s.intents : s.intents[k].what = what
    BY <1>1 DEF Capture
  <1>2. CASE ~ \E k \in DOMAIN s.intents : s.intents[k].what = what
    <2>1. Capture(s, what) = [s EXCEPT !.intents = a]
      BY <1>2 DEF Capture
    <2>0. IsSeq(q)
      OBVIOUS
    <2> HIDE DEF e, q
    <2>2. /\ DOMAIN q = 1 .. Len(q) /\ Len(q) \in Nat /\ DOMAIN a = 1 .. Len(q) + 1
          /\ \A k \in 1 .. Len(q) : a[k] = q[k]
          /\ IsSeq(a)
      BY <2>0, AppendIsSeq
    <2> HIDE DEF a
    <2>3. \A k \in DOMAIN q : k \in DOMAIN a /\ a[k] = q[k]
      BY <2>2
    <2> QED
      BY <2>1, <2>2, <2>3 DEF StoredFields, q
  <1> QED
    BY <1>1, <1>2

LEMMA StatusKeeps ==
  ASSUME NEW s, DOMAIN s = StoredFields, IsSeq(s.intents), NEW what, NEW status
  PROVE  /\ DOMAIN SetStatus(s, what, status) = StoredFields
         /\ SetStatus(s, what, status).cursor = s.cursor
         /\ SetStatus(s, what, status).receipts = s.receipts
         /\ IsSeq(SetStatus(s, what, status).intents)
         /\ \A k \in DOMAIN s.intents :
              /\ k \in DOMAIN SetStatus(s, what, status).intents
              /\ SetStatus(s, what, status).intents[k] =
                   IF s.intents[k].what = what THEN [what |-> what, status |-> status] ELSE s.intents[k]
  <1> DEFINE q == s.intents
             f(k) == IF q[k].what = what THEN [what |-> what, status |-> status] ELSE q[k]
             a == [k \in DOMAIN q |-> f(k)]
  <1>1. SetStatus(s, what, status) = [s EXCEPT !.intents = a]
    BY DEF SetStatus
  <1>2. PICK n \in Nat : DOMAIN q = 1 .. n
    BY DEF IsSeq
  <1> HIDE DEF f
  <1>3. DOMAIN a = 1 .. n /\ \A k \in 1 .. n : a[k] = f(k)
    BY <1>2
  <1>4. IsSeq(a)
    <2>1. a = [k \in 1 .. n |-> a[k]]
      BY <1>2, <1>3
    <2> QED
      BY <2>1, RangeIsSeq
  <1>5. \A k \in DOMAIN q : k \in DOMAIN a /\ a[k] = f(k)
    BY <1>2, <1>3
  <1> HIDE DEF a
  <1>6. DOMAIN [s EXCEPT !.intents = a] = StoredFields /\ [s EXCEPT !.intents = a].intents = a
        /\ [s EXCEPT !.intents = a].cursor = s.cursor /\ [s EXCEPT !.intents = a].receipts = s.receipts
    BY DEF StoredFields
  <1> QED
    BY <1>1, <1>4, <1>5, <1>6 DEF f

(* What a rebuild keeps of the queue is again one. *)
LEMMA KeepAckedIsSeq == ASSUME NEW q, IsSeq(q) PROVE IsSeq(KeepAcked(q))
  <1> DEFINE acked == {k \in DOMAIN q : ~ Unacked(q[k])}
             f(j) == q[CHOOSE k \in acked : Cardinality({m \in acked : m <= k}) = j]
             a == [j \in 1 .. Cardinality(acked) |-> f(j)]
  <1>1. PICK n \in Nat : DOMAIN q = 1 .. n
    BY DEF IsSeq
  <1>2. IsFiniteSet(1 .. n)
    BY <1>1, FS_Interval
  <1>3. IsFiniteSet(acked)
    BY <1>1, <1>2, FS_Subset
  <1>4. Cardinality(acked) \in Nat
    BY <1>3, FS_CardinalityType
  <1>5. KeepAcked(q) = a
    BY DEF KeepAcked
  <1> HIDE DEF acked, f
  <1>6. a = [j \in 1 .. Cardinality(acked) |-> a[j]]
    OBVIOUS
  <1> HIDE DEF a
  <1> QED
    BY <1>4, <1>5, <1>6, RangeIsSeq

(***************************************************************************)
(* The table of tasks.                                                     *)
(***************************************************************************)
(* Sequences: the values they may have, their tails.                       *)
LEMMA SeqWiden == ASSUME NEW S, NEW T, S \subseteq T, NEW p \in Seq(S) PROVE p \in Seq(T)
  <1> DEFINE m == Len(p)
  <1>1. p \in [1 .. m -> S] /\ m \in Nat
    BY LenProperties
  <1> HIDE DEF m
  <1>2. p \in [1 .. m -> T]
    BY <1>1
  <1> HIDE DEF m
  <1> QED
    BY <1>1, <1>2

LEMMA SeqTail ==
  ASSUME NEW S, NEW p \in Seq(S), p # <<>>
  PROVE  Tail(p) \in Seq(S) /\ (Len(p) # 1 => Tail(p) # <<>>)
  <1>1. Tail(p) \in Seq(S) /\ Len(Tail(p)) = Len(p) - 1 /\ Len(p) \in Nat
    OBVIOUS
  <1>2. Len(p) # 1 => Len(Tail(p)) # 0
    BY <1>1
  <1>3. Len(<<>>) = 0
    OBVIOUS
  <1>4. Len(p) # 1 => Tail(p) # <<>>
    <2> DEFINE q == Tail(p)
    <2>1. Len(p) # 1 => Len(q) # 0
      BY <1>2
    <2> HIDE DEF q
    <2>2. Len(p) # 1 => q # <<>>
      BY <1>3, <2>1
    <2> QED
      BY <2>2 DEF q
  <1> QED
    BY <1>1, <1>4

LEMMA IdleTask == ASSUME NEW n \in Nat PROVE TaskOK(Idle, n)
  BY DEF TaskOK, Idle, TaskFields, AtEvent

LEMMA TaskMoves ==
  ASSUME TasksOK, log' = log, NEW t \in Tasks, NEW new, TaskOK(new, Len(log)),
         tasks' = [tasks EXCEPT ![t] = new]
  PROVE  TasksOK'
  BY DEF TasksOK

LEMMA TaskEnds ==
  ASSUME LogOK, TasksOK, log' = log, NEW t \in Tasks, tasks' = [tasks EXCEPT ![t] = Idle]
  PROVE  TasksOK'
  <1>1. Len(log) \in Nat
    BY DEF LogOK, IsSeq
  <1> QED
    BY <1>1, IdleTask, TaskMoves

LEMMA TaskStarts ==
  ASSUME LogOK, TasksOK, log' = log, NEW t \in Tasks, NEW mode, NEW step, step \notin AtEvent,
         Start(t, mode, step)
  PROVE  TasksOK'
  <1> DEFINE new == [Idle EXCEPT !.mode = mode, !.step = step]
  <1>1. Len(log) \in Nat
    BY DEF LogOK, IsSeq
  <1>2. TaskOK(new, Len(log))
    BY <1>1 DEF TaskOK, Idle, TaskFields
  <1>3. tasks' = [tasks EXCEPT ![t] = new]
    BY DEF Start
  <1> HIDE DEF new
  <1> QED
    BY <1>2, <1>3, TaskMoves

(* A task at an event goes on with it. *)
LEMMA TaskGoes ==
  ASSUME TasksOK, log' = log, NEW t \in Tasks, tasks[t].step \in AtEvent, NEW step, NEW node,
         \/ tasks' = [tasks EXCEPT ![t].step = step]
         \/ tasks' = [tasks EXCEPT ![t].step = step, ![t].node = node]
         \/ tasks' = [tasks EXCEPT ![t].node = node, ![t].step = step]
  PROVE  TasksOK'
  <1>1. TaskOK(tasks[t], Len(log))
    BY DEF TasksOK
  <1>2. DOMAIN tasks' = Tasks /\ \A u \in Tasks \ {t} : tasks'[u] = tasks[u]
    BY DEF TasksOK
  <1>3. /\ DOMAIN tasks'[t] = TaskFields
        /\ tasks'[t].todo = tasks[t].todo /\ tasks'[t].top = tasks[t].top
    BY <1>1 DEF TasksOK, TaskOK, TaskFields
  <1> QED
    BY <1>1, <1>2, <1>3 DEF TasksOK, TaskOK

(* ... or has done with it. *)
LEMMA TaskDone ==
  ASSUME LogOK, TasksOK, log' = log, NEW t \in Tasks, tasks[t].step \in AtEvent, NEW s,
         tasks' = [tasks EXCEPT ![t] = AfterEvent(tasks[t], s)]
  PROVE  TasksOK'
  <1> DEFINE task == tasks[t]
             n == Len(log)
  <1>1. TaskOK(task, n) /\ task.todo # <<>> /\ n \in Nat
    BY DEF TasksOK, TaskOK, LogOK, IsSeq
  <1> HIDE DEF task, n
  <1>2. TaskOK([task EXCEPT !.step = "failed"], n)
    BY <1>1 DEF TaskOK, TaskFields, AtEvent
  <1>3. TaskOK([task EXCEPT !.todo = Tail(@), !.node = 0,
                            !.step = IF Len(task.todo) = 1 THEN "end" ELSE "admit"], n)
    <2>1. Tail(task.todo) \in Seq(1 .. n) /\ (Len(task.todo) # 1 => Tail(task.todo) # <<>>)
      BY <1>1, SeqTail DEF TaskOK
    <2> QED
      BY <1>1, <2>1 DEF TaskOK, TaskFields, AtEvent
  <1>4. TaskOK(AfterEvent(task, s), n)
    BY <1>1, <1>2, <1>3, IdleTask DEF AfterEvent
  <1> QED
    BY <1>4, TaskMoves DEF task, n

(* What a replay fetches are cursors of the log. *)
LEMMA PendingOK ==
  ASSUME LogOK, NEW from \in Nat
  PROVE  Pending(from) \in Seq(1 .. Len(log)) /\ (Len(log) > from => Pending(from) # <<>>)
  <1>1. Len(log) \in Nat
    BY DEF LogOK, IsSeq
  <1> DEFINE n == Len(log)
             p == [k \in 1 .. n - from |-> from + k]
  <1> HIDE DEF n
  <1>2. n \in Nat
    BY <1>1 DEF n
  <1>3. CASE n > from
    <2> DEFINE m == n - from
               S == 1 .. n
    <2>1. p \in [1 .. m -> S] /\ m \in Nat
      BY <1>2, <1>3
    <2>2. p \in Seq(S)
      <3> HIDE DEF p, m, S
      <3> QED
        BY <2>1
    <2>3. p # <<>>
      <3>1. 1 \in DOMAIN p
        BY <1>2, <1>3
      <3>2. DOMAIN <<>> = {}
        OBVIOUS
      <3> HIDE DEF p
      <3> QED
        BY <3>1, <3>2
    <2>4. p = Pending(from)
      BY DEF Pending, n
    <2> HIDE DEF p
    <2> QED
      BY <2>2, <2>3, <2>4 DEF n
  <1>4. CASE ~(n > from)
    <2>1. p = <<>>
      BY <1>2, <1>4
    <2> QED
      BY <1>4, <2>1 DEF Pending, n
  <1> QED
    BY <1>3, <1>4

LEMMA TaskFetches ==
  ASSUME LogOK, StoredOK, TasksOK, log' = log, NEW t \in Tasks,
         tasks' = [tasks EXCEPT ![t].todo = Pending(stored.cursor), ![t].top = Len(log),
                                ![t].step = IF Len(log) > stored.cursor THEN "admit" ELSE "end"]
  PROVE  TasksOK'
  <1>1. /\ Pending(stored.cursor) \in Seq(1 .. Len(log)) /\ Len(log) \in Nat
        /\ Len(log) > stored.cursor => Pending(stored.cursor) # <<>>
    BY PendingOK DEF StoredOK, LogOK, IsSeq
  <1>2. TaskOK(tasks[t], Len(log))
    BY DEF TasksOK
  <1>3. DOMAIN tasks' = Tasks /\ \A u \in Tasks \ {t} : tasks'[u] = tasks[u]
    BY DEF TasksOK
  <1>4. /\ DOMAIN tasks'[t] = TaskFields
        /\ tasks'[t].todo = Pending(stored.cursor) /\ tasks'[t].top = Len(log)
        /\ tasks'[t].step = IF Len(log) > stored.cursor THEN "admit" ELSE "end"
    BY <1>2 DEF TasksOK, TaskOK, TaskFields
  <1>5. TaskOK(tasks'[t], Len(log))
    BY <1>1, <1>4 DEF TaskOK, AtEvent
  <1> QED
    BY <1>3, <1>5 DEF TasksOK

(***************************************************************************)
(* Steps.  Most leave the queue and the receipts as they are, or add a     *)
(* receipt that tells the shape of its event.                              *)
(***************************************************************************)
LEMMA StillGood ==
  ASSUME SyncInv, log' = log, served' = served, incoming' \subseteq incoming,
         DOMAIN stored' = StoredFields, stored'.cursor \in Nat, stored'.cursor >= stored.cursor,
         stored'.intents = stored.intents, stored.receipts \subseteq stored'.receipts,
         \A r \in stored'.receipts \ stored.receipts :
           r.cursor \in 1 .. Len(log) /\ r.expected = log[r.cursor].shape,
         TasksOK', DrainOK', SpentOK'
  PROVE  Good
  <1>1. LogOK' /\ StoredOK' /\ ReceiptsOK'
    BY DEF SyncInv, LogOK, StoredOK, ReceiptsOK
  <1>2. Forward /\ Proved /\ Queued
    BY DEF Forward, Proved, Queued
  <1> QED
    BY <1>1, <1>2 DEF Good, SyncInv

LEMMA SameGood ==
  ASSUME SyncInv, log' = log, served' = served, incoming' \subseteq incoming, Same(stored, stored'),
         TasksOK', DrainOK', SpentOK'
  PROVE  Good
  <1>1. stored.cursor \in Nat /\ stored.cursor >= stored.cursor
    BY DEF SyncInv, StoredOK
  <1> QED
    BY <1>1, StillGood DEF Same

(* What a step leaves alone stays as it should be. *)
LEMMA RestOK ==
  ASSUME SyncInv
  PROVE  /\ tasks' = tasks /\ log' = log => TasksOK'
         /\ drain' \in {drain, [drain EXCEPT !.on = TRUE], Resting} /\ served' = served => DrainOK'
         /\ spent' = spent => SpentOK'
         /\ Same(stored, stored)
  <1>1. tasks' = tasks /\ log' = log => TasksOK'
    BY DEF SyncInv, TasksOK
  <1>2. drain' \in {drain, [drain EXCEPT !.on = TRUE], Resting} /\ served' = served => DrainOK'
    BY DEF SyncInv, DrainOK, Resting
  <1>3. spent' = spent => SpentOK'
    BY DEF SyncInv, SpentOK
  <1> QED
    BY <1>1, <1>2, <1>3 DEF Same, SyncInv, StoredOK

(* An event that another client, or the server for this one, appends.      *)
LEMMA LogGrows ==
  ASSUME SyncInv, NEW e, log' = Append(log, e),
         incoming' \in {incoming, incoming \cup {Len(log) + 1}},
         \A w \in DOMAIN served' : served'[w] \in Nat,
         stored' = stored, tasks' = tasks, spent' = spent, DrainOK'
  PROVE  Good
  <1> DEFINE n == Len(log)
  <1>1. /\ n \in Nat /\ IsSeq(log)' /\ Len(log') = n + 1
        /\ \A i \in 1 .. n : log'[i] = log[i]
    <2>1. IsSeq(log)
      BY DEF SyncInv, LogOK
    <2>2. /\ n \in Nat /\ IsSeq(Append(log, e)) /\ Len(Append(log, e)) = n + 1
          /\ \A i \in 1 .. n : Append(log, e)[i] = log[i]
      BY <2>1, AppendIsSeq
    <2> QED
      BY <2>2 DEF IsSeq
  <1> HIDE DEF n
  <1>2. LogOK'
    <2>1. incoming \subseteq 1 .. n
      BY DEF SyncInv, LogOK, n
    <2>2. incoming' \subseteq 1 .. n + 1
      BY <1>1, <2>1 DEF n
    <2> QED
      BY <1>1, <2>2 DEF LogOK
  <1>3. StoredOK' /\ SpentOK'
    BY DEF SyncInv, StoredOK, SpentOK
  <1>4. ReceiptsOK'
    <2>1. \A r \in stored.receipts : r.cursor \in 1 .. n /\ r.expected = log[r.cursor].shape
      BY DEF SyncInv, ReceiptsOK, n
    <2> QED
      BY <1>1, <2>1 DEF ReceiptsOK
  <1>5. TasksOK'
    <2> SUFFICES ASSUME NEW t \in Tasks PROVE TaskOK(tasks[t], n + 1)
      BY <1>1 DEF SyncInv, TasksOK
    <2>1. TaskOK(tasks[t], n)
      BY DEF SyncInv, TasksOK, n
    <2>2. tasks[t].todo \in Seq(1 .. n + 1)
      <3> DEFINE S == 1 .. n
                 T == 1 .. n + 1
      <3>1. tasks[t].todo \in Seq(S) /\ S \subseteq T
        BY <1>1, <2>1 DEF TaskOK
      <3> HIDE DEF S, T
      <3>2. tasks[t].todo \in Seq(T)
        BY <3>1, SeqWiden
      <3> QED
        BY <3>2 DEF T
    <2> QED
      BY <2>1, <2>2 DEF TaskOK
  <1>6. Forward /\ Proved /\ Queued
    BY DEF SyncInv, StoredOK, Forward, Proved, Queued
  <1> QED
    BY <1>2, <1>3, <1>4, <1>5, <1>6 DEF Good, SyncInv

(***************************************************************************)
(* The actions.                                                            *)
(***************************************************************************)
LEMMA OthersGood ==
  ASSUME SyncInv, NEW b \in Bookmarks, NEW shape \in Shapes \cup {None}, OtherChange(b, shape)
  PROVE  Good
  <1>2. /\ log' = Append(log, Event(b, shape)) /\ incoming' \in {incoming, incoming \cup {Len(log) + 1}}
        /\ UNCHANGED <<served, stored, tasks, drain, spent>>
    BY DEF OtherChange
  <1>3. DrainOK' /\ \A w \in DOMAIN served' : served'[w] \in Nat
    BY <1>2, RestOK DEF SyncInv, LogOK
  <1> QED
    BY <1>2, <1>3, LogGrows

LEMMA LinkGood == ASSUME SyncInv, Connect \/ ConnectFails \/ Close PROVE Good
  <1>1. /\ UNCHANGED <<log, served, tasks, drain, spent>> /\ incoming' \subseteq incoming
        /\ stored' \in {stored, EnterRecovery(stored)}
    BY DEF Connect, ConnectFails, Close, server
  <1>2. Same(stored, stored')
    BY <1>1, HelpersSame DEF SyncInv, StoredOK
  <1> QED
    BY <1>1, <1>2, RestOK, SameGood

LEMMA EvictGood == ASSUME SyncInv, Evict PROVE Good
  <1>1. /\ UNCHANGED <<log, served, stored>> /\ incoming' = {} /\ drain' = Resting
        /\ tasks' = [t \in Tasks |-> Idle]
        /\ spent' = [spent EXCEPT !.evictions = @ + 1]
    BY DEF Evict, server
  <1>2. TasksOK'
    <2>1. Len(log) \in Nat
      BY DEF SyncInv, LogOK, IsSeq
    <2> QED
      BY <1>1, <2>1, IdleTask DEF TasksOK
  <1>3. SpentOK'
    BY <1>1 DEF SyncInv, SpentOK
  <1> QED
    BY <1>1, <1>2, <1>3, RestOK, SameGood

LEMMA EditGood == ASSUME SyncInv, NEW n, NEW shape, UserEdit(n, shape) PROVE Good
  <1>1. /\ UNCHANGED <<log, served, incoming, stored, tasks, drain>>
        /\ spent' = [spent EXCEPT !.edits = @ + 1]
    BY DEF UserEdit, server, link
  <1>2. SpentOK'
    BY <1>1 DEF SyncInv, SpentOK
  <1> QED
    BY <1>1, <1>2, RestOK, SameGood

LEMMA AckGood == ASSUME SyncInv, NEW t \in Tasks, OnAck(t) PROVE Good
  <1> DEFINE s == [stored EXCEPT !.connected = TRUE]
  <1>1. UNCHANGED <<log, served, incoming, spent>> /\ drain' \in {drain, [drain EXCEPT !.on = TRUE]}
    BY DEF OnAck, server
  <1>2. Same(stored, s)
    BY DEF SyncInv, StoredOK, Same, StoredFields
  <1>3. TasksOK'
    <2>1. CASE Start(t, "replay", "fetch")
      BY <1>1, <2>1, TaskStarts DEF SyncInv, AtEvent
    <2>2. CASE tasks' = tasks
      BY <1>1, <2>2, RestOK
    <2> QED
      BY <2>1, <2>2 DEF OnAck
  <1>4. stored' = s \/ stored' = MarkLive(s, 0) \/ \E h \in PausedHealth : stored' = Resync(s, h)
    BY DEF OnAck
  <1>5. /\ DOMAIN stored' = StoredFields /\ stored'.cursor = stored.cursor
        /\ stored'.receipts = stored.receipts /\ stored'.intents = stored.intents
    <2>1. stored.cursor \in Nat
      BY DEF SyncInv, StoredOK
    <2> HIDE DEF s
    <2>2. CASE stored' = s
      BY <1>2, <2>2 DEF Same
    <2>3. CASE stored' = MarkLive(s, 0)
      <3>1. s.cursor = stored.cursor
        BY <1>2 DEF Same
      <3>2. Max({stored.cursor, 0}) \in {stored.cursor, 0} /\ Max({stored.cursor, 0}) >= stored.cursor
        <4>1. PICK a : a = stored.cursor
          OBVIOUS
        <4>2. a \in Int /\ 0 \in Int
          BY <2>1, <4>1
        <4>3. Max({a, 0}) \in {a, 0} /\ Max({a, 0}) >= a
          BY <4>2, MaxOfTwo
        <4> QED
          BY <4>1, <4>3
      <3> DEFINE m == Max({stored.cursor, 0})
      <3> HIDE DEF m
      <3>3. m = stored.cursor
        BY <2>1, <3>2 DEF m
      <3>4. stored' = s \/ stored' = [s EXCEPT !.cursor = m, !.health = "live", !.connected = TRUE, !.attempts = 0]
        BY <2>3, <3>1 DEF MarkLive, m
      <3> QED
        BY <1>2, <3>1, <3>3, <3>4 DEF Same, StoredFields
    <2>4. CASE \E h \in PausedHealth : stored' = Resync(s, h)
      <3>1. Same(s, stored')
        BY <1>2, <2>4, ResyncSame DEF Same
      <3> QED
        BY <1>2, <3>1 DEF Same
    <2> QED
      BY <1>4, <2>2, <2>3, <2>4
  <1> QED
    BY <1>1, <1>3, <1>5, RestOK, SameGood DEF Same

LEMMA ReceiveGood == ASSUME SyncInv, NEW t \in Tasks, NEW i \in incoming, Receive(t, i) PROVE Good
  <1>1. /\ UNCHANGED <<log, served, stored, drain, spent>> /\ incoming' \subseteq incoming
        /\ tasks' = [tasks EXCEPT ![t] = [Idle EXCEPT !.mode = "live", !.step = "admit", !.todo = <<i>>]]
    BY DEF Receive, server
  <1> DEFINE new == [Idle EXCEPT !.mode = "live", !.step = "admit", !.todo = <<i>>]
             S == 1 .. Len(log)
  <1>2. i \in S
    BY DEF SyncInv, LogOK
  <1>3. DOMAIN new = TaskFields /\ new.todo = <<i>> /\ new.top = 0
    BY DEF Idle, TaskFields
  <1>4. <<i>> \in Seq(S) /\ <<i>> # <<>>
    <2> HIDE DEF S
    <2> QED
      BY <1>2
  <1>5. TaskOK(new, Len(log))
    BY <1>3, <1>4 DEF TaskOK
  <1> HIDE DEF new
  <1>6. TasksOK'
    BY <1>1, <1>5, TaskMoves DEF SyncInv, new
  <1> QED
    BY <1>1, <1>6, RestOK, SameGood

(* A task that goes on, or is done with its event, and stores at most what *)
(* leaves the cursor, the receipts and the intents alone.                  *)
LEMMA GoingGood ==
  ASSUME SyncInv, NEW t \in Tasks, tasks[t].step \in AtEvent, NEW s, NEW step, NEW node,
         UNCHANGED <<log, served, incoming, drain, spent>>, Same(stored, stored'),
         \/ tasks' = [tasks EXCEPT ![t].step = step]
         \/ tasks' = [tasks EXCEPT ![t].step = step, ![t].node = node]
         \/ tasks' = [tasks EXCEPT ![t].node = node, ![t].step = step]
         \/ tasks' = [tasks EXCEPT ![t] = AfterEvent(tasks[t], s)]
         \/ tasks' = [tasks EXCEPT ![t] = Idle]
  PROVE  Good
  <1>1. TasksOK'
    BY TaskGoes, TaskDone, TaskEnds DEF SyncInv
  <1> QED
    BY <1>1, RestOK, SameGood

LEMMA AdmitGood == ASSUME SyncInv, NEW t \in Tasks, Skip(t) \/ RecoverGap(t) \/ Admit(t) PROVE Good
  <1>1. /\ tasks[t].step \in AtEvent /\ UNCHANGED <<log, served, incoming, drain, spent>>
        /\ stored' \in {stored, EnterRecovery(stored)}
    BY DEF Skip, RecoverGap, Admit, At, AtEvent, Proceed, server, link
  <1>2. Same(stored, stored')
    BY <1>1, HelpersSame DEF SyncInv, StoredOK
  <1>3. CASE Skip(t) \/ Admit(t)
    BY <1>1, <1>2, <1>3, GoingGood DEF Skip, Admit, Proceed, Goto
  <1>4. CASE RecoverGap(t)
    <2>1. CASE tasks' = [tasks EXCEPT ![t] = Idle]
      BY <1>1, <1>2, <2>1, GoingGood
    <2>2. CASE Start(t, "gap", "fetch")
      BY <1>1, <1>2, <2>2, TaskStarts, RestOK, SameGood DEF SyncInv, AtEvent
    <2> QED
      BY <1>4, <2>1, <2>2 DEF RecoverGap
  <1> QED
    BY <1>3, <1>4

LEMMA CreateGood ==
  ASSUME SyncInv, NEW t \in Tasks, StartCreate(t) \/ CreateNode(t) \/ MapNode(t) \/ FinishCreate(t)
  PROVE  Good
  <1>1. /\ tasks[t].step \in AtEvent /\ UNCHANGED <<log, served, incoming, drain, spent>>
    BY DEF StartCreate, CreateNode, MapNode, FinishCreate, At, AtEvent, server, link
  <1>2. \/ stored' = stored
        \/ stored' = [stored EXCEPT !.started = @ \cup {CreateOp(t)}]
        \/ stored' = SetMapping(stored, EventOf(t).bookmark, tasks[t].node)
        \/ stored' = Finish(stored, CreateOp(t))
    BY DEF StartCreate, CreateNode, MapNode, FinishCreate
  <1>3. Same(stored, stored')
    <2>1. DOMAIN stored = StoredFields
      BY DEF SyncInv, StoredOK
    <2>2. Same(stored, [stored EXCEPT !.started = @ \cup {CreateOp(t)}])
      BY <2>1 DEF Same, StoredFields
    <2> QED
      BY <1>2, <2>1, <2>2, HelpersSame
  <1>4. \/ \E step : tasks' = [tasks EXCEPT ![t].step = step]
        \/ \E step, node : tasks' = [tasks EXCEPT ![t].step = step, ![t].node = node]
    BY DEF StartCreate, CreateNode, MapNode, FinishCreate, Goto
  <1> QED
    BY <1>1, <1>3, <1>4, GoingGood

LEMMA EffectsGood ==
  ASSUME SyncInv, NEW t \in Tasks, Stale(t) \/ Retitle(t) \/ Move(t) \/ Defer(t) \/ EffectFails(t)
  PROVE  Good
  <1>1. tasks[t].step \in AtEvent /\ UNCHANGED <<log, served, incoming, drain, spent>>
    BY DEF Stale, Retitle, Move, Defer, EffectFails, At, AtEvent, server, link
  <1>2. \/ stored' \in {stored, Refreshed(stored)}
        \/ \E h \in PausedHealth : stored' \in {Resync(stored, h), Pause(stored, "retry", h)}
    BY DEF Stale, Retitle, Move, Defer, EffectFails, Proceed
  <1>3. Same(stored, stored')
    BY <1>2, HelpersSame, ResyncSame DEF SyncInv, StoredOK
  <1>4. \/ \E step : tasks' = [tasks EXCEPT ![t].step = step]
        \/ \E s : tasks' = [tasks EXCEPT ![t] = AfterEvent(tasks[t], s)]
    BY DEF Stale, Retitle, Move, Defer, EffectFails, Proceed, Goto
  <1> QED
    BY <1>1, <1>3, <1>4, GoingGood

LEMMA DeleteGood ==
  ASSUME SyncInv, NEW t \in Tasks, DeleteNothing(t) \/ StartDelete(t) \/ RemoveNode(t) \/ FinishDelete(t)
  PROVE  Good
  <1>1. tasks[t].step \in AtEvent /\ UNCHANGED <<log, served, incoming, drain, spent>>
    BY DEF DeleteNothing, StartDelete, RemoveNode, FinishDelete, At, AtEvent, server, link
  <1>2. DOMAIN stored = StoredFields
    BY DEF SyncInv, StoredOK
  <1>3. CASE DeleteNothing(t)
    <2> DEFINE x == RemoveMapping(stored, EventOf(t).bookmark)
    <2>1. stored' \in {stored, x} \/ \E h \in PausedHealth : stored' = Resync(x, h)
      BY <1>3 DEF DeleteNothing
    <2>2. Same(stored, x)
      BY <1>2, HelpersSame
    <2> HIDE DEF x
    <2>3. Same(stored, stored')
      BY <1>2, <2>1, <2>2, HelpersSame, ResyncSame, SameTrans DEF Same
    <2> QED
      BY <1>1, <1>3, <2>3, GoingGood DEF DeleteNothing, Goto
  <1>4. CASE StartDelete(t)
    <2>1. Same(stored, stored')
      BY <1>2, <1>4 DEF StartDelete, Same, StoredFields
    <2> QED
      BY <1>1, <1>4, <2>1, GoingGood DEF StartDelete
  <1>5. CASE RemoveNode(t) \/ FinishDelete(t)
    <2>1. stored' = stored \/ stored' = Deleted(stored, EventOf(t).bookmark, tasks[t].node)
      BY <1>5 DEF RemoveNode, FinishDelete
    <2>2. Same(stored, stored')
      BY <1>2, <2>1, HelpersSame, DeletedSame
    <2> QED
      BY <1>1, <1>5, <2>2, GoingGood DEF RemoveNode, FinishDelete, Goto
  <1> QED
    BY <1>3, <1>4, <1>5

(* The event at which a task is, is one of the log. *)
LEMMA CursorOfLog ==
  ASSUME SyncInv, NEW t \in Tasks, tasks[t].step \in AtEvent
  PROVE  Cursor(t) \in 1 .. Len(log) /\ Cursor(t) \in Nat
  <1> DEFINE S == 1 .. Len(log)
  <1>1. tasks[t].todo \in Seq(S) /\ tasks[t].todo # <<>>
    BY DEF SyncInv, TasksOK, TaskOK
  <1>2. Head(tasks[t].todo) \in S
    <2> HIDE DEF S
    <2> QED
      BY <1>1
  <1>3. Len(log) \in Nat
    BY DEF SyncInv, LogOK, IsSeq
  <1> QED
    BY <1>2, <1>3 DEF Cursor

LEMMA ReconcileGood == ASSUME SyncInv, NEW t \in Tasks, Reconcile(t) PROVE Good
  <1>1. /\ tasks[t].step \in AtEvent /\ UNCHANGED <<log, served, incoming, drain, spent>>
        /\ DOMAIN stored = StoredFields
    BY DEF Reconcile, At, AtEvent, server, link, SyncInv, StoredOK
  <1>2. PICK n, s :
          /\ s = stored \/ s = SetMapping(stored, EventOf(t).bookmark, n)
          /\ stored' = s \/ stored' = PersistReceipt(s, Receipt(t, n))
          /\ \E step : tasks' = [tasks EXCEPT ![t].node = n, ![t].step = step]
    BY DEF Reconcile
  <1>3. Same(stored, s)
    BY <1>1, <1>2, HelpersSame
  <1>4. TasksOK'
    BY <1>1, <1>2, TaskGoes DEF SyncInv
  <1>5. /\ Receipt(t, n).cursor = Cursor(t) /\ Receipt(t, n).expected = log[Cursor(t)].shape
    BY DEF Receipt, EventOf
  <1>6. stored' = s \/ stored' = [s EXCEPT !.receipts = @ \cup {Receipt(t, n)}]
    BY <1>2 DEF PersistReceipt
  <1>7. /\ DOMAIN stored' = StoredFields /\ stored'.cursor = stored.cursor /\ stored'.intents = stored.intents
        /\ stored'.receipts \in {stored.receipts, stored.receipts \cup {Receipt(t, n)}}
    BY <1>3, <1>6 DEF Same, StoredFields
  <1>8. Cursor(t) \in 1 .. Len(log)
    BY <1>1, CursorOfLog
  <1>9. stored.cursor \in Nat /\ stored'.cursor >= stored.cursor
    BY <1>7 DEF SyncInv, StoredOK
  <1> QED
    BY <1>1, <1>4, <1>5, <1>7, <1>8, <1>9, RestOK, StillGood

LEMMA CheckpointGood == ASSUME SyncInv, NEW t \in Tasks, Checkpoint(t) PROVE Good
  <1>1. /\ tasks[t].step \in AtEvent /\ UNCHANGED <<log, served, incoming, drain, spent>>
        /\ DOMAIN stored = StoredFields /\ stored.cursor \in Nat
    BY DEF Checkpoint, At, AtEvent, server, link, SyncInv, StoredOK
  <1> DEFINE c == Max({stored.cursor, Cursor(t)})
             s == [stored EXCEPT !.cursor = c]
  <1>2. stored' = Refreshed(s) /\ tasks' = [tasks EXCEPT ![t] = AfterEvent(tasks[t], Refreshed(s))]
    BY DEF Checkpoint, Proceed
  <1>3. c \in Nat /\ c >= stored.cursor
    <2>1. Cursor(t) \in Nat
      BY <1>1, CursorOfLog
    <2> DEFINE d == Cursor(t)
    <2> HIDE DEF d
    <2>2. stored.cursor \in Int /\ d \in Int /\ d \in Nat
      BY <1>1, <2>1 DEF d
    <2>3. Max({stored.cursor, d}) \in {stored.cursor, d} /\ Max({stored.cursor, d}) >= stored.cursor
      BY <2>2, MaxOfTwo, Zenon
    <2>4. c = Max({stored.cursor, d})
      BY DEF d
    <2> HIDE DEF c
    <2> QED
      BY <1>1, <2>2, <2>3, <2>4
  <1> HIDE DEF c
  <1>4. DOMAIN s = StoredFields /\ s.cursor = c /\ s.receipts = stored.receipts /\ s.intents = stored.intents
    BY <1>1 DEF StoredFields
  <1>5. Same(s, stored')
    BY <1>2, <1>4, HelpersSame
  <1>6. TasksOK'
    BY <1>1, <1>2, TaskDone DEF SyncInv
  <1> HIDE DEF s
  <1> QED
    BY <1>1, <1>3, <1>4, <1>5, <1>6, RestOK, StillGood DEF Same

LEMMA ReplayGood ==
  ASSUME SyncInv, NEW t \in Tasks, Fetch(t) \/ FetchFails(t) \/ EndReplay(t) \/ Retry(t) \/ RebuildFails(t)
  PROVE  Good
  <1>1. UNCHANGED <<log, served, incoming, spent>> /\ drain' \in {drain, [drain EXCEPT !.on = TRUE]}
        /\ DOMAIN stored = StoredFields /\ stored.cursor \in Nat
    BY DEF Fetch, FetchFails, EndReplay, Retry, RebuildFails, server, link, SyncInv, StoredOK
  <1>2. CASE Fetch(t)
    <2>1. stored' = stored /\ TasksOK'
      BY <1>1, <1>2, TaskFetches DEF Fetch, SyncInv
    <2> QED
      BY <1>1, <2>1, RestOK, SameGood
  <1>3. CASE FetchFails(t) \/ RebuildFails(t)
    <2>1. /\ tasks' = [tasks EXCEPT ![t] = Idle]
          /\ \/ stored' = stored
             \/ \E h \in PausedHealth : stored' \in {Resync(stored, h), Pause(stored, "retry", h)}
      BY <1>3 DEF FetchFails, RebuildFails
    <2>2. Same(stored, stored')
      BY <1>1, <2>1, HelpersSame, ResyncSame
    <2>3. TasksOK'
      BY <1>1, <2>1, TaskEnds DEF SyncInv
    <2> QED
      BY <1>1, <2>2, <2>3, RestOK, SameGood
  <1>4. CASE EndReplay(t)
    <2>1. stored' = MarkLive(stored, tasks[t].top) /\ tasks' = [tasks EXCEPT ![t] = Idle]
      BY <1>4 DEF EndReplay
    <2> DEFINE c == Max({stored.cursor, tasks[t].top})
    <2>2. c \in Nat /\ c >= stored.cursor
      <3>1. stored.cursor \in Int /\ tasks[t].top \in Int /\ tasks[t].top \in Nat
        BY <1>1 DEF SyncInv, TasksOK, TaskOK
      <3>2. c \in {stored.cursor, tasks[t].top} /\ c >= stored.cursor
        BY <3>1, MaxOfTwo, Zenon
      <3> QED
        BY <1>1, <3>1, <3>2
    <2>3. \/ stored' = stored
          \/ stored' = [stored EXCEPT !.cursor = c, !.health = "live", !.connected = TRUE, !.attempts = 0]
      BY <2>1 DEF MarkLive
    <2> HIDE DEF c
    <2>4. /\ DOMAIN stored' = StoredFields /\ stored'.cursor \in {stored.cursor, c}
          /\ stored'.receipts = stored.receipts /\ stored'.intents = stored.intents
      BY <1>1, <2>3 DEF StoredFields
    <2>5. TasksOK'
      BY <1>1, <2>1, TaskEnds DEF SyncInv
    <2> QED
      BY <1>1, <2>2, <2>4, <2>5, RestOK, StillGood
  <1>5. CASE Retry(t)
    <2>1. \/ stored' = [stored EXCEPT !.repair = "rebuild"] /\ tasks' = tasks
          \/ stored' = [stored EXCEPT !.paused = FALSE, !.ambiguous = FALSE] /\ Start(t, "replay", "fetch")
      BY <1>5 DEF Retry
    <2>2. Same(stored, stored')
      BY <1>1, <2>1 DEF Same, StoredFields
    <2>3. TasksOK'
      BY <1>1, <2>1, TaskStarts, RestOK DEF SyncInv, AtEvent
    <2> QED
      BY <1>1, <2>2, <2>3, RestOK, SameGood
  <1> QED
    BY <1>2, <1>3, <1>4, <1>5

(* A rebuild gives up the receipts and what is not acknowledged.           *)
LEMMA RebuildGood == ASSUME SyncInv, NEW t \in Tasks, Rebuild(t) PROVE Good
  <1> DEFINE q == KeepAcked(stored.intents)
  <1>1. /\ UNCHANGED <<log, served, incoming, drain>> /\ Start(t, "rebuild", "clear")
        /\ spent' = [spent EXCEPT !.rebuilds = @ + 1]
        /\ stored' = [stored EXCEPT !.receipts = {}, !.started = {}, !.paused = FALSE, !.ambiguous = FALSE,
                                    !.repair = "rebuild", !.health = "recovering", !.intents = q]
    BY DEF Rebuild, server, link
  <1>2. IsSeq(q)
    BY KeepAckedIsSeq DEF SyncInv, StoredOK
  <1> HIDE DEF q
  <1>3. /\ DOMAIN stored' = StoredFields /\ stored'.cursor = stored.cursor /\ stored.cursor \in Nat
        /\ stored'.receipts = {} /\ stored'.intents = q
    BY <1>1 DEF SyncInv, StoredOK, StoredFields
  <1>4. /\ DOMAIN spent' = {"edits", "evictions", "rebuilds"} /\ spent'.rebuilds = spent.rebuilds + 1
        /\ spent.rebuilds \in Nat
    BY <1>1 DEF SyncInv, SpentOK
  <1>5. TasksOK' /\ DrainOK'
    BY <1>1, TaskStarts, RestOK DEF SyncInv, AtEvent
  <1>6. LogOK' /\ StoredOK' /\ ReceiptsOK' /\ SpentOK'
    BY <1>1, <1>2, <1>3, <1>4 DEF SyncInv, LogOK, StoredOK, ReceiptsOK, SpentOK
  <1>7. Forward /\ Queued
    BY <1>3, <1>4 DEF Forward, Queued
  <1>8. Proved
    BY <1>4 DEF Proved
  <1> QED
    BY <1>5, <1>6, <1>7, <1>8 DEF Good, SyncInv

LEMMA FillGood == ASSUME SyncInv, NEW t \in Tasks, Clear(t) \/ Fill(t) PROVE Good
  <1>1. UNCHANGED <<log, served, incoming, drain, spent>>
    BY DEF Clear, Fill, server, link
  <1>2. Same(stored, stored')
    <2>1. DOMAIN stored = StoredFields
      BY DEF SyncInv, StoredOK
    <2>2. \E m, o : stored' = [stored EXCEPT !.mapping = m, !.owners = o]
      BY DEF Clear, Fill
    <2> QED
      BY <2>1, <2>2 DEF Same, StoredFields
  <1>3. TasksOK'
    <2>1. CASE Clear(t)
      <3>1. tasks' = [tasks EXCEPT ![t].step = "fill", ![t].top = Len(log)] /\ Len(log) \in Nat
        BY <2>1 DEF Clear, SyncInv, LogOK, IsSeq
      <3>2. TaskOK(tasks[t], Len(log))
        BY DEF SyncInv, TasksOK
      <3>3. DOMAIN tasks' = Tasks /\ \A u \in Tasks \ {t} : tasks'[u] = tasks[u]
        BY <3>1 DEF SyncInv, TasksOK
      <3>4. /\ DOMAIN tasks'[t] = TaskFields /\ tasks'[t].todo = tasks[t].todo
            /\ tasks'[t].top = Len(log) /\ tasks'[t].step = "fill"
        BY <3>1, <3>2 DEF SyncInv, TasksOK, TaskOK, TaskFields
      <3>5. TaskOK(tasks'[t], Len(log))
        BY <3>1, <3>2, <3>4 DEF TaskOK, AtEvent
      <3> QED
        BY <1>1, <3>3, <3>5 DEF SyncInv, TasksOK
    <2>2. CASE Fill(t)
      BY <1>1, <2>2, TaskFetches DEF Fill, SyncInv
    <2> QED
      BY <2>1, <2>2
  <1> QED
    BY <1>1, <1>2, <1>3, RestOK, SameGood

LEMMA EndRebuildGood == ASSUME SyncInv, NEW t \in Tasks, EndRebuild(t) PROVE Good
  <1>1. /\ UNCHANGED <<log, served, drain, spent>> /\ incoming' \subseteq incoming
        /\ tasks' = [tasks EXCEPT ![t] = Idle]
        /\ DOMAIN stored = StoredFields /\ stored.cursor \in Nat
    BY DEF EndRebuild, server, SyncInv, StoredOK
  <1> DEFINE c == Max({stored.cursor, tasks[t].top})
  <1>2. c \in Nat /\ c >= stored.cursor
    <2>1. stored.cursor \in Int /\ tasks[t].top \in Int /\ tasks[t].top \in Nat
      BY <1>1 DEF SyncInv, TasksOK, TaskOK
    <2>2. c \in {stored.cursor, tasks[t].top} /\ c >= stored.cursor
      BY <2>1, MaxOfTwo, Zenon
    <2> QED
      BY <1>1, <2>1, <2>2
  <1>3. \E h, a : stored' = [stored EXCEPT !.cursor = c, !.paused = FALSE, !.ambiguous = FALSE,
                                           !.health = h, !.attempts = a]
    BY DEF EndRebuild
  <1> HIDE DEF c
  <1>4. /\ DOMAIN stored' = StoredFields /\ stored'.cursor = c
        /\ stored'.receipts = stored.receipts /\ stored'.intents = stored.intents
    BY <1>1, <1>3 DEF StoredFields
  <1>5. TasksOK'
    BY <1>1, TaskEnds DEF SyncInv
  <1> QED
    BY <1>1, <1>2, <1>4, <1>5, RestOK, StillGood

(***************************************************************************)
(* Callbacks and the drain, which consume receipts and change the queue.   *)
(***************************************************************************)
LEMMA ChangeGood ==
  ASSUME SyncInv, UNCHANGED <<log, served, incoming, tasks, spent>>,
         DOMAIN stored' = StoredFields, stored'.cursor \in Nat, stored'.cursor >= stored.cursor,
         IsSeq(stored'.intents), stored'.receipts \subseteq stored.receipts,
         \A r \in stored.receipts \ stored'.receipts :
           nodes[r.node] = log[r.cursor].shape /\ stored'.cursor >= r.cursor,
         \A k \in DOMAIN stored.intents :
           /\ k \in DOMAIN stored'.intents
           /\ stored'.intents[k].what = stored.intents[k].what
           /\ \/ stored'.intents[k] = stored.intents[k]
              \/ Unacked(stored'.intents[k])
              \/ stored.intents[k].what \in DOMAIN served,
         DrainOK'
  PROVE  Good
  <1>1. LogOK' /\ StoredOK' /\ ReceiptsOK' /\ SpentOK'
    BY DEF SyncInv, LogOK, StoredOK, ReceiptsOK, SpentOK, IsSeq
  <1>2. Forward /\ Proved
    BY DEF Forward, Proved
  <1>3. Queued
    BY DEF Queued
  <1> QED
    BY <1>1, <1>2, <1>3, RestOK DEF Good, SyncInv

LEMMA CaptureGood ==
  ASSUME SyncInv, UNCHANGED <<log, served, incoming, tasks, spent>>, NEW s, Same(stored, s), NEW what,
         stored' = Capture(s, what), drain' \in {drain, [drain EXCEPT !.on = TRUE]}
  PROVE  Good
  <1>1. stored.cursor \in Nat /\ IsSeq(stored.intents) /\ stored.cursor >= stored.cursor
    BY DEF SyncInv, StoredOK
  <1>2. DOMAIN s = StoredFields /\ IsSeq(s.intents)
    BY <1>1 DEF Same
  <1>3. /\ DOMAIN stored' = StoredFields
        /\ stored'.cursor = s.cursor /\ stored'.receipts = s.receipts
        /\ IsSeq(stored'.intents)
        /\ \A k \in DOMAIN s.intents : k \in DOMAIN stored'.intents /\ stored'.intents[k] = s.intents[k]
    BY <1>2, CaptureAppends
  <1>4. /\ stored'.cursor = stored.cursor /\ stored'.receipts = stored.receipts
        /\ \A k \in DOMAIN stored.intents :
             k \in DOMAIN stored'.intents /\ stored'.intents[k] = stored.intents[k]
    BY <1>3 DEF Same
  <1>5. DrainOK'
    BY RestOK
  <1> QED
    BY <1>1, <1>3, <1>4, <1>5, ChangeGood

LEMMA ConsumeGood ==
  ASSUME SyncInv, UNCHANGED <<log, served, incoming, tasks, spent, drain>>,
         NEW b, NEW c, NEW r \in ReceiptsFor(b, c.node), Proves(r, c),
         stored' = [stored EXCEPT !.receipts = @ \ {r}, !.cursor = Max({@, r.cursor})]
  PROVE  Good
  <1>1. /\ DOMAIN stored = StoredFields /\ stored.cursor \in Nat /\ IsSeq(stored.intents)
        /\ r.cursor \in 1 .. Len(log) /\ Len(log) \in Nat
        /\ nodes[r.node] = log[r.cursor].shape
    BY DEF ReceiptsFor, Proves, SyncInv, StoredOK, ReceiptsOK, LogOK, IsSeq
  <1> DEFINE m == Max({stored.cursor, r.cursor})
  <1>2. m \in Nat /\ m >= stored.cursor /\ m >= r.cursor
    <2>1. stored.cursor \in Int /\ r.cursor \in Int /\ r.cursor \in Nat
      BY <1>1
    <2>2. m \in {stored.cursor, r.cursor} /\ m >= stored.cursor /\ m >= r.cursor
      BY <2>1, MaxOfTwo, Zenon
    <2> QED
      BY <1>1, <2>1, <2>2
  <1> HIDE DEF m
  <1>3. /\ DOMAIN stored' = StoredFields /\ stored'.cursor = m
        /\ stored'.receipts = stored.receipts \ {r} /\ stored'.intents = stored.intents
    BY <1>1 DEF StoredFields, m
  <1>4. DrainOK'
    BY RestOK
  <1> QED
    BY <1>1, <1>2, <1>3, <1>4, ChangeGood

LEMMA CallbackGood == ASSUME SyncInv, HandleCallback PROVE Good
  <1> DEFINE c == Next_callback
             s == [stored EXCEPT !.paused = TRUE, !.ambiguous = FALSE, !.repair = "retry"]
  <1>1. UNCHANGED <<log, served, incoming, tasks, spent>>
    BY DEF HandleCallback, server, link
  <1>2. PICK b :
          \/ \E r \in ReceiptsFor(b, c.node) :
               /\ Proves(r, c)
               /\ stored' = [stored EXCEPT !.receipts = @ \ {r}, !.cursor = Max({@, r.cursor})]
               /\ UNCHANGED drain
          \/ stored' = s /\ UNCHANGED drain
          \/ \E x \in {s, stored} : /\ stored' = Capture(x, Intent(b, c))
                                    /\ drain' \in {drain, [drain EXCEPT !.on = TRUE]}
    BY DEF HandleCallback
  <1>3. Same(stored, s) /\ Same(stored, stored)
    BY DEF SyncInv, StoredOK, Same, StoredFields
  <1> HIDE DEF s, c
  <1>4. CASE \E r \in ReceiptsFor(b, c.node) :
               /\ Proves(r, c)
               /\ stored' = [stored EXCEPT !.receipts = @ \ {r}, !.cursor = Max({@, r.cursor})]
               /\ UNCHANGED drain
    BY <1>1, <1>4, ConsumeGood
  <1>5. CASE stored' = s /\ UNCHANGED drain
    BY <1>1, <1>3, <1>5, RestOK, SameGood
  <1>6. CASE \E x \in {s, stored} : /\ stored' = Capture(x, Intent(b, c))
                                    /\ drain' \in {drain, [drain EXCEPT !.on = TRUE]}
    BY <1>1, <1>3, <1>6, CaptureGood
  <1> QED
    BY <1>2, <1>4, <1>5, <1>6

LEMMA OtherCallbacksGood == ASSUME SyncInv, IgnoreCallback \/ MissingNode \/ HandleRemoved PROVE Good
  <1>1. UNCHANGED <<log, served, incoming, tasks, spent, drain>> /\ DOMAIN stored = StoredFields
    BY DEF IgnoreCallback, MissingNode, HandleRemoved, server, link, SyncInv, StoredOK
  <1>2. Same(stored, stored')
    <2>1. CASE stored' = stored
      BY <2>1, RestOK
    <2>2. CASE \E h \in PausedHealth :
                 stored' = [Pause(stored, "retry", h) EXCEPT !.ambiguous = stored.cursor > 0]
      <3>1. PICK h : stored' = [Pause(stored, "retry", h) EXCEPT !.ambiguous = stored.cursor > 0]
        BY <2>2
      <3> DEFINE x == Pause(stored, "retry", h)
      <3>2. Same(stored, x)
        BY <1>1, HelpersSame
      <3> HIDE DEF x
      <3>3. Same(x, [x EXCEPT !.ambiguous = stored.cursor > 0])
        BY <3>2 DEF Same, StoredFields
      <3>4. stored' = [x EXCEPT !.ambiguous = stored.cursor > 0]
        BY <3>1 DEF x
      <3> QED
        BY <3>2, <3>3, <3>4, SameTrans
    <2>3. CASE HandleRemoved
      <3>1. stored' = stored \/ \E b, n : stored' = Deleted(stored, b, n)
        BY <2>3 DEF HandleRemoved
      <3> QED
        BY <1>1, <3>1, RestOK, DeletedSame
    <2> QED
      BY <2>1, <2>2, <2>3 DEF IgnoreCallback, MissingNode
  <1> QED
    BY <1>1, <1>2, RestOK, SameGood

LEMMA SendGood == ASSUME SyncInv, DrainDone \/ SendIntent \/ PatchFails PROVE Good
  <1>1. UNCHANGED <<log, served, incoming, tasks, spent>> /\ DOMAIN stored = StoredFields
    BY DEF DrainDone, SendIntent, PatchFails, server, link, SyncInv, StoredOK
  <1>2. CASE drain' = Resting /\ (stored' = stored \/ \E h \in PausedHealth : stored' = Pause(stored, "retry", h))
    <2>1. Same(stored, stored')
      BY <1>1, <1>2, HelpersSame
    <2> QED
      BY <1>1, <1>2, <2>1, RestOK, SameGood
  <1>3. CASE \E what : /\ stored' = SetStatus(stored, what, "sent")
                       /\ drain' = [drain EXCEPT !.at = "sent", !.intent = what]
    <2>1. PICK what : /\ stored' = SetStatus(stored, what, "sent")
                      /\ drain' = [drain EXCEPT !.at = "sent", !.intent = what]
      BY <1>3
    <2>2. IsSeq(stored.intents) /\ stored.cursor \in Nat /\ stored.cursor >= stored.cursor
      BY DEF SyncInv, StoredOK
    <2>3. /\ DOMAIN stored' = StoredFields
          /\ stored'.cursor = stored.cursor /\ stored'.receipts = stored.receipts
          /\ IsSeq(stored'.intents)
          /\ \A k \in DOMAIN stored.intents :
               /\ k \in DOMAIN stored'.intents
               /\ stored'.intents[k] =
                    IF stored.intents[k].what = what THEN [what |-> what, status |-> "sent"] ELSE stored.intents[k]
      BY <1>1, <2>1, <2>2, StatusKeeps
    <2>4. \A k \in DOMAIN stored.intents :
            /\ k \in DOMAIN stored'.intents
            /\ stored'.intents[k].what = stored.intents[k].what
            /\ stored'.intents[k] = stored.intents[k] \/ Unacked(stored'.intents[k])
      BY <2>3 DEF Unacked
    <2>5. DrainOK'
      BY <1>1, <2>1 DEF SyncInv, DrainOK
    <2> QED
      BY <1>1, <2>2, <2>3, <2>4, <2>5, ChangeGood
  <1> QED
    BY <1>2, <1>3 DEF DrainDone, SendIntent, PatchFails

LEMMA ServeGood == ASSUME SyncInv, ServePatch PROVE Good
  <1>1. UNCHANGED <<incoming, stored, tasks, spent>>
    BY DEF ServePatch, link
  <1>2. PICK n, now :
          /\ drain' = [drain EXCEPT !.at = "answered", !.answer = n]
          /\ \/ n = -1 /\ UNCHANGED <<log, served>>
             \/ drain.intent \in DOMAIN served /\ n = served[drain.intent] /\ UNCHANGED <<log, served>>
             \/ /\ n = 0 /\ UNCHANGED log
                /\ served' = [w \in DOMAIN served \cup {drain.intent} |->
                                IF w \in DOMAIN served THEN served[w] ELSE n]
             \/ /\ n = Len(log) + 1 /\ log' = Append(log, now)
                /\ served' = [w \in DOMAIN served \cup {drain.intent} |->
                                IF w \in DOMAIN served THEN served[w] ELSE n]
    BY ZenonT(60) DEF ServePatch, server
  <1>3. Len(log) \in Nat /\ \A w \in DOMAIN served : served[w] \in Nat
    BY DEF SyncInv, LogOK, IsSeq
  <1>4. n \in Int
    BY <1>2, <1>3
  <1>5. /\ DOMAIN served \subseteq DOMAIN served' /\ \A w \in DOMAIN served' : served'[w] \in Nat
        /\ n >= 0 => drain.intent \in DOMAIN served'
    BY <1>2, <1>3
  <1>6. DrainOK'
    BY <1>2, <1>4, <1>5 DEF SyncInv, DrainOK
  <1>7. CASE UNCHANGED log
    <2>1. LogOK' /\ StoredOK' /\ ReceiptsOK' /\ SpentOK'
      BY <1>1, <1>5, <1>7 DEF SyncInv, LogOK, StoredOK, ReceiptsOK, SpentOK, IsSeq
    <2>2. TasksOK'
      BY <1>1, <1>7, RestOK
    <2>3. Forward /\ Proved /\ Queued
      BY <1>1 DEF SyncInv, StoredOK, Forward, Proved, Queued
    <2> QED
      BY <1>6, <2>1, <2>2, <2>3 DEF Good, SyncInv
  <1>8. CASE log' = Append(log, now)
    BY <1>1, <1>5, <1>6, <1>8, LogGrows
  <1> QED
    BY <1>2, <1>7, <1>8

LEMMA SettleGood == ASSUME SyncInv, Settle PROVE Good
  <1> DEFINE what == drain.intent
             x == SetStatus(stored, what, "acked")
             c == Max({x.cursor, drain.answer})
             y == [x EXCEPT !.cursor = c]
  <1>1. /\ UNCHANGED <<log, served, incoming, tasks, spent>>
        /\ stored' = Refreshed(y) /\ drain' = [Resting EXCEPT !.on = TRUE]
        /\ what \in DOMAIN served /\ drain.answer \in Int
        /\ DOMAIN stored = StoredFields /\ IsSeq(stored.intents) /\ stored.cursor \in Nat
    BY DEF Settle, server, link, SyncInv, DrainOK, StoredOK
  <1>2. /\ DOMAIN x = StoredFields
        /\ x.cursor = stored.cursor /\ x.receipts = stored.receipts
        /\ IsSeq(x.intents)
        /\ \A k \in DOMAIN stored.intents :
             /\ k \in DOMAIN x.intents
             /\ x.intents[k] =
                  IF stored.intents[k].what = what THEN [what |-> what, status |-> "acked"] ELSE stored.intents[k]
    BY <1>1, StatusKeeps
  <1> HIDE DEF x
  <1>3. c \in Nat /\ c >= stored.cursor
    <2>1. x.cursor \in Int /\ x.cursor = stored.cursor /\ x.cursor \in Nat
      BY <1>1, <1>2
    <2>2. c \in {x.cursor, drain.answer} /\ c >= x.cursor
      BY <1>1, <2>1, MaxOfTwo, Zenon
    <2> QED
      BY <1>1, <2>1, <2>2
  <1> HIDE DEF c
  <1>4. DOMAIN y = StoredFields /\ y.cursor = c /\ y.receipts = x.receipts /\ y.intents = x.intents
    BY <1>2 DEF StoredFields
  <1> HIDE DEF y
  <1>5. Same(y, stored')
    BY <1>1, <1>4, HelpersSame
  <1>6. /\ DOMAIN stored' = StoredFields /\ stored'.cursor = c /\ stored'.receipts = stored.receipts
        /\ stored'.intents = x.intents
    BY <1>2, <1>4, <1>5 DEF Same
  <1>7. \A k \in DOMAIN stored.intents :
          /\ k \in DOMAIN stored'.intents
          /\ stored'.intents[k].what = stored.intents[k].what
          /\ \/ stored'.intents[k] = stored.intents[k]
             \/ stored.intents[k].what \in DOMAIN served
    BY <1>1, <1>2, <1>6
  <1>8. DrainOK'
    BY <1>1 DEF DrainOK, Resting
  <1> QED
    BY <1>1, <1>2, <1>3, <1>6, <1>7, <1>8, ChangeGood

(***************************************************************************)
(* Every step is a good one, and so the theorems.                          *)
(***************************************************************************)
LEMMA StepGood == ASSUME SyncInv, [Next]_vars PROVE Good
  <1>1. CASE Next
    <2>1. CASE \E b \in Bookmarks, shape \in Shapes \cup {None} : OtherChange(b, shape)
      BY <2>1, OthersGood
    <2>2. CASE Connect \/ ConnectFails \/ Close \/ Evict
      BY <2>2, LinkGood, EvictGood
    <2>3. CASE \E t \in Tasks : Apply(t)
      <3>1. PICK t \in Tasks : Apply(t)
        BY <2>3
      <3>2. CASE Skip(t) \/ RecoverGap(t) \/ Admit(t)
        BY <3>2, AdmitGood
      <3>3. CASE StartCreate(t) \/ CreateNode(t) \/ MapNode(t) \/ FinishCreate(t)
        BY <3>3, CreateGood
      <3>4. CASE Reconcile(t) \/ Checkpoint(t)
        BY <3>4, ReconcileGood, CheckpointGood
      <3>5. CASE Stale(t) \/ Retitle(t) \/ Move(t) \/ Defer(t) \/ EffectFails(t)
        BY <3>5, EffectsGood
      <3>6. CASE DeleteNothing(t) \/ StartDelete(t) \/ RemoveNode(t) \/ FinishDelete(t)
        BY <3>6, DeleteGood
      <3>7. CASE Fetch(t) \/ EndReplay(t)
        BY <3>7, ReplayGood
      <3>8. CASE Clear(t) \/ Fill(t) \/ EndRebuild(t)
        BY <3>8, FillGood, EndRebuildGood
      <3> QED
        BY <3>1, <3>2, <3>3, <3>4, <3>5, <3>6, <3>7, <3>8 DEF Apply
    <2>4. CASE \E t \in Tasks : OnAck(t) \/ FetchFails(t) \/ Retry(t) \/ Rebuild(t) \/ RebuildFails(t)
      BY <2>4, AckGood, ReplayGood, RebuildGood
    <2>5. CASE \E t \in Tasks : \E i \in incoming : Receive(t, i)
      BY <2>5, ReceiveGood
    <2>6. CASE \E n \in DOMAIN nodes, shape \in Shapes : UserEdit(n, shape)
      BY <2>6, EditGood
    <2>7. CASE Callback \/ Drain \/ PatchFails
      BY <2>7, CallbackGood, OtherCallbacksGood, SendGood, ServeGood, SettleGood DEF Callback, Drain
    <2> QED
      BY <1>1, <2>1, <2>2, <2>3, <2>4, <2>5, <2>6, <2>7 DEF Next
  <1>2. CASE UNCHANGED vars
    <2>1. UNCHANGED <<log, served, incoming, stored, tasks, drain, spent>>
      BY <1>2 DEF vars
    <2> QED
      BY <2>1, RestOK, SameGood
  <1> QED
    BY <1>1, <1>2

LEMMA InitGood == ASSUME Init PROVE SyncInv
  <1>1. IsSeq(log) /\ Len(log) \in Nat
    <2> DEFINE S == [bookmark : Bookmarks, shape : Shapes \cup {None}]
    <2>1. log \in Seq(S)
      BY SyncAssumption DEF Init
    <2> HIDE DEF S
    <2>2. /\ Len(log) \in Nat /\ log = [k \in 1 .. Len(log) |-> log[k]]
      BY <2>1
    <2> QED
      BY <2>2, RangeIsSeq
  <1>2. LogOK
    BY <1>1 DEF Init, LogOK
  <1>3. StoredOK /\ ReceiptsOK
    BY <1>1 DEF Init, StoredOK, ReceiptsOK, StoredFields, IsSeq
  <1>4. TasksOK
    BY <1>1, IdleTask DEF Init, TasksOK
  <1>5. DrainOK /\ SpentOK
    BY DEF Init, DrainOK, SpentOK, Resting
  <1> QED
    BY <1>2, <1>3, <1>4, <1>5 DEF SyncInv

(* The invariant holds in every reachable state: what a task works at is   *)
(* an event of the log, and every receipt tells the shape of its event.    *)
THEOREM SyncInductive == Spec => []SyncInv
  <1>1. Init => SyncInv
    BY InitGood
  <1>2. SyncInv /\ [Next]_vars => SyncInv'
    BY StepGood DEF Good
  <1> QED
    BY <1>1, <1>2, PTL DEF Spec

(* The stored cursor never goes back, whichever of the overlapping tasks,  *)
(* callbacks and acknowledgements of projection.ts ends last.              *)
THEOREM CursorNeverBack == Spec => CursorMonotone
  <1>1. SyncInv /\ [Next]_vars => [stored'.cursor >= stored.cursor]_vars
    BY StepGood DEF Good, Forward
  <1> QED
    BY <1>1, SyncInductive, PTL DEF Spec, CursorMonotone

(* A receipt is consumed only by the callback that finds its node in the   *)
(* final shape of its event; an eviction, a pause, a gap, a replay or an   *)
(* acknowledgement never takes one away.                                   *)
THEOREM ReceiptsNeedProof == Spec => ConsumptionProves
  <1>1. SyncInv /\ [Next]_vars =>
          [\A r \in stored.receipts :
             r \notin stored'.receipts /\ spent' = spent =>
               nodes[r.node] = log[r.cursor].shape /\ stored'.cursor >= r.cursor]_vars
    BY StepGood DEF Good, Proved
  <1> QED
    BY <1>1, SyncInductive, PTL DEF Spec, ConsumptionProves

(* A queued edit stays in the queue, at its place, until the server has a  *)
(* receipt of its PATCH, or a rebuild empties the queue.                   *)
THEOREM EditsAreKept == Spec => IntentKept
  <1>1. SyncInv /\ [Next]_vars =>
          [\A k \in DOMAIN stored.intents :
             \/ spent'.rebuilds > spent.rebuilds
             \/ /\ k \in DOMAIN stored'.intents
                /\ stored'.intents[k].what = stored.intents[k].what
                /\ Unacked(stored.intents[k]) /\ ~ Unacked(stored'.intents[k]) =>
                     stored.intents[k].what \in DOMAIN served]_vars
    BY StepGood DEF Good, Queued
  <1> QED
    BY <1>1, SyncInductive, PTL DEF Spec, IntentKept

(***************************************************************************)
(* Convergence, proved for any bookmarks, titles, folders, history and     *)
(* bounds, in the scenarios of MCSyncScenarios in which nobody edits in    *)
(* Chrome and one task is at work: each bookmark shows what the log says   *)
(* of it at the cursor or at the next event, unless the tree of a rebuild  *)
(* has put it further ahead.                                               *)
(***************************************************************************)
First == Len(History)
Single(old, new) == old = None \/ new = None \/ old.folder = new.folder \/ old.title = new.title

(***************************************************************************)
(* The invariant, of the state and of the task "a" that is at work.        *)
(***************************************************************************)
Active == IF t1 \in Tasks THEN tasks[t1] ELSE Idle
OnlyOne == \A t \in Tasks : t # t1 => tasks[t] = Idle

(* Other clients change one thing of a bookmark at a time, and around a    *)
(* rebuild they only create and delete.                                    *)
HistoryInv ==
  /\ log \in Seq([bookmark : Bookmarks, shape : Shapes \cup {None}])
  /\ First \in Nat \ {0} /\ First <= Len(log)
  /\ \A k \in 1 .. Len(log) : log[k].shape # None => log[k].shape.title \in TitlesOf[log[k].bookmark]
  /\ \A k \in First .. Len(log) - 1 : Single(Tree(k)[log[k + 1].bookmark], log[k + 1].shape)
  /\ scenario = "rebuild" =>
       \A b \in Bookmarks : \A i, j \in First .. Len(log) :
         Tree(i)[b] = None \/ Tree(j)[b] = None \/ Tree(i)[b] = Tree(j)[b]

SceneInv ==
  /\ scenario \in {"remote", "rebuild"}
  /\ spent \in [edits : {0}, evictions : Nat, rebuilds : Nat]
  /\ scenario = "remote" => spent.rebuilds = 0
  /\ scenario = "rebuild" => spent.evictions = 0 /\ stored.receipts = {}
  /\ stored.cursor \in Nat /\ First <= stored.cursor /\ stored.cursor <= Len(log)
  /\ stored.intents = <<>> /\ drain.at = "idle"

(* A receipt is that of the next event, and nothing else is begun.         *)
ReceiptInv ==
  \A r \in stored.receipts :
    /\ stored.receipts = {r} /\ stored.started = {}
    /\ r.cursor = stored.cursor + 1 /\ r.cursor <= Len(log)
    /\ r.bookmark = log[r.cursor].bookmark
    /\ r.expected = log[r.cursor].shape /\ r.expected # None
    /\ r.node # 0 /\ stored.mapping[r.bookmark] = r.node

(* A callback of a change is the one that proves the receipt.              *)
CallbackInv(a) ==
  /\ IsSeq(callbacks)
  /\ \A k \in DOMAIN callbacks :
       /\ callbacks[k].node \in DOMAIN nodes
       /\ callbacks[k].kind = "removed" => nodes[callbacks[k].node] = None
       /\ callbacks[k].kind # "removed" =>
            /\ \E r \in stored.receipts : r.node = callbacks[k].node /\ Proves(r, callbacks[k])
            /\ a.step \notin {"retitle", "move"}
            /\ \A j \in DOMAIN callbacks : callbacks[j].kind # "removed" => j = k

(* What the task knows of the event it is at.                              *)
Now(a) == log[Head(a.todo)]
CreateBy(a) ==
  [effect |-> "create", bookmark |-> Now(a).bookmark, cursor |-> Head(a.todo), node |-> 0]
Remaining(a) ==
  /\ a.top <= Len(log)
  /\ \A k \in 1 .. Len(a.todo) : a.todo[k] = a.top - Len(a.todo) + k

CreateSteps == {"create", "map", "created"}
DeleteSteps == {"remove", "removed"}
ReceiptSteps == {"retitle", "move"}
NextSteps == CreateSteps \cup DeleteSteps \cup ReceiptSteps \cup {"resolve", "checkpoint"}
PlainSteps == {"resolve", "checkpoint", "clear", "fill", "failed"}

Expects(a, move) ==
  \E r \in stored.receipts : r.node = a.node /\ r.bookmark = Now(a).bookmark /\ r.move = move

EffectInv(a) ==
  /\ a.step = "retitle" => /\ Now(a).shape # None /\ nodes[a.node] # None
                           /\ nodes[a.node].folder = Now(a).shape.folder /\ Expects(a, None)
  /\ a.step = "move" => /\ Now(a).shape # None /\ nodes[a.node] # None
                        /\ nodes[a.node].title = Now(a).shape.title
                        /\ Expects(a, nodes[a.node].folder)
  /\ a.step \in CreateSteps => Now(a).shape # None /\ stored.started = {CreateBy(a)}
  /\ a.step \in {"create", "map"} => stored.mapping[Now(a).bookmark] = 0
  /\ a.step \in {"map", "created"} => a.node \in DOMAIN nodes /\ nodes[a.node] = Now(a).shape
  /\ a.step = "map" => \A b \in Bookmarks : stored.mapping[b] # a.node
  /\ a.step = "created" => stored.mapping[Now(a).bookmark] = a.node
  /\ a.step = "checkpoint" => Shows(Now(a).bookmark) = Now(a).shape
  /\ a.step \in DeleteSteps => Now(a).shape = None
  /\ a.step = "remove" => stored.started = {DeleteOp(Now(a).bookmark, a.node)} /\ nodes[a.node] # None
  /\ a.step = "removed" =>
       \/ stored.started = {DeleteOp(Now(a).bookmark, a.node)} /\ nodes[a.node] = None
       \/ stored.started = {} /\ stored.mapping[Now(a).bookmark] = 0

TaskInv(a) ==
  /\ a.step = "idle" => a = Idle
  /\ a.mode = "rebuild" => scenario = "rebuild"
  /\ a.step \in AtEvent /\ a.mode # "live" => Remaining(a) /\ Head(a.todo) <= stored.cursor + 1
  /\ a.step = "end" => a.top <= stored.cursor
  /\ a.step \in NextSteps => Head(a.todo) = stored.cursor + 1
  /\ a.step \in CreateSteps \cup DeleteSteps \cup PlainSteps => stored.receipts = {}
  /\ a.step \in PlainSteps => stored.started = {}
  /\ a.step \in {"clear", "fill"} => scenario = "rebuild" /\ spent.rebuilds > 0
  /\ a.step = "fill" => /\ \A n \in DOMAIN nodes : nodes[n] = None
                        /\ \A b \in Bookmarks : stored.mapping[b] = 0
                        /\ stored.cursor <= a.top /\ a.top <= Len(log)
  /\ EffectInv(a)

(* An operation that was started is the only one; that of a deletion is    *)
(* for the next event.  It is the task's, or an eviction left it.          *)
StartedInv(a) ==
  \A op \in stored.started :
    /\ stored.started = {op} /\ op.effect \in {"create", "delete"}
    /\ op.effect = "delete" =>
         /\ op = DeleteOp(op.bookmark, op.node)
         /\ stored.cursor < Len(log) /\ log[stored.cursor + 1] = Event(op.bookmark, None)
         /\ op.node # 0 /\ stored.mapping[op.bookmark] = op.node
    /\ spent.evictions = 0 => a.step \in CreateSteps \cup DeleteSteps

(* A creation left by an eviction keeps the workspace blocked for good.    *)
Orphan(a) == (\E op \in stored.started : op.effect = "create") /\ a.step \notin CreateSteps

(* Each bookmark has a node of its own, and the owners are the mapping.    *)
MapInv ==
  /\ stored.mapping \in [Bookmarks -> Nat]
  /\ nodes \in Seq(Shapes \cup {None})
  /\ \A b \in Bookmarks : stored.mapping[b] # 0 =>
       /\ stored.mapping[b] \in DOMAIN nodes
       /\ nodes[stored.mapping[b]] # None \/ DeleteOp(b, stored.mapping[b]) \in stored.started
       /\ \A c \in Bookmarks : stored.mapping[b] = stored.mapping[c] => b = c
  /\ stored.owners = {p \in Nat \X Bookmarks : p[1] # 0 /\ stored.mapping[p[2]] = p[1]}

NoStray(a) ==
  \A n \in DOMAIN nodes :
    \/ nodes[n] = None
    \/ \E b \in Bookmarks : stored.mapping[b] = n
    \/ a.step = "map" /\ a.node = n

Reach ==
  IF spent.rebuilds > 0 THEN Len(log)
  ELSE IF stored.cursor < Len(log) THEN stored.cursor + 1 ELSE stored.cursor
LevelInv == \A b \in Bookmarks : \E k \in stored.cursor .. Reach : Shows(b) = Tree(k)[b]

TreeInv(a) ==
  /\ ~ Orphan(a) => MapInv
  /\ ~ Orphan(a) /\ a.step # "fill" => NoStray(a) /\ LevelInv

(* Without evictions and rebuilds Chrome is ahead only in the course of an *)
(* event.                                                                  *)
Ahead(a) ==
  \/ spent.evictions > 0 \/ spent.rebuilds > 0
  \/ stored.receipts # {} \/ stored.started # {}
  \/ a.step \in {"checkpoint", "removed"}
ExactInv(a) == Ahead(a) \/ \A b \in Bookmarks : Shows(b) = Tree(stored.cursor)[b]

Whole(a) ==
  /\ HistoryInv /\ SceneInv /\ ReceiptInv /\ CallbackInv(a) /\ TaskInv(a)
  /\ StartedInv(a) /\ TreeInv(a) /\ ExactInv(a)

ConvInv == OnlyOne /\ \E a : a = Active /\ Whole(a)

(***************************************************************************)
(* The tree after some events.                                             *)
(***************************************************************************)
(* A set of numbers that has a bound has a greatest one.                   *)
LEMMA GreatestIsMax ==
  ASSUME NEW k \in Nat, NEW S \in SUBSET (1 .. k), S # {}
  PROVE  Max(S) \in S /\ \A i \in S : Max(S) >= i
  <1> DEFINE Later(i) == {j \in 1 .. k : i < j}
             T == {Later(i) : i \in S}
  <1>1. IsWellFoundedOn(StrictSubsetOrdering(1 .. k), SUBSET (1 .. k))
    <2> DEFINE U == 1 .. k
    <2>1. IsFiniteSet(U)
      BY FS_Interval
    <2> HIDE DEF U
    <2>2. IsWellFoundedOn(StrictSubsetOrdering(U), SUBSET U)
      BY <2>1, FS_StrictSubsetOrderingWellFounded, FS_FiniteSubsetsOfFinite
    <2> QED
      BY <2>2 DEF U
  <1>2. T \subseteq SUBSET (1 .. k) /\ T # {}
    OBVIOUS
  <1>3. PICK x \in T : \A y \in T : <<y, x>> \notin StrictSubsetOrdering(1 .. k)
    BY <1>1, <1>2, WFMin
  <1>4. PICK m \in S : x = Later(m)
    BY <1>3
  <1>5. ASSUME NEW i \in S, ~ (m >= i) PROVE FALSE
    <2>1. m \in Nat /\ i \in Nat /\ m < i /\ m \in 1 .. k /\ i \in 1 .. k
      BY <1>5
    <2>2. Later(i) \subseteq Later(m)
      BY <2>1
    <2>3. i \in Later(m) /\ i \notin Later(i)
      BY <2>1
    <2>4. <<Later(i), Later(m)>> \in StrictSubsetOrdering(1 .. k)
      <3>1. Later(i) \in SUBSET (1 .. k) /\ Later(m) \in SUBSET (1 .. k) /\ Later(i) # Later(m)
        BY <2>3
      <3> HIDE DEF Later
      <3> QED
        BY <2>2, <3>1 DEF StrictSubsetOrdering
    <2> QED
      BY <1>3, <1>4, <2>4
  <1>6. \E z \in S : \A i \in S : z >= i
    BY <1>5
  <1> QED
    BY <1>6 DEF Max

LEMMA TreeTells ==
  ASSUME NEW b \in Bookmarks, NEW k \in Nat, Tree(k)[b] # None
  PROVE  \E i \in 1 .. k : log[i].bookmark = b /\ log[i].shape = Tree(k)[b]
  <1>1. About(b, k) # {} /\ Tree(k)[b] = log[Max(About(b, k))].shape
    BY DEF Tree
  <1>2. Max(About(b, k)) \in About(b, k)
    BY <1>1, GreatestIsMax DEF About
  <1> QED
    BY <1>1, <1>2 DEF About

(* An event changes what the tree has of its bookmark, and nothing else.   *)
LEMMA TreeNext ==
  ASSUME NEW b \in Bookmarks, NEW k \in Nat
  PROVE  Tree(k + 1)[b] = IF log[k + 1].bookmark = b THEN log[k + 1].shape ELSE Tree(k)[b]
  <1>1. CASE log[k + 1].bookmark = b
    <2>1. k + 1 \in About(b, k + 1) /\ About(b, k + 1) \in SUBSET (1 .. k + 1)
      BY <1>1 DEF About
    <2>2. Max(About(b, k + 1)) \in About(b, k + 1) /\ Max(About(b, k + 1)) >= k + 1
      <3>1. PICK n \in Nat : n = k + 1
        OBVIOUS
      <3>2. PICK S : S = About(b, k + 1)
        OBVIOUS
      <3>3. S \in SUBSET (1 .. n) /\ n \in S
        BY <2>1, <3>1, <3>2
      <3>4. Max(S) \in S /\ Max(S) >= n
        BY <3>3, GreatestIsMax
      <3> QED
        BY <3>1, <3>2, <3>4
    <2>3. Max(About(b, k + 1)) = k + 1
      BY <2>1, <2>2
    <2> QED
      BY <1>1, <2>1, <2>3 DEF Tree
  <1>2. CASE log[k + 1].bookmark # b
    <2>1. About(b, k + 1) = About(b, k)
      BY <1>2 DEF About
    <2> QED
      BY <1>2, <2>1 DEF Tree
  <1> QED
    BY <1>1, <1>2

LEMMA TreeSame == ASSUME log' = log PROVE \A k : Tree(k)' = Tree(k)
  BY DEF Tree, About

LEMMA TreeKept ==
  ASSUME NEW n \in Nat, \A i \in 1 .. n : log'[i] = log[i], NEW k \in Nat, k <= n
  PROVE  \A b \in Bookmarks : Tree(k)'[b] = Tree(k)[b] /\ About(b, k)' = About(b, k)
  <1> TAKE b \in Bookmarks
  <1>1. About(b, k)' = About(b, k)
    BY DEF About
  <1>2. CASE About(b, k) = {}
    BY <1>1, <1>2 DEF Tree
  <1>3. CASE About(b, k) # {}
    <2>1. Max(About(b, k)) \in About(b, k)
      BY <1>3, GreatestIsMax DEF About
    <2>2. log'[Max(About(b, k))] = log[Max(About(b, k))]
      BY <2>1 DEF About
    <2> QED
      BY <1>1, <1>3, <2>2 DEF Tree
  <1> QED
    BY <1>1, <1>2, <1>3

(* A finite set can be written as a sequence, each element once.           *)
LEMMA OrderOfSet ==
  ASSUME NEW S, IsFiniteSet(S)
  PROVE  /\ Cardinality(S) \in Nat /\ SetToSeq(S) \in [1 .. Cardinality(S) -> S]
         /\ \A i, j \in 1 .. Cardinality(S) : SetToSeq(S)[i] = SetToSeq(S)[j] => i = j
         /\ \A x \in S : \E i \in 1 .. Cardinality(S) : SetToSeq(S)[i] = x
  <1> DEFINE n == Cardinality(S)
             order == SetToSeq(S)
  <1>1. n \in Nat /\ ExistsBijection(1 .. n, S)
    BY FS_CardinalityType
  <1>2. \E f \in [1 .. n -> S] : IsInjective(f)
    BY <1>1 DEF ExistsBijection, Bijection, Injection
  <1>3. order \in [1 .. n -> S] /\ IsInjective(order)
    BY <1>2 DEF SetToSeq
  <1>4. order \in Injection(1 .. n, S)
    BY <1>3 DEF Injection
  <1>5. Cardinality(1 .. n) = n
    BY <1>1, FS_Interval
  <1> HIDE DEF order
  <1>6. order \in Surjection(1 .. n, S)
    BY <1>4, <1>5, FS_Injection
  <1>7. \A x \in S : \E i \in 1 .. n : order[i] = x
    BY <1>6 DEF Surjection
  <1> QED
    BY <1>1, <1>3, <1>7 DEF IsInjective, order

(***************************************************************************)
(* Steps that change nothing the invariant reads but the task.             *)
(***************************************************************************)
Alike(s, x) ==
  Same(s, x) /\ x.mapping = s.mapping /\ x.owners = s.owners /\ x.started = s.started

LEMMA HelpersAlike ==
  ASSUME NEW s, DOMAIN s = StoredFields
  PROVE  /\ Alike(s, s)
         /\ \A repair, health : Alike(s, Pause(s, repair, health))
         /\ Alike(s, EnterRecovery(s)) /\ Alike(s, Refreshed(s))
         /\ \A health : Alike(s, Resync(s, health))
  <1>1. Alike(s, EnterRecovery(s)) /\ Alike(s, s) /\ Alike(s, Refreshed(s))
    BY DEF Alike, Same, EnterRecovery, Refreshed, StoredFields
  <1>2. \A z : DOMAIN z = StoredFields => \A repair, health : Alike(z, Pause(z, repair, health))
    BY DEF Alike, Same, Pause, StoredFields
  <1>3. \A health : Alike(EnterRecovery(s), Pause(EnterRecovery(s), "rebuild", health))
    BY <1>1, <1>2 DEF Alike, Same
  <1>4. \A health : Alike(s, Resync(s, health))
    BY <1>1, <1>3 DEF Resync, Alike, Same
  <1> QED
    BY <1>1, <1>2, <1>4

LEMMA MarkAlike ==
  ASSUME NEW s, DOMAIN s = StoredFields, s.cursor \in Nat, NEW top \in Nat, top <= s.cursor
  PROVE  Alike(s, MarkLive(s, top))
  <1> DEFINE m == Max({s.cursor, top})
  <1>1. m = s.cursor
    <2>1. s.cursor \in Int /\ top \in Int
      OBVIOUS
    <2>2. m \in {s.cursor, top} /\ m >= s.cursor
      BY <2>1, MaxOfTwo, Zenon
    <2> QED
      BY <2>2
  <1>2. \/ MarkLive(s, top) = s
        \/ MarkLive(s, top) = [s EXCEPT !.cursor = m, !.health = "live", !.connected = TRUE, !.attempts = 0]
    BY DEF MarkLive
  <1> HIDE DEF m
  <1> QED
    BY <1>1, <1>2 DEF Alike, Same, StoredFields

LEMMA SameWhole ==
  ASSUME NEW a, Whole(a), UNCHANGED <<log, scenario, nodes, callbacks, spent>>,
         Alike(stored, stored'), drain'.at = "idle"
  PROVE  Whole(a)'
  <1>1. /\ stored'.cursor = stored.cursor /\ stored'.mapping = stored.mapping
        /\ stored'.owners = stored.owners /\ stored'.started = stored.started
        /\ stored'.receipts = stored.receipts /\ stored'.intents = stored.intents
    BY DEF Alike, Same
  <1>2. \A k : Tree(k)' = Tree(k)
    BY TreeSame
  <1>3. \A b : Shows(b)' = Shows(b)
    BY <1>1 DEF Shows
  <1>4. HistoryInv'
    BY <1>2 DEF Whole, HistoryInv
  <1>5. SceneInv' /\ ReceiptInv'
    BY <1>1 DEF Whole, SceneInv, ReceiptInv
  <1>6. CallbackInv(a)'
    BY <1>1 DEF Whole, CallbackInv, Proves, IsSeq
  <1>7. TaskInv(a)'
    BY <1>1, <1>3 DEF Whole, TaskInv, EffectInv, Expects, Now, CreateBy, DeleteOp, Remaining
  <1>8. StartedInv(a)'
    BY <1>1 DEF Whole, StartedInv, DeleteOp, Event
  <1>9. TreeInv(a)'
    BY <1>1, <1>2, <1>3 DEF Whole, TreeInv, Orphan, MapInv, NoStray, LevelInv, Reach, DeleteOp
  <1>10. ExactInv(a)'
    BY <1>1, <1>2, <1>3 DEF Whole, ExactInv, Ahead
  <1> QED
    BY <1>4, <1>5, <1>6, <1>7, <1>8, <1>9, <1>10 DEF Whole

(* Between its effects a task can be replaced by another that knows its    *)
(* event.                                                                  *)
SoftSteps == {"idle", "fetch", "admit", "defer", "end", "resolve", "clear", "failed"}

LEMMA SoftWhole ==
  ASSUME NEW a, NEW x, Whole(a), a.step \in SoftSteps, x.step \in SoftSteps, TaskInv(x)
  PROVE  Whole(x)
  <1>1. CallbackInv(x)
    BY DEF Whole, CallbackInv, SoftSteps
  <1>2. StartedInv(x)
    BY DEF Whole, StartedInv, SoftSteps, CreateSteps, DeleteSteps
  <1>3. Orphan(x) <=> Orphan(a)
    BY DEF Orphan, SoftSteps, CreateSteps
  <1>4. TreeInv(x)
    BY <1>3 DEF Whole, TreeInv, NoStray, SoftSteps
  <1>5. ExactInv(x)
    BY DEF Whole, ExactInv, Ahead, SoftSteps
  <1> QED
    BY <1>1, <1>2, <1>4, <1>5 DEF Whole

LEMMA SoftStep ==
  ASSUME NEW a, NEW x, Whole(a), UNCHANGED <<log, scenario, nodes, callbacks, spent>>,
         Alike(stored, stored'), drain'.at = "idle",
         a.step \in SoftSteps, x.step \in SoftSteps, TaskInv(x)
  PROVE  Whole(x)'
  BY SoftWhole, SameWhole

LEMMA IdleKnows == TaskInv(Idle)
  BY DEF TaskInv, EffectInv, Idle, AtEvent, NextSteps, CreateSteps, DeleteSteps, ReceiptSteps, PlainSteps

(***************************************************************************)
(* A step of a task: from the record a to the record x.                    *)
(***************************************************************************)
Acts(t, a, x) ==
  /\ SyncInv /\ Whole(a)
  /\ t \in Tasks /\ a = tasks[t] /\ x = tasks'[t]
  /\ scenario' = scenario

LEMMA ActsFacts ==
  ASSUME NEW t, NEW a, NEW x, Acts(t, a, x)
  PROVE  /\ DOMAIN tasks = Tasks /\ DOMAIN a = TaskFields /\ TaskOK(a, Len(log))
         /\ DOMAIN stored = StoredFields /\ stored.cursor \in Nat /\ Len(log) \in Nat
         /\ \A step : At(t, step) <=> a.step = step
         /\ Cursor(t) = Head(a.todo) /\ EventOf(t) = Now(a) /\ CreateOp(t) = CreateBy(a)
         /\ drain' \in {drain, [drain EXCEPT !.on = TRUE]} => drain'.at = "idle"
         /\ drain.at = "idle"
  <1>1. DOMAIN tasks = Tasks /\ DOMAIN a = TaskFields /\ TaskOK(a, Len(log))
    BY DEF Acts, SyncInv, TasksOK, TaskOK
  <1>2. DOMAIN stored = StoredFields /\ stored.cursor \in Nat /\ Len(log) \in Nat
    BY DEF Acts, SyncInv, StoredOK, LogOK, IsSeq
  <1>3. /\ Cursor(t) = Head(a.todo) /\ EventOf(t) = Now(a) /\ CreateOp(t) = CreateBy(a)
        /\ \A step : At(t, step) <=> a.step = step
    BY DEF Acts, Cursor, EventOf, Now, CreateOp, CreateBy, At
  <1>4. drain.at = "idle" /\ DOMAIN drain = {"on", "at", "intent", "answer"}
    BY DEF Acts, Whole, SceneInv, SyncInv, DrainOK
  <1>5. drain' \in {drain, [drain EXCEPT !.on = TRUE]} => drain'.at = "idle"
    BY <1>4
  <1> QED
    BY <1>1, <1>2, <1>3, <1>4, <1>5

(* The event a task is at is one of the log.                               *)
LEMMA HeadOfLog ==
  ASSUME NEW t, NEW a, NEW x, Acts(t, a, x), a.step \in AtEvent
  PROVE  /\ a.todo # <<>> /\ a.todo \in Seq(Nat) /\ Len(a.todo) \in Nat /\ Len(a.todo) > 0
         /\ Head(a.todo) \in 1 .. Len(log) /\ Head(a.todo) = a.todo[1]
         /\ Len(log) \in Nat
  <1> DEFINE S == 1 .. Len(log)
             q == a.todo
  <1>1. q \in Seq(S) /\ q # <<>> /\ Len(log) \in Nat /\ S \subseteq Nat
    BY ActsFacts DEF TaskOK
  <1>2. q \in Seq(Nat)
    <2> HIDE DEF S, q
    <2> QED
      BY <1>1, SeqWiden
  <1>3. Head(q) \in S /\ Head(q) = q[1] /\ Len(q) \in Nat /\ Len(q) > 0
    <2> HIDE DEF S, q
    <2> QED
      BY <1>1
  <1> QED
    BY <1>1, <1>2, <1>3

(* What a task knows when it is done with an event.                        *)
LEMMA AfterKnown ==
  ASSUME NEW t, NEW a, NEW x, Acts(t, a, x), a.step \in AtEvent, NEW s, s.cursor \in Nat,
         a.mode # "live" => Head(a.todo) <= s.cursor + 1,
         NEW y, y = AfterEvent(a, s)
  PROVE  \/ y = Idle
         \/ a.mode = "rebuild" /\ y = [a EXCEPT !.step = "failed"]
         \/ /\ a.mode # "live" /\ y.mode = a.mode /\ y.step \in {"end", "admit"}
            /\ y.step = "end" => y.top <= s.cursor
            /\ y.step = "admit" => Remaining(y) /\ Head(y.todo) <= s.cursor + 1
  <1> DEFINE q == a.todo
             n == Len(q)
             new == [a EXCEPT !.todo = Tail(q), !.node = 0, !.step = IF n = 1 THEN "end" ELSE "admit"]
  <1>1. /\ q \in Seq(Nat) /\ n \in Nat /\ n > 0 /\ Head(q) = q[1] /\ DOMAIN a = TaskFields
        /\ a.top \in Nat /\ q[1] \in Nat
    BY ActsFacts, HeadOfLog DEF TaskOK
  <1>2. CASE a.mode # "live" /\ s.cursor >= Head(q) /\ y = new
    <2>1. \A k \in 1 .. n : q[k] = a.top - n + k
      BY <1>2 DEF Acts, Whole, TaskInv, Remaining
    <2>2. a.top <= Len(log)
      BY <1>2 DEF Acts, Whole, TaskInv, Remaining
    <2> DEFINE w == Tail(q)
    <2>3. Len(w) = n - 1 /\ \A k \in 1 .. n - 1 : w[k] = q[k + 1]
      <3> HIDE DEF q
      <3> QED
        BY <1>1
    <2>4. n # 1 => Head(w) = w[1]
      <3>1. w \in Seq(Nat) /\ Len(w) = n - 1
        <4> HIDE DEF q
        <4> QED
          BY <1>1
      <3>2. n # 1 => w # <<>>
        BY <1>1, SeqTail
      <3> HIDE DEF w
      <3> QED
        BY <3>1, <3>2
    <2>9. n \in Nat /\ n > 0 /\ Head(q) = q[1] /\ a.top \in Nat
      BY <1>1
    <2>10. s.cursor \in Nat /\ s.cursor >= Head(q)
      BY <1>2
    <2> HIDE DEF w, q, n
    <2>5. /\ y.mode = a.mode /\ y.top = a.top /\ y.todo = w
          /\ y.step = IF n = 1 THEN "end" ELSE "admit"
      BY <1>1, <1>2 DEF TaskFields, w
    <2>6. n = 1 => a.top <= s.cursor
      BY <2>1, <2>9, <2>10
    <2>7. n # 1 => Head(w) <= s.cursor + 1
      <3> SUFFICES ASSUME n # 1 PROVE Head(w) <= s.cursor + 1
        OBVIOUS
      <3>1. w[1] = q[2]
        BY <2>3, <2>9
      <3>2. q[2] = a.top - n + 2 /\ q[1] = a.top - n + 1
        BY <2>1, <2>9
      <3> QED
        BY <2>4, <2>9, <2>10, <3>1, <3>2
    <2>8. n # 1 => Remaining(y)
      <3> SUFFICES ASSUME n # 1, NEW k \in 1 .. n - 1 PROVE w[k] = a.top - (n - 1) + k
        BY <2>2, <2>3, <2>5 DEF Remaining
      <3>1. w[k] = q[k + 1] /\ k + 1 \in 1 .. n
        BY <2>3, <2>9
      <3>2. q[k + 1] = a.top - n + (k + 1)
        BY <2>1, <3>1
      <3> QED
        BY <2>9, <3>1, <3>2
    <2> QED
      BY <1>2, <2>5, <2>6, <2>7, <2>8
  <1>3. y = Idle \/ (a.mode = "rebuild" /\ y = [a EXCEPT !.step = "failed"])
        \/ (a.mode # "live" /\ s.cursor >= Head(q) /\ y = new)
    BY DEF AfterEvent
  <1> QED
    BY <1>2, <1>3

(* In the scenario of a rebuild a task that fails has nothing begun.       *)
LEMMA SkipKnows ==
  ASSUME NEW t, NEW a, NEW x, Acts(t, a, x), a.step \in {"admit", "defer"}, NEW s, s.cursor = stored.cursor,
         x = AfterEvent(a, s)
  PROVE  x.step \in SoftSteps /\ TaskInv(x)
  <1>1. a.step \in AtEvent /\ s.cursor \in Nat /\ (a.mode # "live" => Head(a.todo) <= s.cursor + 1)
    BY ActsFacts DEF AtEvent, Acts, Whole, TaskInv
  <1>2. CASE x = Idle
    BY <1>2, IdleKnows DEF SoftSteps, Idle
  <1>3. CASE a.mode = "rebuild" /\ x = [a EXCEPT !.step = "failed"]
    <2>1. x.step = "failed" /\ x.mode = a.mode
      BY <1>3, ActsFacts DEF TaskFields
    <2>2. scenario = "rebuild" /\ stored.receipts = {} /\ spent.evictions = 0
      BY <1>3 DEF Acts, Whole, TaskInv, SceneInv
    <2>3. stored.started = {}
      BY <2>2 DEF Acts, Whole, StartedInv, CreateSteps, DeleteSteps
    <2> QED
      BY <2>1, <2>2, <2>3
      DEF TaskInv, EffectInv, SoftSteps, AtEvent, NextSteps, CreateSteps, DeleteSteps, ReceiptSteps, PlainSteps
  <1>4. CASE /\ a.mode # "live" /\ x.mode = a.mode /\ x.step \in {"end", "admit"}
             /\ x.step = "end" => x.top <= s.cursor
             /\ x.step = "admit" => Remaining(x) /\ Head(x.todo) <= s.cursor + 1
    <2>1. x.mode = "rebuild" => scenario = "rebuild"
      BY <1>4 DEF Acts, Whole, TaskInv
    <2> QED
      BY <1>4, <2>1
      DEF TaskInv, EffectInv, SoftSteps, AtEvent, NextSteps, CreateSteps, DeleteSteps, ReceiptSteps, PlainSteps
  <1> QED
    BY <1>1, <1>2, <1>3, <1>4, AfterKnown

LEMMA LinkKeeps ==
  ASSUME SyncInv, NEW a, Whole(a), scenario' = scenario,
         \/ Connect \/ ConnectFails \/ Close \/ DrainDone
         \/ \E t \in Tasks : tasks' = tasks /\ (OnAck(t) \/ Retry(t))
  PROVE  Whole(a)'
  <1>1. DOMAIN stored = StoredFields /\ stored.cursor \in Nat /\ drain.at = "idle"
        /\ DOMAIN drain = {"on", "at", "intent", "answer"}
    BY DEF SyncInv, StoredOK, DrainOK, Whole, SceneInv
  <1> DEFINE z == [stored EXCEPT !.connected = TRUE]
  <1>2. DOMAIN z = StoredFields /\ z.cursor \in Nat /\ Alike(stored, z)
    BY <1>1 DEF StoredFields, Alike, Same
  <1>3. /\ UNCHANGED <<log, nodes, callbacks, spent>>
        /\ drain' \in {drain, [drain EXCEPT !.on = TRUE], Resting}
        /\ \/ stored' \in {stored, EnterRecovery(stored), z, MarkLive(z, 0)}
           \/ \E h : stored' = Resync(z, h)
           \/ stored' = [stored EXCEPT !.repair = "rebuild"]
           \/ stored' = [stored EXCEPT !.paused = FALSE, !.ambiguous = FALSE]
    BY DEF Connect, ConnectFails, Close, DrainDone, OnAck, Retry, server, chrome
  <1> HIDE DEF z
  <1>4. drain'.at = "idle"
    BY <1>1, <1>3 DEF Resting
  <1>5. \A y : Alike(z, y) => Alike(stored, y)
    BY <1>2 DEF Alike, Same
  <1>6. Alike(stored, stored')
    <2>1. CASE stored' \in {stored, EnterRecovery(stored), z}
      BY <1>1, <1>2, <2>1, HelpersAlike
    <2>2. CASE stored' = MarkLive(z, 0)
      <3>1. 0 \in Nat /\ 0 <= z.cursor
        BY <1>2
      <3> QED
        BY <1>2, <1>5, <2>2, <3>1, MarkAlike
    <2>3. CASE \E h : stored' = Resync(z, h)
      BY <1>2, <1>5, <2>3, HelpersAlike
    <2>4. CASE \/ stored' = [stored EXCEPT !.repair = "rebuild"]
               \/ stored' = [stored EXCEPT !.paused = FALSE, !.ambiguous = FALSE]
      BY <1>1, <2>4 DEF Alike, Same, StoredFields
    <2> QED
      BY <1>3, <2>1, <2>2, <2>3, <2>4
  <1> QED
    BY <1>3, <1>4, <1>6, SameWhole

(* A task that is begun knows no event yet.                                *)
LEMMA BegunKeeps ==
  ASSUME NEW t, NEW a, NEW x, Acts(t, a, x), a = Idle, x # Idle,
         OnAck(t) \/ Retry(t) \/ \E i \in incoming : Receive(t, i)
  PROVE  Whole(x)'
  <1>1. /\ DOMAIN stored = StoredFields /\ DOMAIN tasks = Tasks
        /\ drain' \in {drain, [drain EXCEPT !.on = TRUE]} => drain'.at = "idle"
    BY ActsFacts
  <1>2. t \in Tasks /\ a = tasks[t] /\ x = tasks'[t] /\ Whole(a) /\ scenario' = scenario
    BY DEF Acts
  <1>3. /\ UNCHANGED <<log, nodes, callbacks, spent>> /\ drain' \in {drain, [drain EXCEPT !.on = TRUE]}
        /\ Alike(stored, stored')
        /\ \/ x = [Idle EXCEPT !.mode = "replay", !.step = "fetch"]
           \/ \E i : x = [Idle EXCEPT !.mode = "live", !.step = "admit", !.todo = <<i>>]
    <2>1. CASE OnAck(t)
      <3>1. Start(t, "replay", "fetch") /\ stored' = [stored EXCEPT !.connected = TRUE] /\ UNCHANGED drain
        BY <1>2, <2>1 DEF OnAck
      <3> QED
        BY <1>1, <1>2, <2>1, <3>1 DEF OnAck, Start, server, chrome, Alike, Same, StoredFields
    <2>2. CASE Retry(t)
      <3>1. /\ Start(t, "replay", "fetch")
            /\ stored' = [stored EXCEPT !.paused = FALSE, !.ambiguous = FALSE] /\ UNCHANGED drain
        BY <1>2, <2>2 DEF Retry
      <3> QED
        BY <1>1, <1>2, <2>2, <3>1 DEF Retry, Start, server, chrome, Alike, Same, StoredFields
    <2>3. CASE \E i \in incoming : Receive(t, i)
      BY <1>1, <1>2, <2>3, HelpersAlike DEF Receive, server, chrome
    <2> QED
      BY <2>1, <2>2, <2>3
  <1>4. x.step \in SoftSteps /\ x.mode # "rebuild" /\ (x.step = "fetch" \/ (x.step = "admit" /\ x.mode = "live"))
    BY <1>3 DEF Idle, SoftSteps
  <1>5. TaskInv(x)
    BY <1>4 DEF TaskInv, EffectInv, AtEvent, NextSteps, CreateSteps, DeleteSteps, ReceiptSteps, PlainSteps
  <1>6. a.step \in SoftSteps
    BY DEF SoftSteps, Idle
  <1> QED
    BY <1>1, <1>2, <1>3, <1>4, <1>5, <1>6, SoftStep

(* The guards before an event, and what follows it if it is left out.      *)
LEMMA GuardsKeep ==
  ASSUME NEW t, NEW a, NEW x, Acts(t, a, x), Skip(t) \/ Defer(t) \/ RecoverGap(t) \/ Admit(t)
  PROVE  Whole(x)'
  <1>1. /\ DOMAIN stored = StoredFields /\ DOMAIN tasks = Tasks /\ DOMAIN a = TaskFields
        /\ stored.cursor \in Nat /\ drain.at = "idle"
        /\ Cursor(t) = Head(a.todo)
        /\ \A step : At(t, step) <=> a.step = step
    BY ActsFacts
  <1>2. t \in Tasks /\ a = tasks[t] /\ x = tasks'[t] /\ Whole(a) /\ scenario' = scenario
    BY DEF Acts
  <1>3. /\ UNCHANGED <<log, nodes, callbacks, spent>> /\ drain' = drain
        /\ a.step \in {"admit", "defer"} /\ a.step \in SoftSteps
    BY <1>1 DEF Skip, Defer, RecoverGap, Admit, server, chrome, SoftSteps
  <1>4. Alike(stored, stored')
    BY <1>1, HelpersAlike DEF Skip, Defer, RecoverGap, Admit, Proceed
  <1>5. x.step \in SoftSteps /\ TaskInv(x)
    <2>1. CASE Skip(t) \/ Defer(t)
      <3>1. x = AfterEvent(a, stored')
        BY <1>1, <1>2, <2>1 DEF Skip, Defer, Proceed
      <3>2. stored'.cursor = stored.cursor
        BY <1>4 DEF Alike, Same
      <3> QED
        BY <1>3, <3>1, <3>2, SkipKnows
    <2>2. CASE RecoverGap(t)
      <3>1. x = Idle \/ x = [Idle EXCEPT !.mode = "gap", !.step = "fetch"]
        BY <1>1, <1>2, <2>2 DEF RecoverGap, Start
      <3>2. CASE x = Idle
        BY <3>2, IdleKnows DEF Idle, SoftSteps
      <3>3. CASE x = [Idle EXCEPT !.mode = "gap", !.step = "fetch"]
        <4>1. x.step = "fetch" /\ x.mode = "gap"
          BY <3>3 DEF Idle
        <4> QED
          BY <4>1
          DEF TaskInv, EffectInv, SoftSteps, AtEvent, NextSteps, CreateSteps, DeleteSteps, ReceiptSteps, PlainSteps
      <3> QED
        BY <3>1, <3>2, <3>3
    <2>3. CASE Admit(t)
      <3>1. a.step = "admit" /\ ~ Passed(t) /\ ~ Held(t) /\ ~ Gap(t)
        BY <1>1, <2>3 DEF Admit
      <3>2. /\ x.step = "resolve" /\ x.mode = a.mode /\ x.todo = a.todo /\ x.top = a.top
        BY <1>1, <1>2, <2>3 DEF Admit, Goto, TaskFields
      <3>3. stored.receipts = {} /\ stored.started = {}
        BY <3>1 DEF Held, Blocked
      <3>4. Head(a.todo) = stored.cursor + 1
        <4>1. Head(a.todo) \in Nat
          BY <3>1, HeadOfLog DEF AtEvent
        <4>2. stored.cursor > 0
          BY <1>1, <1>2 DEF Whole, SceneInv, HistoryInv
        <4>3. CASE a.mode = "live"
          BY <1>1, <1>2, <3>1, <4>2, <4>3 DEF Gap
        <4>4. CASE a.mode # "live"
          <5>1. Head(a.todo) <= stored.cursor + 1
            BY <1>2, <3>1, <4>4 DEF Whole, TaskInv, AtEvent
          <5>2. ~ (Head(a.todo) <= stored.cursor)
            BY <1>1, <3>1 DEF Passed
          <5> QED
            BY <1>1, <4>1, <5>1, <5>2
        <4> QED
          BY <4>3, <4>4
      <3>5. a.mode # "live" => Remaining(a)
        BY <1>2, <3>1 DEF Whole, TaskInv, AtEvent
      <3>6. x.mode # "live" => Remaining(x)
        BY <3>2, <3>5 DEF Remaining
      <3>7. x.mode = "rebuild" => scenario = "rebuild"
        BY <1>2, <3>2 DEF Whole, TaskInv
      <3>8. Head(x.todo) <= stored.cursor + 1
        BY <1>1, <3>2, <3>4
      <3> QED
        BY <3>2, <3>3, <3>4, <3>6, <3>7, <3>8
        DEF TaskInv, EffectInv, SoftSteps, AtEvent, NextSteps, CreateSteps, DeleteSteps, ReceiptSteps, PlainSteps
    <2> QED
      BY <2>1, <2>2, <2>3
  <1> QED
    BY <1>1, <1>2, <1>3, <1>4, <1>5, SoftStep

(* What a replay fetches are the events from the cursor on.                *)
LEMMA PendingRemains ==
  ASSUME NEW from \in Nat, Len(log) \in Nat, Len(log) > from
  PROVE  LET q == Pending(from) IN
         /\ Head(q) = from + 1 /\ Len(q) = Len(log) - from
         /\ \A k \in 1 .. Len(q) : q[k] = Len(log) - Len(q) + k
  <1> DEFINE n == Len(log)
             m == n - from
             q == [k \in 1 .. m |-> from + k]
  <1>1. n \in Nat /\ n > from
    OBVIOUS
  <1> HIDE DEF n
  <1>2. m \in Nat /\ m > 0 /\ n - m = from
    BY <1>1
  <1> HIDE DEF m
  <1>3. q \in [1 .. m -> Nat] /\ q \in Seq(Nat)
    BY <1>2
  <1>4. Len(q) = m /\ \A k \in 1 .. m : q[k] = from + k
    BY <1>2, <1>3
  <1>5. q[1] = from + 1 /\ 1 \in DOMAIN q
    BY <1>2
  <1> HIDE DEF q
  <1>6. Head(q) = q[1]
    BY <1>2, <1>3, <1>4
  <1>7. \A k \in 1 .. Len(q) : q[k] = n - Len(q) + k
    BY <1>2, <1>4
  <1>8. q = Pending(from)
    BY DEF Pending, q, m, n
  <1> QED
    BY <1>4, <1>5, <1>6, <1>7, <1>8 DEF m, n

LEMMA FetchKnows ==
  ASSUME NEW t, NEW a, NEW x, Acts(t, a, x), a.mode = "rebuild" => scenario = "rebuild",
         x = [a EXCEPT !.todo = Pending(stored.cursor), !.top = Len(log),
                       !.step = IF Len(log) > stored.cursor THEN "admit" ELSE "end"]
  PROVE  x.step \in {"admit", "end"} /\ TaskInv(x)
  <1>1. DOMAIN a = TaskFields /\ stored.cursor \in Nat /\ Len(log) \in Nat
    BY ActsFacts
  <1> DEFINE q == Pending(stored.cursor)
  <1>2. /\ x.todo = q /\ x.top = Len(log) /\ x.mode = a.mode
        /\ x.step = IF Len(log) > stored.cursor THEN "admit" ELSE "end"
    BY <1>1 DEF TaskFields
  <1>3. CASE Len(log) > stored.cursor
    <2>1. /\ Head(q) = stored.cursor + 1
          /\ \A k \in 1 .. Len(q) : q[k] = Len(log) - Len(q) + k
      BY <1>1, <1>3, PendingRemains
    <2> HIDE DEF q
    <2>2. Remaining(x) /\ Head(x.todo) <= stored.cursor + 1
      BY <1>1, <1>2, <2>1 DEF Remaining
    <2>3. x.step = "admit"
      BY <1>2, <1>3
    <2> QED
      BY <1>2, <2>2, <2>3
      DEF TaskInv, EffectInv, AtEvent, NextSteps, CreateSteps, DeleteSteps, ReceiptSteps, PlainSteps
  <1>4. CASE ~ (Len(log) > stored.cursor)
    <2>1. x.step = "end" /\ x.top <= stored.cursor
      BY <1>1, <1>2, <1>4
    <2> QED
      BY <1>2, <2>1
      DEF TaskInv, EffectInv, AtEvent, NextSteps, CreateSteps, DeleteSteps, ReceiptSteps, PlainSteps
  <1> QED
    BY <1>3, <1>4

(* A replay or a rebuild that ends or fails moves the cursor nowhere: what *)
(* it has replayed was checkpointed event by event.                        *)
LEMMA ReplaysKeep ==
  ASSUME NEW t, NEW a, NEW x, Acts(t, a, x),
         Fetch(t) \/ FetchFails(t) \/ EndReplay(t) \/ EndRebuild(t) \/ RebuildFails(t)
  PROVE  Whole(x)'
  <1>1. /\ DOMAIN stored = StoredFields /\ DOMAIN tasks = Tasks /\ DOMAIN a = TaskFields
        /\ stored.cursor \in Nat /\ a.top \in Nat
        /\ drain' \in {drain, [drain EXCEPT !.on = TRUE]} => drain'.at = "idle"
        /\ \A step : At(t, step) <=> a.step = step
    BY ActsFacts DEF TaskOK
  <1>2. t \in Tasks /\ a = tasks[t] /\ x = tasks'[t] /\ Whole(a) /\ scenario' = scenario
    BY DEF Acts
  <1>3. /\ UNCHANGED <<log, nodes, callbacks, spent>> /\ drain' \in {drain, [drain EXCEPT !.on = TRUE]}
        /\ a.step \in {"fetch", "end", "failed", "clear"} /\ a.step \in SoftSteps
    BY <1>1 DEF Fetch, FetchFails, EndReplay, EndRebuild, RebuildFails, server, chrome, SoftSteps
  <1>4. CASE Fetch(t)
    <2>1. x = [a EXCEPT !.todo = Pending(stored.cursor), !.top = Len(log),
                        !.step = IF Len(log) > stored.cursor THEN "admit" ELSE "end"]
      BY <1>1, <1>2, <1>4 DEF Fetch
    <2>2. a.mode = "rebuild" => scenario = "rebuild"
      BY <1>2 DEF Whole, TaskInv
    <2>3. x.step \in SoftSteps /\ TaskInv(x)
      BY <2>1, <2>2, FetchKnows DEF SoftSteps
    <2>4. Alike(stored, stored')
      BY <1>1, <1>4, HelpersAlike DEF Fetch
    <2> QED
      BY <1>1, <1>2, <1>3, <2>3, <2>4, SoftStep
  <1>5. CASE FetchFails(t) \/ EndReplay(t) \/ EndRebuild(t) \/ RebuildFails(t)
    <2>1. x = Idle
      BY <1>1, <1>2, <1>5 DEF FetchFails, EndReplay, EndRebuild, RebuildFails
    <2>2. x.step \in SoftSteps /\ TaskInv(x)
      BY <2>1, IdleKnows DEF SoftSteps, Idle
    <2>3. CASE FetchFails(t) \/ RebuildFails(t)
      <3>1. Alike(stored, stored')
        BY <1>1, <2>3, HelpersAlike DEF FetchFails, RebuildFails
      <3> QED
        BY <1>1, <1>2, <1>3, <2>2, <3>1, SoftStep
    <2>4. CASE EndReplay(t) \/ EndRebuild(t)
      <3>1. a.top <= stored.cursor
        BY <1>1, <1>2, <2>4 DEF EndReplay, EndRebuild, Whole, TaskInv
      <3> DEFINE m == Max({stored.cursor, a.top})
      <3>2. m = stored.cursor
        <4>1. stored.cursor \in Int /\ a.top \in Int
          BY <1>1
        <4>2. m \in {stored.cursor, a.top} /\ m >= stored.cursor
          BY <4>1, MaxOfTwo, Zenon
        <4> QED
          BY <1>1, <3>1, <4>2
      <3>3. CASE EndReplay(t)
        <4>1. stored' = MarkLive(stored, a.top)
          BY <1>2, <3>3 DEF EndReplay
        <4>2. Alike(stored, stored')
          BY <1>1, <3>1, <4>1, MarkAlike
        <4> QED
          BY <1>1, <1>2, <1>3, <2>2, <4>2, SoftStep
      <3>4. CASE EndRebuild(t)
        <4>1. \E h, n : stored' = [stored EXCEPT !.cursor = m, !.paused = FALSE, !.ambiguous = FALSE,
                                                 !.health = h, !.attempts = n]
          BY <1>2, <3>4 DEF EndRebuild
        <4> HIDE DEF m
        <4>2. Alike(stored, stored')
          BY <1>1, <3>2, <4>1 DEF Alike, Same, StoredFields
        <4> QED
          BY <1>1, <1>2, <1>3, <2>2, <4>2, SoftStep
      <3> QED
        BY <2>4, <3>3, <3>4
    <2> QED
      BY <1>5, <2>3, <2>4
  <1> QED
    BY <1>4, <1>5

(***************************************************************************)
(* What the steps on an event share.                                       *)
(***************************************************************************)
LEMMA AtNext ==
  ASSUME NEW t, NEW a, NEW x, Acts(t, a, x), a.step \in NextSteps
  PROVE  LET c == stored.cursor
             e == Now(a) IN
         /\ c \in Nat /\ Len(log) \in Nat /\ c < Len(log) /\ First <= c /\ First \in Nat \ {0}
         /\ Head(a.todo) = c + 1 /\ e = log[c + 1]
         /\ e \in [bookmark : Bookmarks, shape : Shapes \cup {None}]
         /\ e.shape # None => e.shape.title \in TitlesOf[e.bookmark]
         /\ \A b \in Bookmarks :
              Tree(c + 1)[b] = IF e.bookmark = b THEN e.shape ELSE Tree(c)[b]
         /\ c + 1 \in c .. Reach
         /\ \A k \in c .. Reach : k \in Nat /\ k <= Len(log) /\ (spent.rebuilds = 0 => k \in {c, c + 1})
  <1> DEFINE c == stored.cursor
  <1>1. c \in Nat /\ Len(log) \in Nat /\ First <= c /\ First \in Nat \ {0} /\ Head(a.todo) = c + 1
    BY ActsFacts DEF Acts, Whole, SceneInv, HistoryInv, TaskInv
  <1>2. a.step \in AtEvent
    BY DEF AtEvent, NextSteps, CreateSteps, DeleteSteps, ReceiptSteps
  <1>3. c + 1 \in 1 .. Len(log) /\ c < Len(log)
    BY <1>1, <1>2, HeadOfLog
  <1>4. Now(a) = log[c + 1]
    BY <1>1 DEF Now
  <1>5. log[c + 1] \in [bookmark : Bookmarks, shape : Shapes \cup {None}]
    <2> DEFINE S == [bookmark : Bookmarks, shape : Shapes \cup {None}]
               d == c + 1
    <2>1. log \in Seq(S) /\ d \in 1 .. Len(log)
      BY <1>3 DEF Acts, Whole, HistoryInv
    <2> HIDE DEF S, d
    <2>2. log[d] \in S
      BY <2>1
    <2> QED
      BY <2>2 DEF S, d
  <1>6. log[c + 1].shape # None => log[c + 1].shape.title \in TitlesOf[log[c + 1].bookmark]
    BY <1>3 DEF Acts, Whole, HistoryInv
  <1>7. \A b \in Bookmarks :
          Tree(c + 1)[b] = IF log[c + 1].bookmark = b THEN log[c + 1].shape ELSE Tree(c)[b]
    BY <1>1, TreeNext
  <1>8. spent.rebuilds \in Nat
    BY DEF Acts, Whole, SceneInv
  <1>9. /\ c + 1 \in c .. Reach
        /\ \A k \in c .. Reach : k \in Nat /\ k <= Len(log) /\ (spent.rebuilds = 0 => k \in {c, c + 1})
    BY <1>1, <1>3, <1>8 DEF Reach
  <1> QED
    BY <1>1, <1>3, <1>4, <1>5, <1>6, <1>7, <1>9

LEMMA FrameKeeps ==
  ASSUME HistoryInv, SceneInv, UNCHANGED <<log, scenario, spent>>, drain'.at = "idle",
         stored'.intents = stored.intents, stored'.cursor \in Nat, stored'.cursor >= stored.cursor,
         stored'.cursor <= Len(log), scenario = "rebuild" => stored'.receipts = {}
  PROVE  HistoryInv' /\ SceneInv'
  <1>1. \A k : Tree(k)' = Tree(k)
    BY TreeSame
  <1>2. HistoryInv'
    BY <1>1 DEF HistoryInv
  <1>3. First \in Nat /\ stored.cursor \in Nat /\ First <= stored.cursor
    BY DEF SceneInv, HistoryInv
  <1>4. SceneInv'
    BY <1>3 DEF SceneInv
  <1> QED
    BY <1>2, <1>4

(* Without a receipt the callbacks are those of removals.                  *)
LEMMA RemovalsKeep ==
  ASSUME NEW a, NEW x, CallbackInv(a), stored.receipts = {}, callbacks' = callbacks,
         \A n \in DOMAIN nodes : n \in DOMAIN nodes' /\ (nodes[n] = None => nodes'[n] = None)
  PROVE  CallbackInv(x)'
  <1>1. \A k \in DOMAIN callbacks :
          /\ callbacks[k].kind = "removed" /\ callbacks[k].node \in DOMAIN nodes
          /\ nodes[callbacks[k].node] = None
    BY DEF CallbackInv
  <1>2. IsSeq(callbacks)'
    BY DEF CallbackInv, IsSeq
  <1> QED
    BY <1>1, <1>2 DEF CallbackInv

(* The bookmark of the event shows it; the others what they did.           *)
LEMMA EventShown ==
  ASSUME NEW t, NEW a, NEW x, Acts(t, a, x), a.step \in NextSteps, LevelInv,
         UNCHANGED <<log, spent>>, stored'.cursor = stored.cursor,
         \A b \in Bookmarks : Shows(b)' = IF b = Now(a).bookmark THEN Now(a).shape ELSE Shows(b)
  PROVE  LevelInv'
  <1> DEFINE c == stored.cursor
  <1>1. \A k : Tree(k)' = Tree(k)
    BY TreeSame
  <1>2. Reach' = Reach
    BY DEF Reach
  <1>3. c + 1 \in c .. Reach /\ Tree(c + 1)[Now(a).bookmark] = Now(a).shape
    BY AtNext
  <1>4. \A b \in Bookmarks : \E k \in c .. Reach : Shows(b)' = Tree(k)[b]
    BY <1>3 DEF LevelInv
  <1> QED
    BY <1>1, <1>2, <1>4 DEF LevelInv

(* The cursor moves over an event that is shown.                           *)
LEMMA CursorMoves ==
  ASSUME HistoryInv, SceneInv, LevelInv, UNCHANGED <<log, spent, nodes>>,
         NEW d, d = stored.cursor + 1, d <= Len(log), stored'.cursor = d,
         stored'.mapping = stored.mapping,
         Shows(log[d].bookmark) = log[d].shape
  PROVE  /\ LevelInv'
         /\ spent.rebuilds = 0 => \A b \in Bookmarks : Shows(b)' = Tree(d)'[b]
  <1> DEFINE c == stored.cursor
  <1>1. c \in Nat /\ spent.rebuilds \in Nat /\ Len(log) \in Nat
    BY DEF SceneInv, HistoryInv
  <1>2. \A k : Tree(k)' = Tree(k)
    BY TreeSame
  <1>3. \A b : Shows(b)' = Shows(b)
    BY DEF Shows
  <1>4. \A b \in Bookmarks :
          Tree(c + 1)[b] = IF log[c + 1].bookmark = b THEN log[c + 1].shape ELSE Tree(c)[b]
    BY <1>1, TreeNext
  <1>5. d \in d .. Reach' /\ \A k \in c .. Reach : k = c \/ k \in d .. Reach'
    BY <1>1 DEF Reach
  <1>6. ASSUME NEW b \in Bookmarks
        PROVE  \E k \in d .. Reach' : Shows(b) = Tree(k)[b]
    <2>1. CASE log[c + 1].bookmark = b
      BY <1>4, <1>5, <2>1
    <2>2. CASE log[c + 1].bookmark # b
      BY <1>4, <1>5, <2>2 DEF LevelInv
    <2> QED
      BY <2>1, <2>2
  <1>7. LevelInv'
    <2>1. \A b \in Bookmarks : \E k \in d .. Reach' : Shows(b)' = Tree(k)'[b]
      BY <1>2, <1>3, <1>6
    <2> QED
      BY <2>1 DEF LevelInv
  <1>8. ASSUME spent.rebuilds = 0, NEW b \in Bookmarks
        PROVE  Shows(b)' = Tree(d)'[b]
    <2>1. \A k \in c .. Reach : k \in {c, c + 1}
      BY <1>1, <1>8 DEF Reach
    <2>2. Shows(b) = Tree(c)[b] \/ Shows(b) = Tree(c + 1)[b]
      BY <2>1 DEF LevelInv
    <2>3. Shows(b) = Tree(c + 1)[b]
      BY <1>4, <2>2
    <2> QED
      BY <1>2, <1>3, <2>3
  <1> QED
    BY <1>7, <1>8

LEMMA GoesOn ==
  ASSUME NEW t, NEW a, NEW x, Acts(t, a, x), a.step \in NextSteps, UNCHANGED log,
         stored'.cursor = stored.cursor,
         x.mode = a.mode, x.todo = a.todo, x.top = a.top, x.step \in NextSteps \cup {"defer"},
         x.step \in CreateSteps \cup DeleteSteps \cup {"resolve", "checkpoint"} => stored'.receipts = {},
         x.step \in {"resolve", "checkpoint"} => stored'.started = {},
         EffectInv(x)'
  PROVE  TaskInv(x)'
  <1>1. Head(x.todo) = stored.cursor + 1 /\ stored.cursor \in Nat
    BY AtNext
  <1>2. scenario' = scenario /\ (x.mode = "rebuild" => scenario = "rebuild")
    BY DEF Acts, Whole, TaskInv
  <1>3. x.mode # "live" => Remaining(a)
    BY DEF Acts, Whole, TaskInv, AtEvent, NextSteps, CreateSteps, DeleteSteps, ReceiptSteps
  <1>4. x.mode # "live" => Remaining(x)'
    BY <1>3 DEF Remaining
  <1>5. x.step \notin {"idle", "end", "clear", "fill", "failed"}
    BY DEF NextSteps, CreateSteps, DeleteSteps, ReceiptSteps
  <1> QED
    BY <1>1, <1>2, <1>4, <1>5 DEF TaskInv, PlainSteps

(* The creation of a bookmark's node.                                      *)
LEMMA StartCreateKeeps ==
  ASSUME NEW t, NEW a, NEW x, Acts(t, a, x), StartCreate(t)
  PROVE  Whole(x)'
  <1>1. /\ DOMAIN stored = StoredFields /\ DOMAIN tasks = Tasks /\ DOMAIN a = TaskFields
        /\ drain.at = "idle" /\ CreateOp(t) = CreateBy(a) /\ EventOf(t) = Now(a)
        /\ \A step : At(t, step) <=> a.step = step
    BY ActsFacts
  <1>2. t \in Tasks /\ a = tasks[t] /\ x = tasks'[t] /\ Whole(a) /\ scenario' = scenario
    BY DEF Acts
  <1>3. /\ UNCHANGED <<log, nodes, callbacks, spent, drain>> /\ a.step = "resolve"
        /\ Now(a).shape # None /\ stored.mapping[Now(a).bookmark] = 0
        /\ x = [a EXCEPT !.step = "create"]
        /\ stored' = [stored EXCEPT !.started = @ \cup {CreateBy(a)}]
    BY <1>1, <1>2 DEF StartCreate, Upsert, MappedTo, Goto, server, chrome
  <1>4. stored.receipts = {} /\ stored.started = {} /\ a.step \in NextSteps
    BY <1>2, <1>3 DEF Whole, TaskInv, PlainSteps, NextSteps
  <1>5. /\ stored'.cursor = stored.cursor /\ stored'.mapping = stored.mapping
        /\ stored'.owners = stored.owners /\ stored'.started = {CreateBy(a)}
        /\ stored'.receipts = {} /\ stored'.intents = stored.intents
    BY <1>1, <1>3, <1>4 DEF StoredFields
  <1>6. x.step = "create" /\ x.mode = a.mode /\ x.todo = a.todo /\ x.top = a.top
    BY <1>1, <1>3 DEF TaskFields
  <1>7. HistoryInv' /\ SceneInv'
    BY <1>1, <1>2, <1>3, <1>5, FrameKeeps DEF Whole, SceneInv
  <1>8. ReceiptInv' /\ CallbackInv(x)'
    BY <1>2, <1>3, <1>4, <1>5, RemovalsKeep DEF Whole, ReceiptInv
  <1>9. TaskInv(x)'
    <2>1. Now(x)' = Now(a) /\ CreateBy(x)' = CreateBy(a)
      BY <1>3, <1>6 DEF Now, CreateBy
    <2>2. EffectInv(x)'
      BY <1>3, <1>5, <1>6, <2>1 DEF EffectInv, CreateSteps, DeleteSteps
    <2> QED
      BY <1>3, <1>4, <1>5, <1>6, <2>2, GoesOn DEF NextSteps, CreateSteps
  <1>10. StartedInv(x)'
    BY <1>5, <1>6 DEF StartedInv, CreateBy, CreateSteps
  <1>11. TreeInv(x)'
    <2>1. ~ Orphan(a) /\ a.step # "fill" /\ MapInv /\ NoStray(a) /\ LevelInv
      BY <1>2, <1>3, <1>4 DEF Whole, TreeInv, Orphan
    <2>2. MapInv'
      BY <1>3, <1>4, <1>5, <2>1 DEF MapInv, DeleteOp
    <2>3. NoStray(x)'
      BY <1>3, <1>5, <2>1 DEF NoStray
    <2>4. \A k : Tree(k)' = Tree(k)
      BY <1>3, TreeSame
    <2>5. LevelInv'
      BY <1>3, <1>5, <2>1, <2>4 DEF LevelInv, Shows, Reach
    <2> QED
      BY <2>2, <2>3, <2>5 DEF TreeInv
  <1>12. ExactInv(x)'
    BY <1>5 DEF ExactInv, Ahead
  <1> QED
    BY <1>7, <1>8, <1>9, <1>10, <1>11, <1>12 DEF Whole

LEMMA CreateNodeKeeps ==
  ASSUME NEW t, NEW a, NEW x, Acts(t, a, x), CreateNode(t)
  PROVE  Whole(x)'
  <1>1. /\ DOMAIN stored = StoredFields /\ DOMAIN tasks = Tasks /\ DOMAIN a = TaskFields
        /\ drain.at = "idle" /\ CreateOp(t) = CreateBy(a) /\ EventOf(t) = Now(a)
        /\ \A step : At(t, step) <=> a.step = step
    BY ActsFacts
  <1>2. t \in Tasks /\ a = tasks[t] /\ x = tasks'[t] /\ Whole(a) /\ scenario' = scenario
    BY DEF Acts
  <1>3. /\ UNCHANGED <<log, stored, callbacks, spent, drain>> /\ a.step = "create"
        /\ nodes' = Append(nodes, Now(a).shape)
        /\ x = [a EXCEPT !.step = "map", !.node = Len(nodes) + 1]
    BY <1>1, <1>2 DEF CreateNode, server, link
  <1>4. /\ stored.receipts = {} /\ stored.started = {CreateBy(a)} /\ a.step \in NextSteps
        /\ Now(a).shape # None /\ stored.mapping[Now(a).bookmark] = 0
    BY <1>2, <1>3 DEF Whole, TaskInv, EffectInv, CreateSteps, NextSteps
  <1>5. ~ Orphan(a) /\ a.step # "fill" /\ MapInv /\ NoStray(a) /\ LevelInv
    BY <1>2, <1>3 DEF Whole, TreeInv, Orphan, CreateSteps
  <1>6. /\ x.step = "map" /\ x.mode = a.mode /\ x.todo = a.todo /\ x.top = a.top
        /\ x.node = Len(nodes) + 1
    BY <1>1, <1>3 DEF TaskFields
  <1>7. Now(a).shape \in Shapes \cup {None}
    BY <1>4, AtNext
  <1>8. /\ nodes' \in Seq(Shapes \cup {None}) /\ Len(nodes) \in Nat
        /\ DOMAIN nodes = 1 .. Len(nodes) /\ DOMAIN nodes' = 1 .. Len(nodes) + 1
        /\ \A n \in 1 .. Len(nodes) : nodes'[n] = nodes[n]
        /\ nodes'[Len(nodes) + 1] = Now(a).shape
    <2> DEFINE S == Shapes \cup {None}
               e == Now(a).shape
    <2>1. nodes \in Seq(S) /\ e \in S
      BY <1>5, <1>7 DEF MapInv
    <2> HIDE DEF S, e
    <2>2. nodes' = Append(nodes, e)
      BY <1>3 DEF e
    <2>3. /\ nodes' \in Seq(S) /\ Len(nodes) \in Nat
          /\ DOMAIN nodes = 1 .. Len(nodes) /\ DOMAIN nodes' = 1 .. Len(nodes) + 1
          /\ \A n \in 1 .. Len(nodes) : nodes'[n] = nodes[n]
          /\ nodes'[Len(nodes) + 1] = e
      BY <2>1, <2>2
    <2> QED
      BY <2>3 DEF S, e
  <1>9. \A b \in Bookmarks : stored.mapping[b] # 0 => stored.mapping[b] \in DOMAIN nodes
    BY <1>5 DEF MapInv
  <1>10. \A b \in Bookmarks : Shows(b)' = Shows(b)
    BY <1>3, <1>8, <1>9 DEF Shows
  <1>11. HistoryInv' /\ SceneInv'
    BY <1>1, <1>2, <1>3, <1>4, FrameKeeps DEF Whole, SceneInv
  <1>12. ReceiptInv' /\ CallbackInv(x)'
    <2>1. \A n \in DOMAIN nodes : n \in DOMAIN nodes' /\ nodes'[n] = nodes[n]
      BY <1>8
    <2> QED
      BY <1>2, <1>3, <1>4, <2>1, RemovalsKeep DEF Whole, ReceiptInv
  <1>13. TaskInv(x)'
    <2>1. Now(x)' = Now(a) /\ CreateBy(x)' = CreateBy(a)
      BY <1>3, <1>6 DEF Now, CreateBy
    <2>2. x.node \in DOMAIN nodes' /\ nodes'[x.node] = Now(a).shape
      BY <1>6, <1>8
    <2>3. \A b \in Bookmarks : stored.mapping[b] # x.node
      BY <1>6, <1>8, <1>9
    <2>4. EffectInv(x)'
      BY <1>3, <1>4, <1>6, <2>1, <2>2, <2>3 DEF EffectInv, CreateSteps, DeleteSteps
    <2> QED
      BY <1>3, <1>4, <1>6, <2>4, GoesOn DEF NextSteps, CreateSteps
  <1>14. StartedInv(x)'
    BY <1>3, <1>4, <1>6 DEF StartedInv, CreateBy, CreateSteps
  <1>15. TreeInv(x)'
    <2>1. MapInv'
      BY <1>3, <1>5, <1>8 DEF MapInv, DeleteOp
    <2>2. NoStray(x)'
      BY <1>3, <1>5, <1>6, <1>8 DEF NoStray
    <2>3. \A k : Tree(k)' = Tree(k)
      BY <1>3, TreeSame
    <2>4. LevelInv'
      BY <1>3, <1>5, <1>10, <2>3 DEF LevelInv, Reach
    <2> QED
      BY <2>1, <2>2, <2>4 DEF TreeInv
  <1>16. ExactInv(x)'
    BY <1>3, <1>4 DEF ExactInv, Ahead
  <1> QED
    BY <1>11, <1>12, <1>13, <1>14, <1>15, <1>16 DEF Whole

LEMMA MapNodeKeeps ==
  ASSUME NEW t, NEW a, NEW x, Acts(t, a, x), MapNode(t)
  PROVE  Whole(x)'
  <1> DEFINE bk == Now(a).bookmark
  <1>1. /\ DOMAIN stored = StoredFields /\ DOMAIN tasks = Tasks /\ DOMAIN a = TaskFields
        /\ drain.at = "idle" /\ CreateOp(t) = CreateBy(a) /\ EventOf(t) = Now(a)
        /\ \A step : At(t, step) <=> a.step = step
    BY ActsFacts
  <1>2. t \in Tasks /\ a = tasks[t] /\ x = tasks'[t] /\ Whole(a) /\ scenario' = scenario
    BY DEF Acts
  <1>3. /\ UNCHANGED <<log, nodes, callbacks, spent, drain>> /\ a.step = "map"
        /\ stored' = SetMapping(stored, bk, a.node)
        /\ x = [a EXCEPT !.step = "created"]
    BY <1>1, <1>2 DEF MapNode, Goto, server, chrome
  <1>4. /\ stored.receipts = {} /\ stored.started = {CreateBy(a)} /\ a.step \in NextSteps
        /\ Now(a).shape # None /\ stored.mapping[bk] = 0
        /\ a.node \in DOMAIN nodes /\ nodes[a.node] = Now(a).shape
        /\ \A b \in Bookmarks : stored.mapping[b] # a.node
    BY <1>2, <1>3 DEF Whole, TaskInv, EffectInv, CreateSteps, NextSteps
  <1>5. ~ Orphan(a) /\ a.step # "fill" /\ MapInv /\ NoStray(a) /\ LevelInv
    BY <1>2, <1>3 DEF Whole, TreeInv, Orphan, CreateSteps
  <1>6. /\ x.step = "created" /\ x.mode = a.mode /\ x.todo = a.todo /\ x.top = a.top
        /\ x.node = a.node
    BY <1>1, <1>3 DEF TaskFields
  <1>7. bk \in Bookmarks /\ a.node \in Nat /\ a.node # 0
    <2>1. bk \in Bookmarks
      BY <1>4, AtNext
    <2>2. DOMAIN nodes = 1 .. Len(nodes) /\ Len(nodes) \in Nat
      BY <1>5 DEF MapInv
    <2> QED
      BY <1>4, <2>1, <2>2
  <1>8. /\ stored'.mapping = [stored.mapping EXCEPT ![bk] = a.node]
        /\ stored'.owners = {p \in stored.owners : p[1] # a.node} \cup {<<a.node, bk>>}
        /\ stored'.cursor = stored.cursor /\ stored'.started = {CreateBy(a)}
        /\ stored'.receipts = {} /\ stored'.intents = stored.intents
    BY <1>1, <1>3, <1>4 DEF SetMapping, StoredFields
  <1>9. /\ stored'.mapping \in [Bookmarks -> Nat] /\ stored'.mapping[bk] = a.node
        /\ \A b \in Bookmarks : b # bk => stored'.mapping[b] = stored.mapping[b]
    BY <1>5, <1>7, <1>8 DEF MapInv
  <1>10. \A b \in Bookmarks : Shows(b)' = IF b = bk THEN Now(a).shape ELSE Shows(b)
    BY <1>3, <1>4, <1>7, <1>9 DEF Shows
  <1>11. HistoryInv' /\ SceneInv'
    BY <1>1, <1>2, <1>3, <1>8, FrameKeeps DEF Whole, SceneInv
  <1>12. ReceiptInv' /\ CallbackInv(x)'
    BY <1>2, <1>3, <1>4, <1>8, RemovalsKeep DEF Whole, ReceiptInv
  <1>13. TaskInv(x)'
    <2>1. Now(x)' = Now(a) /\ CreateBy(x)' = CreateBy(a)
      BY <1>3, <1>6 DEF Now, CreateBy
    <2>2. EffectInv(x)'
      BY <1>3, <1>4, <1>6, <1>8, <1>9, <2>1 DEF EffectInv, CreateSteps, DeleteSteps
    <2> QED
      BY <1>3, <1>4, <1>6, <1>8, <2>2, GoesOn DEF NextSteps, CreateSteps
  <1>14. StartedInv(x)'
    BY <1>6, <1>8 DEF StartedInv, CreateBy, CreateSteps
  <1>15. MapInv'
    <2>1. stored'.owners = {p \in Nat \X Bookmarks : p[1] # 0 /\ stored'.mapping[p[2]] = p[1]}
      <3>1. stored.owners = {p \in Nat \X Bookmarks : p[1] # 0 /\ stored.mapping[p[2]] = p[1]}
        BY <1>5 DEF MapInv
      <3>2. \A n \in Nat, b \in Bookmarks :
              (<<n, b>> \in stored.owners /\ n # a.node) \/ <<n, b>> = <<a.node, bk>>
                <=> n # 0 /\ stored'.mapping[b] = n
        BY <1>4, <1>7, <1>9, <3>1
      <3>3. \A p \in Nat \X Bookmarks : p = <<p[1], p[2]>> /\ p[1] \in Nat /\ p[2] \in Bookmarks
        OBVIOUS
      <3>4. PICK o : o = stored'.owners
        OBVIOUS
      <3>5. o = {p \in stored.owners : p[1] # a.node} \cup {<<a.node, bk>>}
        BY <1>8, <3>4
      <3>6. o \subseteq Nat \X Bookmarks
        BY <1>7, <3>1, <3>5
      <3>7. \A n \in Nat, b \in Bookmarks : <<n, b>> \in o <=> n # 0 /\ stored'.mapping[b] = n
        BY <3>2, <3>5
      <3>8. o = {p \in Nat \X Bookmarks : p[1] # 0 /\ stored'.mapping[p[2]] = p[1]}
        BY <3>3, <3>6, <3>7
      <3> QED
        BY <3>4, <3>8
    <2>2. \A b \in Bookmarks : stored'.mapping[b] # 0 =>
            /\ stored'.mapping[b] \in DOMAIN nodes
            /\ nodes[stored'.mapping[b]] # None \/ DeleteOp(b, stored'.mapping[b]) \in stored'.started
            /\ \A c \in Bookmarks : stored'.mapping[b] = stored'.mapping[c] => b = c
      <3>1. \A b, n : DeleteOp(b, n) \notin stored.started
        BY <1>4 DEF DeleteOp, CreateBy
      <3>2. \A b \in Bookmarks : stored.mapping[b] # 0 =>
              /\ stored.mapping[b] \in DOMAIN nodes /\ nodes[stored.mapping[b]] # None
              /\ \A c \in Bookmarks : stored.mapping[b] = stored.mapping[c] => b = c
        BY <1>5, <3>1 DEF MapInv
      <3>3. \A b \in Bookmarks : stored'.mapping[b] # 0 =>
              stored'.mapping[b] \in DOMAIN nodes /\ nodes[stored'.mapping[b]] # None
        BY <1>4, <1>9, <3>2
      <3>4. \A b, c \in Bookmarks :
              stored'.mapping[b] # 0 /\ stored'.mapping[b] = stored'.mapping[c] => b = c
        BY <1>4, <1>9, <3>2
      <3> QED
        BY <3>3, <3>4
    <2>3. \A b, n : DeleteOp(b, n)' = DeleteOp(b, n)
      BY DEF DeleteOp
    <2> QED
      BY <1>3, <1>5, <1>9, <2>1, <2>2 DEF MapInv, DeleteOp
  <1>16. TreeInv(x)'
    <2>1. NoStray(x)'
      <3> SUFFICES ASSUME NEW n \in DOMAIN nodes, nodes[n] # None
                   PROVE  \E b \in Bookmarks : stored'.mapping[b] = n
        BY <1>3, <1>6 DEF NoStray
      <3>1. CASE n = a.node
        BY <1>7, <1>9, <3>1
      <3>2. CASE n # a.node
        <4>1. PICK b \in Bookmarks : stored.mapping[b] = n
          BY <1>5, <3>2 DEF NoStray
        <4>2. n # 0
          BY <1>5 DEF MapInv
        <4>3. b # bk
          BY <1>4, <4>1, <4>2
        <4> QED
          BY <1>9, <4>1, <4>3
      <3> QED
        BY <3>1, <3>2
    <2>2. LevelInv'
      BY <1>3, <1>4, <1>5, <1>8, <1>10, EventShown
    <2> QED
      BY <1>15, <2>1, <2>2 DEF TreeInv
  <1>17. ExactInv(x)'
    BY <1>8 DEF ExactInv, Ahead
  <1> QED
    BY <1>11, <1>12, <1>13, <1>14, <1>16, <1>17 DEF Whole

LEMMA FinishCreateKeeps ==
  ASSUME NEW t, NEW a, NEW x, Acts(t, a, x), FinishCreate(t)
  PROVE  Whole(x)'
  <1> DEFINE bk == Now(a).bookmark
  <1>1. /\ DOMAIN stored = StoredFields /\ DOMAIN tasks = Tasks /\ DOMAIN a = TaskFields
        /\ drain.at = "idle" /\ CreateOp(t) = CreateBy(a) /\ EventOf(t) = Now(a)
        /\ \A step : At(t, step) <=> a.step = step
    BY ActsFacts
  <1>2. t \in Tasks /\ a = tasks[t] /\ x = tasks'[t] /\ Whole(a) /\ scenario' = scenario
    BY DEF Acts
  <1>3. /\ UNCHANGED <<log, nodes, callbacks, spent, drain>> /\ a.step = "created"
        /\ x = [a EXCEPT !.step = "checkpoint"]
    BY <1>1, <1>2 DEF FinishCreate, Goto, server, chrome
  <1>4. /\ stored.receipts = {} /\ stored.started = {CreateBy(a)} /\ a.step \in NextSteps
        /\ Now(a).shape # None /\ stored.mapping[bk] = a.node /\ nodes[a.node] = Now(a).shape
    BY <1>2, <1>3 DEF Whole, TaskInv, EffectInv, CreateSteps, NextSteps
  <1>5. ~ Orphan(a) /\ a.step # "fill" /\ MapInv /\ NoStray(a) /\ LevelInv
    BY <1>2, <1>3 DEF Whole, TreeInv, Orphan, CreateSteps
  <1>6. /\ x.step = "checkpoint" /\ x.mode = a.mode /\ x.todo = a.todo /\ x.top = a.top
    BY <1>1, <1>3 DEF TaskFields
  <1>7. stored' = Finish(stored, CreateBy(a))
    BY <1>1, <1>2, <1>4 DEF FinishCreate
  <1>8. /\ stored'.cursor = stored.cursor /\ stored'.mapping = stored.mapping
        /\ stored'.owners = stored.owners /\ stored'.started = {}
        /\ stored'.receipts = {} /\ stored'.intents = stored.intents
    BY <1>1, <1>4, <1>7 DEF Finish, StoredFields
  <1>9. \A b \in Bookmarks : Shows(b)' = Shows(b)
    BY <1>3, <1>8 DEF Shows
  <1>10. HistoryInv' /\ SceneInv'
    BY <1>1, <1>2, <1>3, <1>8, FrameKeeps DEF Whole, SceneInv
  <1>11. ReceiptInv' /\ CallbackInv(x)' /\ StartedInv(x)'
    BY <1>2, <1>3, <1>4, <1>8, RemovalsKeep DEF Whole, ReceiptInv, StartedInv
  <1>12. TaskInv(x)'
    <2>1. Now(x)' = Now(a)
      BY <1>3, <1>6 DEF Now
    <2>2. bk \in Bookmarks
      BY <1>4, AtNext
    <2>3. a.node # 0
      <3>1. DOMAIN nodes = 1 .. Len(nodes) /\ a.node \in DOMAIN nodes
        BY <1>2, <1>3, <1>5 DEF MapInv, Whole, TaskInv, EffectInv
      <3> QED
        BY <3>1
    <2>4. Shows(Now(x).bookmark)' = Now(a).shape
      BY <1>3, <1>4, <1>8, <2>1, <2>3 DEF Shows
    <2>5. EffectInv(x)'
      BY <1>6, <2>1, <2>4 DEF EffectInv, CreateSteps, DeleteSteps
    <2> QED
      BY <1>3, <1>4, <1>6, <1>8, <2>5, GoesOn DEF NextSteps, CreateSteps
  <1>13. TreeInv(x)'
    <2>1. MapInv'
      <3>1. \A b, n : DeleteOp(b, n) \notin {CreateBy(a)}
        BY DEF DeleteOp, CreateBy
      <3> QED
        BY <1>3, <1>4, <1>5, <1>8, <3>1 DEF MapInv, DeleteOp
    <2>2. NoStray(x)'
      BY <1>3, <1>5, <1>8 DEF NoStray
    <2>3. \A k : Tree(k)' = Tree(k)
      BY <1>3, TreeSame
    <2>4. LevelInv'
      BY <1>3, <1>5, <1>8, <1>9, <2>3 DEF LevelInv, Reach
    <2> QED
      BY <2>1, <2>2, <2>4 DEF TreeInv
  <1>14. ExactInv(x)'
    BY <1>6 DEF ExactInv, Ahead
  <1> QED
    BY <1>10, <1>11, <1>12, <1>13, <1>14 DEF Whole

(* The deletion of a bookmark's node.                                      *)
LEMMA AtResolve ==
  ASSUME NEW t, NEW a, NEW x, Acts(t, a, x), a.step = "resolve"
  PROVE  /\ a.step \in NextSteps /\ stored.receipts = {} /\ stored.started = {}
         /\ MapInv /\ NoStray(a) /\ LevelInv
         /\ \A b \in Bookmarks : stored.mapping[b] # 0 =>
              stored.mapping[b] \in DOMAIN nodes /\ nodes[stored.mapping[b]] # None
  <1>1. a.step \in NextSteps /\ stored.receipts = {} /\ stored.started = {}
    BY DEF Acts, Whole, TaskInv, PlainSteps, NextSteps
  <1>2. MapInv /\ NoStray(a) /\ LevelInv
    BY <1>1 DEF Acts, Whole, TreeInv, Orphan
  <1> QED
    BY <1>1, <1>2 DEF MapInv

LEMMA DeleteNothingKeeps ==
  ASSUME NEW t, NEW a, NEW x, Acts(t, a, x), DeleteNothing(t)
  PROVE  Whole(x)'
  <1> DEFINE bk == Now(a).bookmark
  <1>1. /\ DOMAIN stored = StoredFields /\ DOMAIN tasks = Tasks /\ DOMAIN a = TaskFields
        /\ drain.at = "idle" /\ EventOf(t) = Now(a)
        /\ \A step : At(t, step) <=> a.step = step
    BY ActsFacts
  <1>2. t \in Tasks /\ a = tasks[t] /\ x = tasks'[t] /\ Whole(a) /\ scenario' = scenario
    BY DEF Acts
  <1>3. /\ UNCHANGED <<log, nodes, callbacks, spent, drain>> /\ a.step = "resolve"
        /\ Now(a).shape = None /\ x = [a EXCEPT !.step = "checkpoint"]
    BY <1>1, <1>2 DEF DeleteNothing, Upsert, Goto, server, chrome
  <1>4. /\ a.step \in NextSteps /\ stored.receipts = {} /\ stored.started = {}
        /\ MapInv /\ NoStray(a) /\ LevelInv
        /\ \A b \in Bookmarks : stored.mapping[b] # 0 => nodes[stored.mapping[b]] # None
    BY <1>3, AtResolve
  <1>5. bk \in Bookmarks
    BY <1>4, AtNext
  <1>6. stored.mapping[bk] = 0 /\ stored' = stored
    BY <1>1, <1>4, <1>5 DEF DeleteNothing, MappedTo, Gone
  <1>7. /\ x.step = "checkpoint" /\ x.mode = a.mode /\ x.todo = a.todo /\ x.top = a.top
    BY <1>1, <1>3 DEF TaskFields
  <1>8. HistoryInv' /\ SceneInv'
    BY <1>1, <1>2, <1>3, <1>6, FrameKeeps DEF Whole, SceneInv
  <1>9. ReceiptInv' /\ CallbackInv(x)' /\ StartedInv(x)'
    BY <1>2, <1>3, <1>4, <1>6, RemovalsKeep DEF Whole, ReceiptInv, StartedInv
  <1>10. TaskInv(x)'
    <2>1. Now(x)' = Now(a)
      BY <1>3, <1>7 DEF Now
    <2>2. Shows(Now(x).bookmark)' = Now(a).shape
      BY <1>3, <1>6, <2>1 DEF Shows
    <2>3. EffectInv(x)'
      BY <1>7, <2>1, <2>2 DEF EffectInv, CreateSteps, DeleteSteps
    <2> QED
      BY <1>3, <1>4, <1>6, <1>7, <2>3, GoesOn DEF NextSteps
  <1>11. TreeInv(x)'
    <2>1. \A k : Tree(k)' = Tree(k)
      BY <1>3, TreeSame
    <2>2. MapInv' /\ NoStray(x)'
      BY <1>3, <1>4, <1>6 DEF MapInv, NoStray, DeleteOp
    <2>3. LevelInv'
      BY <1>3, <1>4, <1>6, <2>1 DEF LevelInv, Reach, Shows
    <2> QED
      BY <2>2, <2>3 DEF TreeInv
  <1>12. ExactInv(x)'
    BY <1>7 DEF ExactInv, Ahead
  <1> QED
    BY <1>8, <1>9, <1>10, <1>11, <1>12 DEF Whole

LEMMA StartDeleteKeeps ==
  ASSUME NEW t, NEW a, NEW x, Acts(t, a, x), StartDelete(t)
  PROVE  Whole(x)'
  <1> DEFINE bk == Now(a).bookmark
             n == stored.mapping[bk]
  <1>1. /\ DOMAIN stored = StoredFields /\ DOMAIN tasks = Tasks /\ DOMAIN a = TaskFields
        /\ drain.at = "idle" /\ EventOf(t) = Now(a)
        /\ \A step : At(t, step) <=> a.step = step
    BY ActsFacts
  <1>2. t \in Tasks /\ a = tasks[t] /\ x = tasks'[t] /\ Whole(a) /\ scenario' = scenario
    BY DEF Acts
  <1>3. /\ UNCHANGED <<log, nodes, callbacks, spent, drain>> /\ a.step = "resolve"
        /\ Now(a).shape = None /\ n # 0 /\ nodes[n] # None
        /\ x = [a EXCEPT !.step = "remove", !.node = n]
        /\ stored' = [stored EXCEPT !.started = @ \cup {DeleteOp(bk, n)}]
    BY <1>1, <1>2 DEF StartDelete, Upsert, MappedTo, Gone, server, chrome
  <1>4. /\ a.step \in NextSteps /\ stored.receipts = {} /\ stored.started = {}
        /\ MapInv /\ NoStray(a) /\ LevelInv
    BY <1>3, AtResolve
  <1>5. /\ stored'.cursor = stored.cursor /\ stored'.mapping = stored.mapping
        /\ stored'.owners = stored.owners /\ stored'.started = {DeleteOp(bk, n)}
        /\ stored'.receipts = {} /\ stored'.intents = stored.intents
    BY <1>1, <1>3, <1>4 DEF StoredFields
  <1>6. /\ x.step = "remove" /\ x.mode = a.mode /\ x.todo = a.todo /\ x.top = a.top /\ x.node = n
    BY <1>1, <1>3 DEF TaskFields
  <1>7. HistoryInv' /\ SceneInv'
    BY <1>1, <1>2, <1>3, <1>5, FrameKeeps DEF Whole, SceneInv
  <1>8. ReceiptInv' /\ CallbackInv(x)'
    BY <1>2, <1>3, <1>4, <1>5, RemovalsKeep DEF Whole, ReceiptInv
  <1>9. TaskInv(x)'
    <2>1. Now(x)' = Now(a)
      BY <1>3, <1>6 DEF Now
    <2>2. EffectInv(x)'
      BY <1>3, <1>5, <1>6, <2>1 DEF EffectInv, CreateSteps, DeleteSteps, DeleteOp
    <2> QED
      BY <1>3, <1>4, <1>5, <1>6, <2>2, GoesOn DEF NextSteps, DeleteSteps
  <1>10. StartedInv(x)'
    <2>1. /\ Now(a) = log[stored.cursor + 1] /\ stored.cursor < Len(log)
          /\ Now(a) \in [bookmark : Bookmarks, shape : Shapes \cup {None}]
      BY <1>4, AtNext
    <2>2. log[stored.cursor + 1] = Event(bk, None)
      BY <1>3, <2>1 DEF Event
    <2>3. \A op \in stored'.started :
            op = DeleteOp(bk, n) /\ op.effect = "delete" /\ op.bookmark = bk /\ op.node = n
      BY <1>5 DEF DeleteOp
    <2> QED
      BY <1>3, <1>5, <1>6, <2>1, <2>2, <2>3, ZenonT(60) DEF StartedInv, DeleteSteps, DeleteOp, Event
  <1>11. TreeInv(x)'
    <2>1. \A k : Tree(k)' = Tree(k)
      BY <1>3, TreeSame
    <2>2. MapInv' /\ NoStray(x)'
      BY <1>3, <1>4, <1>5 DEF MapInv, NoStray, DeleteOp
    <2>3. LevelInv'
      BY <1>3, <1>4, <1>5, <2>1 DEF LevelInv, Reach, Shows
    <2> QED
      BY <2>2, <2>3 DEF TreeInv
  <1>12. ExactInv(x)'
    BY <1>5 DEF ExactInv, Ahead
  <1> QED
    BY <1>7, <1>8, <1>9, <1>10, <1>11, <1>12 DEF Whole

LEMMA RemoveNodeKeeps ==
  ASSUME NEW t, NEW a, NEW x, Acts(t, a, x), RemoveNode(t)
  PROVE  Whole(x)'
  <1> DEFINE bk == Now(a).bookmark
             n == a.node
  <1>1. /\ DOMAIN stored = StoredFields /\ DOMAIN tasks = Tasks /\ DOMAIN a = TaskFields
        /\ drain.at = "idle" /\ EventOf(t) = Now(a)
        /\ \A step : At(t, step) <=> a.step = step
    BY ActsFacts
  <1>2. t \in Tasks /\ a = tasks[t] /\ x = tasks'[t] /\ Whole(a) /\ scenario' = scenario
    BY DEF Acts
  <1>3. /\ UNCHANGED <<log, stored, spent, drain>> /\ a.step = "remove"
        /\ nodes' = [nodes EXCEPT ![n] = None]
        /\ callbacks' = Append(callbacks, Removed(n))
        /\ x = [a EXCEPT !.step = "removed"]
    BY <1>1, <1>2 DEF RemoveNode, Goto, server, link
  <1>4. /\ stored.receipts = {} /\ stored.started = {DeleteOp(bk, n)} /\ a.step \in NextSteps
        /\ Now(a).shape = None
    BY <1>2, <1>3 DEF Whole, TaskInv, EffectInv, DeleteSteps, NextSteps
  <1>5. n # 0 /\ stored.mapping[bk] = n
    <2>1. DeleteOp(bk, n).effect = "delete" /\ DeleteOp(bk, n).bookmark = bk /\ DeleteOp(bk, n).node = n
      BY DEF DeleteOp
    <2> QED
      BY <1>2, <1>4, <2>1 DEF Whole, StartedInv
  <1>6. MapInv /\ NoStray(a) /\ LevelInv
    BY <1>2, <1>3, <1>4 DEF Whole, TreeInv, Orphan, DeleteOp
  <1>7. bk \in Bookmarks /\ n \in DOMAIN nodes
    BY <1>4, <1>5, <1>6, AtNext DEF MapInv
  <1>8. /\ x.step = "removed" /\ x.mode = a.mode /\ x.todo = a.todo /\ x.top = a.top /\ x.node = n
    BY <1>1, <1>3 DEF TaskFields
  <1>9. /\ nodes' \in Seq(Shapes \cup {None}) /\ DOMAIN nodes' = DOMAIN nodes
        /\ nodes'[n] = None /\ \A m \in DOMAIN nodes : m # n => nodes'[m] = nodes[m]
    <2> DEFINE S == Shapes \cup {None}
    <2>1. nodes \in Seq(S) /\ None \in S
      BY <1>6 DEF MapInv
    <2> HIDE DEF S
    <2>2. nodes' \in Seq(S)
      BY <1>3, <1>7, <2>1
    <2> QED
      BY <1>3, <1>7, <2>2 DEF S
  <1>10. \A b \in Bookmarks : b # bk => stored.mapping[b] # n
    BY <1>5, <1>6, <1>7 DEF MapInv
  <1>11. \A b \in Bookmarks : Shows(b)' = IF b = bk THEN None ELSE Shows(b)
    BY <1>3, <1>5, <1>6, <1>9, <1>10 DEF Shows, MapInv
  <1>12. HistoryInv' /\ SceneInv'
    BY <1>1, <1>2, <1>3, <1>4, FrameKeeps DEF Whole, SceneInv
  <1>13. ReceiptInv'
    BY <1>3, <1>4 DEF ReceiptInv
  <1>14. CallbackInv(x)'
    <2>1. IsSeq(callbacks) /\ \A k \in DOMAIN callbacks :
            /\ callbacks[k].kind = "removed" /\ callbacks[k].node \in DOMAIN nodes
            /\ nodes[callbacks[k].node] = None
      BY <1>2, <1>4 DEF Whole, CallbackInv
    <2> DEFINE e == Removed(n)
    <2>2. /\ IsSeq(Append(callbacks, e))
          /\ DOMAIN callbacks = 1 .. Len(callbacks) /\ Len(callbacks) \in Nat
          /\ DOMAIN Append(callbacks, e) = 1 .. Len(callbacks) + 1
          /\ \A k \in 1 .. Len(callbacks) : Append(callbacks, e)[k] = callbacks[k]
          /\ Append(callbacks, e)[Len(callbacks) + 1] = e
      <3> HIDE DEF e
      <3>1. callbacks \in Seq({callbacks[k] : k \in DOMAIN callbacks})
        BY <2>1 DEF IsSeq
      <3>2. Append(callbacks, e)[Len(callbacks) + 1] = e
        BY <3>1
      <3> QED
        BY <2>1, <3>2, AppendIsSeq
    <2>3. e.kind = "removed" /\ e.node = n
      BY DEF Removed
    <2> HIDE DEF e
    <2>4. \A k \in DOMAIN callbacks' :
            /\ callbacks'[k].kind = "removed" /\ callbacks'[k].node \in DOMAIN nodes'
            /\ nodes'[callbacks'[k].node] = None
      <3> SUFFICES ASSUME NEW k \in 1 .. Len(callbacks) + 1
                   PROVE  /\ callbacks'[k].kind = "removed" /\ callbacks'[k].node \in DOMAIN nodes'
                          /\ nodes'[callbacks'[k].node] = None
        BY <1>3, <2>2 DEF e
      <3>1. callbacks' = Append(callbacks, e)
        BY <1>3 DEF e
      <3>2. CASE k = Len(callbacks) + 1
        BY <1>7, <1>9, <2>2, <2>3, <3>1, <3>2
      <3>3. CASE k # Len(callbacks) + 1
        <4>1. k \in 1 .. Len(callbacks)
          BY <2>2, <3>3
        <4> QED
          BY <1>9, <2>1, <2>2, <3>1, <4>1
      <3> QED
        BY <3>2, <3>3
    <2>5. IsSeq(callbacks)'
      BY <1>3, <2>2 DEF IsSeq, e
    <2> QED
      BY <2>4, <2>5 DEF CallbackInv
  <1>15. TaskInv(x)'
    <2>1. Now(x)' = Now(a)
      BY <1>3, <1>8 DEF Now
    <2>2. EffectInv(x)'
      BY <1>3, <1>4, <1>8, <1>9, <2>1 DEF EffectInv, CreateSteps, DeleteSteps, DeleteOp
    <2> QED
      BY <1>3, <1>4, <1>8, <2>2, GoesOn DEF NextSteps, DeleteSteps
  <1>16. StartedInv(x)'
    BY <1>2, <1>3, <1>8 DEF Whole, StartedInv, DeleteSteps, DeleteOp, Event
  <1>17. TreeInv(x)'
    <2>1. MapInv'
      <3>1. \A b \in Bookmarks : stored.mapping[b] # 0 =>
              /\ stored.mapping[b] \in DOMAIN nodes'
              /\ nodes'[stored.mapping[b]] # None \/ DeleteOp(b, stored.mapping[b]) \in stored.started
              /\ \A c \in Bookmarks : stored.mapping[b] = stored.mapping[c] => b = c
        BY <1>4, <1>5, <1>6, <1>9, <1>10 DEF MapInv
      <3> QED
        BY <1>3, <1>6, <1>9, <3>1 DEF MapInv, DeleteOp
    <2>2. NoStray(x)'
      BY <1>3, <1>6, <1>9 DEF NoStray
    <2>3. LevelInv'
      BY <1>3, <1>4, <1>6, <1>11, EventShown
    <2> QED
      BY <2>1, <2>2, <2>3 DEF TreeInv
  <1>18. ExactInv(x)'
    BY <1>8 DEF ExactInv, Ahead
  <1> QED
    BY <1>12, <1>13, <1>14, <1>15, <1>16, <1>17, <1>18 DEF Whole

(* The end of a deletion, by the task or by the event of the removal.      *)
LEMMA DeletedForgets ==
  ASSUME SyncInv, NEW a, Whole(a), NEW b, NEW n, stored.started = {DeleteOp(b, n)}, nodes[n] = None,
         NEW y, y.step # "map",
         UNCHANGED <<log, nodes, spent>>, stored' = Deleted(stored, b, n)
  PROVE  /\ stored'.cursor = stored.cursor /\ stored'.receipts = stored.receipts
         /\ stored'.intents = stored.intents /\ stored'.started = {}
         /\ b \in Bookmarks /\ stored'.mapping[b] = 0 /\ Shows(b)' = None
         /\ stored.cursor < Len(log) /\ log[stored.cursor + 1] = Event(b, None)
         /\ MapInv' /\ NoStray(y)' /\ LevelInv'
  <1> DEFINE op == DeleteOp(b, n)
  <1>1. DOMAIN stored = StoredFields /\ stored.cursor \in Nat /\ Len(log) \in Nat
    BY DEF SyncInv, StoredOK, LogOK, IsSeq
  <1>2. op.effect = "delete" /\ op.bookmark = b /\ op.node = n
    BY DEF DeleteOp
  <1>3. /\ stored.cursor < Len(log) /\ log[stored.cursor + 1] = Event(b, None)
        /\ n # 0 /\ stored.mapping[b] = n
    BY <1>2 DEF Whole, StartedInv
  <1>4. b \in Bookmarks
    <2> DEFINE S == [bookmark : Bookmarks, shape : Shapes \cup {None}]
               d == stored.cursor + 1
    <2>1. log \in Seq(S) /\ d \in 1 .. Len(log)
      BY <1>1, <1>3 DEF Whole, HistoryInv
    <2>2. log[d] \in S
      <3> HIDE DEF S, d
      <3> QED
        BY <2>1
    <2> QED
      BY <1>3, <2>2 DEF Event
  <1>5. ~ Orphan(a) /\ a.step # "fill" /\ a.step # "map"
    BY <1>2 DEF Whole, Orphan, TaskInv, EffectInv, PlainSteps, CreateSteps, CreateBy
  <1>6. MapInv /\ NoStray(a) /\ LevelInv
    BY <1>5 DEF Whole, TreeInv
  <1>7. /\ stored'.mapping = [stored.mapping EXCEPT ![b] = 0]
        /\ stored'.owners = {p \in stored.owners : p[1] # n}
        /\ stored'.cursor = stored.cursor /\ stored'.started = {}
        /\ stored'.receipts = stored.receipts /\ stored'.intents = stored.intents
    BY <1>1, <1>3 DEF Deleted, Finish, RemoveMapping, StoredFields
  <1>8. /\ stored'.mapping \in [Bookmarks -> Nat] /\ stored'.mapping[b] = 0
        /\ \A c \in Bookmarks : c # b => stored'.mapping[c] = stored.mapping[c]
    BY <1>4, <1>6, <1>7 DEF MapInv
  <1>9. \A c \in Bookmarks : c # b => stored.mapping[c] # n
    BY <1>3, <1>4, <1>6 DEF MapInv
  <1>10. \A c \in Bookmarks : Shows(c)' = Shows(c)
    BY <1>3, <1>8 DEF Shows
  <1>11. MapInv'
    <2>1. stored'.owners = {p \in Nat \X Bookmarks : p[1] # 0 /\ stored'.mapping[p[2]] = p[1]}
      <3>1. stored.owners = {p \in Nat \X Bookmarks : p[1] # 0 /\ stored.mapping[p[2]] = p[1]}
        BY <1>6 DEF MapInv
      <3>2. \A m \in Nat, c \in Bookmarks :
              (<<m, c>> \in stored.owners /\ m # n) <=> (m # 0 /\ stored'.mapping[c] = m)
        BY <1>3, <1>8, <1>9, <3>1
      <3> QED
        BY <1>7, <3>1, <3>2
    <2>2. \A c \in Bookmarks : stored'.mapping[c] # 0 =>
            /\ stored'.mapping[c] \in DOMAIN nodes
            /\ nodes[stored'.mapping[c]] # None
            /\ \A d \in Bookmarks : stored'.mapping[c] = stored'.mapping[d] => c = d
      <3> SUFFICES ASSUME NEW c \in Bookmarks, stored'.mapping[c] # 0
                   PROVE  /\ stored'.mapping[c] \in DOMAIN nodes
                          /\ nodes[stored'.mapping[c]] # None
                          /\ \A d \in Bookmarks : stored'.mapping[c] = stored'.mapping[d] => c = d
        OBVIOUS
      <3>1. c # b /\ stored'.mapping[c] = stored.mapping[c] /\ stored.mapping[c] # 0
        BY <1>8
      <3>2. DeleteOp(c, stored.mapping[c]) \notin stored.started
        <4>1. DeleteOp(c, stored.mapping[c]).bookmark = c
          BY DEF DeleteOp
        <4> QED
          BY <1>2, <3>1, <4>1
      <3>3. /\ stored.mapping[c] \in DOMAIN nodes /\ nodes[stored.mapping[c]] # None
            /\ \A d \in Bookmarks : stored.mapping[c] = stored.mapping[d] => c = d
        BY <1>6, <3>1, <3>2 DEF MapInv
      <3>4. \A d \in Bookmarks : d = b \/ stored'.mapping[d] = stored.mapping[d]
        BY <1>8
      <3> QED
        BY <1>8, <3>1, <3>3, <3>4
    <2> QED
      BY <1>6, <1>8, <2>1, <2>2 DEF MapInv
  <1>12. NoStray(y)'
    <2> SUFFICES ASSUME NEW m \in DOMAIN nodes, nodes[m] # None
                 PROVE  \E c \in Bookmarks : stored'.mapping[c] = m
      BY DEF NoStray
    <2>1. PICK c \in Bookmarks : stored.mapping[c] = m
      BY <1>5, <1>6 DEF NoStray
    <2> QED
      BY <1>3, <1>8, <2>1
  <1>13. LevelInv'
    <2>1. \A k : Tree(k)' = Tree(k)
      BY TreeSame
    <2> QED
      BY <1>6, <1>7, <1>10, <2>1 DEF LevelInv, Reach
  <1>14. Shows(b)' = None
    BY <1>8 DEF Shows
  <1> QED
    BY <1>1, <1>3, <1>4, <1>7, <1>8, <1>11, <1>12, <1>13, <1>14

LEMMA FinishDeleteKeeps ==
  ASSUME NEW t, NEW a, NEW x, Acts(t, a, x), FinishDelete(t)
  PROVE  Whole(x)'
  <1> DEFINE bk == Now(a).bookmark
             n == a.node
  <1>1. /\ DOMAIN stored = StoredFields /\ DOMAIN tasks = Tasks /\ DOMAIN a = TaskFields
        /\ drain.at = "idle" /\ EventOf(t) = Now(a)
        /\ \A step : At(t, step) <=> a.step = step
    BY ActsFacts
  <1>2. t \in Tasks /\ a = tasks[t] /\ x = tasks'[t] /\ SyncInv /\ Whole(a) /\ scenario' = scenario
    BY DEF Acts
  <1>3. /\ UNCHANGED <<log, nodes, callbacks, spent, drain>> /\ a.step = "removed"
        /\ stored' = Deleted(stored, bk, n)
        /\ x = [a EXCEPT !.step = "checkpoint"]
    BY <1>1, <1>2 DEF FinishDelete, Goto, server, chrome
  <1>4. /\ stored.receipts = {} /\ a.step \in NextSteps /\ Now(a).shape = None
        /\ \/ stored.started = {DeleteOp(bk, n)} /\ nodes[n] = None
           \/ stored.started = {} /\ stored.mapping[bk] = 0
    BY <1>2, <1>3 DEF Whole, TaskInv, EffectInv, DeleteSteps, NextSteps
  <1>5. /\ x.step = "checkpoint" /\ x.mode = a.mode /\ x.todo = a.todo /\ x.top = a.top
    BY <1>1, <1>3 DEF TaskFields
  <1>6. /\ stored'.cursor = stored.cursor /\ stored'.receipts = {}
        /\ stored'.intents = stored.intents /\ stored'.started = {}
        /\ stored'.mapping[bk] = 0 /\ MapInv' /\ NoStray(x)' /\ LevelInv'
    <2>1. CASE stored.started = {DeleteOp(bk, n)} /\ nodes[n] = None
      <3>1. x.step # "map"
        BY <1>5
      <3> HIDE DEF bk, n
      <3> QED
        BY <1>2, <1>3, <1>4, <2>1, <3>1, DeletedForgets
    <2>2. CASE stored.started = {} /\ stored.mapping[bk] = 0
      <3>1. stored' = stored
        BY <1>3, <2>2 DEF Deleted
      <3>2. MapInv /\ NoStray(a) /\ LevelInv
        BY <1>2, <1>3, <2>2 DEF Whole, TreeInv, Orphan
      <3>3. \A k : Tree(k)' = Tree(k)
        BY <1>3, TreeSame
      <3>4. MapInv' /\ NoStray(x)'
        BY <1>3, <3>1, <3>2 DEF MapInv, NoStray, DeleteOp
      <3>5. LevelInv'
        BY <1>3, <3>1, <3>2, <3>3 DEF LevelInv, Reach, Shows
      <3> QED
        BY <1>4, <2>2, <3>1, <3>4, <3>5
    <2> QED
      BY <1>4, <2>1, <2>2
  <1>7. HistoryInv' /\ SceneInv'
    BY <1>1, <1>2, <1>3, <1>6, FrameKeeps DEF Whole, SceneInv
  <1>8. ReceiptInv' /\ CallbackInv(x)' /\ StartedInv(x)'
    BY <1>2, <1>3, <1>4, <1>6, RemovalsKeep DEF Whole, ReceiptInv, StartedInv
  <1>9. TaskInv(x)'
    <2>1. Now(x)' = Now(a)
      BY <1>3, <1>5 DEF Now
    <2>2. Shows(Now(x).bookmark)' = Now(a).shape
      BY <1>4, <1>6, <2>1 DEF Shows
    <2>3. EffectInv(x)'
      BY <1>5, <2>1, <2>2 DEF EffectInv, CreateSteps, DeleteSteps
    <2> QED
      BY <1>3, <1>4, <1>5, <1>6, <2>3, GoesOn DEF NextSteps, DeleteSteps
  <1>10. TreeInv(x)' /\ ExactInv(x)'
    BY <1>5, <1>6 DEF TreeInv, ExactInv, Ahead
  <1> QED
    BY <1>7, <1>8, <1>9, <1>10 DEF Whole

(* A callback that has been handled leaves the others as they are.         *)
LEMMA TailIsSeq ==
  ASSUME NEW q, IsSeq(q), q # <<>>
  PROVE  /\ IsSeq(Tail(q)) /\ Len(q) \in Nat /\ DOMAIN q = 1 .. Len(q) /\ 1 \in DOMAIN q
         /\ Head(q) = q[1] /\ DOMAIN Tail(q) = 1 .. Len(q) - 1
         /\ \A k \in DOMAIN Tail(q) : k + 1 \in DOMAIN q /\ Tail(q)[k] = q[k + 1]
  <1> DEFINE S == {q[k] : k \in DOMAIN q}
  <1>1. q \in Seq(S)
    BY DEF IsSeq
  <1> HIDE DEF S
  <1>2. /\ Len(q) \in Nat /\ DOMAIN q = 1 .. Len(q) /\ 1 \in DOMAIN q /\ Head(q) = q[1]
        /\ Tail(q) \in Seq(S) /\ Len(Tail(q)) = Len(q) - 1 /\ DOMAIN Tail(q) = 1 .. Len(q) - 1
        /\ \A k \in 1 .. Len(q) - 1 : Tail(q)[k] = q[k + 1]
    BY <1>1
  <1>3. IsSeq(Tail(q))
    <2> DEFINE p == Tail(q)
    <2>1. Len(q) - 1 \in Nat /\ p \in [1 .. Len(q) - 1 -> S]
      BY <1>2, LenProperties
    <2> HIDE DEF p
    <2>2. IsSeq(p)
      BY <2>1, RangeIsSeq
    <2> QED
      BY <2>2 DEF p
  <1> QED
    BY <1>2, <1>3

LEMMA HandledKeeps ==
  ASSUME NEW a, CallbackInv(a), callbacks # <<>>, Handled, nodes' = nodes,
         stored'.receipts = stored.receipts
  PROVE  CallbackInv(a)'
  <1> DEFINE q == callbacks
  <1>1. /\ IsSeq(Tail(q)) /\ Len(q) \in Nat /\ DOMAIN Tail(q) = 1 .. Len(q) - 1
        /\ \A k \in DOMAIN Tail(q) : k + 1 \in DOMAIN q /\ Tail(q)[k] = q[k + 1]
    BY TailIsSeq DEF CallbackInv
  <1>2. callbacks' = Tail(q)
    BY DEF Handled
  <1>3. IsSeq(callbacks)'
    BY <1>1, <1>2 DEF IsSeq
  <1>4. ASSUME NEW k \in DOMAIN Tail(q), NEW c, c = Tail(q)[k]
        PROVE  /\ c.node \in DOMAIN nodes
               /\ c.kind = "removed" => nodes[c.node] = None
               /\ c.kind # "removed" =>
                    /\ \E r \in stored.receipts : r.node = c.node /\ Proves(r, c)
                    /\ a.step \notin {"retitle", "move"}
                    /\ \A j \in DOMAIN Tail(q) : Tail(q)[j].kind # "removed" => j = k
    <2>1. k + 1 \in DOMAIN q /\ c = q[k + 1] /\ k \in Nat
      BY <1>1, <1>4
    <2>2. ASSUME NEW j \in DOMAIN Tail(q), Tail(q)[j].kind # "removed", c.kind # "removed"
          PROVE  j = k
      <3>1. j + 1 \in DOMAIN q /\ q[j + 1].kind # "removed" /\ j \in Nat
        BY <1>1, <2>2
      <3>2. j + 1 = k + 1
        BY <2>1, <2>2, <3>1 DEF CallbackInv
      <3> QED
        BY <2>1, <3>1, <3>2
    <2> QED
      BY <2>1, <2>2 DEF CallbackInv
  <1>5. \A r, c : Proves(r, c)' <=> Proves(r, c)
    BY DEF Proves
  <1> QED
    BY <1>2, <1>3, <1>4, <1>5 DEF CallbackInv

LEMMA HandleRemovedKeeps ==
  ASSUME SyncInv, NEW a, Whole(a), scenario' = scenario, HandleRemoved
  PROVE  Whole(a)'
  <1> DEFINE n == Next_callback.node
  <1>1. /\ UNCHANGED <<log, nodes, spent, drain>> /\ Handled /\ callbacks # <<>>
        /\ Next_callback.kind = "removed"
    BY DEF HandleRemoved, server, link
  <1>2. /\ DOMAIN stored = StoredFields /\ drain.at = "idle" /\ IsSeq(callbacks)
    BY DEF SyncInv, StoredOK, Whole, SceneInv, CallbackInv
  <1>3. nodes[n] = None
    <2>1. 1 \in DOMAIN callbacks /\ Next_callback = callbacks[1]
      BY <1>1, <1>2, TailIsSeq DEF Next_callback
    <2> QED
      BY <1>1, <2>1 DEF Whole, CallbackInv
  <1>4. CASE stored' = stored
    <2>1. CallbackInv(a)'
      BY <1>1, <1>4, HandledKeeps DEF Whole
    <2>2. \A k : Tree(k)' = Tree(k)
      BY <1>1, TreeSame
    <2>3. \A b : Shows(b)' = Shows(b)
      BY <1>1, <1>4 DEF Shows
    <2>4. HistoryInv' /\ SceneInv' /\ ReceiptInv'
      BY <1>1, <1>2, <1>4, <2>2 DEF Whole, HistoryInv, SceneInv, ReceiptInv
    <2>5. TaskInv(a)'
      BY <1>1, <1>4, <2>3 DEF Whole, TaskInv, EffectInv, Expects, Now, CreateBy, DeleteOp, Remaining
    <2>6. StartedInv(a)'
      BY <1>1, <1>4 DEF Whole, StartedInv, DeleteOp, Event
    <2>7. TreeInv(a)'
      BY <1>1, <1>4, <2>2, <2>3 DEF Whole, TreeInv, Orphan, MapInv, NoStray, LevelInv, Reach, DeleteOp
    <2>8. ExactInv(a)'
      BY <1>1, <1>4, <2>2, <2>3 DEF Whole, ExactInv, Ahead
    <2> QED
      BY <2>1, <2>4, <2>5, <2>6, <2>7, <2>8 DEF Whole
  <1>5. ASSUME NEW b \in Bookmarks, DeleteOp(b, n) \in stored.started, stored' = Deleted(stored, b, n)
        PROVE  Whole(a)'
    <2>1. stored.started = {DeleteOp(b, n)}
      BY <1>5 DEF Whole, StartedInv
    <2>2. DeleteOp(b, n).effect = "delete" /\ DeleteOp(b, n).node = n /\ DeleteOp(b, n).bookmark = b
      BY DEF DeleteOp
    <2>3. a.step \notin CreateSteps \cup PlainSteps \cup {"remove"}
      <3>1. a.step \notin CreateSteps
        BY <2>1, <2>2 DEF Whole, TaskInv, EffectInv, CreateBy, CreateSteps
      <3>2. a.step \notin PlainSteps
        BY <2>1 DEF Whole, TaskInv
      <3>3. a.step # "remove"
        <4> SUFFICES ASSUME a.step = "remove" PROVE FALSE
          OBVIOUS
        <4>1. DeleteOp(Now(a).bookmark, a.node) = DeleteOp(b, n) /\ nodes[a.node] # None
          BY <2>1 DEF Whole, TaskInv, EffectInv
        <4>2. a.node = n
          BY <4>1 DEF DeleteOp
        <4> QED
          BY <1>3, <4>1, <4>2
      <3> QED
        BY <3>1, <3>2, <3>3
    <2>4. stored.receipts = {} /\ a.step \notin ReceiptSteps
      BY <2>1 DEF Whole, ReceiptInv, TaskInv, EffectInv, Expects, ReceiptSteps
    <2>5. a.step = "removed" => Now(a).bookmark = b
      <3> SUFFICES ASSUME a.step = "removed" PROVE Now(a).bookmark = b
        OBVIOUS
      <3>1. DeleteOp(Now(a).bookmark, a.node) = DeleteOp(b, n)
        BY <2>1 DEF Whole, TaskInv, EffectInv
      <3> QED
        BY <3>1 DEF DeleteOp
    <2>6. /\ stored'.cursor = stored.cursor /\ stored'.receipts = stored.receipts
          /\ stored'.intents = stored.intents /\ stored'.started = {}
          /\ stored'.mapping[b] = 0
          /\ MapInv' /\ NoStray(a)' /\ LevelInv'
      <3>1. a.step # "map"
        BY <2>3 DEF CreateSteps
      <3> HIDE DEF n
      <3> QED
        BY <1>1, <1>3, <1>5, <2>1, <3>1, DeletedForgets
    <2>7. HistoryInv' /\ SceneInv'
      BY <1>1, <1>2, <2>6, FrameKeeps DEF Whole, SceneInv
    <2>8. ReceiptInv' /\ StartedInv(a)' /\ CallbackInv(a)'
      BY <1>1, <2>4, <2>6, HandledKeeps DEF Whole, ReceiptInv, StartedInv
    <2>9. TaskInv(a)'
      <3>1. Now(a)' = Now(a)
        BY <1>1 DEF Now
      <3>2. EffectInv(a)'
        BY <1>1, <2>3, <2>4, <2>5, <2>6, <3>1
        DEF Whole, TaskInv, EffectInv, CreateSteps, DeleteSteps, ReceiptSteps, PlainSteps
      <3> QED
        BY <1>1, <2>3, <2>4, <2>6, <3>2
        DEF Whole, TaskInv, Remaining, CreateSteps, DeleteSteps, ReceiptSteps, PlainSteps, NextSteps
    <2>10. TreeInv(a)'
      BY <2>6 DEF TreeInv
    <2>11. ExactInv(a)'
      <3>1. a.step = "removed" \/ spent.evictions > 0
        <4>1. spent.evictions \in Nat
          BY DEF Whole, SceneInv
        <4>2. spent.evictions = 0 => a.step \in CreateSteps \cup DeleteSteps
          BY <2>1 DEF Whole, StartedInv
        <4> QED
          BY <2>3, <4>1, <4>2 DEF DeleteSteps
      <3> QED
        BY <1>1, <3>1 DEF ExactInv, Ahead
    <2> QED
      BY <2>7, <2>8, <2>9, <2>10, <2>11 DEF Whole
  <1> QED
    BY <1>1, <1>4, <1>5 DEF HandleRemoved

(***************************************************************************)
(* The change of a bookmark's node.                                        *)
(***************************************************************************)
OwnTitlesOnly == \A b, c \in Bookmarks : b # c => TitlesOf[b] \cap TitlesOf[c] = {}

LEMMA ShapesAlike ==
  ASSUME NEW s \in Shapes, NEW w \in Shapes, s.title = w.title, s.folder = w.folder
  PROVE  s = w
  BY DEF Shapes

(* A node that looks like the event's bookmark is that bookmark's.         *)
LEMMA NoLookalikes ==
  ASSUME NEW t, NEW a, NEW x, Acts(t, a, x), OwnTitlesOnly, a.step = "resolve", Upsert(t), MappedTo(t) = 0
  PROVE  Lookalikes(t) = {}
  <1> SUFFICES ASSUME NEW n \in DOMAIN nodes, nodes[n] = Now(a).shape PROVE FALSE
    BY ActsFacts DEF Lookalikes
  <1> DEFINE bk == Now(a).bookmark
  <1>1. Now(a).shape # None /\ stored.mapping[bk] = 0
    BY ActsFacts DEF Upsert, MappedTo
  <1>2. a.step \in NextSteps /\ MapInv /\ NoStray(a) /\ LevelInv
    BY AtResolve
  <1>3. PICK b \in Bookmarks : stored.mapping[b] = n
    BY <1>1, <1>2 DEF NoStray
  <1>4. n # 0 /\ bk \in Bookmarks /\ Now(a).shape.title \in TitlesOf[bk] /\ b # bk
    <2>1. DOMAIN nodes = 1 .. Len(nodes)
      BY <1>2 DEF MapInv
    <2> QED
      BY <1>1, <1>2, <1>3, <2>1, AtNext
  <1>5. PICK k \in stored.cursor .. Reach : Shows(b) = Tree(k)[b]
    BY <1>2 DEF LevelInv
  <1>6. k \in Nat /\ k <= Len(log) /\ Len(log) \in Nat
    BY <1>2, <1>5, AtNext
  <1>7. Tree(k)[b] = Now(a).shape
    BY <1>3, <1>4, <1>5 DEF Shows
  <1>8. PICK i \in 1 .. k : log[i].bookmark = b /\ log[i].shape = Now(a).shape
    BY <1>1, <1>6, <1>7, TreeTells
  <1>9. Now(a).shape.title \in TitlesOf[b]
    <2>1. i \in 1 .. Len(log)
      BY <1>6
    <2> QED
      BY <1>1, <1>8, <2>1 DEF Acts, Whole, HistoryInv
  <1> QED
    BY <1>4, <1>9 DEF OwnTitlesOnly

LEMMA ReconcileKeeps ==
  ASSUME NEW t, NEW a, NEW x, Acts(t, a, x), OwnTitlesOnly, Reconcile(t)
  PROVE  Whole(x)'
  <1> DEFINE bk == Now(a).bookmark
             n == stored.mapping[bk]
             e == Now(a).shape
             move == IF nodes[n].folder = e.folder THEN None ELSE nodes[n].folder
             r == [bookmark |-> bk, node |-> n, cursor |-> Head(a.todo), expected |-> e, move |-> move]
             step == CASE nodes[n] = e -> "checkpoint" [] nodes[n].title # e.title -> "retitle"
                       [] OTHER -> "move"
  <1>1. /\ DOMAIN stored = StoredFields /\ DOMAIN tasks = Tasks /\ DOMAIN a = TaskFields
        /\ drain.at = "idle" /\ EventOf(t) = Now(a) /\ Cursor(t) = Head(a.todo)
        /\ \A s : At(t, s) <=> a.step = s
    BY ActsFacts
  <1>2. t \in Tasks /\ a = tasks[t] /\ x = tasks'[t] /\ SyncInv /\ Whole(a) /\ scenario' = scenario
    BY DEF Acts
  <1>3. a.step = "resolve" /\ e # None /\ n # 0
    <2>1. a.step = "resolve" /\ Upsert(t) /\ e # None /\ MappedTo(t) = n
      BY <1>1 DEF Reconcile, Upsert, MappedTo
    <2>2. n = 0 => Cardinality(Lookalikes(t)) = 1
      BY <2>1 DEF Reconcile
    <2>3. n = 0 => Lookalikes(t) = {}
      BY <2>1, NoLookalikes
    <2> HIDE DEF n, e
    <2> QED
      BY <2>1, <2>2, <2>3, FS_EmptySet
  <1>4. /\ UNCHANGED <<log, nodes, callbacks, spent, drain>>
        /\ stored' = IF nodes[n] = e THEN stored ELSE PersistReceipt(stored, r)
        /\ x = [a EXCEPT !.node = n, !.step = step]
    <2>1. EventOf(t).shape = e /\ MappedTo(t) = n /\ MappedTo(t) # 0 /\ Receipt(t, n) = r
      BY <1>1, <1>3 DEF MappedTo, Receipt
    <2>2. /\ UNCHANGED <<log, nodes, callbacks, spent, drain>>
          /\ stored' = IF nodes[n] = e THEN stored ELSE PersistReceipt(stored, Receipt(t, n))
          /\ tasks' = [tasks EXCEPT ![t].node = n, ![t].step = step]
      BY <2>1 DEF Reconcile, server, chrome
    <2> HIDE DEF n, r, step
    <2> QED
      BY <1>1, <1>2, <2>1, <2>2
  <1>5. /\ a.step \in NextSteps /\ stored.receipts = {} /\ stored.started = {}
        /\ MapInv /\ NoStray(a) /\ LevelInv
        /\ \A b \in Bookmarks : stored.mapping[b] # 0 =>
             stored.mapping[b] \in DOMAIN nodes /\ nodes[stored.mapping[b]] # None
    BY <1>3, AtResolve
  <1>6. /\ stored.cursor \in Nat /\ Len(log) \in Nat /\ stored.cursor < Len(log)
        /\ First <= stored.cursor /\ First \in Nat \ {0}
        /\ Head(a.todo) = stored.cursor + 1 /\ Now(a) = log[stored.cursor + 1]
        /\ bk \in Bookmarks /\ e \in Shapes
        /\ Tree(stored.cursor + 1)[bk] = e
        /\ \A k \in stored.cursor .. Reach :
             k \in Nat /\ k <= Len(log) /\ (spent.rebuilds = 0 => k \in {stored.cursor, stored.cursor + 1})
    BY <1>3, <1>5, AtNext
  <1>7. n \in DOMAIN nodes /\ nodes[n] # None /\ nodes[n] \in Shapes /\ n \in Nat
    <2>1. n \in DOMAIN nodes /\ nodes[n] # None
      BY <1>3, <1>5, <1>6
    <2> DEFINE S == Shapes \cup {None}
    <2>2. nodes \in Seq(S)
      BY <1>5 DEF MapInv
    <2>3. nodes[n] \in S /\ n \in Nat
      <3> HIDE DEF S, n
      <3> QED
        BY <2>1, <2>2
    <2> QED
      BY <2>1, <2>3
  <1>8. Shows(bk) = nodes[n]
    BY <1>3 DEF Shows
  <1>9. /\ x.mode = a.mode /\ x.todo = a.todo /\ x.top = a.top /\ x.node = n /\ x.step = step
    <2> HIDE DEF n, step
    <2> QED
      BY <1>1, <1>4 DEF TaskFields
  <1>10. Now(x)' = Now(a)
    BY <1>4, <1>9 DEF Now
  <1>13. n = stored.mapping[bk] /\ e = Now(a).shape /\ e # None
    BY <1>3
  <1>14. \/ step = "checkpoint" /\ nodes[n] = e
         \/ step = "retitle" /\ nodes[n] # e /\ nodes[n].title # e.title
         \/ step = "move" /\ nodes[n] # e /\ nodes[n].title = e.title
    BY DEF step
  <1>15. r.bookmark = bk /\ r.node = n /\ r.cursor = stored.cursor + 1 /\ r.expected = e /\ r.move = move
    BY <1>6
  <1>16. move = IF nodes[n].folder = e.folder THEN None ELSE nodes[n].folder
    OBVIOUS
  <1> HIDE DEF n, e, r, move, step
  <1>11. CASE nodes[n] = e
    <2>1. stored' = stored /\ x.step = "checkpoint"
      BY <1>4, <1>9, <1>11, <1>14
    <2>2. HistoryInv' /\ SceneInv'
      BY <1>1, <1>2, <1>4, <2>1, FrameKeeps DEF Whole, SceneInv
    <2>3. ReceiptInv' /\ CallbackInv(x)' /\ StartedInv(x)'
      BY <1>2, <1>4, <1>5, <2>1, RemovalsKeep DEF Whole, ReceiptInv, StartedInv
    <2>4. TaskInv(x)'
      <3>1. Shows(Now(x).bookmark)' = Now(a).shape
        BY <1>4, <1>8, <1>10, <1>11, <1>13, <2>1 DEF Shows
      <3>2. EffectInv(x)'
        BY <1>10, <2>1, <3>1 DEF EffectInv, CreateSteps, DeleteSteps
      <3> QED
        BY <1>4, <1>5, <1>9, <2>1, <3>2, GoesOn DEF NextSteps
    <2>5. TreeInv(x)'
      <3>1. \A k : Tree(k)' = Tree(k)
        BY <1>4, TreeSame
      <3>2. MapInv' /\ NoStray(x)'
        BY <1>3, <1>4, <1>5, <2>1 DEF MapInv, NoStray, DeleteOp
      <3>3. LevelInv'
        BY <1>4, <1>5, <2>1, <3>1 DEF LevelInv, Reach, Shows
      <3> QED
        BY <3>2, <3>3 DEF TreeInv
    <2>6. ExactInv(x)'
      BY <2>1 DEF ExactInv, Ahead
    <2> QED
      BY <2>2, <2>3, <2>4, <2>5, <2>6 DEF Whole
  <1>12. CASE nodes[n] # e
    <2>1. /\ stored'.cursor = stored.cursor /\ stored'.mapping = stored.mapping
          /\ stored'.owners = stored.owners /\ stored'.started = {}
          /\ stored'.receipts = {r} /\ stored'.intents = stored.intents
      <3>1. stored' = [stored EXCEPT !.receipts = {r}]
        BY <1>1, <1>4, <1>5, <1>12 DEF PersistReceipt, StoredFields
      <3> QED
        BY <1>1, <1>5, <3>1 DEF StoredFields
    <2>2. PICK k \in stored.cursor .. Reach : nodes[n] = Tree(k)[bk]
      BY <1>5, <1>6, <1>8 DEF LevelInv
    <2>3. scenario = "remote"
      <3> SUFFICES ASSUME scenario = "rebuild" PROVE FALSE
        BY <1>2 DEF Whole, SceneInv
      <3>1. k \in First .. Len(log) /\ stored.cursor + 1 \in First .. Len(log)
        BY <1>6, <2>2
      <3>2. nodes[n] = Tree(stored.cursor + 1)[bk]
        BY <1>2, <1>3, <1>6, <1>7, <2>2, <3>1 DEF Whole, HistoryInv
      <3> QED
        BY <1>6, <1>12, <3>2
    <2>4. nodes[n] = Tree(stored.cursor)[bk]
      <3>1. spent.rebuilds = 0
        BY <1>2, <2>3 DEF Whole, SceneInv
      <3>2. k \in {stored.cursor, stored.cursor + 1}
        BY <1>6, <2>2, <3>1
      <3> QED
        BY <1>6, <1>12, <2>2, <3>2
    <2>5. nodes[n].folder = e.folder \/ nodes[n].title = e.title
      <3>1. stored.cursor \in First .. Len(log) - 1
        BY <1>6
      <3>2. Single(Tree(stored.cursor)[bk], e)
        BY <1>2, <1>6, <1>13, <3>1 DEF Whole, HistoryInv
      <3> QED
        BY <1>3, <1>7, <2>4, <3>2 DEF Single
    <2>6. \/ x.step = "retitle" /\ nodes[n].folder = e.folder
          \/ x.step = "move" /\ nodes[n].title = e.title /\ nodes[n].folder # e.folder
      BY <1>6, <1>7, <1>9, <1>12, <1>14, <2>5, ShapesAlike
    <2>7. PICK w : w = move
      OBVIOUS
    <2>8. HistoryInv' /\ SceneInv'
      BY <1>1, <1>2, <1>4, <2>1, <2>3, FrameKeeps DEF Whole, SceneInv
    <2>9. ReceiptInv'
      <3>1. stored.cursor + 1 <= Len(log) /\ bk = log[stored.cursor + 1].bookmark
            /\ e = log[stored.cursor + 1].shape
        BY <1>6, <1>13
      <3> QED
        BY <1>3, <1>4, <1>13, <1>15, <2>1, <3>1 DEF ReceiptInv
    <2>10. CallbackInv(x)' /\ StartedInv(x)'
      BY <1>2, <1>4, <1>5, <2>1, RemovalsKeep DEF Whole, StartedInv
    <2>11. TaskInv(x)'
      <3>1. Expects(x, w)'
        BY <1>9, <1>10, <1>15, <2>1, <2>7 DEF Expects
      <3>2. x.step = "retitle" => w = None
        BY <1>16, <2>6, <2>7
      <3>3. x.step = "move" => w = nodes[n].folder
        BY <1>16, <2>6, <2>7
      <3>4. nodes'[x.node] = nodes[n] /\ Now(x)'.shape = e
        BY <1>4, <1>9, <1>10, <1>13
      <3>5. EffectInv(x)'
        BY <1>7, <1>13, <2>6, <3>1, <3>2, <3>3, <3>4 DEF EffectInv, CreateSteps, DeleteSteps
      <3> QED
        BY <1>4, <1>5, <1>9, <2>1, <2>6, <3>5, GoesOn
        DEF NextSteps, CreateSteps, DeleteSteps, ReceiptSteps
    <2>12. TreeInv(x)'
      <3>1. \A i : Tree(i)' = Tree(i)
        BY <1>4, TreeSame
      <3>2. MapInv' /\ NoStray(x)'
        BY <1>3, <1>4, <1>5, <2>1 DEF MapInv, NoStray, DeleteOp
      <3>3. LevelInv'
        BY <1>4, <1>5, <2>1, <3>1 DEF LevelInv, Reach, Shows
      <3> QED
        BY <3>2, <3>3 DEF TreeInv
    <2>13. ExactInv(x)'
      BY <2>1 DEF ExactInv, Ahead
    <2> QED
      BY <2>8, <2>9, <2>10, <2>11, <2>12, <2>13 DEF Whole
  <1> QED
    BY <1>11, <1>12

LEMMA NeverStale ==
  ASSUME NEW t, NEW a, NEW x, Acts(t, a, x)
  PROVE  ~ Stale(t) /\ ~ EffectFails(t)
  <1>1. /\ EventOf(t) = Now(a) /\ \A step : At(t, step) <=> a.step = step
    BY ActsFacts
  <1>2. ~ Stale(t)
    <2> SUFFICES ASSUME a.step = "resolve", MappedTo(t) # 0 PROVE ~ Gone(MappedTo(t))
      BY <1>1 DEF Stale
    <2>1. a.step \in NextSteps /\ \A b \in Bookmarks :
            stored.mapping[b] # 0 => nodes[stored.mapping[b]] # None
      BY AtResolve
    <2>2. Now(a).bookmark \in Bookmarks
      BY <2>1, AtNext
    <2> QED
      BY <1>1, <2>1, <2>2 DEF MappedTo, Gone
  <1>3. ~ EffectFails(t)
    BY DEF EffectFails, Gone, Acts, Whole, TaskInv, EffectInv
  <1> QED
    BY <1>2, <1>3

(* The callback of the last change of a node proves the receipt.           *)
LEMMA ChangeProves ==
  ASSUME NEW t, NEW a, NEW x, Acts(t, a, x), a.step \in ReceiptSteps,
         UNCHANGED <<log, stored, spent, drain>>,
         NEW n, n = a.node, nodes' = [nodes EXCEPT ![n] = Now(a).shape],
         NEW e, callbacks' = Append(callbacks, e), e.kind # "removed", e.node = n,
         \A r \in stored.receipts : Proves(r, e)',
         x.step = "defer", x.mode = a.mode, x.todo = a.todo, x.top = a.top
  PROVE  Whole(x)'
  <1> DEFINE bk == Now(a).bookmark
  <1>1. DOMAIN stored = StoredFields /\ drain.at = "idle" /\ stored.cursor \in Nat
    BY ActsFacts
  <1>2. t \in Tasks /\ SyncInv /\ Whole(a) /\ scenario' = scenario
    BY DEF Acts
  <1>3. Now(a).shape # None /\ nodes[n] # None /\ a.step \in NextSteps
    BY <1>2 DEF Whole, TaskInv, EffectInv, ReceiptSteps, NextSteps
  <1>4. PICK r \in stored.receipts : r.node = n /\ r.bookmark = bk
    BY <1>2 DEF Whole, TaskInv, EffectInv, Expects, ReceiptSteps
  <1>5. stored.receipts = {r} /\ stored.started = {} /\ stored.mapping[bk] = n /\ n # 0
    BY <1>2, <1>4 DEF Whole, ReceiptInv
  <1>6. MapInv /\ NoStray(a) /\ LevelInv
    BY <1>2, <1>5, <1>3 DEF Whole, TreeInv, Orphan, NextSteps, CreateSteps, DeleteSteps, ReceiptSteps
  <1>7. bk \in Bookmarks /\ n \in DOMAIN nodes /\ Now(a).shape \in Shapes \cup {None}
    <2>1. bk \in Bookmarks /\ Now(a).shape \in Shapes \cup {None}
      BY <1>3, AtNext
    <2> QED
      BY <1>5, <1>6, <2>1 DEF MapInv
  <1>8. /\ nodes' \in Seq(Shapes \cup {None}) /\ DOMAIN nodes' = DOMAIN nodes
        /\ nodes'[n] = Now(a).shape /\ \A m \in DOMAIN nodes : m # n => nodes'[m] = nodes[m]
    <2> DEFINE S == Shapes \cup {None}
               w == Now(a).shape
    <2>1. nodes \in Seq(S) /\ w \in S
      BY <1>6, <1>7 DEF MapInv
    <2> HIDE DEF S, w
    <2>2. nodes' = [nodes EXCEPT ![n] = w]
      BY DEF w
    <2>3. nodes' \in Seq(S) /\ DOMAIN nodes' = DOMAIN nodes /\ nodes'[n] = w
      BY <1>7, <2>1, <2>2
    <2>4. \A m \in DOMAIN nodes : m # n => nodes'[m] = nodes[m]
      BY <2>2
    <2> QED
      BY <2>3, <2>4 DEF S, w
  <1>9. \A b \in Bookmarks : b # bk => stored.mapping[b] # n
    BY <1>5, <1>6, <1>7 DEF MapInv
  <1>10. \A b \in Bookmarks : Shows(b)' = IF b = bk THEN Now(a).shape ELSE Shows(b)
    BY <1>5, <1>6, <1>8, <1>9 DEF Shows, MapInv
  <1>11. HistoryInv' /\ SceneInv'
    BY <1>1, <1>2, FrameKeeps DEF Whole, SceneInv, HistoryInv
  <1>12. ReceiptInv' /\ StartedInv(x)'
    BY <1>2, <1>5 DEF Whole, ReceiptInv, StartedInv
  <1>13. CallbackInv(x)'
    <2>1. IsSeq(callbacks) /\ \A k \in DOMAIN callbacks :
            /\ callbacks[k].kind = "removed" /\ callbacks[k].node \in DOMAIN nodes
            /\ nodes[callbacks[k].node] = None
      BY <1>2 DEF Whole, CallbackInv, ReceiptSteps
    <2>2. /\ IsSeq(Append(callbacks, e))
          /\ DOMAIN callbacks = 1 .. Len(callbacks) /\ Len(callbacks) \in Nat
          /\ DOMAIN Append(callbacks, e) = 1 .. Len(callbacks) + 1
          /\ \A k \in 1 .. Len(callbacks) : Append(callbacks, e)[k] = callbacks[k]
          /\ Append(callbacks, e)[Len(callbacks) + 1] = e
      <3>1. callbacks \in Seq({callbacks[k] : k \in DOMAIN callbacks})
        BY <2>1 DEF IsSeq
      <3>2. Append(callbacks, e)[Len(callbacks) + 1] = e
        BY <3>1
      <3> QED
        BY <2>1, <3>2, AppendIsSeq
    <2> DEFINE last == Len(callbacks) + 1
    <2>3. DOMAIN callbacks' = 1 .. last /\ callbacks'[last] = e /\ IsSeq(callbacks)'
      BY <2>2 DEF IsSeq
    <2>4. ASSUME NEW k \in 1 .. last, k # last
          PROVE  /\ callbacks'[k].kind = "removed" /\ callbacks'[k].node \in DOMAIN nodes'
                 /\ nodes'[callbacks'[k].node] = None
      <3>1. k \in 1 .. Len(callbacks)
        BY <2>2, <2>4
      <3> QED
        <4>1. callbacks'[k] = callbacks[k]
          BY <2>2, <3>1
        <4> QED
          BY <1>3, <1>8, <2>1, <3>1, <4>1
    <2>5. r.node = e.node /\ Proves(r, e)' /\ r \in stored'.receipts
      BY <1>4
    <2> HIDE DEF last
    <2>6. ASSUME NEW k \in 1 .. last
          PROVE  LET c == callbacks'[k] IN
                 /\ c.node \in DOMAIN nodes'
                 /\ c.kind = "removed" => nodes'[c.node] = None
                 /\ c.kind # "removed" =>
                      c = e /\ \A j \in 1 .. last : callbacks'[j].kind # "removed" => j = k
      BY <1>7, <1>8, <2>3, <2>4, ZenonT(60)
    <2>7. \A k \in DOMAIN callbacks' : callbacks'[k].kind # "removed" =>
            \E s \in stored'.receipts : s.node = callbacks'[k].node /\ Proves(s, callbacks[k])'
      <3> SUFFICES ASSUME NEW k \in DOMAIN callbacks', callbacks'[k].kind # "removed"
                   PROVE  \E s \in stored'.receipts : s.node = callbacks'[k].node /\ Proves(s, callbacks[k])'
        OBVIOUS
      <3>1. callbacks'[k] = e
        BY <2>3, <2>6
      <3>2. Proves(r, callbacks[k])'
        BY <2>5, <3>1 DEF Proves
      <3> QED
        BY <2>5, <3>1, <3>2
    <2> QED
      BY <2>3, <2>6, <2>7 DEF CallbackInv
  <1>14. TaskInv(x)'
    <2>1. EffectInv(x)'
      BY DEF EffectInv, CreateSteps, DeleteSteps
    <2> QED
      BY <1>3, <2>1, GoesOn DEF NextSteps, CreateSteps, DeleteSteps
  <1>15. TreeInv(x)'
    <2>1. MapInv'
      <3>1. \A b \in Bookmarks : stored.mapping[b] # 0 =>
              stored.mapping[b] \in DOMAIN nodes /\ nodes'[stored.mapping[b]] # None
        BY <1>3, <1>5, <1>6, <1>8 DEF MapInv
      <3> QED
        BY <1>5, <1>6, <1>8, <3>1 DEF MapInv, DeleteOp
    <2>2. NoStray(x)'
      <3>1. a.step # "map"
        BY DEF ReceiptSteps
      <3> QED
        BY <1>5, <1>6, <1>7, <1>8, <3>1 DEF NoStray
    <2>3. LevelInv'
      BY <1>3, <1>6, <1>10, EventShown
    <2> QED
      BY <2>1, <2>2, <2>3 DEF TreeInv
  <1>16. ExactInv(x)'
    BY <1>5 DEF ExactInv, Ahead
  <1> QED
    BY <1>11, <1>12, <1>13, <1>14, <1>15, <1>16 DEF Whole

(* The node of a receipt.                                                  *)
LEMMA ReceiptNode ==
  ASSUME NEW t, NEW a, NEW x, Acts(t, a, x), a.step \in ReceiptSteps
  PROVE  /\ nodes[a.node] \in Shapes /\ Now(a).shape \in Shapes
         /\ \A r \in stored.receipts : stored.receipts = {r} /\ r.expected = Now(a).shape
         /\ a.node \in DOMAIN nodes
  <1> DEFINE n == a.node
             bk == Now(a).bookmark
  <1>1. a.step \in NextSteps /\ nodes[n] # None /\ Now(a).shape # None
    BY DEF Acts, Whole, TaskInv, EffectInv, ReceiptSteps, NextSteps
  <1>2. PICK r \in stored.receipts : r.node = n /\ r.bookmark = bk
    BY DEF Acts, Whole, TaskInv, EffectInv, Expects, ReceiptSteps
  <1>3. Now(a) = log[stored.cursor + 1] /\ bk \in Bookmarks /\ Now(a).shape \in Shapes \cup {None}
    BY <1>1, AtNext
  <1>4. stored.receipts = {r} /\ stored.started = {} /\ stored.mapping[bk] = n /\ n # 0
        /\ r.expected = Now(a).shape
    BY <1>2, <1>3 DEF Acts, Whole, ReceiptInv
  <1>5. MapInv
    BY <1>4 DEF Acts, Whole, TreeInv, Orphan
  <1>6. n \in DOMAIN nodes
    BY <1>3, <1>4, <1>5 DEF MapInv
  <1>7. nodes[n] \in Shapes \cup {None}
    <2> DEFINE S == Shapes \cup {None}
    <2>1. nodes \in Seq(S)
      BY <1>5 DEF MapInv
    <2> HIDE DEF S, n
    <2>2. nodes[n] \in S
      BY <1>6, <2>1
    <2> QED
      BY <2>2 DEF S
  <1> QED
    BY <1>1, <1>3, <1>4, <1>6, <1>7

LEMMA RetitleKeeps ==
  ASSUME NEW t, NEW a, NEW x, Acts(t, a, x), Retitle(t)
  PROVE  Whole(x)'
  <1> DEFINE n == a.node
             w == Now(a).shape
  <1>1. /\ DOMAIN tasks = Tasks /\ DOMAIN a = TaskFields /\ EventOf(t) = Now(a)
        /\ \A step : At(t, step) <=> a.step = step
    BY ActsFacts
  <1>2. t \in Tasks /\ a = tasks[t] /\ x = tasks'[t] /\ Whole(a)
    BY DEF Acts
  <1>3. /\ a.step = "retitle" /\ a.step \in ReceiptSteps /\ nodes[n].folder = w.folder
        /\ Expects(a, None)
    BY <1>1, <1>2 DEF Retitle, Whole, TaskInv, EffectInv, ReceiptSteps
  <1>4. /\ nodes[n] \in Shapes /\ w \in Shapes /\ n \in DOMAIN nodes
        /\ \A r \in stored.receipts : stored.receipts = {r} /\ r.expected = w
    BY <1>3, ReceiptNode
  <1>5. /\ UNCHANGED <<log, stored, spent, drain>>
        /\ nodes' = [nodes EXCEPT ![n].title = w.title]
        /\ callbacks' = Append(callbacks, Changed(n))
        /\ x = [a EXCEPT !.step = "defer"]
    BY <1>1, <1>2, <1>3 DEF Retitle, Goto, server, link
  <1>6. [nodes[n] EXCEPT !.title = w.title] = w
    BY <1>3, <1>4 DEF Shapes
  <1>7. nodes' = [nodes EXCEPT ![n] = w]
    <2>1. nodes' = [nodes EXCEPT ![n] = [nodes[n] EXCEPT !.title = w.title]]
      BY <1>5
    <2> QED
      BY <1>6, <2>1
  <1>8. /\ x.step = "defer" /\ x.mode = a.mode /\ x.todo = a.todo /\ x.top = a.top
    BY <1>1, <1>5 DEF TaskFields
  <1>9. \A r \in stored.receipts : Proves(r, Changed(n))'
    <2>1. \A r \in stored.receipts : r.expected = w /\ r.move = None
      BY <1>3, <1>4 DEF Expects
    <2>2. nodes'[n] = w
      BY <1>4, <1>7
    <2> QED
      BY <2>1, <2>2 DEF Proves, Changed
  <1>10. Changed(n).kind # "removed" /\ Changed(n).node = n
    BY DEF Changed
  <1> QED
    BY <1>3, <1>5, <1>7, <1>8, <1>9, <1>10, ChangeProves

LEMMA MoveKeeps ==
  ASSUME NEW t, NEW a, NEW x, Acts(t, a, x), Move(t)
  PROVE  Whole(x)'
  <1> DEFINE n == a.node
             w == Now(a).shape
  <1>1. /\ DOMAIN tasks = Tasks /\ DOMAIN a = TaskFields /\ EventOf(t) = Now(a)
        /\ \A step : At(t, step) <=> a.step = step
    BY ActsFacts
  <1>2. t \in Tasks /\ a = tasks[t] /\ x = tasks'[t] /\ Whole(a)
    BY DEF Acts
  <1>3. /\ a.step = "move" /\ a.step \in ReceiptSteps /\ nodes[n].title = w.title
        /\ Expects(a, nodes[n].folder)
    BY <1>1, <1>2 DEF Move, Whole, TaskInv, EffectInv, ReceiptSteps
  <1>4. /\ nodes[n] \in Shapes /\ w \in Shapes /\ n \in DOMAIN nodes
        /\ \A r \in stored.receipts : stored.receipts = {r} /\ r.expected = w
    BY <1>3, ReceiptNode
  <1>5. /\ UNCHANGED <<log, stored, spent, drain>>
        /\ nodes' = [nodes EXCEPT ![n].folder = w.folder]
        /\ callbacks' = Append(callbacks, Moved(n, nodes[n].folder, w.folder))
        /\ x = [a EXCEPT !.step = "defer"]
    BY <1>1, <1>2, <1>3 DEF Move, Goto, server, link
  <1>6. [nodes[n] EXCEPT !.folder = w.folder] = w
    BY <1>3, <1>4 DEF Shapes
  <1>7. nodes' = [nodes EXCEPT ![n] = w]
    <2>1. nodes' = [nodes EXCEPT ![n] = [nodes[n] EXCEPT !.folder = w.folder]]
      BY <1>5
    <2> QED
      BY <1>6, <2>1
  <1>8. /\ x.step = "defer" /\ x.mode = a.mode /\ x.todo = a.todo /\ x.top = a.top
    BY <1>1, <1>5 DEF TaskFields
  <1>9. PICK e : e = Moved(n, nodes[n].folder, w.folder)
    OBVIOUS
  <1>10. /\ e.kind = "moved" /\ e.node = n /\ e.from = nodes[n].folder /\ e.to = w.folder
    BY <1>9 DEF Moved
  <1>11. \A r \in stored.receipts : Proves(r, e)'
    <2>1. \A r \in stored.receipts : r.expected = w /\ r.move = e.from
      BY <1>3, <1>4, <1>10 DEF Expects
    <2>2. nodes'[n] = w
      BY <1>4, <1>7
    <2> QED
      BY <1>10, <2>1, <2>2 DEF Proves
  <1> QED
    BY <1>3, <1>5, <1>7, <1>8, <1>9, <1>10, <1>11, ChangeProves

(***************************************************************************)
(* The cursor.                                                             *)
(***************************************************************************)
LEMMA NextOfMax ==
  ASSUME NEW c \in Nat PROVE Max({c, c + 1}) = c + 1
  <1>1. c \in Int /\ c + 1 \in Int
    OBVIOUS
  <1> DEFINE m == Max({c, c + 1})
  <1>2. m \in {c, c + 1} /\ m >= c + 1
    BY <1>1, MaxOfTwo
  <1> HIDE DEF m
  <1>3. m = c + 1
    BY <1>2
  <1> QED
    BY <1>3 DEF m

LEMMA TaskHead ==
  ASSUME NEW n \in Nat, NEW a, TaskOK(a, n), a.step \in AtEvent
  PROVE  Head(a.todo) \in Nat
  <1> DEFINE q == a.todo
  <1>1. q \in Seq(1 .. n) /\ q # <<>>
    BY DEF TaskOK
  <1> HIDE DEF q
  <1>2. Head(q) \in 1 .. n
    BY <1>1
  <1> QED
    BY <1>2 DEF q

LEMMA CheckpointKeeps ==
  ASSUME NEW t, NEW a, NEW x, Acts(t, a, x), Checkpoint(t)
  PROVE  Whole(x)'
  <1>0. PICK d : d = stored.cursor + 1
    OBVIOUS
  <1> DEFINE z == [stored EXCEPT !.cursor = d]
  <1>1. /\ DOMAIN stored = StoredFields /\ DOMAIN tasks = Tasks /\ DOMAIN a = TaskFields
        /\ drain.at = "idle" /\ Cursor(t) = Head(a.todo)
        /\ stored.cursor \in Nat /\ \A step : At(t, step) <=> a.step = step
    BY ActsFacts
  <1>2. t \in Tasks /\ a = tasks[t] /\ x = tasks'[t] /\ Whole(a) /\ scenario' = scenario
    BY DEF Acts
  <1>3. a.step = "checkpoint" /\ UNCHANGED <<log, nodes, callbacks, spent, drain>>
    BY <1>1 DEF Checkpoint, server, chrome
  <1>4. /\ stored.receipts = {} /\ stored.started = {} /\ a.step \in NextSteps /\ a.step \in AtEvent
        /\ Shows(Now(a).bookmark) = Now(a).shape
    BY <1>2, <1>3 DEF Whole, TaskInv, EffectInv, PlainSteps, NextSteps, AtEvent
  <1>5. /\ Head(a.todo) = d /\ Now(a) = log[d] /\ d \in Nat /\ d <= Len(log) /\ Len(log) \in Nat
    BY <1>0, <1>1, <1>4, AtNext
  <1>6. stored' = Refreshed(z) /\ x = AfterEvent(a, stored')
    <2>1. Max({stored.cursor, Cursor(t)}) = d
      BY <1>0, <1>1, <1>5, NextOfMax
    <2>2. /\ stored' = Refreshed([stored EXCEPT !.cursor = Max({stored.cursor, Cursor(t)})])
          /\ tasks' = [tasks EXCEPT ![t] = AfterEvent(tasks[t], stored')]
      BY DEF Checkpoint, Proceed
    <2> QED
      BY <1>1, <1>2, <2>1, <2>2
  <1>7. /\ stored'.cursor = d /\ stored'.mapping = stored.mapping
        /\ stored'.owners = stored.owners /\ stored'.started = {}
        /\ stored'.receipts = {} /\ stored'.intents = stored.intents
    <2>1. /\ DOMAIN z = StoredFields /\ z.cursor = d /\ z.mapping = stored.mapping
          /\ z.owners = stored.owners /\ z.started = {}
          /\ z.receipts = {} /\ z.intents = stored.intents
      BY <1>1, <1>4 DEF StoredFields
    <2> HIDE DEF z
    <2> QED
      BY <1>6, <2>1, HelpersAlike DEF Alike, Same
  <1> HIDE DEF z
  <1>8. HistoryInv /\ SceneInv /\ MapInv /\ NoStray(a) /\ LevelInv
    BY <1>2, <1>3, <1>4 DEF Whole, TreeInv, Orphan
  <1>9. HistoryInv' /\ SceneInv'
    BY <1>0, <1>1, <1>2, <1>3, <1>5, <1>7, <1>8, FrameKeeps DEF SceneInv
  <1>10. ReceiptInv' /\ CallbackInv(x)' /\ StartedInv(x)'
    BY <1>2, <1>3, <1>4, <1>7, RemovalsKeep DEF Whole, ReceiptInv, StartedInv
  <1>11. /\ x.step \in {"idle", "failed", "end", "admit"} /\ TaskInv(x)'
    <2>1. \/ x = Idle
          \/ a.mode = "rebuild" /\ x = [a EXCEPT !.step = "failed"]
          \/ /\ a.mode # "live" /\ x.mode = a.mode /\ x.step \in {"end", "admit"}
             /\ x.step = "end" => x.top <= stored'.cursor
             /\ x.step = "admit" => Remaining(x) /\ Head(x.todo) <= stored'.cursor + 1
      BY <1>4, <1>5, <1>6, <1>7, AfterKnown
    <2>2. a.mode = "rebuild" => scenario = "rebuild"
      BY <1>2 DEF Whole, TaskInv
    <2>3. CASE x = Idle
      BY <2>3 DEF TaskInv, EffectInv, Idle, AtEvent, NextSteps, CreateSteps, DeleteSteps, ReceiptSteps, PlainSteps
    <2>4. CASE a.mode = "rebuild" /\ x = [a EXCEPT !.step = "failed"]
      <3>1. x.step = "failed" /\ x.mode = a.mode
        BY <1>1, <2>4 DEF TaskFields
      <3> QED
        BY <1>2, <1>7, <2>2, <3>1
        DEF TaskInv, EffectInv, AtEvent, NextSteps, CreateSteps, DeleteSteps, ReceiptSteps, PlainSteps
    <2>5. CASE /\ a.mode # "live" /\ x.mode = a.mode /\ x.step \in {"end", "admit"}
               /\ x.step = "end" => x.top <= stored'.cursor
               /\ x.step = "admit" => Remaining(x) /\ Head(x.todo) <= stored'.cursor + 1
      <3>1. x.step = "admit" => Remaining(x)'
        BY <1>3, <2>5 DEF Remaining
      <3> QED
        BY <1>2, <2>2, <2>5, <3>1
        DEF TaskInv, EffectInv, AtEvent, NextSteps, CreateSteps, DeleteSteps, ReceiptSteps, PlainSteps
    <2> QED
      BY <2>1, <2>3, <2>4, <2>5
  <1>12. LevelInv' /\ (spent.rebuilds = 0 => \A b \in Bookmarks : Shows(b)' = Tree(d)'[b])
    BY <1>0, <1>3, <1>4, <1>5, <1>7, <1>8, CursorMoves
  <1>13. TreeInv(x)'
    <2>1. MapInv' /\ NoStray(x)'
      BY <1>3, <1>4, <1>7, <1>8 DEF MapInv, NoStray, DeleteOp
    <2> QED
      BY <1>12, <2>1 DEF TreeInv
  <1>14. ExactInv(x)'
    <2>1. spent.rebuilds \in Nat
      BY <1>8 DEF SceneInv
    <2>2. CASE spent.rebuilds > 0
      BY <1>3, <2>2 DEF ExactInv, Ahead
    <2>3. CASE spent.rebuilds = 0
      BY <1>7, <1>12, <2>3 DEF ExactInv
    <2> QED
      BY <2>1, <2>2, <2>3
  <1> QED
    BY <1>9, <1>10, <1>11, <1>13, <1>14 DEF Whole

(* A callback of a change finds its receipt and the final shape.           *)
LEMMA CallbackFinds ==
  ASSUME SyncInv, NEW a, Whole(a), callbacks # <<>>, NEW c, c = Next_callback, c.kind # "removed"
  PROVE  /\ a.step \notin {"retitle", "move", "fill"} /\ stored.started = {}
         /\ MapInv /\ NoStray(a) /\ LevelInv
         /\ \A k \in DOMAIN callbacks : k # 1 => callbacks[k].kind = "removed"
         /\ \E r : /\ stored.receipts = {r} /\ Proves(r, c)
                   /\ r.cursor = stored.cursor + 1 /\ r.cursor <= Len(log) /\ stored.cursor \in Nat
                   /\ r.bookmark \in Bookmarks /\ r.bookmark = log[r.cursor].bookmark
                   /\ Owner(stored, c.node) = {r.bookmark}
                   /\ ReceiptsFor(r.bookmark, c.node) = {r}
                   /\ Shows(log[r.cursor].bookmark) = log[r.cursor].shape
                   /\ nodes[c.node] # None
  <1>1. 1 \in DOMAIN callbacks /\ c = callbacks[1]
    BY TailIsSeq DEF Whole, CallbackInv, Next_callback
  <1>2. PICK r \in stored.receipts : r.node = c.node /\ Proves(r, c)
    BY <1>1 DEF Whole, CallbackInv
  <1>3. a.step \notin {"retitle", "move"}
        /\ \A k \in DOMAIN callbacks : k # 1 => callbacks[k].kind = "removed"
    BY <1>1 DEF Whole, CallbackInv
  <1>4. /\ stored.receipts = {r} /\ stored.started = {}
        /\ r.cursor = stored.cursor + 1 /\ r.cursor <= Len(log)
        /\ r.bookmark = log[r.cursor].bookmark
        /\ r.expected = log[r.cursor].shape /\ r.expected # None
        /\ r.node # 0 /\ stored.mapping[r.bookmark] = r.node
    BY <1>2 DEF Whole, ReceiptInv
  <1>5. a.step # "fill"
    BY <1>4 DEF Whole, TaskInv, PlainSteps
  <1>6. MapInv /\ NoStray(a) /\ LevelInv
    BY <1>4, <1>5 DEF Whole, TreeInv, Orphan
  <1>7. r.bookmark \in Bookmarks /\ stored.cursor \in Nat
    <2> DEFINE S == [bookmark : Bookmarks, shape : Shapes \cup {None}]
    <2>1. log \in Seq(S) /\ r.cursor \in 1 .. Len(log) /\ stored.cursor \in Nat
      BY <1>2 DEF Whole, HistoryInv, SyncInv, ReceiptsOK, StoredOK
    <2>2. log[r.cursor] \in S
      <3> HIDE DEF S
      <3> QED
        BY <2>1
    <2> QED
      BY <1>4, <2>1, <2>2
  <1>8. nodes[c.node] = r.expected
    BY <1>2 DEF Proves
  <1>9. Owner(stored, c.node) = {r.bookmark}
    <2>1. stored.owners = {p \in Nat \X Bookmarks : p[1] # 0 /\ stored.mapping[p[2]] = p[1]}
          /\ stored.mapping \in [Bookmarks -> Nat]
          /\ \A b, e \in Bookmarks : stored.mapping[b] # 0 /\ stored.mapping[b] = stored.mapping[e] => b = e
      BY <1>6 DEF MapInv
    <2>2. stored.mapping[r.bookmark] \in Nat
      BY <1>7, <2>1
    <2>3. \A b \in Bookmarks : <<c.node, b>> \in stored.owners <=> b = r.bookmark
      BY <1>2, <1>4, <1>7, <2>1, <2>2
    <2> QED
      BY <1>7, <2>3 DEF Owner
  <1>10. ReceiptsFor(r.bookmark, c.node) = {r}
    BY <1>2, <1>4 DEF ReceiptsFor
  <1>11. Shows(log[r.cursor].bookmark) = log[r.cursor].shape
    BY <1>2, <1>4, <1>8 DEF Shows
  <1> QED
    BY <1>2, <1>3, <1>4, <1>5, <1>6, <1>7, <1>8, <1>9, <1>10, <1>11

LEMMA NeverIgnored ==
  ASSUME SyncInv, NEW a, Whole(a)
  PROVE  ~ IgnoreCallback /\ ~ MissingNode
  <1> SUFFICES ASSUME IgnoreCallback \/ MissingNode PROVE FALSE
    OBVIOUS
  <1>1. callbacks # <<>> /\ Next_callback.kind # "removed"
    BY DEF IgnoreCallback, MissingNode
  <1>2. PICK c : c = Next_callback
    OBVIOUS
  <1>3. nodes[c.node] # None /\ Owner(stored, c.node) # {}
    BY <1>1, <1>2, CallbackFinds
  <1> QED
    BY <1>2, <1>3 DEF IgnoreCallback, MissingNode, Gone

LEMMA HandleCallbackKeeps ==
  ASSUME SyncInv, NEW a, Whole(a), TaskOK(a, Len(log)), scenario' = scenario, HandleCallback
  PROVE  Whole(a)'
  <1>1. PICK c : c = Next_callback
    OBVIOUS
  <1>2. /\ UNCHANGED <<log, nodes, spent>> /\ Handled /\ callbacks # <<>> /\ c.kind # "removed"
    BY <1>1 DEF HandleCallback, server, link
  <1>3. /\ DOMAIN stored = StoredFields /\ drain.at = "idle" /\ IsSeq(callbacks)
    BY DEF SyncInv, StoredOK, Whole, SceneInv, CallbackInv
  <1>4. /\ a.step \notin {"retitle", "move", "fill"} /\ stored.started = {}
        /\ MapInv /\ NoStray(a) /\ LevelInv
        /\ \A k \in DOMAIN callbacks : k # 1 => callbacks[k].kind = "removed"
    BY <1>1, <1>2, CallbackFinds
  <1>5. PICK r : /\ stored.receipts = {r} /\ Proves(r, c)
                 /\ r.cursor = stored.cursor + 1 /\ r.cursor <= Len(log) /\ stored.cursor \in Nat
                 /\ r.bookmark \in Bookmarks
                 /\ Owner(stored, c.node) = {r.bookmark}
                 /\ ReceiptsFor(r.bookmark, c.node) = {r}
                 /\ Shows(log[r.cursor].bookmark) = log[r.cursor].shape
    BY <1>1, <1>2, CallbackFinds
  <1>0. PICK d : d = stored.cursor + 1
    OBVIOUS
  <1>6. stored' = [stored EXCEPT !.receipts = {}, !.cursor = d] /\ drain' = drain
    <2>1. /\ stored' = [stored EXCEPT !.receipts = @ \ {r}, !.cursor = Max({@, r.cursor})]
          /\ drain' = drain
      BY <1>1, <1>5 DEF HandleCallback
    <2>2. Max({stored.cursor, r.cursor}) = d /\ stored.receipts \ {r} = {}
      BY <1>0, <1>5, NextOfMax
    <2> QED
      BY <2>1, <2>2
  <1>7. /\ stored'.cursor = d /\ stored'.mapping = stored.mapping
        /\ stored'.owners = stored.owners /\ stored'.started = {}
        /\ stored'.receipts = {} /\ stored'.intents = stored.intents
    BY <1>3, <1>4, <1>6 DEF StoredFields
  <1>8. d \in Nat /\ d >= stored.cursor /\ d <= Len(log)
    BY <1>0, <1>5
  <1>9. HistoryInv' /\ SceneInv'
    BY <1>2, <1>3, <1>6, <1>7, <1>8, FrameKeeps DEF Whole, SceneInv
  <1>10. ReceiptInv' /\ StartedInv(a)'
    BY <1>7 DEF ReceiptInv, StartedInv
  <1>11. CallbackInv(a)'
    <2>1. /\ IsSeq(Tail(callbacks)) /\ DOMAIN callbacks = 1 .. Len(callbacks)
          /\ DOMAIN Tail(callbacks) = 1 .. Len(callbacks) - 1 /\ Len(callbacks) \in Nat
          /\ \A k \in DOMAIN Tail(callbacks) :
               k + 1 \in DOMAIN callbacks /\ Tail(callbacks)[k] = callbacks[k + 1]
      BY <1>2, <1>3, TailIsSeq
    <2>2. callbacks' = Tail(callbacks)
      BY <1>2 DEF Handled
    <2>3. \A k \in DOMAIN callbacks' :
            /\ callbacks'[k].kind = "removed" /\ callbacks'[k].node \in DOMAIN nodes
            /\ nodes[callbacks'[k].node] = None
      <3> SUFFICES ASSUME NEW k \in DOMAIN Tail(callbacks), NEW e, e = callbacks[k + 1]
                   PROVE  e.kind = "removed" /\ e.node \in DOMAIN nodes /\ nodes[e.node] = None
        BY <2>1, <2>2
      <3>1. k + 1 \in DOMAIN callbacks /\ k + 1 # 1
        BY <2>1
      <3> QED
        BY <1>4, <3>1 DEF Whole, CallbackInv
    <2>4. IsSeq(callbacks)'
      BY <2>1, <2>2 DEF IsSeq
    <2> QED
      BY <1>2, <2>3, <2>4 DEF CallbackInv
  <1>12. TaskInv(a)'
    <2>1. a.step \notin CreateSteps \cup DeleteSteps \cup PlainSteps \cup ReceiptSteps
      BY <1>4, <1>5 DEF Whole, TaskInv, ReceiptSteps
    <2>2. EffectInv(a)'
      BY <2>1 DEF EffectInv, CreateSteps, DeleteSteps, PlainSteps, ReceiptSteps
    <2>3. a.step \notin NextSteps /\ a.step \notin {"clear", "fill"}
      BY <2>1 DEF NextSteps, PlainSteps
    <2>5. a.step \in AtEvent /\ a.mode # "live" => Remaining(a)' /\ Head(a.todo) <= d + 1
      <3> SUFFICES ASSUME a.step \in AtEvent, a.mode # "live"
                   PROVE  Remaining(a)' /\ Head(a.todo) <= d + 1
        OBVIOUS
      <3>1. Remaining(a) /\ Head(a.todo) <= stored.cursor + 1 /\ Head(a.todo) \in Nat
        BY TaskHead DEF Whole, TaskInv
      <3>2. Remaining(a)'
        BY <1>2, <3>1 DEF Remaining
      <3> QED
        BY <1>5, <1>8, <3>1, <3>2
    <2>6. a.step = "end" => a.top <= d
      <3> SUFFICES ASSUME a.step = "end" PROVE a.top <= d
        OBVIOUS
      <3>1. a.top <= stored.cursor /\ a.top \in Nat
        BY DEF Whole, TaskInv, TaskOK
      <3> QED
        BY <1>5, <1>8, <3>1
    <2> QED
      BY <1>7, <2>1, <2>2, <2>3, <2>5, <2>6 DEF Whole, TaskInv
  <1>13. LevelInv' /\ (spent.rebuilds = 0 => \A b \in Bookmarks : Shows(b)' = Tree(d)'[b])
    <2>1. r.cursor = d
      BY <1>0, <1>5
    <2> QED
      BY <1>0, <1>2, <1>4, <1>5, <1>7, <1>8, <2>1, CursorMoves DEF Whole
  <1>14. TreeInv(a)'
    <2>1. MapInv' /\ NoStray(a)'
      BY <1>2, <1>4, <1>7 DEF MapInv, NoStray, DeleteOp
    <2> QED
      BY <1>13, <2>1 DEF TreeInv
  <1>15. ExactInv(a)'
    <2>1. spent.rebuilds \in Nat
      BY DEF Whole, SceneInv
    <2>2. CASE spent.rebuilds > 0
      BY <1>2, <2>2 DEF ExactInv, Ahead
    <2>3. CASE spent.rebuilds = 0
      BY <1>7, <1>13, <2>3 DEF ExactInv
    <2> QED
      BY <2>1, <2>2, <2>3
  <1> QED
    BY <1>9, <1>10, <1>11, <1>12, <1>13, <1>14, <1>15 DEF Whole

(***************************************************************************)
(* The rebuild.                                                            *)
(***************************************************************************)
LEMMA TreeType ==
  ASSUME log \in Seq([bookmark : Bookmarks, shape : Shapes \cup {None}]), NEW n \in Nat, n <= Len(log)
  PROVE  \A b \in Bookmarks : Tree(n)[b] \in Shapes \cup {None}
  <1> TAKE b \in Bookmarks
  <1> SUFFICES ASSUME Tree(n)[b] # None PROVE Tree(n)[b] \in Shapes \cup {None}
    OBVIOUS
  <1>1. PICK i \in 1 .. n : log[i].shape = Tree(n)[b]
    BY TreeTells
  <1> DEFINE S == [bookmark : Bookmarks, shape : Shapes \cup {None}]
  <1>2. log \in Seq(S) /\ i \in 1 .. Len(log)
    BY <1>1
  <1>3. log[i] \in S
    <2> HIDE DEF S
    <2> QED
      BY <1>2
  <1> QED
    BY <1>1, <1>3

(* The nodes that are made for a tree, and where each bookmark's is.       *)
Filled(tree, order) == [k \in DOMAIN order |-> tree[order[k]]]
Rank(order) == [b \in Bookmarks |-> CHOOSE k \in DOMAIN order : order[k] = b]

LEMMA PlacedTells ==
  ASSUME IsFiniteSet(Bookmarks), NEW tree, \A b \in Bookmarks : tree[b] \in Shapes \cup {None},
         NEW order, order = Placed(tree), NEW filled, filled = Filled(tree, order),
         NEW rank, rank = Rank(order)
  PROVE  \E m \in Nat :
           /\ DOMAIN order = 1 .. m /\ filled \in Seq(Shapes \cup {None}) /\ Len(filled) = m
           /\ \A k \in 1 .. m :
                order[k] \in Alive(tree) /\ filled[k] = tree[order[k]] /\ rank[order[k]] = k
           /\ \A b \in Alive(tree) : rank[b] \in 1 .. m /\ order[rank[b]] = b
  <1> DEFINE living == Alive(tree)
             m == Cardinality(living)
             S == Shapes \cup {None}
  <1>1. living \subseteq Bookmarks /\ IsFiniteSet(living)
    BY FS_Subset DEF Alive
  <1>2. /\ m \in Nat /\ order \in [1 .. m -> living]
        /\ \A i, j \in 1 .. m : order[i] = order[j] => i = j
        /\ \A b \in living : \E i \in 1 .. m : order[i] = b
    <2> HIDE DEF living
    <2>1. order = SetToSeq(living)
      BY DEF Placed, living
    <2> QED
      <3>1. Cardinality(living) \in Nat /\ SetToSeq(living) \in [1 .. Cardinality(living) -> living]
        BY <1>1, OrderOfSet
      <3>2. \A i, j \in 1 .. Cardinality(living) : SetToSeq(living)[i] = SetToSeq(living)[j] => i = j
        BY <1>1, OrderOfSet
      <3>3. \A b \in living : \E i \in 1 .. Cardinality(living) : SetToSeq(living)[i] = b
        BY <1>1, OrderOfSet
      <3> QED
        BY <2>1, <3>1, <3>2, <3>3
  <1> HIDE DEF m
  <1>3. \A b \in living : rank[b] \in 1 .. m /\ order[rank[b]] = b
    BY <1>1, <1>2 DEF Rank
  <1>4. \A k \in 1 .. m : order[k] \in living /\ rank[order[k]] = k
    BY <1>1, <1>2 DEF Rank
  <1>5. \A k \in 1 .. m : tree[order[k]] \in S
    BY <1>1, <1>4
  <1>6. filled \in Seq(S) /\ Len(filled) = m /\ \A k \in 1 .. m : filled[k] = tree[order[k]]
    <2> HIDE DEF S
    <2>1. filled = [k \in 1 .. m |-> tree[order[k]]]
      BY <1>2 DEF Filled
    <2>2. filled \in [1 .. m -> S]
      BY <1>5, <2>1
    <2> QED
      BY <1>2, <2>1, <2>2
  <1> QED
    BY <1>2, <1>3, <1>4, <1>6

LEMMA KeepNothing == KeepAcked(<<>>) = <<>>
  <1> DEFINE acked == {k \in DOMAIN <<>> : ~ Unacked(<<>>[k])}
             f(j) == <<>>[CHOOSE k \in acked : Cardinality({m \in acked : m <= k}) = j]
  <1>1. acked = {}
    OBVIOUS
  <1>2. Cardinality(acked) = 0
    BY <1>1, FS_EmptySet
  <1>3. KeepAcked(<<>>) = [j \in 1 .. Cardinality(acked) |-> f(j)]
    BY DEF KeepAcked
  <1> HIDE DEF acked, f
  <1>4. KeepAcked(<<>>) = [j \in 1 .. 0 |-> f(j)]
    BY <1>2, <1>3
  <1> QED
    BY <1>4

LEMMA RebuildKeeps ==
  ASSUME NEW t, NEW a, NEW x, Acts(t, a, x), Rebuild(t), scenario = "remote" => spent'.rebuilds = 0
  PROVE  Whole(x)'
  <1>1. /\ DOMAIN stored = StoredFields /\ DOMAIN tasks = Tasks
        /\ stored.cursor \in Nat /\ Len(log) \in Nat /\ drain.at = "idle"
    BY ActsFacts
  <1>2. t \in Tasks /\ a = tasks[t] /\ x = tasks'[t] /\ Whole(a) /\ scenario' = scenario
    BY DEF Acts
  <1>3. /\ UNCHANGED <<log, nodes, callbacks, drain>> /\ a = Idle
        /\ stored' = [stored EXCEPT !.receipts = {}, !.started = {}, !.paused = FALSE, !.ambiguous = FALSE,
                              !.repair = "rebuild", !.health = "recovering", !.intents = KeepAcked(@)]
        /\ x = [Idle EXCEPT !.mode = "rebuild", !.step = "clear"]
        /\ spent' = [spent EXCEPT !.rebuilds = @ + 1]
    BY <1>1, <1>2 DEF Rebuild, Start, server, chrome
  <1>4. /\ spent \in [edits : {0}, evictions : Nat, rebuilds : Nat] /\ stored.intents = <<>>
    BY <1>2 DEF Whole, SceneInv
  <1>5. /\ spent' \in [edits : {0}, evictions : Nat, rebuilds : Nat]
        /\ spent'.evictions = spent.evictions /\ spent'.rebuilds > 0 /\ spent.rebuilds \in Nat
    BY <1>3, <1>4
  <1>6. scenario = "rebuild" /\ stored.receipts = {} /\ spent.evictions = 0
    BY <1>2, <1>5 DEF Whole, SceneInv
  <1>7. stored.started = {}
    BY <1>2, <1>3, <1>6 DEF Whole, StartedInv, CreateSteps, DeleteSteps, Idle
  <1>8. /\ stored'.cursor = stored.cursor /\ stored'.mapping = stored.mapping
        /\ stored'.owners = stored.owners /\ stored'.started = {}
        /\ stored'.receipts = {} /\ stored'.intents = <<>>
    <2> DEFINE q == KeepAcked(stored.intents)
    <2>1. q = <<>>
      BY <1>4, KeepNothing
    <2>2. stored' = [stored EXCEPT !.receipts = {}, !.started = {}, !.paused = FALSE, !.ambiguous = FALSE,
                              !.repair = "rebuild", !.health = "recovering", !.intents = q]
      BY <1>3
    <2> HIDE DEF q
    <2> QED
      BY <1>1, <2>1, <2>2 DEF StoredFields
  <1>9. x.step = "clear" /\ x.mode = "rebuild"
    BY <1>3 DEF Idle
  <1>10. \A k : Tree(k)' = Tree(k)
    BY <1>3, TreeSame
  <1>11. \A b : Shows(b)' = Shows(b)
    BY <1>3, <1>8 DEF Shows
  <1>12. HistoryInv'
    BY <1>2, <1>3, <1>10 DEF Whole, HistoryInv
  <1>13. SceneInv'
    BY <1>1, <1>2, <1>3, <1>5, <1>6, <1>8 DEF Whole, SceneInv
  <1>14. ReceiptInv' /\ StartedInv(x)' /\ CallbackInv(x)'
    BY <1>2, <1>3, <1>6, <1>8, RemovalsKeep DEF Whole, ReceiptInv, StartedInv
  <1>15. TaskInv(x)'
    BY <1>2, <1>5, <1>6, <1>8, <1>9
    DEF TaskInv, EffectInv, AtEvent, NextSteps, CreateSteps, DeleteSteps, ReceiptSteps, PlainSteps
  <1>16. TreeInv(x)'
    <2>1. MapInv /\ NoStray(a) /\ LevelInv
      BY <1>2, <1>3, <1>7 DEF Whole, TreeInv, Orphan, Idle
    <2>2. MapInv' /\ NoStray(x)'
      BY <1>3, <1>7, <1>8, <2>1 DEF MapInv, NoStray, DeleteOp, Idle
    <2>3. LevelInv'
      <3>1. \A k \in stored.cursor .. Reach : k \in stored.cursor .. Reach'
        BY <1>1, <1>2, <1>3, <1>5, <1>8 DEF Reach, Whole, SceneInv
      <3> QED
        BY <1>8, <1>10, <1>11, <2>1, <3>1 DEF LevelInv
    <2> QED
      BY <2>2, <2>3 DEF TreeInv
  <1>17. ExactInv(x)'
    BY <1>5 DEF ExactInv, Ahead
  <1> QED
    BY <1>12, <1>13, <1>14, <1>15, <1>16, <1>17 DEF Whole

LEMMA ClearKeeps ==
  ASSUME NEW t, NEW a, NEW x, Acts(t, a, x), Clear(t)
  PROVE  Whole(x)'
  <1>1. /\ DOMAIN stored = StoredFields /\ DOMAIN tasks = Tasks /\ DOMAIN a = TaskFields
        /\ stored.cursor \in Nat /\ Len(log) \in Nat /\ drain.at = "idle"
        /\ \A step : At(t, step) <=> a.step = step
    BY ActsFacts
  <1>2. t \in Tasks /\ a = tasks[t] /\ x = tasks'[t] /\ Whole(a) /\ scenario' = scenario
    BY DEF Acts
  <1>3. /\ UNCHANGED <<log, callbacks, spent, drain>> /\ a.step = "clear"
        /\ stored' = [stored EXCEPT !.mapping = [b \in Bookmarks |-> 0], !.owners = {}]
        /\ nodes' = [n \in DOMAIN nodes |-> None]
        /\ x = [a EXCEPT !.step = "fill", !.top = Len(log)]
    BY <1>1, <1>2 DEF Clear, server, link
  <1>4. /\ stored.receipts = {} /\ stored.started = {} /\ scenario = "rebuild" /\ spent.rebuilds > 0
        /\ MapInv /\ SceneInv
    BY <1>2, <1>3 DEF Whole, TaskInv, TreeInv, Orphan, PlainSteps
  <1>5. /\ stored'.cursor = stored.cursor /\ stored'.mapping = [b \in Bookmarks |-> 0]
        /\ stored'.owners = {} /\ stored'.started = {}
        /\ stored'.receipts = {} /\ stored'.intents = stored.intents
    <2> DEFINE zero == [b \in Bookmarks |-> 0]
    <2>1. stored' = [stored EXCEPT !.mapping = zero, !.owners = {}]
      BY <1>3
    <2> HIDE DEF zero
    <2>2. /\ stored'.cursor = stored.cursor /\ stored'.mapping = zero
          /\ stored'.owners = {} /\ stored'.started = {}
          /\ stored'.receipts = {} /\ stored'.intents = stored.intents
      BY <1>1, <1>4, <2>1 DEF StoredFields
    <2> QED
      BY <2>2 DEF zero
  <1>6. x.step = "fill" /\ x.mode = a.mode /\ x.top = Len(log)
    BY <1>1, <1>3 DEF TaskFields
  <1>7. HistoryInv' /\ SceneInv'
    BY <1>1, <1>2, <1>3, <1>5, FrameKeeps DEF Whole, SceneInv
  <1>8. ReceiptInv' /\ StartedInv(x)' /\ CallbackInv(x)'
    BY <1>2, <1>3, <1>4, <1>5, RemovalsKeep DEF Whole, ReceiptInv, StartedInv
  <1>9. TaskInv(x)'
    <2>1. x.mode = "rebuild" => scenario = "rebuild"
      BY <1>4
    <2>2. \A n \in DOMAIN nodes' : nodes'[n] = None
      BY <1>3
    <2>3. stored'.cursor <= x.top /\ x.top <= Len(log')
      BY <1>1, <1>3, <1>4, <1>5, <1>6 DEF SceneInv
    <2>4. \A b \in Bookmarks : stored'.mapping[b] = 0
      BY <1>5
    <2> QED
      BY <1>2, <1>3, <1>4, <1>5, <1>6, <2>1, <2>2, <2>3, <2>4
      DEF TaskInv, EffectInv, AtEvent, NextSteps, CreateSteps, DeleteSteps, ReceiptSteps, PlainSteps
  <1>10. MapInv'
    <2>1. nodes' \in Seq(Shapes \cup {None})
      <3> DEFINE S == Shapes \cup {None}
      <3>1. nodes \in Seq(S) /\ None \in S
        BY <1>4 DEF MapInv
      <3> HIDE DEF S
      <3>2. nodes' \in [1 .. Len(nodes) -> S] /\ Len(nodes) \in Nat
        BY <1>3, <3>1
      <3>3. nodes' \in Seq(S)
        BY <3>2
      <3> QED
        BY <3>3 DEF S
    <2>2. stored'.mapping \in [Bookmarks -> Nat] /\ \A b \in Bookmarks : stored'.mapping[b] = 0
      BY <1>5
    <2>3. stored'.owners = {p \in Nat \X Bookmarks : p[1] # 0 /\ stored'.mapping[p[2]] = p[1]}
      BY <1>5, <2>2
    <2> QED
      BY <2>1, <2>2, <2>3 DEF MapInv
  <1>11. TreeInv(x)'
    BY <1>6, <1>10 DEF TreeInv
  <1>12. ExactInv(x)'
    BY <1>3, <1>4 DEF ExactInv, Ahead
  <1> QED
    BY <1>7, <1>8, <1>9, <1>11, <1>12 DEF Whole

LEMMA FillKeeps ==
  ASSUME NEW t, NEW a, NEW x, Acts(t, a, x), Fill(t), IsFiniteSet(Bookmarks)
  PROVE  Whole(x)'
  <1>1. /\ DOMAIN stored = StoredFields /\ DOMAIN tasks = Tasks /\ DOMAIN a = TaskFields
        /\ stored.cursor \in Nat /\ Len(log) \in Nat /\ drain.at = "idle" /\ a.top \in Nat
        /\ \A step : At(t, step) <=> a.step = step
    BY ActsFacts DEF TaskOK
  <1>2. t \in Tasks /\ a = tasks[t] /\ x = tasks'[t] /\ Whole(a) /\ scenario' = scenario
    BY DEF Acts
  <1>3. PICK tree : tree = Tree(a.top)
    OBVIOUS
  <1>4. PICK order : order = Placed(tree)
    OBVIOUS
  <1>5. PICK filled : filled = Filled(tree, order)
    OBVIOUS
  <1>6. PICK rank : rank = Rank(order)
    OBVIOUS
  <1>7. /\ stored.receipts = {} /\ stored.started = {} /\ scenario = "rebuild" /\ spent.rebuilds > 0
        /\ \A n \in DOMAIN nodes : nodes[n] = None
        /\ \A b \in Bookmarks : stored.mapping[b] = 0
        /\ stored.cursor <= a.top /\ a.top <= Len(log)
        /\ MapInv /\ SceneInv /\ HistoryInv /\ a.step = "fill"
        /\ (a.mode = "rebuild" => scenario = "rebuild")
    <2>1. a.step = "fill"
      BY <1>1 DEF Fill
    <2> QED
      BY <1>2, <2>1 DEF Whole, TaskInv, TreeInv, Orphan, PlainSteps
  <1>8. stored.owners = {}
    <2>1. stored.owners = {p \in Nat \X Bookmarks : p[1] # 0 /\ stored.mapping[p[2]] = p[1]}
      BY <1>7 DEF MapInv
    <2> QED
      BY <1>7, <2>1
  <1> DEFINE L == Len(nodes)
             map == [b \in Bookmarks |-> IF b \in Alive(tree) THEN L + rank[b] ELSE stored.mapping[b]]
             own == stored.owners \cup {<<L + k, order[k]>> : k \in DOMAIN order}
  <1>9. /\ UNCHANGED <<log, callbacks, spent, drain>>
        /\ nodes' = nodes \o filled
        /\ x = [a EXCEPT !.todo = Pending(stored.cursor), !.top = Len(log),
                         !.step = IF Len(log) > stored.cursor THEN "admit" ELSE "end"]
    BY <1>1, <1>2, <1>3, <1>4, <1>5 DEF Fill, Filled, server, link
  <1>10. stored' = [stored EXCEPT !.mapping = map, !.owners = own]
    <2> DEFINE R(b) == CHOOSE k \in DOMAIN order : order[k] = b
               mid == [b \in Bookmarks |-> IF b \in Alive(tree) THEN L + R(b) ELSE stored.mapping[b]]
    <2>1. stored' = [stored EXCEPT !.mapping = mid, !.owners = own]
      <3>1. stored' = [stored EXCEPT
              !.mapping = [b \in Bookmarks |->
                             IF b \in Alive(tree)
                               THEN Len(nodes) + (CHOOSE k \in DOMAIN order : order[k] = b) ELSE @[b]],
              !.owners = @ \cup {<<Len(nodes) + k, order[k]>> : k \in DOMAIN order}]
        BY <1>2, <1>3, <1>4 DEF Fill
      <3> QED
        BY <3>1, Zenon
    <2>2. mid = map
      <3>1. \A b \in Bookmarks : rank[b] = R(b)
        BY <1>6 DEF Rank
      <3> HIDE DEF R
      <3> QED
        BY <3>1
    <2> HIDE DEF mid, map, own
    <2> QED
      BY <2>1, <2>2
  <1>11. /\ stored'.cursor = stored.cursor /\ stored'.mapping = map
         /\ stored'.owners = own /\ stored'.started = {}
         /\ stored'.receipts = {} /\ stored'.intents = stored.intents
    <2> HIDE DEF map, own
    <2> QED
      BY <1>1, <1>7, <1>10 DEF StoredFields
  <1>12. \A b \in Bookmarks : tree[b] \in Shapes \cup {None}
    BY <1>1, <1>3, <1>7, TreeType DEF HistoryInv
  <1>13. PICK m \in Nat :
           /\ DOMAIN order = 1 .. m /\ filled \in Seq(Shapes \cup {None}) /\ Len(filled) = m
           /\ \A k \in 1 .. m :
                order[k] \in Alive(tree) /\ filled[k] = tree[order[k]] /\ rank[order[k]] = k
           /\ \A b \in Alive(tree) : rank[b] \in 1 .. m /\ order[rank[b]] = b
    BY <1>4, <1>5, <1>6, <1>12, PlacedTells
  <1>14. /\ nodes' \in Seq(Shapes \cup {None}) /\ L \in Nat
         /\ DOMAIN nodes = 1 .. L /\ DOMAIN nodes' = 1 .. L + m
         /\ \A n \in 1 .. L : nodes'[n] = None
         /\ \A k \in 1 .. m : nodes'[L + k] = tree[order[k]]
    <2> DEFINE S == Shapes \cup {None}
    <2>1. nodes \in Seq(S) /\ filled \in Seq(S)
      BY <1>7, <1>13 DEF MapInv
    <2> HIDE DEF S
    <2>2. /\ nodes \o filled \in Seq(S) /\ Len(nodes \o filled) = L + m
          /\ L \in Nat /\ DOMAIN nodes = 1 .. L
          /\ \A i \in 1 .. L + m : (nodes \o filled)[i] = IF i <= L THEN nodes[i] ELSE filled[i - L]
      BY <1>13, <2>1, ConcatProperties
    <2> DEFINE p == nodes \o filled
    <2>3. p \in Seq(S) /\ Len(p) = L + m
      BY <2>2
    <2>4. \A i \in 1 .. L + m : p[i] = IF i <= L THEN nodes[i] ELSE filled[i - L]
      BY <2>2
    <2> HIDE DEF p, L
    <2>5. DOMAIN p = 1 .. L + m
      BY <2>3
    <2>6. \A n \in 1 .. L : p[n] = None
      <3> SUFFICES ASSUME NEW n \in 1 .. L PROVE p[n] = None
        OBVIOUS
      <3>1. n \in 1 .. L + m /\ n <= L /\ n \in DOMAIN nodes
        BY <2>2
      <3>2. p[n] = nodes[n]
        BY <2>4, <3>1
      <3> QED
        BY <1>7, <3>1, <3>2
    <2>7. \A k \in 1 .. m : p[L + k] = tree[order[k]]
      <3> SUFFICES ASSUME NEW k \in 1 .. m PROVE p[L + k] = tree[order[k]]
        OBVIOUS
      <3>1. L + k \in 1 .. L + m /\ ~ (L + k <= L) /\ (L + k) - L = k
        BY <2>2
      <3> QED
        BY <1>13, <2>4, <3>1
    <2> QED
      BY <1>9, <2>2, <2>3, <2>5, <2>6, <2>7 DEF p, S
  <1>15. \A b \in Bookmarks :
           /\ map[b] = IF b \in Alive(tree) THEN L + rank[b] ELSE 0
           /\ map[b] \in Nat
    BY <1>7, <1>13, <1>14
  <1>16. \A b \in Bookmarks : b \in Alive(tree) <=> tree[b] # None
    BY DEF Alive
  <1> HIDE DEF L
  <1>17. \A b \in Alive(tree) : b \in Bookmarks /\ map[b] = L + rank[b] /\ map[b] # 0
                                /\ map[b] \in DOMAIN nodes' /\ nodes'[map[b]] = tree[b]
    <2> SUFFICES ASSUME NEW b \in Alive(tree)
                 PROVE  b \in Bookmarks /\ map[b] = L + rank[b] /\ map[b] # 0
                        /\ map[b] \in DOMAIN nodes' /\ nodes'[map[b]] = tree[b]
      OBVIOUS
    <2>1. b \in Bookmarks
      BY DEF Alive
    <2>2. map[b] = L + rank[b] /\ rank[b] \in 1 .. m /\ order[rank[b]] = b
      BY <1>13, <1>15, <2>1
    <2> HIDE DEF map
    <2> QED
      BY <1>14, <2>1, <2>2
  <1> HIDE DEF map
  <1>18. \A b \in Bookmarks : b \notin Alive(tree) => map[b] = 0
    BY <1>15
  <1>19. map \in [Bookmarks -> Nat]
    BY <1>15 DEF map
  <1>20. \A b \in Bookmarks : Shows(b)' = tree[b]
    BY <1>11, <1>16, <1>17, <1>18 DEF Shows
  <1>21. HistoryInv' /\ SceneInv'
    BY <1>1, <1>2, <1>7, <1>9, <1>11, FrameKeeps DEF SceneInv
  <1>22. ReceiptInv' /\ StartedInv(x)' /\ CallbackInv(x)'
    BY <1>2, <1>7, <1>9, <1>11, <1>14, RemovalsKeep DEF Whole, ReceiptInv, StartedInv
  <1>23. x.step \in {"admit", "end"} /\ TaskInv(x)'
    <2>1. x.step \in {"admit", "end"} /\ TaskInv(x)
      BY <1>7, <1>9, FetchKnows
    <2>2. x.step = "admit" /\ x.mode # "live" => Remaining(x)'
      BY <1>9, <2>1 DEF TaskInv, Remaining, AtEvent
    <2> QED
      BY <1>2, <1>9, <1>11, <2>1, <2>2
      DEF TaskInv, EffectInv, AtEvent, NextSteps, CreateSteps, DeleteSteps, ReceiptSteps, PlainSteps
  <1>24. MapInv'
    <2>1. \A b \in Bookmarks : map[b] # 0 =>
            /\ map[b] \in DOMAIN nodes' /\ nodes'[map[b]] # None
            /\ \A c \in Bookmarks : map[b] = map[c] => b = c
      <3> SUFFICES ASSUME NEW b \in Bookmarks, map[b] # 0
                   PROVE  /\ map[b] \in DOMAIN nodes' /\ nodes'[map[b]] # None
                          /\ \A c \in Bookmarks : map[b] = map[c] => b = c
        OBVIOUS
      <3>1. b \in Alive(tree)
        BY <1>18
      <3>2. ASSUME NEW c \in Bookmarks, map[b] = map[c] PROVE b = c
        <4>1. c \in Alive(tree)
          BY <1>18, <3>2
        <4>2. rank[b] \in Nat /\ rank[c] \in Nat /\ L + rank[b] = L + rank[c]
              /\ order[rank[b]] = b /\ order[rank[c]] = c
          BY <1>13, <1>17, <3>1, <3>2, <4>1
        <4> QED
          BY <1>14, <4>2
      <3> QED
        BY <1>16, <1>17, <3>1, <3>2
    <2>2. own = {p \in Nat \X Bookmarks : p[1] # 0 /\ map[p[2]] = p[1]}
      <3>1. own = {<<L + k, order[k]>> : k \in 1 .. m}
        BY <1>8, <1>13
      <3>2. ASSUME NEW k \in 1 .. m
            PROVE  L + k \in Nat /\ L + k # 0 /\ order[k] \in Bookmarks /\ map[order[k]] = L + k
        <4>1. order[k] \in Alive(tree) /\ rank[order[k]] = k /\ k \in Nat /\ L \in Nat
          BY <1>13, <1>14
        <4>2. L + k # 0 /\ L + k \in Nat
          BY <4>1
        <4> QED
          BY <1>17, <4>1, <4>2
      <3>3. ASSUME NEW n \in Nat, NEW b \in Bookmarks, n # 0, map[b] = n
            PROVE  \E k \in 1 .. m : <<n, b>> = <<L + k, order[k]>>
        <4>1. b \in Alive(tree)
          BY <1>18, <3>3
        <4>2. rank[b] \in 1 .. m /\ order[rank[b]] = b /\ n = L + rank[b]
          BY <1>13, <1>17, <3>3, <4>1
        <4> QED
          BY <4>2
      <3> HIDE DEF own
      <3>4. \A p \in own : p \in Nat \X Bookmarks /\ p[1] # 0 /\ map[p[2]] = p[1]
        BY <3>1, <3>2
      <3>5. \A p \in Nat \X Bookmarks : p[1] # 0 /\ map[p[2]] = p[1] => p \in own
        BY <3>1, <3>3
      <3> QED
        BY <3>4, <3>5
    <2> HIDE DEF own
    <2> QED
      BY <1>11, <1>14, <1>19, <2>1, <2>2 DEF MapInv
  <1>25. TreeInv(x)'
    <2>1. NoStray(x)'
      <3> SUFFICES ASSUME NEW n \in DOMAIN nodes', nodes'[n] # None
                   PROVE  \E b \in Bookmarks : map[b] = n
        BY <1>11 DEF NoStray
      <3>1. n \in 1 .. L + m /\ n \notin 1 .. L
        BY <1>14
      <3>2. n - L \in 1 .. m /\ L + (n - L) = n
        BY <1>14, <3>1
      <3>3. order[n - L] \in Alive(tree) /\ rank[order[n - L]] = n - L
        BY <1>13, <3>2
      <3> QED
        BY <1>17, <3>2, <3>3
    <2>2. LevelInv'
      <3>1. \A k : Tree(k)' = Tree(k)
        BY <1>9, TreeSame
      <3>2. Reach' = Len(log)
        BY <1>7, <1>9 DEF Reach
      <3>3. a.top \in stored.cursor .. Len(log)
        BY <1>1, <1>7
      <3>4. \A b \in Bookmarks : \E k \in stored.cursor .. Len(log) : Shows(b)' = Tree(k)[b]
        BY <1>3, <1>20, <3>3
      <3> QED
        BY <1>11, <3>1, <3>2, <3>4 DEF LevelInv
    <2> QED
      BY <1>24, <2>1, <2>2 DEF TreeInv
  <1>26. ExactInv(x)'
    BY <1>7, <1>9 DEF ExactInv, Ahead
  <1> QED
    BY <1>21, <1>22, <1>23, <1>25, <1>26 DEF Whole

(***************************************************************************)
(* The eviction, and the other clients.                                    *)
(***************************************************************************)
LEMMA SuffixIsSeq ==
  ASSUME NEW q, IsSeq(q), NEW k \in 1 .. Len(q) + 1, NEW p, p = SubSeq(q, k, Len(q))
  PROVE  /\ IsSeq(p) /\ k \in Nat
         /\ \A j \in DOMAIN p : j \in Nat /\ k + j - 1 \in DOMAIN q /\ p[j] = q[k + j - 1]
  <1> DEFINE S == {q[i] : i \in DOMAIN q}
             n == Len(q)
             m == IF k <= n THEN n - k + 1 ELSE 0
  <1>1. q \in Seq(S)
    BY DEF IsSeq
  <1> HIDE DEF S
  <1>2. n \in Nat /\ DOMAIN q = 1 .. n /\ k \in Nat
    BY <1>1
  <1>3. /\ p \in Seq(S) /\ Len(p) = m /\ \A i \in 1 .. m : p[i] = q[k + i - 1]
    <2>1. n \in k - 1 .. Len(q)
      BY <1>2
    <2>2. /\ SubSeq(q, k, n) \in Seq(S)
          /\ Len(SubSeq(q, k, n)) = IF k <= n THEN n - k + 1 ELSE 0
          /\ \A i \in 1 .. n - k + 1 : SubSeq(q, k, n)[i] = q[k + i - 1]
      BY <1>1, <2>1, SubSeqProperties
    <2>3. 1 .. m = 1 .. n - k + 1
      BY <1>2
    <2> QED
      BY <2>2, <2>3
  <1>4. m \in Nat /\ \A i \in 1 .. m : i \in Nat /\ k + i - 1 \in 1 .. n
    BY <1>2
  <1> HIDE DEF m
  <1>5. DOMAIN p = 1 .. m /\ p \in [1 .. m -> S]
    BY <1>3, LenProperties
  <1>6. IsSeq(p)
    BY <1>4, <1>5, RangeIsSeq
  <1> QED
    BY <1>2, <1>3, <1>4, <1>5, <1>6

LEMMA EvictKeeps ==
  ASSUME NEW a, Whole(a), Evict, scenario' = scenario, scenario = "rebuild" => spent'.evictions = 0
  PROVE  Whole(Idle)'
  <1>1. /\ UNCHANGED <<log, nodes, stored>> /\ drain' = Resting
        /\ spent' = [spent EXCEPT !.evictions = @ + 1]
        /\ \E k \in 1 .. Len(callbacks) + 1 : callbacks' = SubSeq(callbacks, k, Len(callbacks))
    BY DEF Evict, server
  <1>2. /\ spent \in [edits : {0}, evictions : Nat, rebuilds : Nat]
    BY DEF Whole, SceneInv
  <1>3. /\ spent' \in [edits : {0}, evictions : Nat, rebuilds : Nat]
        /\ spent'.evictions > 0 /\ spent'.rebuilds = spent.rebuilds
    <2>1. PICK k \in Nat : k = spent.evictions
      BY <1>2
    <2>2. spent' = [spent EXCEPT !.evictions = k + 1]
      BY <1>1, <2>1
    <2>3. k + 1 \in Nat /\ k + 1 > 0
      BY <2>1
    <2> QED
      BY <1>2, <2>2, <2>3
  <1>4. scenario = "remote" /\ spent.rebuilds = 0
    BY <1>3 DEF Whole, SceneInv
  <1>5. \A k : Tree(k)' = Tree(k)
    BY <1>1, TreeSame
  <1>6. \A b : Shows(b)' = Shows(b)
    BY <1>1 DEF Shows
  <1>7. HistoryInv' /\ ReceiptInv'
    BY <1>1, <1>5 DEF Whole, HistoryInv, ReceiptInv
  <1>8. SceneInv'
    BY <1>1, <1>3, <1>4 DEF Whole, SceneInv, Resting
  <1>9. CallbackInv(Idle)'
    <2>1. PICK k \in 1 .. Len(callbacks) + 1 : callbacks' = SubSeq(callbacks, k, Len(callbacks))
      BY <1>1
    <2>2. PICK p : p = callbacks'
      OBVIOUS
    <2>3. /\ IsSeq(p) /\ k \in Nat
          /\ \A j \in DOMAIN p : j \in Nat /\ k + j - 1 \in DOMAIN callbacks /\ p[j] = callbacks[k + j - 1]
      <3>1. IsSeq(callbacks)
        BY DEF Whole, CallbackInv
      <3>2. p = SubSeq(callbacks, k, Len(callbacks))
        BY <2>1, <2>2
      <3> QED
        BY <3>1, <3>2, SuffixIsSeq
    <2>4. ASSUME NEW j \in DOMAIN p, NEW c, c = p[j]
          PROVE  /\ c.node \in DOMAIN nodes
                 /\ c.kind = "removed" => nodes[c.node] = None
                 /\ c.kind # "removed" =>
                      /\ \E r \in stored.receipts : r.node = c.node /\ Proves(r, c)
                      /\ \A i \in DOMAIN p : p[i].kind # "removed" => i = j
      <3>1. k + j - 1 \in DOMAIN callbacks /\ c = callbacks[k + j - 1] /\ j \in Nat
        BY <2>3, <2>4
      <3>2. ASSUME NEW i \in DOMAIN p, p[i].kind # "removed", c.kind # "removed"
            PROVE  i = j
        <4>1. k + i - 1 \in DOMAIN callbacks /\ p[i] = callbacks[k + i - 1] /\ i \in Nat
          BY <2>3
        <4>2. k + i - 1 = k + j - 1
          BY <3>1, <3>2, <4>1 DEF Whole, CallbackInv
        <4> QED
          BY <2>3, <3>1, <4>1, <4>2
      <3> QED
        BY <3>1, <3>2 DEF Whole, CallbackInv
    <2>5. \A r, c : Proves(r, c)' <=> Proves(r, c)
      BY <1>1 DEF Proves
    <2>6. IsSeq(callbacks)'
      BY <2>2, <2>3 DEF IsSeq
    <2> QED
      BY <1>1, <2>2, <2>4, <2>5, <2>6 DEF CallbackInv, Idle
  <1>10. TaskInv(Idle)'
    BY DEF TaskInv, EffectInv, Idle, AtEvent, NextSteps, CreateSteps, DeleteSteps, ReceiptSteps, PlainSteps
  <1>11. StartedInv(Idle)'
    BY <1>1, <1>3 DEF Whole, StartedInv, DeleteOp, Event
  <1>12. TreeInv(Idle)'
    <2> SUFFICES ASSUME ~ \E op \in stored.started : op.effect = "create"
                 PROVE  MapInv' /\ NoStray(Idle)' /\ LevelInv'
      BY <1>1 DEF TreeInv, Orphan, Idle, CreateSteps
    <2>1. a.step # "fill" /\ a.step # "map"
      <3>1. a.step # "fill"
        BY <1>4 DEF Whole, TaskInv
      <3>2. a.step \in CreateSteps => CreateBy(a) \in stored.started
        BY DEF Whole, TaskInv, EffectInv
      <3>3. CreateBy(a).effect = "create"
        BY DEF CreateBy
      <3> QED
        BY <3>1, <3>2, <3>3 DEF CreateSteps
    <2>2. MapInv /\ NoStray(a) /\ LevelInv
      BY <2>1 DEF Whole, TreeInv, Orphan
    <2>3. MapInv' /\ NoStray(Idle)'
      BY <1>1, <2>1, <2>2 DEF MapInv, NoStray, DeleteOp
    <2>4. LevelInv'
      BY <1>1, <1>3, <1>5, <1>6, <2>2 DEF LevelInv, Reach
    <2> QED
      BY <2>3, <2>4
  <1>13. ExactInv(Idle)'
    BY <1>3 DEF ExactInv, Ahead
  <1> QED
    BY <1>7, <1>8, <1>9, <1>10, <1>11, <1>12, <1>13 DEF Whole

(* An event more, for the trees before it and after it.                    *)
LEMMA TreeGrows ==
  ASSUME NEW n, n = Len(log), NEW S, log \in Seq(S), NEW e \in S, log' = Append(log, e)
  PROVE  /\ n \in Nat /\ log' \in Seq(S) /\ Len(log') = n + 1 /\ log'[n + 1] = e
         /\ \A i \in 1 .. n : log'[i] = log[i]
         /\ \A b \in Bookmarks :
              /\ Tree(n + 1)'[b] = IF e.bookmark = b THEN e.shape ELSE Tree(n)[b]
              /\ \A k \in Nat : k <= n => Tree(k)'[b] = Tree(k)[b]
  <1>1. /\ n \in Nat /\ log' \in Seq(S) /\ Len(log') = n + 1 /\ log'[n + 1] = e
        /\ \A i \in 1 .. n : log'[i] = log[i]
    OBVIOUS
  <1>2. \A k \in Nat : k <= n => \A b \in Bookmarks : Tree(k)'[b] = Tree(k)[b] /\ About(b, k)' = About(b, k)
    BY <1>1, TreeKept
  <1>3. ASSUME NEW b \in Bookmarks
        PROVE  Tree(n + 1)'[b] = IF e.bookmark = b THEN e.shape ELSE Tree(n)[b]
    <2>1. CASE e.bookmark = b
      <3>1. n + 1 \in About(b, n + 1)' /\ About(b, n + 1)' \in SUBSET (1 .. n + 1)
        BY <1>1, <2>1 DEF About
      <3>2. PICK K : K = About(b, n + 1)'
        OBVIOUS
      <3>3. Max(K) \in K /\ Max(K) >= n + 1
        <4>1. n + 1 \in Nat /\ K \in SUBSET (1 .. n + 1) /\ n + 1 \in K
          BY <1>1, <3>1, <3>2
        <4> QED
          BY <4>1, GreatestIsMax
      <3>4. Max(K) = n + 1
        BY <1>1, <3>1, <3>2, <3>3
      <3>5. Tree(n + 1)'[b] = IF K = {} THEN None ELSE log'[Max(K)].shape
        BY <3>2 DEF Tree
      <3> QED
        BY <1>1, <2>1, <3>1, <3>2, <3>4, <3>5
    <2>2. CASE e.bookmark # b
      <3>1. About(b, n + 1)' = About(b, n)
        BY <1>1, <2>2 DEF About
      <3>2. About(b, n)' = About(b, n) /\ Tree(n)'[b] = Tree(n)[b]
        BY <1>1, <1>2
      <3>3. Tree(n + 1)'[b] = Tree(n)'[b]
        BY <3>1, <3>2 DEF Tree
      <3> QED
        BY <2>2, <3>2, <3>3
    <2> QED
      BY <2>1, <2>2
  <1> QED
    BY <1>1, <1>2, <1>3

LEMMA OthersKeep ==
  ASSUME SyncInv, NEW a, Whole(a), TaskOK(a, Len(log)),
         NEW b \in Bookmarks, NEW shape \in Shapes \cup {None}, OtherChange(b, shape),
         Changes \subseteq {"create", "delete", "retitle", "move"}, scenario' = scenario,
         scenario = "rebuild" => Kind(b, Tree(Len(log))[b], shape) \in {"create", "delete"}
  PROVE  Whole(a)'
  <1> DEFINE S == [bookmark : Bookmarks, shape : Shapes \cup {None}]
  <1>0. PICK e : e = Event(b, shape)
    OBVIOUS
  <1>1. e \in S /\ e.bookmark = b /\ e.shape = shape
    BY <1>0 DEF Event
  <1>2. PICK n : n = Len(log)
    OBVIOUS
  <1>3. PICK old : old = Tree(n)[b]
    OBVIOUS
  <1>4. /\ UNCHANGED <<nodes, callbacks, stored, drain, spent>> /\ log' = Append(log, e)
        /\ shape # None => shape.title \in TitlesOf[b]
        /\ old = None => About(b, n) = {}
        /\ Kind(b, old, shape) \in Changes
    BY <1>0, <1>2, <1>3 DEF OtherChange, chrome
  <1>5. HistoryInv /\ SceneInv /\ ReceiptInv /\ stored.cursor \in Nat /\ stored.cursor <= n
    BY <1>2 DEF Whole, SceneInv
  <1>6. /\ n \in Nat /\ log' \in Seq(S) /\ Len(log') = n + 1 /\ log'[n + 1] = e
        /\ \A i \in 1 .. n : log'[i] = log[i]
        /\ \A c \in Bookmarks :
             /\ Tree(n + 1)'[c] = IF e.bookmark = c THEN e.shape ELSE Tree(n)[c]
             /\ \A k \in Nat : k <= n => Tree(k)'[c] = Tree(k)[c]
    <2>1. log \in Seq(S)
      BY <1>5 DEF HistoryInv
    <2> HIDE DEF S
    <2> QED
      BY <1>1, <1>2, <1>4, <2>1, TreeGrows
  <1>7. Single(old, shape)
    <2>1. Kind(b, old, shape) \in {"create", "delete", "retitle", "move"}
      BY <1>4
    <2> QED
      BY <2>1 DEF Kind, Single
  <1>8. scenario = "rebuild" /\ shape # None => old = None
    <2>1. scenario = "rebuild" => Kind(b, old, shape) \in {"create", "delete"}
      BY <1>2, <1>3
    <2> QED
      BY <2>1 DEF Kind
  <1>9. \A c : Shows(c)' = Shows(c)
    BY <1>4 DEF Shows
  <1>10. HistoryInv'
    <2>1. First \in Nat \ {0} /\ First <= n
      BY <1>2, <1>5 DEF HistoryInv
    <2>2. First <= Len(log')
      BY <1>6, <2>1
    <2>3. \A k \in 1 .. Len(log') : log'[k].shape # None => log'[k].shape.title \in TitlesOf[log'[k].bookmark]
      <3> SUFFICES ASSUME NEW k \in 1 .. n + 1
                   PROVE  log'[k].shape # None => log'[k].shape.title \in TitlesOf[log'[k].bookmark]
        BY <1>6
      <3>1. CASE k = n + 1
        BY <1>1, <1>4, <1>6, <3>1
      <3>2. CASE k # n + 1
        <4>1. k \in 1 .. n
          BY <1>6, <3>2
        <4> QED
          BY <1>2, <1>5, <1>6, <4>1 DEF HistoryInv
      <3> QED
        BY <3>1, <3>2
    <2>4. \A k \in First .. Len(log') - 1 : Single(Tree(k)'[log'[k + 1].bookmark], log'[k + 1].shape)
      <3> SUFFICES ASSUME NEW k \in First .. n
                   PROVE  Single(Tree(k)'[log'[k + 1].bookmark], log'[k + 1].shape)
        BY <1>6
      <3>1. CASE k = n
        <4>1. Tree(k)'[b] = old
          BY <1>3, <1>6, <3>1
        <4> QED
          BY <1>1, <1>6, <1>7, <3>1, <4>1
      <3>2. CASE k # n
        <4>1. k \in First .. Len(log) - 1 /\ k + 1 \in 1 .. n /\ k \in Nat /\ k <= n
          BY <1>2, <1>6, <2>1, <3>2
        <4>2. log'[k + 1] = log[k + 1]
          BY <1>6, <4>1
        <4>3. log[k + 1].bookmark \in Bookmarks
          <5>1. log \in Seq(S) /\ k + 1 \in 1 .. Len(log)
            BY <1>2, <1>5, <4>1 DEF HistoryInv
          <5>2. log[k + 1] \in S
            <6> HIDE DEF S
            <6> QED
              BY <5>1
          <5> QED
            BY <5>2
        <4>4. Tree(k)'[log[k + 1].bookmark] = Tree(k)[log[k + 1].bookmark]
          BY <1>6, <4>1, <4>3
        <4>5. Single(Tree(k)[log[k + 1].bookmark], log[k + 1].shape)
          BY <1>5, <4>1 DEF HistoryInv
        <4> QED
          BY <4>2, <4>4, <4>5
      <3> QED
        BY <3>1, <3>2
    <2>5. ASSUME scenario = "rebuild", NEW c \in Bookmarks, NEW i \in First .. n + 1, NEW j \in First .. n + 1
          PROVE  Tree(i)'[c] = None \/ Tree(j)'[c] = None \/ Tree(i)'[c] = Tree(j)'[c]
      <3>1. \A k \in First .. n : Tree(k)'[c] = Tree(k)[c] /\ k \in First .. Len(log) /\ k \in Nat
        BY <1>2, <1>6, <2>1
      <3>2. n \in First .. n
        BY <1>6, <2>1
      <3>3. \A k, m \in First .. n : Tree(k)[c] = None \/ Tree(m)[c] = None \/ Tree(k)[c] = Tree(m)[c]
        BY <1>2, <1>5, <2>5 DEF HistoryInv
      <3>4. CASE c = b /\ shape # None
        <4>1. About(b, n) = {}
          BY <1>4, <1>8, <2>5, <3>4
        <4>2. \A k \in First .. n : Tree(k)[b] = None
          <5> SUFFICES ASSUME NEW k \in First .. n PROVE Tree(k)[b] = None
            OBVIOUS
          <5>1. About(b, k) = {}
            BY <1>6, <2>1, <4>1 DEF About
          <5> QED
            BY <5>1 DEF Tree
        <4>3. i \in First .. n \/ i = n + 1
          BY <1>6, <2>1
        <4>4. j \in First .. n \/ j = n + 1
          BY <1>6, <2>1
        <4> QED
          BY <3>1, <3>4, <4>2, <4>3, <4>4
      <3>5. CASE c # b \/ shape = None
        <4>1. Tree(n + 1)'[c] = None \/ Tree(n + 1)'[c] = Tree(n)[c]
          BY <1>1, <1>6, <3>5
        <4>3. i \in First .. n \/ i = n + 1
          BY <1>6, <2>1
        <4>4. j \in First .. n \/ j = n + 1
          BY <1>6, <2>1
        <4> QED
          BY <3>1, <3>2, <3>3, <4>1, <4>3, <4>4
      <3> QED
        BY <3>4, <3>5
    <2> QED
      BY <1>6, <2>1, <2>2, <2>3, <2>4, <2>5 DEF HistoryInv
  <1>11. SceneInv'
    <2>1. stored.cursor <= n + 1
      BY <1>5, <1>6
    <2> QED
      BY <1>4, <1>5, <1>6, <2>1 DEF SceneInv
  <1>12. ReceiptInv'
    <2> SUFFICES ASSUME NEW r \in stored.receipts
                 PROVE  /\ stored.receipts = {r} /\ stored.started = {}
                        /\ r.cursor = stored.cursor + 1 /\ r.cursor <= n + 1
                        /\ r.bookmark = log'[r.cursor].bookmark
                        /\ r.expected = log'[r.cursor].shape /\ r.expected # None
                        /\ r.node # 0 /\ stored.mapping[r.bookmark] = r.node
      BY <1>4, <1>6 DEF ReceiptInv
    <2>1. r.cursor = stored.cursor + 1 /\ r.cursor <= n
      BY <1>2, <1>5 DEF ReceiptInv
    <2>2. log'[r.cursor] = log[r.cursor] /\ r.cursor <= n + 1
      BY <1>5, <1>6, <2>1
    <2> QED
      BY <1>5, <2>1, <2>2 DEF ReceiptInv
  <1>13. CallbackInv(a)'
    BY <1>4 DEF Whole, CallbackInv, Proves, IsSeq
  <1>14. TaskInv(a)'
    <2>1. a.step \in AtEvent => Now(a)' = Now(a)
      <3> SUFFICES ASSUME a.step \in AtEvent PROVE log'[Head(a.todo)] = log[Head(a.todo)]
        BY DEF Now
      <3> DEFINE q == a.todo
      <3>1. q \in Seq(1 .. n) /\ q # <<>>
        BY <1>2 DEF TaskOK
      <3>2. Head(q) \in 1 .. n
        <4> DEFINE R == 1 .. n
        <4>1. q \in Seq(R) /\ q # <<>>
          BY <3>1
        <4> HIDE DEF q, R
        <4>2. Head(q) \in R
          BY <4>1
        <4> QED
          BY <4>2 DEF R
      <3> QED
        BY <1>6, <3>2
    <2>2. a.top <= Len(log) => a.top <= Len(log')
      <3>1. a.top \in Nat
        BY DEF TaskOK
      <3> QED
        BY <1>2, <1>6, <3>1
    <2>3. Remaining(a) => Remaining(a)'
      BY <2>2 DEF Remaining
    <2>4. EffectInv(a)'
      <3>1. CASE a.step \in AtEvent
        <4>1. Now(a)' = Now(a)
          BY <2>1, <3>1
        <4>2. Shows(Now(a).bookmark)' = Shows(Now(a).bookmark)
          BY <1>9, <4>1
        <4>3. EffectInv(a)
          BY DEF Whole, TaskInv
        <4> QED
          BY <1>4, <4>1, <4>2, <4>3 DEF EffectInv, Expects, CreateBy, DeleteOp
      <3>2. CASE a.step \notin AtEvent
        BY <3>2 DEF EffectInv, AtEvent, CreateSteps, DeleteSteps
      <3> QED
        BY <3>1, <3>2
    <2> QED
      BY <1>4, <2>2, <2>3, <2>4 DEF Whole, TaskInv
  <1>15. StartedInv(a)'
    <2>1. stored.cursor < Len(log) => stored.cursor < n + 1 /\ log'[stored.cursor + 1] = log[stored.cursor + 1]
      BY <1>2, <1>5, <1>6
    <2> QED
      BY <1>4, <1>6, <2>1 DEF Whole, StartedInv, DeleteOp, Event
  <1>16. TreeInv(a)'
    <2> SUFFICES ASSUME ~ Orphan(a) PROVE MapInv' /\ (a.step # "fill" => NoStray(a)' /\ LevelInv')
      BY <1>4 DEF TreeInv, Orphan
    <2>1. MapInv /\ (a.step # "fill" => NoStray(a) /\ LevelInv)
      BY DEF Whole, TreeInv
    <2>2. MapInv' /\ (a.step # "fill" => NoStray(a)')
      BY <1>4, <2>1 DEF MapInv, NoStray, DeleteOp
    <2>3. \A k \in stored.cursor .. Reach : k \in stored.cursor .. Reach' /\ k \in Nat /\ k <= n
      BY <1>2, <1>4, <1>5, <1>6 DEF Reach
    <2>4. ASSUME LevelInv PROVE LevelInv'
      <3>1. \A c \in Bookmarks : \E k \in stored.cursor .. Reach' : Shows(c) = Tree(k)'[c]
        <4> SUFFICES ASSUME NEW c \in Bookmarks PROVE \E k \in stored.cursor .. Reach' : Shows(c) = Tree(k)'[c]
          OBVIOUS
        <4>1. PICK k \in stored.cursor .. Reach : Shows(c) = Tree(k)[c]
          BY <2>4 DEF LevelInv
        <4>2. k \in stored.cursor .. Reach' /\ k \in Nat /\ k <= n
          BY <2>3
        <4> QED
          BY <1>6, <4>1, <4>2
      <3> QED
        BY <1>4, <1>9, <3>1 DEF LevelInv
    <2> QED
      BY <2>1, <2>2, <2>4
  <1>17. ExactInv(a)'
    <2>1. PICK d : d = stored.cursor
      OBVIOUS
    <2>2. d \in Nat /\ d <= n /\ \A c \in Bookmarks : Tree(d)'[c] = Tree(d)[c]
      BY <1>5, <1>6, <2>1
    <2>3. stored' = stored /\ (stored.cursor)' = d
      BY <1>4, <2>1
    <2>4. Ahead(a)' <=> Ahead(a)
      BY <1>4 DEF Ahead
    <2>6. ASSUME \A c \in Bookmarks : Shows(c) = Tree(d)[c]
          PROVE  \A c \in Bookmarks : Shows(c)' = Tree(d)'[c]
      BY <1>9, <2>2, <2>6
    <2> QED
      BY <2>1, <2>3, <2>4, <2>6 DEF Whole, ExactInv
  <1> QED
    BY <1>10, <1>11, <1>12, <1>13, <1>14, <1>15, <1>16, <1>17 DEF Whole

(* Nobody edits, so nothing is sent.                                       *)
LEMMA NothingSent ==
  ASSUME NEW a, Whole(a), MaxEdits = 0
  PROVE  /\ ~ \E n \in DOMAIN nodes, shape \in Shapes : UserEdit(n, shape)
         /\ ~ SendIntent /\ ~ ServePatch /\ ~ Settle /\ ~ PatchFails
  <1>1. drain.at = "idle" /\ spent.edits = 0 /\ stored.intents = <<>>
    BY DEF Whole, SceneInv
  <1>2. Waiting = {}
    BY <1>1 DEF Waiting
  <1> QED
    BY <1>1, <1>2 DEF UserEdit, SendIntent, ServePatch, Settle, PatchFails

(***************************************************************************)
(* The step.                                                               *)
(***************************************************************************)
RemoteOnly ==
  /\ MaxEdits = 0 /\ Changes \subseteq {"create", "delete", "retitle", "move"}
  /\ IsFiniteSet(Bookmarks) /\ OwnTitlesOnly

(* What a scenario of a remote change allows.                              *)
LEMMA SceneAllows ==
  ASSUME ConvInv, Scene
  PROVE  /\ OnlyOne' /\ scenario' = scenario
         /\ scenario = "remote" => spent'.rebuilds = 0
         /\ scenario = "rebuild" => spent'.evictions = 0 /\ Commits({"create", "delete"}, {P})
  <1>1. scenario' = scenario /\ Allowed
    BY DEF Scene
  <1>2. scenario \in {"remote", "rebuild"}
    BY DEF ConvInv, Whole, SceneInv
  <1>3. /\ OneTask
        /\ scenario = "remote" => spent'.rebuilds = 0
        /\ scenario = "rebuild" => spent'.evictions = 0 /\ Commits({"create", "delete"}, {P})
    <2>1. CASE scenario = "remote"
      BY <1>1, <2>1 DEF Allowed
    <2>2. CASE scenario = "rebuild"
      BY <1>1, <2>2 DEF Allowed
    <2> QED
      BY <1>2, <2>1, <2>2
  <1>4. OnlyOne'
    BY <1>3 DEF OneTask, OnlyOne
  <1> QED
    BY <1>1, <1>3, <1>4

LEMMA ActiveStays ==
  ASSUME ConvInv, Scene, tasks' = tasks, NEW a, a = Active, Whole(a)'
  PROVE  ConvInv'
  <1>1. OnlyOne'
    BY SceneAllows
  <1>2. (a = Active)'
    BY DEF Active
  <1> QED
    BY <1>1, <1>2 DEF ConvInv

(* The task that works before or after a step is the one that is allowed.  *)
LEMMA Working ==
  ASSUME SyncInv, ConvInv, Scene, NEW t \in Tasks, NEW a, a = tasks[t], NEW x, x = tasks'[t],
         a.step # "idle" \/ x.step # "idle"
  PROVE  Acts(t, a, x) /\ (Whole(x)' => ConvInv')
  <1>1. OnlyOne' /\ scenario' = scenario
    BY SceneAllows
  <1>2. t = t1
    <2>1. Idle.step = "idle"
      BY DEF Idle
    <2> QED
      BY <1>1, <2>1 DEF ConvInv, OnlyOne
  <1>3. a = Active /\ (x = Active)'
    BY <1>2 DEF Active
  <1>4. Whole(a)
    BY <1>3 DEF ConvInv
  <1> QED
    BY <1>1, <1>3, <1>4 DEF Acts, ConvInv

LEMMA StartsWork ==
  ASSUME SyncInv, NEW t \in Tasks, NEW mode, NEW step, Start(t, mode, step)
  PROVE  tasks'[t].step = step
  <1>1. DOMAIN tasks = Tasks
    BY DEF SyncInv, TasksOK
  <1> QED
    BY <1>1 DEF Start, Idle

LEMMA EventWork ==
  ASSUME SyncInv, NEW t \in Tasks,
         \/ Skip(t) \/ RecoverGap(t) \/ Admit(t) \/ StartCreate(t) \/ CreateNode(t) \/ MapNode(t)
         \/ FinishCreate(t) \/ Reconcile(t) \/ Stale(t) \/ Retitle(t) \/ Move(t) \/ Defer(t)
         \/ Checkpoint(t) \/ DeleteNothing(t) \/ StartDelete(t) \/ RemoveNode(t) \/ FinishDelete(t)
         \/ EffectFails(t) \/ Fetch(t) \/ FetchFails(t) \/ EndReplay(t) \/ Clear(t) \/ Fill(t)
         \/ EndRebuild(t) \/ RebuildFails(t)
  PROVE  tasks[t].step # "idle"
  <1>1. CASE Skip(t) \/ RecoverGap(t) \/ Admit(t) \/ StartCreate(t) \/ CreateNode(t) \/ MapNode(t)
    BY <1>1 DEF Skip, RecoverGap, Admit, StartCreate, CreateNode, MapNode, At
  <1>2. CASE FinishCreate(t) \/ Reconcile(t) \/ Stale(t) \/ Retitle(t) \/ Move(t) \/ Defer(t)
    BY <1>2 DEF FinishCreate, Reconcile, Stale, Retitle, Move, Defer, At
  <1>3. CASE Checkpoint(t) \/ DeleteNothing(t) \/ StartDelete(t) \/ RemoveNode(t) \/ FinishDelete(t)
    BY <1>3 DEF Checkpoint, DeleteNothing, StartDelete, RemoveNode, FinishDelete, At
  <1>4. CASE EffectFails(t) \/ Fetch(t) \/ FetchFails(t) \/ EndReplay(t)
    BY <1>4 DEF EffectFails, Fetch, FetchFails, EndReplay, At
  <1>5. CASE Clear(t) \/ Fill(t) \/ EndRebuild(t) \/ RebuildFails(t)
    BY <1>5 DEF Clear, Fill, EndRebuild, RebuildFails, At
  <1> QED
    BY <1>1, <1>2, <1>3, <1>4, <1>5

LEMMA EventKeeps ==
  ASSUME RemoteOnly, NEW t, NEW a, NEW x, Acts(t, a, x),
         \/ Skip(t) \/ RecoverGap(t) \/ Admit(t) \/ StartCreate(t) \/ CreateNode(t) \/ MapNode(t)
         \/ FinishCreate(t) \/ Reconcile(t) \/ Stale(t) \/ Retitle(t) \/ Move(t) \/ Defer(t)
         \/ Checkpoint(t) \/ DeleteNothing(t) \/ StartDelete(t) \/ RemoveNode(t) \/ FinishDelete(t)
         \/ EffectFails(t) \/ Fetch(t) \/ FetchFails(t) \/ EndReplay(t) \/ Clear(t) \/ Fill(t)
         \/ EndRebuild(t) \/ RebuildFails(t)
  PROVE  Whole(x)'
  <1>0. OwnTitlesOnly /\ IsFiniteSet(Bookmarks)
    BY DEF RemoteOnly
  <1>1. CASE Skip(t) \/ RecoverGap(t) \/ Admit(t) \/ Defer(t)
    BY <1>1, GuardsKeep
  <1>2. CASE StartCreate(t)
    BY <1>2, StartCreateKeeps
  <1>3. CASE CreateNode(t)
    BY <1>3, CreateNodeKeeps
  <1>4. CASE MapNode(t)
    BY <1>4, MapNodeKeeps
  <1>5. CASE FinishCreate(t)
    BY <1>5, FinishCreateKeeps
  <1>6. CASE Reconcile(t)
    BY <1>0, <1>6, ReconcileKeeps
  <1>7. CASE Stale(t) \/ EffectFails(t)
    BY <1>7, NeverStale
  <1>8. CASE Retitle(t)
    BY <1>8, RetitleKeeps
  <1>9. CASE Move(t)
    BY <1>9, MoveKeeps
  <1>10. CASE Checkpoint(t)
    BY <1>10, CheckpointKeeps
  <1>11. CASE DeleteNothing(t)
    BY <1>11, DeleteNothingKeeps
  <1>12. CASE StartDelete(t)
    BY <1>12, StartDeleteKeeps
  <1>13. CASE RemoveNode(t)
    BY <1>13, RemoveNodeKeeps
  <1>14. CASE FinishDelete(t)
    BY <1>14, FinishDeleteKeeps
  <1>15. CASE Fetch(t) \/ FetchFails(t) \/ EndReplay(t) \/ EndRebuild(t) \/ RebuildFails(t)
    BY <1>15, ReplaysKeep
  <1>16. CASE Clear(t)
    BY <1>16, ClearKeeps
  <1>17. CASE Fill(t)
    BY <1>0, <1>17, FillKeeps
  <1> QED
    BY <1>1, <1>2, <1>3, <1>4, <1>5, <1>6, <1>7, <1>8, <1>9, <1>10, <1>11, <1>12, <1>13,
       <1>14, <1>15, <1>16, <1>17

(* A task begins with an ack, a published event, a retry or a rebuild.     *)
LEMMA StartKeeps ==
  ASSUME SyncInv, ConvInv, Scene, NEW t \in Tasks,
         OnAck(t) \/ (\E i \in incoming : Receive(t, i)) \/ Retry(t) \/ Rebuild(t)
  PROVE  ConvInv'
  <1>1. PICK a : a = tasks[t]
    OBVIOUS
  <1>2. PICK x : x = tasks'[t]
    OBVIOUS
  <1>3. scenario' = scenario /\ (scenario = "remote" => spent'.rebuilds = 0)
    BY SceneAllows
  <1>4. Idle.step = "idle"
    BY DEF Idle
  <1>5. CASE tasks' = tasks /\ (OnAck(t) \/ Retry(t))
    <2>1. PICK y : y = Active /\ Whole(y)
      BY DEF ConvInv
    <2>2. Whole(y)'
      BY <1>3, <1>5, <2>1, LinkKeeps
    <2> QED
      BY <1>5, <2>1, <2>2, ActiveStays
  <1>6. CASE OnAck(t) /\ tasks' # tasks
    <2>1. a = Idle /\ x.step = "fetch"
      BY <1>1, <1>2, <1>6, StartsWork DEF OnAck
    <2>2. Acts(t, a, x) /\ (Whole(x)' => ConvInv')
      BY <1>1, <1>2, <2>1, Working
    <2> QED
      BY <1>4, <1>6, <2>1, <2>2, BegunKeeps
  <1>7. CASE Retry(t) /\ tasks' # tasks
    <2>1. a = Idle /\ x.step = "fetch"
      BY <1>1, <1>2, <1>7, StartsWork DEF Retry
    <2>2. Acts(t, a, x) /\ (Whole(x)' => ConvInv')
      BY <1>1, <1>2, <2>1, Working
    <2> QED
      BY <1>4, <1>7, <2>1, <2>2, BegunKeeps
  <1>8. CASE \E i \in incoming : Receive(t, i)
    <2>1. a = Idle /\ x.step = "admit"
      <3>1. DOMAIN tasks = Tasks
        BY DEF SyncInv, TasksOK
      <3> QED
        BY <1>1, <1>2, <1>8, <3>1 DEF Receive, Idle
    <2>2. Acts(t, a, x) /\ (Whole(x)' => ConvInv')
      BY <1>1, <1>2, <2>1, Working
    <2> QED
      BY <1>4, <1>8, <2>1, <2>2, BegunKeeps
  <1>9. CASE Rebuild(t)
    <2>1. x.step = "clear"
      BY <1>2, <1>9, StartsWork DEF Rebuild
    <2>2. Acts(t, a, x) /\ (Whole(x)' => ConvInv')
      BY <1>1, <1>2, <2>1, Working
    <2> QED
      BY <1>3, <1>9, <2>2, RebuildKeeps
  <1> QED
    BY <1>5, <1>6, <1>7, <1>8, <1>9

LEMMA TaskKeeps ==
  ASSUME RemoteOnly, SyncInv, ConvInv, NEW t \in Tasks, TaskStep(t)
  PROVE  ConvInv'
  <1>1. Scene
    BY DEF TaskStep
  <1>2. \/ OnAck(t) \/ (\E i \in incoming : Receive(t, i)) \/ Retry(t) \/ Rebuild(t)
        \/ Skip(t) \/ RecoverGap(t) \/ Admit(t) \/ StartCreate(t) \/ CreateNode(t) \/ MapNode(t)
        \/ FinishCreate(t) \/ Reconcile(t) \/ Stale(t) \/ Retitle(t) \/ Move(t) \/ Defer(t)
        \/ Checkpoint(t) \/ DeleteNothing(t) \/ StartDelete(t) \/ RemoveNode(t) \/ FinishDelete(t)
        \/ EffectFails(t) \/ Fetch(t) \/ FetchFails(t) \/ EndReplay(t) \/ Clear(t) \/ Fill(t)
        \/ EndRebuild(t) \/ RebuildFails(t)
    BY DEF TaskStep
  <1>3. CASE OnAck(t) \/ (\E i \in incoming : Receive(t, i)) \/ Retry(t) \/ Rebuild(t)
    BY <1>1, <1>3, StartKeeps
  <1>4. CASE ~ (OnAck(t) \/ (\E i \in incoming : Receive(t, i)) \/ Retry(t) \/ Rebuild(t))
    <2>1. PICK a : a = tasks[t]
      OBVIOUS
    <2>2. PICK x : x = tasks'[t]
      OBVIOUS
    <2>3. a.step # "idle"
      BY <1>2, <1>4, <2>1, EventWork
    <2>4. Acts(t, a, x) /\ (Whole(x)' => ConvInv')
      BY <1>1, <2>1, <2>2, <2>3, Working
    <2> QED
      BY <1>2, <1>4, <2>4, EventKeeps
  <1> QED
    BY <1>3, <1>4

(* Other clients, the link, the callbacks and the drain leave the tasks.   *)
LEMMA AroundKeeps ==
  ASSUME RemoteOnly, SyncInv, ConvInv, Scene,
         \/ \E b \in Bookmarks, shape \in Shapes \cup {None} : OtherChange(b, shape)
         \/ Connect \/ ConnectFails \/ Close \/ HandleCallback \/ HandleRemoved \/ DrainDone
  PROVE  ConvInv'
  <1>1. PICK a : a = Active /\ Whole(a)
    BY DEF ConvInv
  <1>2. scenario' = scenario
    BY SceneAllows
  <1>3. TaskOK(a, Len(log))
    BY <1>1, IdleTask DEF SyncInv, TasksOK, LogOK, Active
  <1>4. tasks' = tasks
    BY DEF OtherChange, Connect, ConnectFails, Close, HandleCallback, HandleRemoved, DrainDone
  <1>5. Whole(a)'
    <2>1. CASE \E b \in Bookmarks, shape \in Shapes \cup {None} : OtherChange(b, shape)
      <3>1. PICK b \in Bookmarks, shape \in Shapes \cup {None} : OtherChange(b, shape)
        BY <2>1
      <3>2. ASSUME scenario = "rebuild"
            PROVE  Kind(b, Tree(Len(log))[b], shape) \in {"create", "delete"}
        <4>1. Commits({"create", "delete"}, {P})
          BY <3>2, SceneAllows
        <4>2. log \in Seq([bookmark : Bookmarks, shape : Shapes \cup {None}])
          BY <1>1 DEF Whole, HistoryInv
        <4>3. PICK e : e = Event(b, shape)
          OBVIOUS
        <4>4. e \in [bookmark : Bookmarks, shape : Shapes \cup {None}] /\ e.bookmark = b /\ e.shape = shape
          BY <4>3 DEF Event
        <4>5. log' = Append(log, e)
          BY <3>1, <4>3 DEF OtherChange
        <4>6. Len(log) \in Nat /\ Len(log') = Len(log) + 1 /\ log'[Len(log) + 1] = e
          <5> DEFINE S == [bookmark : Bookmarks, shape : Shapes \cup {None}]
          <5>1. log \in Seq(S) /\ e \in S
            BY <4>2, <4>4
          <5> HIDE DEF S
          <5> QED
            BY <4>5, <5>1
        <4>7. log' # log /\ Len(log') - 1 = Len(log) /\ log'[Len(log')] = e
          BY <4>6
        <4>8. LastKind \in {"create", "delete"}
          BY <4>1, <4>7 DEF Commits
        <4> QED
          BY <4>4, <4>7, <4>8 DEF LastKind
      <3> QED
        BY <1>1, <1>2, <1>3, <3>1, <3>2, OthersKeep DEF RemoteOnly
    <2>2. CASE Connect \/ ConnectFails \/ Close \/ DrainDone
      BY <1>1, <1>2, <2>2, LinkKeeps
    <2>3. CASE HandleCallback
      BY <1>1, <1>2, <1>3, <2>3, HandleCallbackKeeps
    <2>4. CASE HandleRemoved
      BY <1>1, <1>2, <2>4, HandleRemovedKeeps
    <2> QED
      BY <2>1, <2>2, <2>3, <2>4
  <1> QED
    BY <1>1, <1>4, <1>5, ActiveStays

LEMMA ConvStep ==
  ASSUME RemoteOnly, SyncInv, ConvInv, [ScenarioNext]_<<vars, scenario>>
  PROVE  ConvInv'
  <1>1. PICK a : a = Active /\ Whole(a)
    BY DEF ConvInv
  <1>2. CASE UNCHANGED <<vars, scenario>>
    <2>1. /\ UNCHANGED <<log, scenario, nodes, callbacks, spent>>
          /\ stored' = stored /\ drain' = drain /\ tasks' = tasks
      BY <1>2 DEF vars
    <2>2. Alike(stored, stored') /\ drain'.at = "idle"
      BY <1>1, <2>1, HelpersAlike DEF Whole, SceneInv, SyncInv, StoredOK
    <2>3. Whole(a)'
      BY <1>1, <2>1, <2>2, SameWhole
    <2>4. OnlyOne' /\ (a = Active)'
      BY <1>1, <2>1 DEF ConvInv, OnlyOne, Active
    <2> QED
      BY <2>3, <2>4 DEF ConvInv
  <1>3. CASE ScenarioNext
    <2>1. /\ ~ \E n \in DOMAIN nodes, shape \in Shapes : UserEdit(n, shape)
          /\ ~ SendIntent /\ ~ ServePatch /\ ~ Settle /\ ~ PatchFails
          /\ ~ IgnoreCallback /\ ~ MissingNode
      BY <1>1, NothingSent, NeverIgnored DEF RemoteOnly
    <2>2. CASE \E t \in Tasks : TaskStep(t)
      BY <2>2, TaskKeeps
    <2>3. CASE Evict /\ Scene
      <3>1. Whole(Idle)'
        BY <1>1, <2>3, EvictKeeps, SceneAllows
      <3>2. tasks' = [t \in Tasks |-> Idle]
        BY <2>3 DEF Evict
      <3>3. PICK i : i = Idle
        OBVIOUS
      <3>4. OnlyOne' /\ (i = Active)'
        BY <3>2, <3>3 DEF OnlyOne, Active
      <3>5. Whole(i)'
        BY <3>1, <3>3
      <3> QED
        BY <3>4, <3>5 DEF ConvInv
    <2>4. CASE /\ Scene
               /\ \/ \E b \in Bookmarks, shape \in Shapes \cup {None} : OtherChange(b, shape)
                  \/ Connect \/ ConnectFails \/ Close \/ HandleCallback \/ HandleRemoved \/ DrainDone
      BY <2>4, AroundKeeps
    <2> QED
      BY <1>3, <2>1, <2>2, <2>3, <2>4 DEF ScenarioNext
  <1> QED
    BY <1>2, <1>3

(***************************************************************************)
(* The first state, and what the invariant says at rest.                   *)
(***************************************************************************)
LEMMA ConvFirst ==
  ASSUME RemoteOnly, ScenarioInit, Scenarios \subseteq {"remote", "rebuild"}
  PROVE  ConvInv
  <1> DEFINE n == Len(log)
             tree == Tree(n)
             order == Placed(tree)
             filled == Filled(tree, order)
             rank == Rank(order)
  <1>1. /\ log = History /\ callbacks = <<>> /\ tasks = [t \in Tasks |-> Idle] /\ drain = Resting
        /\ spent = [edits |-> 0, evictions |-> 0, rebuilds |-> 0]
        /\ scenario \in {"remote", "rebuild"}
    BY DEF ScenarioInit, Init
  <1>2. /\ nodes = filled
        /\ stored.cursor = n /\ stored.receipts = {} /\ stored.started = {} /\ stored.intents = <<>>
        /\ stored.mapping = [b \in Bookmarks |-> IF b \in Alive(tree) THEN rank[b] ELSE 0]
        /\ stored.owners = {<<k, order[k]>> : k \in DOMAIN order}
    BY DEF ScenarioInit, Init, Filled, Rank
  <1>3. /\ log \in Seq([bookmark : Bookmarks, shape : Shapes \cup {None}])
        /\ History # <<>>
        /\ \A k \in DOMAIN History :
             History[k].shape # None => History[k].shape.title \in TitlesOf[History[k].bookmark]
    BY <1>1, SyncAssumption, RemoteAssumption
  <1>4. n \in Nat \ {0} /\ DOMAIN log = 1 .. n /\ First = n
    <2> DEFINE S == [bookmark : Bookmarks, shape : Shapes \cup {None}]
    <2>1. log \in Seq(S) /\ log # <<>> /\ log = History
      BY <1>1, <1>3
    <2> HIDE DEF S
    <2> QED
      BY <2>1 DEF First
  <1> HIDE DEF n
  <1>5. \A b \in Bookmarks : tree[b] \in Shapes \cup {None}
    <2>1. n <= Len(log)
      BY <1>4 DEF n
    <2> QED
      BY <1>3, <1>4, <2>1, TreeType
  <1>6. PICK m \in Nat :
          /\ DOMAIN order = 1 .. m /\ filled \in Seq(Shapes \cup {None}) /\ Len(filled) = m
          /\ \A k \in 1 .. m :
               order[k] \in Alive(tree) /\ filled[k] = tree[order[k]] /\ rank[order[k]] = k
          /\ \A b \in Alive(tree) : rank[b] \in 1 .. m /\ order[rank[b]] = b
    <2> HIDE DEF tree, order, filled, rank
    <2> QED
      BY <1>5, PlacedTells DEF RemoteOnly, order, filled, rank
  <1>7. \A b : b \in Alive(tree) <=> b \in Bookmarks /\ tree[b] # None
    BY DEF Alive
  <1> HIDE DEF order, filled, rank
  <1>8. DOMAIN nodes = 1 .. m
    <2>1. DOMAIN filled = 1 .. Len(filled)
      BY <1>6
    <2> QED
      BY <1>2, <1>6, <2>1
  <1>9. \A b \in Bookmarks : Shows(b) = tree[b]
    <2> SUFFICES ASSUME NEW b \in Bookmarks PROVE Shows(b) = tree[b]
      OBVIOUS
    <2> HIDE DEF tree
    <2>1. CASE b \in Alive(tree)
      <3>1. rank[b] \in 1 .. m /\ order[rank[b]] = b /\ stored.mapping[b] = rank[b]
        BY <1>2, <1>6, <2>1
      <3>2. filled[rank[b]] = tree[b] /\ rank[b] # 0
        BY <1>6, <3>1
      <3> QED
        BY <1>2, <3>1, <3>2 DEF Shows
    <2>2. CASE b \notin Alive(tree)
      BY <1>2, <1>7, <2>2 DEF Shows
    <2> QED
      BY <2>1, <2>2
  <1>10. MapInv
    <2> HIDE DEF tree
    <2>1. stored.mapping \in [Bookmarks -> Nat]
      BY <1>2, <1>6
    <2>2. nodes \in Seq(Shapes \cup {None})
      BY <1>2, <1>6
    <2>3. ASSUME NEW b \in Bookmarks, stored.mapping[b] # 0
          PROVE  /\ b \in Alive(tree) /\ stored.mapping[b] = rank[b]
                 /\ stored.mapping[b] \in DOMAIN nodes /\ nodes[stored.mapping[b]] # None
      <3>1. b \in Alive(tree) /\ stored.mapping[b] = rank[b]
        BY <1>2, <2>3
      <3>2. Shows(b) # None
        BY <1>7, <1>9, <3>1
      <3> QED
        BY <1>6, <1>8, <2>3, <3>1, <3>2 DEF Shows
    <2>4. ASSUME NEW b \in Bookmarks, stored.mapping[b] # 0, NEW c \in Bookmarks,
                 stored.mapping[b] = stored.mapping[c]
          PROVE  b = c
      <3>1. b \in Alive(tree) /\ stored.mapping[b] = rank[b]
        BY <2>3, <2>4
      <3>2. c \in Alive(tree) /\ stored.mapping[c] = rank[c]
        BY <2>3, <2>4
      <3>3. order[rank[b]] = b /\ order[rank[c]] = c
        BY <1>6, <3>1, <3>2
      <3>4. rank[b] = rank[c]
        BY <2>4, <3>1, <3>2
      <3> QED
        BY <3>3, <3>4
    <2>5. ASSUME NEW k, NEW b
          PROVE  <<k, b>> \in stored.owners <=> k \in Nat /\ b \in Bookmarks /\ k # 0 /\ stored.mapping[b] = k
      <3>1. <<k, b>> \in stored.owners <=> k \in 1 .. m /\ order[k] = b
        BY <1>2, <1>6
      <3>2. ASSUME k \in 1 .. m, order[k] = b
            PROVE  k \in Nat /\ b \in Bookmarks /\ k # 0 /\ stored.mapping[b] = k
        BY <1>2, <1>6, <1>7, <3>2
      <3>3. ASSUME k \in Nat, b \in Bookmarks, k # 0, stored.mapping[b] = k
            PROVE  k \in 1 .. m /\ order[k] = b
        BY <1>6, <2>3, <3>3
      <3> QED
        BY <3>1, <3>2, <3>3
    <2>6. stored.owners \subseteq Nat \X Bookmarks
      BY <1>2, <1>6, <1>7
    <2>7. stored.owners = {p \in Nat \X Bookmarks : p[1] # 0 /\ stored.mapping[p[2]] = p[1]}
      <3>1. \A p \in Nat \X Bookmarks : p = <<p[1], p[2]>>
        OBVIOUS
      <3> QED
        BY <2>5, <2>6, <3>1
    <2> QED
      BY <2>1, <2>2, <2>3, <2>4, <2>7 DEF MapInv
  <1>11. NoStray(Idle)
    <2> SUFFICES ASSUME NEW k \in 1 .. m PROVE \E b \in Bookmarks : stored.mapping[b] = k
      BY <1>8 DEF NoStray
    <2> HIDE DEF tree
    <2> QED
      BY <1>2, <1>6, <1>7
  <1>12. LevelInv
    <2>1. n \in stored.cursor .. Reach
      BY <1>1, <1>2, <1>4 DEF Reach, n
    <2> QED
      BY <1>9, <2>1 DEF LevelInv
  <1>13. ExactInv(Idle)
    BY <1>2, <1>9 DEF ExactInv
  <1>14. HistoryInv
    <2>1. \A k \in 1 .. Len(log) : log[k].shape # None => log[k].shape.title \in TitlesOf[log[k].bookmark]
      BY <1>1, <1>3, <1>4 DEF n
    <2>2. First .. Len(log) - 1 = {} /\ First .. Len(log) = {n} /\ First <= Len(log)
      BY <1>4 DEF n
    <2> QED
      BY <1>3, <1>4, <2>1, <2>2 DEF HistoryInv
  <1>15. SceneInv
    BY <1>1, <1>2, <1>4 DEF SceneInv, Resting, n
  <1>16. ReceiptInv /\ StartedInv(Idle)
    BY <1>2 DEF ReceiptInv, StartedInv
  <1>17. CallbackInv(Idle)
    BY <1>1 DEF CallbackInv, IsSeq
  <1>18. Whole(Idle)
    BY <1>10, <1>11, <1>12, <1>13, <1>14, <1>15, <1>16, <1>17, IdleKnows DEF Whole, TreeInv
  <1>19. OnlyOne /\ Idle = Active
    BY <1>1 DEF OnlyOne, Active
  <1> QED
    BY <1>18, <1>19 DEF ConvInv

(* Chrome shows a tree when each bookmark shows what the tree says of it.  *)
LEMMA ShowsInStep ==
  ASSUME IsFiniteSet(Bookmarks), MapInv, NoStray(Idle), stored.started = {}, NEW tree,
         \A b \in Bookmarks : Shows(b) = tree[b]
  PROVE  InStep(tree)
  <1> DEFINE living == {n \in DOMAIN nodes : ~ Gone(n)}
             f == [b \in Alive(tree) |-> stored.mapping[b]]
  <1>1. \A b \in Bookmarks : stored.mapping[b] # 0 =>
          stored.mapping[b] \in DOMAIN nodes /\ nodes[stored.mapping[b]] # None
    BY DEF MapInv
  <1>2. \A b \in Bookmarks :
          IF tree[b] = None THEN stored.mapping[b] = 0
          ELSE stored.mapping[b] # 0 /\ nodes[stored.mapping[b]] = tree[b]
    BY <1>1 DEF Shows
  <1>3. f \in [Alive(tree) -> living]
    BY <1>1, <1>2 DEF Alive, Gone
  <1>4. \A b, c \in Alive(tree) : f[b] = f[c] => b = c
    BY <1>2 DEF MapInv, Alive
  <1>5. \A n \in living : \E b \in Alive(tree) : f[b] = n
    <2> SUFFICES ASSUME NEW n \in living PROVE \E b \in Alive(tree) : f[b] = n
      OBVIOUS
    <2>1. n \in DOMAIN nodes /\ nodes[n] # None
      BY DEF Gone
    <2>2. PICK b \in Bookmarks : stored.mapping[b] = n
      BY <2>1 DEF NoStray, Idle
    <2>3. n # 0
      <3>1. nodes \in Seq(Shapes \cup {None})
        BY DEF MapInv
      <3> QED
        BY <2>1, <3>1
    <2>4. b \in Alive(tree)
      BY <1>2, <2>2, <2>3 DEF Alive
    <2> QED
      BY <2>2, <2>4
  <1> HIDE DEF f, living
  <1>6. ExistsBijection(Alive(tree), living)
    BY <1>3, <1>4, <1>5 DEF ExistsBijection, Bijection, Injection, Surjection, IsInjective
  <1>7. IsFiniteSet(Alive(tree))
    BY FS_Subset DEF Alive
  <1>8. Cardinality(living) = Cardinality(Alive(tree))
    BY <1>6, <1>7, FS_Bijection
  <1> QED
    BY <1>2, <1>8 DEF InStep, living

LEMMA RestConverges ==
  ASSUME RemoteOnly, SyncInv, ConvInv
  PROVE  Converged /\ ReceiptNext
  <1>1. PICK a : a = Active /\ Whole(a)
    BY DEF ConvInv
  <1>2. ReceiptNext
    BY <1>1 DEF Whole, ReceiptInv, ReceiptNext
  <1>3. Converged
    <2> SUFFICES ASSUME Settled
                 PROVE  \/ InStep(Tree(stored.cursor))
                        \/ /\ spent.evictions > 0 /\ stored.cursor < Len(log)
                           /\ InStep(Tree(stored.cursor + 1))
                        \/ spent.rebuilds > 0 /\ NoneBehind
      BY DEF Converged
    <2> DEFINE c == stored.cursor
    <2>1. a = Idle /\ stored.started = {} /\ stored.receipts = {}
      BY <1>1 DEF Settled, Quiet, Blocked, Active
    <2>2. /\ ~ Orphan(a) /\ a.step # "fill" /\ a.step # "map" /\ a.step = "idle"
      BY <2>1 DEF Orphan, Idle
    <2>3. MapInv /\ NoStray(Idle) /\ LevelInv /\ ExactInv(a)
      BY <1>1, <2>1, <2>2 DEF Whole, TreeInv
    <2>4. /\ c \in Nat /\ Len(log) \in Nat /\ c <= Len(log)
          /\ spent.rebuilds \in Nat /\ spent.evictions \in Nat
      BY <1>1 DEF Whole, SceneInv, SyncInv, LogOK
    <2>5. \A tree : (\A b \in Bookmarks : Shows(b) = tree[b]) => InStep(tree)
      BY <2>1, <2>3, ShowsInStep DEF RemoteOnly
    <2>6. CASE spent.rebuilds > 0
      <3>1. NoneBehind
        <4>1. \A n \in DOMAIN nodes : ~ Gone(n) => \E b \in Bookmarks : stored.mapping[b] = n
          BY <2>3 DEF NoStray, Gone, Idle
        <4> QED
          BY <2>3, <2>6, <4>1 DEF NoneBehind, LevelInv, Reach
      <3> QED
        BY <2>6, <3>1
    <2>7. CASE spent.rebuilds = 0 /\ spent.evictions = 0
      <3>1. \A b \in Bookmarks : Shows(b) = Tree(c)[b]
        BY <2>1, <2>2, <2>3, <2>7 DEF ExactInv, Ahead
      <3> QED
        BY <2>5, <3>1
    <2>8. CASE spent.rebuilds = 0 /\ spent.evictions > 0
      <3>1. CASE c = Len(log)
        <4>1. \A k \in c .. Reach : k = c
          BY <2>4, <2>8, <3>1 DEF Reach
        <4>2. \A b \in Bookmarks : Shows(b) = Tree(c)[b]
          BY <2>3, <4>1 DEF LevelInv
        <4> QED
          BY <2>5, <4>2
      <3>2. CASE c < Len(log)
        <4>1. \A k \in c .. Reach : k = c \/ k = c + 1
          BY <2>4, <2>8, <3>2 DEF Reach
        <4>2. \A b \in Bookmarks : Shows(b) = Tree(c)[b] \/ Shows(b) = Tree(c + 1)[b]
          BY <2>3, <4>1 DEF LevelInv
        <4>3. \A b \in Bookmarks :
                Tree(c + 1)[b] = IF log[c + 1].bookmark = b THEN log[c + 1].shape ELSE Tree(c)[b]
          BY <2>4, TreeNext
        <4>4. \/ \A b \in Bookmarks : Shows(b) = Tree(c)[b]
              \/ \A b \in Bookmarks : Shows(b) = Tree(c + 1)[b]
          BY <4>2, <4>3
        <4> QED
          BY <2>5, <2>8, <3>2, <4>4
      <3> QED
        BY <2>4, <3>1, <3>2
    <2> QED
      BY <2>4, <2>6, <2>7, <2>8
  <1> QED
    BY <1>2, <1>3

(***************************************************************************)
(* The theorems.                                                           *)
(***************************************************************************)
LEMMA ScenarioSteps == ASSUME [ScenarioNext]_<<vars, scenario>> PROVE [Next]_vars
  <1>1. CASE UNCHANGED <<vars, scenario>>
    BY <1>1
  <1>2. CASE \E t \in Tasks : TaskStep(t)
    <2>1. PICK t \in Tasks : TaskStep(t)
      BY <1>2
    <2>2. \/ OnAck(t) \/ Apply(t) \/ FetchFails(t) \/ Retry(t) \/ Rebuild(t) \/ RebuildFails(t)
          \/ \E i \in incoming : Receive(t, i)
      BY <2>1 DEF TaskStep, Apply
    <2> QED
      BY <2>2 DEF Next
  <1>3. CASE ScenarioNext /\ ~ \E t \in Tasks : TaskStep(t)
    BY <1>3 DEF ScenarioNext, Next, Callback, Drain
  <1> QED
    BY <1>1, <1>2, <1>3

(* The invariant holds of every state of the two scenarios.                *)
LEMMA RemoteInductive ==
  ASSUME Scenarios \subseteq {"remote", "rebuild"}
  PROVE  ScenarioSpec => [](SyncInv /\ ConvInv)
  <1>1. RemoteOnly
    BY RemoteAssumption DEF RemoteOnly, OwnTitlesOnly
  <1>2. ScenarioInit => SyncInv /\ ConvInv
    BY <1>1, InitGood, ConvFirst DEF ScenarioInit
  <1>3. SyncInv /\ ConvInv /\ [ScenarioNext]_<<vars, scenario>> => SyncInv' /\ ConvInv'
    BY <1>1, ScenarioSteps, StepGood, ConvStep DEF Good
  <1> QED
    BY <1>2, <1>3, PTL DEF ScenarioSpec

(* At rest Chrome shows what the log says at the cursor of the projection; *)
(* an eviction of the worker between the effect and the cursor             *)
(* (projection.ts) may leave it one event ahead, and a rebuild further.    *)
THEOREM RemoteConverges ==
  ASSUME Scenarios \subseteq {"remote", "rebuild"}
  PROVE  ScenarioSpec => []Converged
  <1>1. RemoteOnly
    BY RemoteAssumption DEF RemoteOnly, OwnTitlesOnly
  <1>2. SyncInv /\ ConvInv => Converged
    BY <1>1, RestConverges
  <1> QED
    BY <1>2, RemoteInductive, PTL

(* A receipt of a native effect is the only one, and is that of the event  *)
(* after the cursor: its callback moves the cursor by one.                 *)
THEOREM ReceiptsAreNext ==
  ASSUME Scenarios \subseteq {"remote", "rebuild"}
  PROVE  ScenarioSpec => []ReceiptNext
  <1>1. RemoteOnly
    BY RemoteAssumption DEF RemoteOnly, OwnTitlesOnly
  <1>2. SyncInv /\ ConvInv => ReceiptNext
    BY <1>1, RestConverges
  <1> QED
    BY <1>2, RemoteInductive, PTL
================================================================================
