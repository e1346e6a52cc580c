----------------------------- MODULE AutoRepairProofs -----------------------------
(***************************************************************************)
(* Machine-checked proofs about AutoRepair, for any number of tasks,       *)
(* intents and attempts.                                                   *)
(***************************************************************************)
EXTENDS AutoRepair, TLAPS

(* The recovery of a subtree, and where the event came from that asked it. *)
Stages == {"subtree", "fallback", "applied"}
Origins == {"event", "replay", "fill"}
Plain == Pcs \ {"armed", "subtree", "fallback", "applied"}

(* An armed chain knows its action, a recovery of a subtree its event. *)
ArmedInv ==
  \A t \in Tasks : /\ At(t, "armed") => tasks[t].on \in Actions
                   /\ tasks[t].pc \in Stages => tasks[t].back \in Origins

TypeInv == TypeOK /\ ArmedInv

TaskTable == [Tasks -> TaskType]
Armed(ts) ==
  \A t \in Tasks : /\ ts[t].pc = "armed" => ts[t].on \in Actions
                   /\ ts[t].pc \in Stages => ts[t].back \in Origins

(* Where a task may go, the table of tasks stays well typed. *)
LEMMA GotoTyped ==
  ASSUME TypeInv, NEW t \in Tasks, NEW pc \in Plain,
         NEW on \in Actions \union Tasks \union Intents \union {None}
  PROVE  GotoOn(t, pc, on) \in TaskTable /\ Armed(GotoOn(t, pc, on))
  <1>1. 0 \in 0 .. MaxSilentRecovery
    BY BoundsAssumption
  <1>2. tasks[t].auto \in BOOLEAN
    BY DEF TypeInv, TypeOK, TaskType
  <1>3. Task(tasks[t].auto, pc, on) \in TaskType
    BY <1>1, <1>2 DEF Task, TaskType, Plain
  <1>4. /\ GotoOn(t, pc, on)[t].pc = pc
        /\ \A s \in Tasks \ {t} : GotoOn(t, pc, on)[s] = tasks[s]
    BY DEF TypeInv, TypeOK, GotoOn, Task
  <1>5. GotoOn(t, pc, on) \in TaskTable
    BY <1>3 DEF TypeInv, TypeOK, TaskTable, GotoOn
  <1> QED
    BY <1>4, <1>5 DEF TypeInv, ArmedInv, At, Armed, Plain, Stages

(* The stages of a subtree's recovery are typed as well. *)
LEMMA StageTyped ==
  ASSUME TypeInv, NEW t \in Tasks, NEW pc \in Stages, NEW back \in Origins,
         NEW deep \in 0 .. MaxSilentRecovery
  PROVE  Stage(t, pc, back, deep) \in TaskTable /\ Armed(Stage(t, pc, back, deep))
  <1>1. tasks[t] \in TaskType
    BY DEF TypeInv, TypeOK
  <1>2. [tasks[t] EXCEPT !.pc = pc, !.back = back, !.deep = deep] \in TaskType
    BY <1>1 DEF TaskType, Pcs, Stages, Origins
  <1>3. /\ Stage(t, pc, back, deep)[t].pc = pc /\ Stage(t, pc, back, deep)[t].back = back
        /\ \A s \in Tasks \ {t} : Stage(t, pc, back, deep)[s] = tasks[s]
    BY <1>1 DEF TypeInv, TypeOK, TaskType, Stage
  <1>4. Stage(t, pc, back, deep) \in TaskTable
    BY <1>2 DEF TypeInv, TypeOK, TaskTable, Stage
  <1> QED
    BY <1>3, <1>4 DEF TypeInv, ArmedInv, At, Armed, Stages

(* ... also one level up, to the recovery this one is nested in. *)
LEMMA StaysTyped ==
  ASSUME TypeInv, NEW t \in Tasks, tasks[t].pc \in Stages, NEW pc \in Stages
  PROVE  /\ Stay(t, pc) \in TaskTable /\ Armed(Stay(t, pc))
         /\ tasks[t].deep > 0 =>
              /\ Stage(t, pc, tasks[t].back, tasks[t].deep - 1) \in TaskTable
              /\ Armed(Stage(t, pc, tasks[t].back, tasks[t].deep - 1))
         /\ tasks[t].deep < MaxSilentRecovery =>
              /\ Stage(t, pc, tasks[t].back, tasks[t].deep + 1) \in TaskTable
              /\ Armed(Stage(t, pc, tasks[t].back, tasks[t].deep + 1))
  <1>1. tasks[t].back \in Origins
    BY DEF TypeInv, ArmedInv
  <1>2. tasks[t].deep \in 0 .. MaxSilentRecovery /\ MaxSilentRecovery \in Nat
    BY BoundsAssumption DEF TypeInv, TypeOK, TaskType
  <1>3. tasks[t].deep > 0 => tasks[t].deep - 1 \in 0 .. MaxSilentRecovery
    BY <1>2
  <1>4. tasks[t].deep < MaxSilentRecovery => tasks[t].deep + 1 \in 0 .. MaxSilentRecovery
    BY <1>2
  <1> QED
    BY <1>1, <1>2, <1>3, <1>4, StageTyped DEF Stay

LEMMA EndedTyped ==
  ASSUME TypeInv, NEW t \in Tasks
  PROVE  /\ Ended(t) \in TaskTable /\ Armed(Ended(t))
         /\ Thrown(t) \in TaskTable /\ Armed(Thrown(t))
         /\ [tasks EXCEPT ![t] = Idle] \in TaskTable
         /\ Armed([tasks EXCEPT ![t] = Idle])
  <1>0. 0 \in 0 .. MaxSilentRecovery
    BY BoundsAssumption
  <1>1. Task(TRUE, "ending", None) \in TaskType /\ Idle \in TaskType
    BY <1>0 DEF Task, Idle, TaskType, Pcs
  <1>2. [Task(TRUE, "ending", None) EXCEPT !.failed = TRUE] \in TaskType
    BY <1>0 DEF Task, TaskType, Pcs
  <1> QED
    BY <1>1, <1>2 DEF TypeInv, TypeOK, ArmedInv, At, TaskTable, Armed, Ended, Thrown, Task, Idle, Stages

(* The single decision point keeps the types: it counts an attempt only    *)
(* below the bound.                                                        *)
LEMMA PauseTyped ==
  ASSUME TypeInv, NEW hint, NEW rest \in TaskTable, Armed(rest), PauseWorkspace(hint, rest)
  PROVE  /\ journal' \in [phase: {"live", "paused", "replay"}, disposition: Actions,
                          receipt: BOOLEAN, unacked: SUBSET Intents]
         /\ shown' \in [health: Healths, connected: BOOLEAN,
                        attempts: 0 .. MaxAutoRepair, recoveries: 0 .. MaxSilentRecovery]
         /\ claim' \in Tasks \union {None}
         /\ tasks' \in TaskTable /\ Armed(tasks')
  <1>1. journal' = Gate(hint)
    BY DEF PauseWorkspace
  <1>2. journal' \in [phase: {"live", "paused", "replay"}, disposition: Actions,
                      receipt: BOOLEAN, unacked: SUBSET Intents]
    BY <1>1 DEF TypeInv, TypeOK, Gate, Actions
  <1>3. CASE MayRepair /\ PlanAutoRepair(Gate(hint)) # None
    <2>1. PICK c \in Free(rest) :
            claim' = c /\ tasks' = [rest EXCEPT ![c] = Chain(PlanAutoRepair(Gate(hint)))]
      BY <1>3 DEF PauseWorkspace
    <2>2. shown' = Counted
      BY <1>3 DEF PauseWorkspace
    <2>3. PlanAutoRepair(Gate(hint)) \in Actions
      BY <1>3 DEF PlanAutoRepair, Actions
    <2>4. Chain(PlanAutoRepair(Gate(hint))) \in TaskType
      <3>1. 0 \in 0 .. MaxSilentRecovery
        BY BoundsAssumption
      <3> QED
        BY <2>3, <3>1 DEF Chain, Task, TaskType, Pcs
    <2>5. shown' \in [health: Healths, connected: BOOLEAN,
                      attempts: 0 .. MaxAutoRepair, recoveries: 0 .. MaxSilentRecovery]
      <3>1. MaxAutoRepair \in Nat
        BY BoundsAssumption
      <3>2. shown.attempts \in 0 .. MaxAutoRepair /\ shown.attempts < MaxAutoRepair
        BY <1>3 DEF MayRepair, TypeInv, TypeOK
      <3>3. shown.attempts + 1 \in 0 .. MaxAutoRepair
        BY <3>1, <3>2
      <3> QED
        BY <2>2, <3>3 DEF Counted, TypeInv, TypeOK, Healths
    <2> QED
      BY <1>2, <2>1, <2>3, <2>4, <2>5 DEF TaskTable, Armed, Free, Chain, Task, Stages
  <1>4. CASE ~(MayRepair /\ PlanAutoRepair(Gate(hint)) # None)
    <2>1. /\ shown' = [shown EXCEPT !.health = IF claim # None THEN "recovering" ELSE "degraded"]
          /\ tasks' = rest /\ claim' = claim
      BY <1>4 DEF PauseWorkspace
    <2> QED
      BY <1>2, <2>1 DEF TypeInv, TypeOK, Healths
  <1> QED
    BY <1>3, <1>4

(* A silent reconnect is counted only below its bound. *)
LEMMA RecoveryTyped ==
  ASSUME TypeInv
  PROVE  EnterRecovery \in [health: Healths, connected: BOOLEAN,
                            attempts: 0 .. MaxAutoRepair, recoveries: 0 .. MaxSilentRecovery]
  <1>1. MaxSilentRecovery \in Nat
    BY BoundsAssumption
  <1>2. CASE GivesUp
    BY <1>2 DEF EnterRecovery, TypeInv, TypeOK, Healths
  <1>3. CASE ~GivesUp
    <2>1. shown.recoveries \in 0 .. MaxSilentRecovery /\ ~(shown.recoveries >= MaxSilentRecovery)
      BY <1>3 DEF GivesUp, TypeInv, TypeOK
    <2>2. shown.recoveries + 1 \in 0 .. MaxSilentRecovery
      BY <1>1, <2>1
    <2> QED
      BY <1>3, <2>2 DEF EnterRecovery, TypeInv, TypeOK, Healths
  <1> QED
    BY <1>2, <1>3

(* So are the other two ways in which the shown health changes. *)
LEMMA HealthTyped ==
  ASSUME TypeInv
  PROVE  /\ Live \in [health: Healths, connected: BOOLEAN,
                      attempts: 0 .. MaxAutoRepair, recoveries: 0 .. MaxSilentRecovery]
         /\ [Live EXCEPT !.connected = TRUE] \in
              [health: Healths, connected: BOOLEAN,
               attempts: 0 .. MaxAutoRepair, recoveries: 0 .. MaxSilentRecovery]
         /\ Refreshed \in [health: Healths, connected: BOOLEAN,
                           attempts: 0 .. MaxAutoRepair, recoveries: 0 .. MaxSilentRecovery]
         /\ \A h \in Healths : [shown EXCEPT !.health = h] \in
              [health: Healths, connected: BOOLEAN,
               attempts: 0 .. MaxAutoRepair, recoveries: 0 .. MaxSilentRecovery]
  <1>1. 0 \in 0 .. MaxAutoRepair /\ 0 \in 0 .. MaxSilentRecovery
    BY BoundsAssumption
  <1> QED
    BY <1>1 DEF Live, Refreshed, TypeInv, TypeOK, Healths

(* The initial state is well typed. *)
THEOREM RepairTypeInit == Init => TypeInv
  <1> SUFFICES ASSUME Init PROVE TypeInv
    OBVIOUS
  <1>1. 0 \in 0 .. MaxAutoRepair /\ 0 \in 0 .. MaxSilentRecovery /\ 0 \in 0 .. MaxOutside
    BY BoundsAssumption
  <1>2. Idle \in TaskType
    BY <1>1 DEF Idle, Task, TaskType, Pcs
  <1> QED
    BY <1>1, <1>2 DEF Init, TypeInv, TypeOK, ArmedInv, At, Idle, Task, Healths, Actions, Stages

(* The lock table stays well typed through both of its operations. *)
LEMMA LockTyped ==
  ASSUME TypeInv, NEW t \in Tasks, NEW l \in {"rebuild", "drain"},
         NEW first \in Plain, NEW next \in TaskTable, Armed(next),
         Enter(t, l, first) \/ Rerun(t, l, first, next)
  PROVE  /\ locks' \in [{"rebuild", "drain"} -> [holder: Tasks \union {None}, rerun: BOOLEAN]]
         /\ tasks' \in TaskTable /\ Armed(tasks')
  <1>1. "waiting" \in Plain
    BY DEF Pcs, Plain
  <1>2. Lock(l).holder \in Tasks \union {None}
    BY DEF Lock, TypeInv, TypeOK
  <1>3. Goto(t, first) \in TaskTable /\ Armed(Goto(t, first))
    BY GotoTyped DEF Goto
  <1>4. /\ GotoOn(t, "waiting", Lock(l).holder) \in TaskTable
        /\ Armed(GotoOn(t, "waiting", Lock(l).holder))
    BY <1>1, <1>2, GotoTyped
  <1>5. /\ [locks EXCEPT ![l].rerun = TRUE] \in [{"rebuild", "drain"} -> [holder: Tasks \union {None}, rerun: BOOLEAN]]
        /\ [locks EXCEPT ![l].rerun = FALSE] \in [{"rebuild", "drain"} -> [holder: Tasks \union {None}, rerun: BOOLEAN]]
        /\ [locks EXCEPT ![l].holder = None] \in [{"rebuild", "drain"} -> [holder: Tasks \union {None}, rerun: BOOLEAN]]
        /\ [locks EXCEPT ![l] = [holder |-> t, rerun |-> FALSE]]
             \in [{"rebuild", "drain"} -> [holder: Tasks \union {None}, rerun: BOOLEAN]]
    BY ZenonT(60) DEF TypeInv, TypeOK
  <1>6. CASE Enter(t, l, first)
    BY <1>3, <1>4, <1>5, <1>6 DEF Enter
  <1>7. CASE Rerun(t, l, first, next)
    BY <1>3, <1>5, <1>7 DEF Rerun
  <1> QED
    BY <1>6, <1>7

(* Every step keeps the types.  Each action changes the table of tasks by  *)
(* one of the lemmas above, and the rest by assignments of the right type. *)
THEOREM RepairTypeNext == TypeInv /\ [Next]_vars => TypeInv'
  <1> SUFFICES ASSUME TypeInv, [Next]_vars PROVE TypeInv'
    OBVIOUS
  <1>1. CASE UNCHANGED vars
    BY <1>1 DEF vars, TypeInv, TypeOK, ArmedInv, At
  <1>2. CASE Next
    <2>1. masked' \in BOOLEAN
      BY <1>2 DEF Next, Remember
    <2> DEFINE NewTasks == tasks' \in TaskTable /\ Armed(tasks')
               NewJournal == journal' \in [phase: {"live", "paused", "replay"}, disposition: Actions,
                                           receipt: BOOLEAN, unacked: SUBSET Intents]
               NewShown == shown' \in [health: Healths, connected: BOOLEAN,
                                       attempts: 0 .. MaxAutoRepair, recoveries: 0 .. MaxSilentRecovery]
               NewLocks == locks' \in [{"rebuild", "drain"} -> [holder: Tasks \union {None}, rerun: BOOLEAN]]
               NewRest == /\ claim' \in Tasks \union {None}
                          /\ socket' \in {"down", "wanted", "open", "acked"}
                          /\ signedIn' \in BOOLEAN /\ outside' \in 0 .. MaxOutside
    <2>2. NewTasks /\ NewJournal /\ NewShown /\ NewLocks /\ NewRest => TypeInv'
      BY <2>1 DEF TypeInv, TypeOK, ArmedInv, At, Armed, TaskTable
    <2> HIDE DEF NewTasks, NewJournal, NewShown, NewLocks, NewRest
    <2>3. ASSUME NEW t \in Tasks, Repair(t) PROVE TypeInv'
      <3> SUFFICES NewTasks /\ NewJournal /\ NewShown /\ NewLocks /\ NewRest
        BY <2>2
      <3> USE DEF NewTasks, NewJournal, NewShown, NewLocks, NewRest
      <3>g. \A pc \in Plain : Goto(t, pc) \in TaskTable /\ Armed(Goto(t, pc))
        BY GotoTyped DEF Goto
      <3>e. /\ Ended(t) \in TaskTable /\ Armed(Ended(t)) /\ Thrown(t) \in TaskTable /\ Armed(Thrown(t))
            /\ [tasks EXCEPT ![t] = Idle] \in TaskTable /\ Armed([tasks EXCEPT ![t] = Idle])
        BY EndedTyped
      <3>s. tasks \in TaskTable /\ Armed(tasks)
        BY DEF TypeInv, TypeOK, TaskTable, ArmedInv, Armed, At
      <3>1. CASE Start(t)
        BY <3>1, <3>g, <3>e DEF Start, ArmedInv, At, TypeInv, TypeOK, Pcs, Plain, Actions, Healths
      <3>2. CASE Waited(t)
        BY <3>2, <3>e DEF Waited, TypeInv, TypeOK, Pcs, Plain, Actions, Healths
      <3>3. CASE PauseForRebuild(t)
        BY <3>3, <3>e, PauseTyped DEF PauseForRebuild, TypeInv, TypeOK, Pcs, Plain, Actions, Healths
      <3>4. CASE RebuildJournal(t)
        BY <3>4, <3>g DEF RebuildJournal, TypeInv, TypeOK, Pcs, Plain, Actions, Healths
      <3>5. CASE Coalesce(t)
        BY <3>5, <3>s, LockTyped DEF Coalesce, TypeInv, TypeOK, Pcs, Plain, Actions, Healths
      <3>6. CASE Resync(t)
        <4>1. CASE signedIn
          <5>1. Goto(t, "fill") \in TaskTable /\ Armed(Goto(t, "fill"))
            BY <3>g DEF Pcs, Plain
          <5> QED
            BY <3>6, <4>1, <5>1, HealthTyped DEF Resync, TypeInv, TypeOK, Healths
        <4>2. CASE ~signedIn
          <5>1. "resync" \in Plain
            BY DEF Pcs, Plain
          <5> QED
            BY <3>6, <3>e, <4>2, <5>1, LockTyped DEF Resync, TypeInv, TypeOK
        <4> QED
          BY <4>1, <4>2
      <3>7. CASE Fill(t)
        BY <3>7, <3>g, LockTyped, HealthTyped DEF Fill, Cleared, TypeInv, TypeOK, Pcs, Plain, Actions, Healths
      <3>8. CASE FillFails(t)
        BY <3>8, <3>g, PauseTyped DEF FillFails, TypeInv, TypeOK, Pcs, Plain, Actions, Healths
      <3>9. CASE Unfilled(t)
        BY <3>9, <3>e, LockTyped DEF Unfilled, TypeInv, TypeOK, Pcs, Plain, Actions, Healths
      <3>10. CASE Connect(t)
        BY <3>10, <3>e, RecoveryTyped DEF Connect, TypeInv, TypeOK, Pcs, Plain, Actions, Healths
      <3>11. CASE RetryJournal(t)
        <4>1. Goto(t, "replay") \in TaskTable /\ Armed(Goto(t, "replay"))
          BY <3>g DEF Pcs, Plain
        <4>2. /\ [journal EXCEPT !.disposition = "rebuild"] \in
                   [phase: {"live", "paused", "replay"}, disposition: Actions,
                    receipt: BOOLEAN, unacked: SUBSET Intents]
              /\ [journal EXCEPT !.phase = "replay", !.disposition = "retry"] \in
                   [phase: {"live", "paused", "replay"}, disposition: Actions,
                    receipt: BOOLEAN, unacked: SUBSET Intents]
          BY DEF TypeInv, TypeOK, Actions
        <4>3. NewTasks /\ NewJournal
          BY <3>11, <3>e, <4>1, <4>2 DEF RetryJournal, TypeInv, TypeOK
        <4> QED
          BY <3>11, <4>3 DEF RetryJournal, TypeInv, TypeOK
      <3>12. CASE ReplayEnds(t)
        <4>1. Goto(t, "drain") \in TaskTable /\ Armed(Goto(t, "drain"))
          BY <3>g DEF Pcs, Plain
        <4>2. Cleared \in [phase: {"live", "paused", "replay"}, disposition: Actions,
                           receipt: BOOLEAN, unacked: SUBSET Intents]
          BY DEF Cleared, TypeInv, TypeOK
        <4>3. NewShown /\ NewJournal
          BY <3>12, <4>2, HealthTyped DEF ReplayEnds, TypeInv, TypeOK
        <4> QED
          BY <3>12, <4>1, <4>3 DEF ReplayEnds, TypeInv, TypeOK
      <3>13. CASE ReplayStops(t)
        BY <3>13, <3>e, HealthTyped DEF ReplayStops, TypeInv, TypeOK, Pcs, Plain, Actions, Healths
      <3>14. CASE ReplayPauses(t)
        BY <3>14, <3>e, PauseTyped DEF ReplayPauses, TypeInv, TypeOK, Pcs, Plain, Actions, Healths
      <3>15. CASE ReplayThrows(t)
        BY <3>15, <3>e DEF ReplayThrows, TypeInv, TypeOK, Pcs, Plain, Actions, Healths
      <3>16. CASE ReplayGap(t)
        BY <3>16, <3>g, <3>e, RecoveryTyped DEF ReplayGap, Recover, TypeInv, TypeOK, Pcs, Plain, Actions, Healths
      <3>17. CASE Drain(t)
        BY <3>17, <3>s, LockTyped DEF Drain, TypeInv, TypeOK, Pcs, Plain, Actions, Healths
      <3>18. CASE DrainNext(t)
        <4>1. \A i \in journal.unacked : /\ GotoOn(t, "sending", i) \in TaskTable
                                         /\ Armed(GotoOn(t, "sending", i))
          BY GotoTyped DEF TypeInv, TypeOK, Pcs, Plain
        <4>2. "draining" \in Plain
          BY DEF Pcs, Plain
        <4>3. NewTasks /\ NewLocks
          BY <3>18, <3>e, <4>1, <4>2, LockTyped DEF DrainNext, TypeInv, TypeOK
        <4> QED
          BY <3>18, <4>3 DEF DrainNext, TypeInv, TypeOK
      <3>19. CASE Acknowledged(t)
        BY <3>19, <3>g, HealthTyped DEF Acknowledged, TypeInv, TypeOK, Pcs, Plain, Actions, Healths
      <3>20. CASE SendFails(t)
        BY <3>20, <3>g, PauseTyped DEF SendFails, TypeInv, TypeOK, Pcs, Plain, Actions, Healths
      <3>21. CASE Undrained(t)
        BY <3>21, <3>e, LockTyped DEF Undrained, TypeInv, TypeOK, Pcs, Plain, Actions, Healths
      <3>22. CASE AckBehind(t)
        BY <3>22, <3>g, <3>e, RecoveryTyped DEF AckBehind, Recover, TypeInv, TypeOK, Pcs, Plain, Actions, Healths
      <3>23. CASE AckEqual(t)
        <4>1. Goto(t, "drain") \in TaskTable /\ Armed(Goto(t, "drain"))
          BY <3>g DEF Pcs, Plain
        <4>2. Cleared \in [phase: {"live", "paused", "replay"}, disposition: Actions,
                           receipt: BOOLEAN, unacked: SUBSET Intents]
          BY DEF Cleared, TypeInv, TypeOK
        <4>3. NewShown /\ NewJournal
          BY <3>23, <4>2, HealthTyped DEF AckEqual, TypeInv, TypeOK
        <4> QED
          BY <3>23, <4>1, <4>3 DEF AckEqual, TypeInv, TypeOK
      <3>24. CASE End(t)
        <4>1. CASE claim = t
          <5>1. [paused |-> journal.phase = "paused", hint |-> journal.disposition, health |-> shown.health]
                  \in [paused: BOOLEAN, hint: Actions, health: Healths]
            <6>1. (journal.phase = "paused") \in BOOLEAN
              OBVIOUS
            <6> QED
              BY <6>1 DEF TypeInv, TypeOK
          <5>2. [tasks[t] EXCEPT !.pc = "settling", !.saw = [paused |-> journal.phase = "paused",
                   hint |-> journal.disposition, health |-> shown.health]] \in TaskType
            <6>1. tasks[t] \in TaskType
              BY DEF TypeInv, TypeOK
            <6> QED
              BY <5>1, <6>1 DEF TaskType, Pcs, Plain
          <5>3. tasks' = [tasks EXCEPT ![t] = [tasks[t] EXCEPT !.pc = "settling",
                   !.saw = [paused |-> journal.phase = "paused",
                   hint |-> journal.disposition, health |-> shown.health]]]
            BY <3>24, <4>1 DEF End, TypeInv, TypeOK
          <5>4. Armed(tasks') /\ tasks' \in TaskTable
            BY <3>s, <5>2, <5>3 DEF Armed, TaskTable, TaskType, Stages
          <5> QED
            BY <3>24, <4>1, <5>4 DEF End, TypeInv, TypeOK
        <4>2. CASE claim # t
          BY <3>24, <3>e, <4>2 DEF End, TypeInv, TypeOK
        <4> QED
          BY <4>1, <4>2
      <3>25. CASE Settle(t)
        <4>1. CASE tasks[t].saw.paused
          BY <3>25, <3>e, <4>1, PauseTyped DEF Settle, TypeInv, TypeOK
        <4>2. CASE ~tasks[t].saw.paused
          BY <3>25, <3>e, <4>2, HealthTyped DEF Settle, TypeInv, TypeOK, Healths
        <4> QED
          BY <4>1, <4>2
      <3>26. CASE NeedsSubtree(t)
        <4>1. SubtreeStage \in Stages /\ 0 \in 0 .. MaxSilentRecovery
          BY BoundsAssumption DEF SubtreeStage, Stages
        <4>2. CASE tasks' = tasks
          BY <3>26, <3>s, <4>2, RecoveryTyped DEF NeedsSubtree, TypeInv, TypeOK
        <4>3. CASE tasks[t].pc \in {"replay", "fill"} /\ tasks' = Stage(t, SubtreeStage, tasks[t].pc, 0)
          <5>1. tasks' \in TaskTable /\ Armed(tasks')
            BY <4>1, <4>3, StageTyped DEF Origins
          <5> QED
            BY <3>26, <5>1, RecoveryTyped DEF NeedsSubtree, TypeInv, TypeOK
        <4>4. CASE /\ tasks[t].pc = "subtree" /\ tasks[t].deep < MaxSilentRecovery
                   /\ tasks' = Stage(t, SubtreeStage, tasks[t].back, tasks[t].deep + 1)
          <5>1. tasks' \in TaskTable /\ Armed(tasks')
            BY <4>1, <4>4, StaysTyped DEF Stages
          <5> QED
            BY <3>26, <5>1, RecoveryTyped DEF NeedsSubtree, TypeInv, TypeOK
        <4> QED
          BY <3>26, <4>2, <4>3, <4>4 DEF NeedsSubtree, At
      <3>y. tasks[t].pc \in Stages => \A pc \in Stages : Stay(t, pc) \in TaskTable /\ Armed(Stay(t, pc))
        BY StaysTyped
      <3>27. CASE SubtreeRecovered(t)
        <4>1. Stay(t, "applied") \in TaskTable /\ Armed(Stay(t, "applied"))
          BY <3>27, <3>y DEF SubtreeRecovered, At, Stages
        <4> QED
          BY <3>27, <4>1, HealthTyped DEF SubtreeRecovered, TypeInv, TypeOK
      <3>28. CASE SubtreeFails(t)
        <4>1. Stay(t, "fallback") \in TaskTable /\ Armed(Stay(t, "fallback"))
          BY <3>28, <3>y DEF SubtreeFails, At, Stages
        <4>2. CASE PauseWorkspace("retry", Stay(t, "fallback"))
          BY <3>28, <4>1, <4>2, PauseTyped DEF SubtreeFails, TypeInv, TypeOK
        <4>3. CASE ~PauseWorkspace("retry", Stay(t, "fallback"))
          <5>1. [journal EXCEPT !.receipt = TRUE] \in
                  [phase: {"live", "paused", "replay"}, disposition: Actions,
                   receipt: BOOLEAN, unacked: SUBSET Intents]
            BY DEF TypeInv, TypeOK
          <5>2. NewTasks /\ NewJournal /\ NewShown
            BY <3>28, <4>1, <4>3, <5>1, HealthTyped DEF SubtreeFails, TypeInv, TypeOK
          <5> QED
            BY <3>28, <4>3, <5>2 DEF SubtreeFails, TypeInv, TypeOK
        <4> QED
          BY <4>2, <4>3
      <3>29. CASE FallBack(t)
        <4>1. Stay(t, "applied") \in TaskTable /\ Armed(Stay(t, "applied"))
          BY <3>29, <3>y DEF FallBack, At, Stages
        <4> QED
          BY <3>29, <4>1, PauseTyped DEF FallBack, TypeInv, TypeOK
      <3>30. CASE SubtreeThrows(t)
        <4>1. PICK rest : /\ PauseWorkspace("retry", rest)
                          /\ rest = IF tasks[t].deep > 0 THEN Stage(t, "fallback", tasks[t].back, tasks[t].deep - 1)
                                    ELSE IF tasks[t].back = "fill" THEN Goto(t, "filled") ELSE Ended(t)
          BY <3>30 DEF SubtreeThrows
        <4>2. Goto(t, "filled") \in TaskTable /\ Armed(Goto(t, "filled"))
          BY <3>g DEF Pcs, Plain
        <4>3. rest \in TaskTable /\ Armed(rest)
          BY <3>30, <3>e, <4>1, <4>2, StaysTyped DEF SubtreeThrows, At, Stages
        <4> QED
          BY <3>30, <4>1, <4>3, PauseTyped DEF SubtreeThrows, TypeInv, TypeOK
      <3>31. CASE EventApplied(t)
        <4>1. tasks[t].back \in Origins /\ tasks[t].pc \in Stages
          BY <3>31 DEF EventApplied, At, Stages, TypeInv, ArmedInv
        <4>2. /\ Goto(t, "replay") \in TaskTable /\ Armed(Goto(t, "replay"))
              /\ Goto(t, "fill") \in TaskTable /\ Armed(Goto(t, "fill"))
          BY <3>g DEF Pcs, Plain
        <4>3. tasks' \in TaskTable /\ Armed(tasks')
          BY <3>31, <3>e, <4>1, <4>2, StaysTyped DEF EventApplied, Stages, Origins
        <4> QED
          BY <3>31, <4>3, HealthTyped DEF EventApplied, TypeInv, TypeOK
      <3> QED
        BY <2>3, <3>26, <3>27, <3>28, <3>29, <3>30, <3>31, <3>1, <3>2, <3>3, <3>4, <3>5, <3>6, <3>7, <3>8, <3>9, <3>10, <3>11, <3>12, <3>13, <3>14, <3>15, <3>16, <3>17, <3>18, <3>19, <3>20, <3>21, <3>22, <3>23, <3>24, <3>25 DEF Repair
    <2>4. ASSUME Environment PROVE TypeInv'
      <3> SUFFICES NewTasks /\ NewJournal /\ NewShown /\ NewLocks /\ NewRest
        BY <2>2
      <3> USE DEF NewTasks, NewJournal, NewShown, NewLocks, NewRest
      <3>g. \A pc \in Plain : \A t \in Tasks : Goto(t, pc) \in TaskTable /\ Armed(Goto(t, pc))
        BY GotoTyped DEF Goto
      <3>b. \A pc \in Plain : Begin(pc) => tasks' \in TaskTable /\ Armed(tasks')
        BY <3>g DEF Begin, Free
      <3>o. Happens => outside' \in 0 .. MaxOutside
        <4>1. MaxOutside \in Nat
          BY BoundsAssumption
        <4> QED
          BY <4>1 DEF Happens, TypeInv, TypeOK
      <3>s. tasks \in TaskTable /\ Armed(tasks)
        BY DEF TypeInv, TypeOK, TaskTable, ArmedInv, Armed, At
      <3>1. CASE Request("retry") \/ Request("rebuild")
        BY <3>1, <3>b, <3>o DEF Request, TypeInv, TypeOK, Pcs, Plain, Actions, Healths
      <3>2. CASE \E i \in Intents : Edit(i)
        BY <3>2, <3>b, <3>o DEF Edit, TypeInv, TypeOK, Pcs, Plain, Actions, Healths
      <3>3. CASE Callback
        BY <3>3, <3>s, <3>o DEF Callback, TypeInv, TypeOK, Pcs, Plain, Actions, Healths
      <3>4. CASE RejectLocal("rebuild") \/ RejectLocal("retry")
        BY <3>4, <3>s, <3>o, PauseTyped DEF RejectLocal, TypeInv, TypeOK, Pcs, Plain, Actions, Healths
      <3>5. CASE LiveEvent
        <4>1. CASE PauseWorkspace("retry", tasks)
          BY <3>5, <3>s, <3>o, <4>1, PauseTyped DEF LiveEvent, TypeInv, TypeOK
        <4>2. CASE ~PauseWorkspace("retry", tasks)
          <5>1. [journal EXCEPT !.receipt = TRUE] \in
                  [phase: {"live", "paused", "replay"}, disposition: Actions,
                   receipt: BOOLEAN, unacked: SUBSET Intents]
            BY DEF TypeInv, TypeOK
          <5>2. Begin("replay") => NewTasks
            BY <3>b DEF Pcs, Plain
          <5>3. \A t \in Free(tasks) : tasks' = Stage(t, SubtreeStage, "event", 0) => NewTasks
            <6>1. SubtreeStage \in Stages /\ 0 \in 0 .. MaxSilentRecovery /\ "event" \in Origins
              BY BoundsAssumption DEF SubtreeStage, Stages, Origins
            <6> QED
              BY <6>1, StageTyped DEF Free
          <5>4. NewTasks
            BY <3>5, <3>s, <4>2, <5>2, <5>3 DEF LiveEvent
          <5>5. NewJournal
            BY <3>5, <4>2, <5>1 DEF LiveEvent, TypeInv, TypeOK
          <5>6. NewShown
            BY <3>5, <4>2, HealthTyped, RecoveryTyped DEF LiveEvent
          <5> QED
            BY <3>5, <3>o, <4>2, <5>4, <5>5, <5>6 DEF LiveEvent, TypeInv, TypeOK
        <4> QED
          BY <4>1, <4>2
      <3>6. CASE Ack
        <4>1. NewTasks
          BY <3>6, <3>g DEF Ack, Free, Pcs, Plain
        <4> QED
          BY <3>6, <4>1 DEF Ack, TypeInv, TypeOK
      <3>7. CASE SocketCloses
        BY <3>7, <3>s, <3>o, RecoveryTyped DEF SocketCloses, TypeInv, TypeOK, Pcs, Plain, Actions, Healths
      <3>8. CASE Reconnect
        BY <3>8, <3>b DEF Reconnect, TypeInv, TypeOK, Pcs, Plain, Actions, Healths
      <3>9. CASE LoseSession
        BY <3>9, <3>s, <3>o DEF LoseSession, TypeInv, TypeOK, Pcs, Plain, Actions, Healths
      <3>10. CASE SignIn
        BY <3>10, <3>s DEF SignIn, TypeInv, TypeOK, Pcs, Plain, Actions, Healths
      <3>11. CASE Evict
        <4>1. [t \in Tasks |-> Idle] \in TaskTable /\ Armed([t \in Tasks |-> Idle])
          <5>1. 0 \in 0 .. MaxSilentRecovery
            BY BoundsAssumption
          <5> QED
            BY <5>1 DEF TaskTable, Armed, Idle, Task, TaskType, Pcs, Stages
        <4> QED
          BY <3>11, <3>o, <4>1 DEF Evict, TypeInv, TypeOK
      <3> QED
        BY <2>4, <3>1, <3>2, <3>3, <3>4, <3>5, <3>6, <3>7, <3>8, <3>9, <3>10, <3>11 DEF Environment
    <2> QED
      BY <1>2, <2>3, <2>4 DEF Next
  <1> QED
    BY <1>1, <1>2

(* Type correctness, the bounds of both budgets included: pauseWorkspace   *)
(* never counts past MAX_AUTO_REPAIR_ATTEMPTS, enterRecovery never past    *)
(* MAX_SILENT_RECOVERY_ATTEMPTS.                                           *)
THEOREM RepairTypeCorrect == Spec => []TypeOK
  <1>1. TypeInv => TypeOK
    BY DEF TypeInv
  <1> QED
    BY RepairTypeInit, RepairTypeNext, <1>1, PTL DEF Spec

--------------------------------------------------------------------------------
(***************************************************************************)
(* One chain, one rebuild.  Neither is inductive as it stands: that two    *)
(* chains do not overlap rests on every working chain holding the claim,   *)
(* and a claim is taken only when nobody holds it; that two rebuilds do    *)
(* not, on every task inside doResyncWorkspace holding its lock.           *)
(***************************************************************************)
HoldInv ==
  \A t \in Tasks :
    /\ At(t, "idle") => ~tasks[t].auto
    /\ Working(t) => claim = t
    /\ Rebuilding(t) => Lock("rebuild").holder = t

RepairInv == TypeInv /\ HoldInv

(* A new table of tasks in which t alone has moved, and stays what it was. *)
Moved(t, new) ==
  /\ new \in TaskTable
  /\ \A s \in Tasks \ {t} : new[s] = tasks[s]
  /\ new[t].auto => tasks[t].auto /\ new[t].pc # "idle"
  /\ new[t].auto /\ new[t].pc # "settling" => Working(t)
  /\ InRebuild(new[t]) => Rebuilding(t)

LEMMA GotoMoves ==
  ASSUME TypeInv, NEW t \in Tasks, ~At(t, "idle"), ~At(t, "settling"), NEW on,
         NEW pc \in Plain \ {"idle", "settling"},
         on \in Actions \union Tasks \union Intents \union {None},
         pc \in {"resync", "fill", "filled"} => Rebuilding(t)
  PROVE  Moved(t, GotoOn(t, pc, on))
  <1>1. GotoOn(t, pc, on) \in TaskTable
    BY GotoTyped
  <1> QED
    BY <1>1 DEF Moved, GotoOn, Task, TypeInv, TypeOK, At, Working, InRebuild, Plain

LEMMA EndMoves ==
  ASSUME TypeInv, NEW t \in Tasks, ~At(t, "idle"), ~At(t, "settling")
  PROVE  Moved(t, Ended(t)) /\ Moved(t, Thrown(t)) /\ Moved(t, [tasks EXCEPT ![t] = Idle])
  <1>1. Ended(t) \in TaskTable /\ Thrown(t) \in TaskTable /\ [tasks EXCEPT ![t] = Idle] \in TaskTable
    BY EndedTyped
  <1> QED
    BY <1>1 DEF Moved, Ended, Thrown, Task, Idle, TypeInv, TypeOK, At, Working, InRebuild

(* A recovery of a subtree stays in the rebuild it was asked in, if any. *)
LEMMA StageMoves ==
  ASSUME TypeInv, NEW t \in Tasks, ~At(t, "idle"), ~At(t, "settling"),
         NEW pc \in Stages, NEW back \in Origins, NEW deep \in 0 .. MaxSilentRecovery,
         back = "fill" => Rebuilding(t)
  PROVE  Moved(t, Stage(t, pc, back, deep))
  <1>1. Stage(t, pc, back, deep) \in TaskTable
    BY StageTyped
  <1> QED
    BY <1>1 DEF Moved, Stage, TypeInv, TypeOK, TaskType, At, Working, InRebuild, Stages

LEMMA StaysMoves ==
  ASSUME TypeInv, NEW t \in Tasks, tasks[t].pc \in Stages, NEW pc \in Stages
  PROVE  /\ Moved(t, Stay(t, pc))
         /\ tasks[t].deep > 0 => Moved(t, Stage(t, pc, tasks[t].back, tasks[t].deep - 1))
         /\ tasks[t].deep < MaxSilentRecovery => Moved(t, Stage(t, pc, tasks[t].back, tasks[t].deep + 1))
  <1>1. tasks[t].back \in Origins /\ (tasks[t].back = "fill" => Rebuilding(t))
    BY DEF TypeInv, ArmedInv, Rebuilding, InRebuild
  <1>2. tasks[t].deep \in 0 .. MaxSilentRecovery /\ MaxSilentRecovery \in Nat
    BY BoundsAssumption DEF TypeInv, TypeOK, TaskType
  <1>3. /\ tasks[t].deep > 0 => tasks[t].deep - 1 \in 0 .. MaxSilentRecovery
        /\ tasks[t].deep < MaxSilentRecovery => tasks[t].deep + 1 \in 0 .. MaxSilentRecovery
    BY <1>2
  <1>4. ~At(t, "idle") /\ ~At(t, "settling")
    BY DEF At, Stages
  <1> QED
    BY <1>1, <1>2, <1>3, <1>4, StageMoves DEF Stay

(* A step that moves one task, and neither the claim nor the rebuild lock. *)
LEMMA MoveHolds ==
  ASSUME RepairInv, NEW t \in Tasks, NEW new, Moved(t, new), tasks' = new,
         claim' = claim, locks'["rebuild"] = locks["rebuild"]
  PROVE  HoldInv'
  BY DEF RepairInv, HoldInv, Moved, At, Working, Rebuilding, InRebuild, Lock, TypeInv, TypeOK

(* A pause claims only when no chain works, for a slot that is free. *)
LEMMA PauseHolds ==
  ASSUME RepairInv, NEW hint, NEW t \in Tasks, NEW rest, Moved(t, rest),
         PauseWorkspace(hint, rest), locks' = locks
  PROVE  HoldInv'
  <1>1. CASE MayRepair /\ PlanAutoRepair(Gate(hint)) # None
    <2>1. PICK c \in Free(rest) : claim' = c /\ tasks' = [rest EXCEPT ![c] = Chain(PlanAutoRepair(Gate(hint)))]
      BY <1>1 DEF PauseWorkspace
    <2>2. \A s \in Tasks : ~Working(s)
      BY <1>1, BoundsAssumption DEF MayRepair, RepairInv, HoldInv
    <2>3. c \in Tasks /\ rest \in TaskTable /\ rest[c].pc = "idle"
      BY <2>1 DEF Free, Moved
    <2>4. tasks'[c] = Chain(PlanAutoRepair(Gate(hint))) /\ \A s \in Tasks \ {c} : tasks'[s] = rest[s]
      BY <2>1, <2>3 DEF TaskTable
    <2>5. ~At(c, "idle")' /\ ~Rebuilding(c)'
      BY <2>4 DEF Chain, Task, At, Rebuilding, InRebuild
    <2>6. ASSUME NEW s \in Tasks \ {c} PROVE ~Working(s)' /\ (Rebuilding(s)' => Rebuilding(s)) /\ (At(s, "idle")' => ~tasks'[s].auto)
      BY <2>2, <2>4, <2>6 DEF Moved, Working, Rebuilding, InRebuild, At, RepairInv, HoldInv
    <2> QED
      BY <2>1, <2>5, <2>6 DEF HoldInv, RepairInv, Lock
  <1>2. CASE ~(MayRepair /\ PlanAutoRepair(Gate(hint)) # None)
    <2>1. tasks' = rest /\ claim' = claim
      BY <1>2 DEF PauseWorkspace
    <2> QED
      BY <2>1, MoveHolds
  <1> QED
    BY <1>1, <1>2

(* Entering the rebuild lock takes it from nobody; leaving it is leaving.  *)
LEMMA LockHolds ==
  ASSUME RepairInv, NEW t \in Tasks, ~At(t, "idle"), ~At(t, "settling"), claim' = claim,
         NEW l \in {"rebuild", "drain"}, NEW first \in Plain \ {"idle", "settling"}, NEW next,
         first \in {"resync", "fill", "filled"} => l = "rebuild",
         \/ Enter(t, l, first)
         \/ /\ Rerun(t, l, first, next)
            /\ first \in {"resync", "fill", "filled"} => Rebuilding(t)
            /\ l = "drain" \/ Rebuilding(t)
            /\ Moved(t, next) /\ ~InRebuild(next[t])
  PROVE  HoldInv'
  <1> USE DEF RepairInv
  <1>1. Lock(l).holder \in Tasks \union {None} /\ None \notin Tasks
    BY BoundsAssumption DEF Lock, TypeInv, TypeOK
  <1>2. Moved(t, GotoOn(t, "waiting", Lock(l).holder))
    BY <1>1, GotoMoves DEF Pcs, Plain
  <1>3. CASE Enter(t, l, first) /\ Lock(l).holder # None
    <2>1. tasks' = GotoOn(t, "waiting", Lock(l).holder)
      BY <1>3 DEF Enter
    <2>2. locks'["rebuild"].holder = locks["rebuild"].holder
      BY <1>3 DEF Enter, TypeInv, TypeOK
    <2> QED
      BY <1>2, <2>1, <2>2 DEF HoldInv, Moved, At, Working, Rebuilding, InRebuild, Lock
  <1>4. CASE Enter(t, l, first) /\ Lock(l).holder = None
    <2>1. tasks' = Goto(t, first) /\ locks' = [locks EXCEPT ![l] = [holder |-> t, rerun |-> FALSE]]
      BY <1>4 DEF Enter
    <2>2. Goto(t, first) \in TaskTable
      BY GotoTyped DEF Goto
    <2>3. /\ tasks'[t] = Task(tasks[t].auto, first, None)
          /\ \A s \in Tasks \ {t} : tasks'[s] = tasks[s]
      BY <2>1 DEF Goto, GotoOn, Task, TypeInv, TypeOK
    <2>4. l = "rebuild" => \A s \in Tasks : ~Rebuilding(s)
      BY <1>1, <1>4 DEF HoldInv
    <2>5. locks'["rebuild"].holder = IF l = "rebuild" THEN t ELSE locks["rebuild"].holder
      BY <2>1 DEF TypeInv, TypeOK
    <2> QED
      BY <2>3, <2>4, <2>5 DEF HoldInv, At, Working, Rebuilding, InRebuild, Lock, Task
  <1>5. CASE /\ Rerun(t, l, first, next)
             /\ first \in {"resync", "fill", "filled"} => Rebuilding(t)
             /\ l = "drain" \/ Rebuilding(t)
             /\ Moved(t, next) /\ ~InRebuild(next[t])
    <2>1. CASE Lock(l).rerun
      <3>1. tasks' = Goto(t, first) /\ locks' = [locks EXCEPT ![l].rerun = FALSE]
        BY <1>5, <2>1 DEF Rerun
      <3>2. locks'["rebuild"].holder = locks["rebuild"].holder
        BY <3>1 DEF TypeInv, TypeOK
      <3>3. /\ tasks'[t] = Task(tasks[t].auto, first, None)
            /\ \A s \in Tasks \ {t} : tasks'[s] = tasks[s]
        BY <3>1 DEF Goto, GotoOn, Task, TypeInv, TypeOK
      <3>4. first \in {"resync", "fill", "filled"} => Lock("rebuild").holder = t
        BY <1>5 DEF HoldInv
      <3> QED
        BY <3>2, <3>3, <3>4 DEF HoldInv, At, Working, Rebuilding, InRebuild, Lock, Task
    <2>2. CASE ~Lock(l).rerun
      <3>1. tasks' = next /\ locks' = [locks EXCEPT ![l].holder = None]
        BY <1>5, <2>2 DEF Rerun
      <3> QED
        BY <1>1, <1>5, <3>1 DEF HoldInv, Moved, At, Working, Rebuilding, InRebuild, Lock, TypeInv, TypeOK
    <2> QED
      BY <2>1, <2>2
  <1> QED
    BY <1>3, <1>4, <1>5

(* Nothing is at work at first. *)
LEMMA HoldInit == Init => HoldInv
  BY DEF Init, HoldInv, At, Working, Rebuilding, InRebuild, Idle, Task

LEMMA HoldTask == ASSUME RepairInv, NEW t \in Tasks, Repair(t) PROVE HoldInv'
  <1>1. CASE Start(t)
    <2>1. At(t, "armed") /\ ~At(t, "idle") /\ ~At(t, "settling")
      BY <1>1 DEF Start, At
    <2>2. Moved(t, Ended(t)) /\ Moved(t, Thrown(t))
      BY <2>1, EndMoves DEF RepairInv
    <2>3. tasks[t].on \in {"retry", "rebuild"}
      BY <2>1 DEF RepairInv, TypeInv, ArmedInv, Actions
    <2>4. Moved(t, Goto(t, tasks[t].on))
      BY <2>1, <2>3, GotoMoves DEF Goto, Pcs, Plain, RepairInv
    <2> QED
      BY <1>1, <2>2, <2>4, MoveHolds DEF Start
  <1>2. CASE End(t)
    <2>1. At(t, "ending") /\ ~At(t, "idle") /\ ~At(t, "settling")
      BY <1>2 DEF End, At
    <2>2. CASE claim = t
      <3>1. /\ claim' = None /\ locks' = locks
            /\ \A s \in Tasks \ {t} : tasks'[s] = tasks[s]
            /\ tasks'[t].pc = "settling" /\ tasks'[t].back = tasks[t].back
        BY <1>2, <2>2 DEF End, RepairInv, TypeInv, TypeOK, TaskType
      <3>2. \A s \in Tasks \ {t} : ~Working(s)
        BY <2>2 DEF RepairInv, HoldInv
      <3> QED
        BY <3>1, <3>2 DEF RepairInv, HoldInv, At, Working, Rebuilding, InRebuild, Lock
    <2>3. CASE claim # t
      <3>1. Moved(t, [tasks EXCEPT ![t] = Idle])
        BY <2>1, EndMoves DEF RepairInv
      <3>2. tasks' = [tasks EXCEPT ![t] = Idle] /\ claim' = claim /\ locks' = locks
        BY <1>2, <2>3 DEF End
      <3> QED
        BY <3>1, <3>2, MoveHolds
    <2> QED
      BY <2>2, <2>3
  <1>3. CASE Settle(t)
    <2>1. At(t, "settling") /\ ~At(t, "idle")
      BY <1>3 DEF Settle, At
    <2>2. Moved(t, [tasks EXCEPT ![t] = Idle])
      BY EndedTyped DEF Moved, Idle, Task, RepairInv, TypeInv, TypeOK, At, InRebuild
    <2>3. CASE tasks[t].saw.paused
      BY <1>3, <2>2, <2>3, PauseHolds DEF Settle
    <2>4. CASE ~tasks[t].saw.paused
      BY <1>3, <2>2, <2>4, MoveHolds DEF Settle
    <2> QED
      BY <2>3, <2>4
  <1>4. CASE PauseForRebuild(t)
    <2>1. At(t, "pausing") /\ ~At(t, "idle") /\ ~At(t, "settling")
      BY <1>4 DEF PauseForRebuild, At
    <2>2. Moved(t, Ended(t)) /\ Moved(t, Thrown(t))
      BY <2>1, EndMoves DEF RepairInv
    <2> QED
      BY <1>4, <2>2, PauseHolds DEF PauseForRebuild
  <1>5. CASE RebuildJournal(t)
    <2>1. At(t, "rebuild") /\ ~At(t, "idle") /\ ~At(t, "settling")
      BY <1>5 DEF RebuildJournal, At
    <2>3. Moved(t, Goto(t, "coalesce"))
      BY <2>1, GotoMoves DEF Goto, Pcs, Plain, RepairInv, Rebuilding, InRebuild, At
    <2> QED
      BY <1>5, <2>3, MoveHolds DEF RebuildJournal
  <1>6. CASE Coalesce(t)
    <2>1. At(t, "coalesce") /\ ~At(t, "idle") /\ ~At(t, "settling")
      BY <1>6 DEF Coalesce, At
    <2>2. "resync" \in Plain \ {"idle", "settling"}
      BY DEF Pcs, Plain
    <2> QED
      BY <1>6, <2>1, <2>2, LockHolds DEF Coalesce
  <1>7. CASE Resync(t)
    <2>1. At(t, "resync") /\ ~At(t, "idle") /\ ~At(t, "settling")
      BY <1>7 DEF Resync, At
    <2>2. Moved(t, Ended(t)) /\ Moved(t, Thrown(t))
      BY <2>1, EndMoves DEF RepairInv
    <2>3. Moved(t, Goto(t, "fill"))
      BY <2>1, GotoMoves DEF Goto, Pcs, Plain, RepairInv, Rebuilding, InRebuild, At
    <2>4. "resync" \in Plain \ {"idle", "settling"} /\ ~InRebuild(Ended(t)[t])
      BY DEF Pcs, Plain, InRebuild, Ended, Task, Idle, RepairInv, TypeInv, TypeOK
    <2>5. CASE signedIn
      BY <1>7, <2>3, <2>5, MoveHolds DEF Resync
    <2>6. CASE ~signedIn
      BY <1>7, <2>1, <2>2, <2>4, <2>6, LockHolds DEF Resync, Rebuilding, InRebuild, At
    <2> QED
      BY <2>5, <2>6
  <1>8. CASE Fill(t)
    <2>1. At(t, "fill") /\ ~At(t, "idle") /\ ~At(t, "settling")
      BY <1>8 DEF Fill, At
    <2>3. Moved(t, Goto(t, "connect"))
      BY <2>1, GotoMoves DEF Goto, Pcs, Plain, RepairInv, Rebuilding, InRebuild, At
    <2>4. "resync" \in Plain \ {"idle", "settling"} /\ ~InRebuild(Goto(t, "connect")[t])
      BY DEF Pcs, Plain, InRebuild, Goto, GotoOn, Task, RepairInv, TypeInv, TypeOK
    <2> QED
      BY <1>8, <2>1, <2>3, <2>4, LockHolds DEF Fill, Rebuilding, InRebuild, At
  <1>9. CASE FillFails(t)
    <2>1. At(t, "fill") /\ ~At(t, "idle") /\ ~At(t, "settling")
      BY <1>9 DEF FillFails, At
    <2>3. Moved(t, Goto(t, "filled"))
      BY <2>1, GotoMoves DEF Goto, Pcs, Plain, RepairInv, Rebuilding, InRebuild, At
    <2> QED
      BY <1>9, <2>3, PauseHolds DEF FillFails
  <1>10. CASE Unfilled(t)
    <2>1. At(t, "filled") /\ ~At(t, "idle") /\ ~At(t, "settling")
      BY <1>10 DEF Unfilled, At
    <2>2. Moved(t, Ended(t)) /\ Moved(t, Thrown(t))
      BY <2>1, EndMoves DEF RepairInv
    <2>4. "resync" \in Plain \ {"idle", "settling"} /\ ~InRebuild(Ended(t)[t])
      BY DEF Pcs, Plain, InRebuild, Ended, Task, Idle, RepairInv, TypeInv, TypeOK
    <2> QED
      BY <1>10, <2>1, <2>2, <2>4, LockHolds DEF Unfilled, Rebuilding, InRebuild, At
  <1>11. CASE Connect(t)
    <2>1. At(t, "connect") /\ ~At(t, "idle") /\ ~At(t, "settling")
      BY <1>11 DEF Connect, At
    <2>2. Moved(t, Ended(t)) /\ Moved(t, Thrown(t))
      BY <2>1, EndMoves DEF RepairInv
    <2> QED
      BY <1>11, <2>2, MoveHolds DEF Connect
  <1>12. CASE RetryJournal(t)
    <2>1. At(t, "retry") /\ ~At(t, "idle") /\ ~At(t, "settling")
      BY <1>12 DEF RetryJournal, At
    <2>2. Moved(t, Ended(t)) /\ Moved(t, Thrown(t))
      BY <2>1, EndMoves DEF RepairInv
    <2>3. Moved(t, Goto(t, "replay"))
      BY <2>1, GotoMoves DEF Goto, Pcs, Plain, RepairInv, Rebuilding, InRebuild, At
    <2> QED
      BY <1>12, <2>2, <2>3, MoveHolds DEF RetryJournal
  <1>13. CASE ReplayEnds(t)
    <2>1. At(t, "replay") /\ ~At(t, "idle") /\ ~At(t, "settling")
      BY <1>13 DEF ReplayEnds, At
    <2>3. Moved(t, Goto(t, "drain"))
      BY <2>1, GotoMoves DEF Goto, Pcs, Plain, RepairInv, Rebuilding, InRebuild, At
    <2> QED
      BY <1>13, <2>3, MoveHolds DEF ReplayEnds
  <1>14. CASE ReplayStops(t)
    <2>1. At(t, "replay") /\ ~At(t, "idle") /\ ~At(t, "settling")
      BY <1>14 DEF ReplayStops, At
    <2>2. Moved(t, Ended(t)) /\ Moved(t, Thrown(t))
      BY <2>1, EndMoves DEF RepairInv
    <2> QED
      BY <1>14, <2>2, MoveHolds DEF ReplayStops
  <1>15. CASE ReplayPauses(t)
    <2>1. At(t, "replay") /\ ~At(t, "idle") /\ ~At(t, "settling")
      BY <1>15 DEF ReplayPauses, At
    <2>2. Moved(t, Ended(t)) /\ Moved(t, Thrown(t))
      BY <2>1, EndMoves DEF RepairInv
    <2> QED
      BY <1>15, <2>2, PauseHolds DEF ReplayPauses
  <1>16. CASE ReplayThrows(t)
    <2>1. At(t, "replay") /\ ~At(t, "idle") /\ ~At(t, "settling")
      BY <1>16 DEF ReplayThrows, At
    <2>2. Moved(t, Ended(t)) /\ Moved(t, Thrown(t))
      BY <2>1, EndMoves DEF RepairInv
    <2> QED
      BY <1>16, <2>2, MoveHolds DEF ReplayThrows
  <1>17. CASE ReplayGap(t)
    <2>1. At(t, "replay") /\ ~At(t, "idle") /\ ~At(t, "settling")
      BY <1>17 DEF ReplayGap, At
    <2>2. Moved(t, Ended(t)) /\ Moved(t, Thrown(t))
      BY <2>1, EndMoves DEF RepairInv
    <2>3. Moved(t, Goto(t, "pausing"))
      BY <2>1, GotoMoves DEF Goto, Pcs, Plain, RepairInv, Rebuilding, InRebuild, At
    <2> QED
      BY <1>17, <2>2, <2>3, MoveHolds DEF ReplayGap, Recover
  <1>18. CASE Drain(t)
    <2>1. At(t, "drain") /\ ~At(t, "idle") /\ ~At(t, "settling")
      BY <1>18 DEF Drain, At
    <2>2. "draining" \in Plain \ {"idle", "settling"}
      BY DEF Pcs, Plain
    <2> QED
      BY <1>18, <2>1, <2>2, LockHolds DEF Drain
  <1>19. CASE DrainNext(t)
    <2>1. At(t, "draining") /\ ~At(t, "idle") /\ ~At(t, "settling")
      BY <1>19 DEF DrainNext, At
    <2>2. Moved(t, Ended(t)) /\ Moved(t, Thrown(t))
      BY <2>1, EndMoves DEF RepairInv
    <2>3. \A i \in journal.unacked : Moved(t, GotoOn(t, "sending", i))
      BY <2>1, GotoMoves DEF Pcs, Plain, RepairInv, TypeInv, TypeOK
    <2>4. "draining" \in Plain \ {"idle", "settling"} /\ ~InRebuild(Ended(t)[t])
      BY DEF Pcs, Plain, InRebuild, Ended, Task, Idle, RepairInv, TypeInv, TypeOK
    <2>5. CASE signedIn /\ journal.phase # "paused" /\ journal.unacked # {}
      BY <1>19, <2>3, <2>5, MoveHolds DEF DrainNext
    <2>6. CASE ~(signedIn /\ journal.phase # "paused" /\ journal.unacked # {})
      BY <1>19, <2>1, <2>2, <2>4, <2>6, LockHolds DEF DrainNext
    <2> QED
      BY <2>5, <2>6
  <1>20. CASE Acknowledged(t)
    <2>1. At(t, "sending") /\ ~At(t, "idle") /\ ~At(t, "settling")
      BY <1>20 DEF Acknowledged, At
    <2>3. Moved(t, Goto(t, "draining"))
      BY <2>1, GotoMoves DEF Goto, Pcs, Plain, RepairInv, Rebuilding, InRebuild, At
    <2> QED
      BY <1>20, <2>3, MoveHolds DEF Acknowledged
  <1>21. CASE SendFails(t)
    <2>1. At(t, "sending") /\ ~At(t, "idle") /\ ~At(t, "settling")
      BY <1>21 DEF SendFails, At
    <2>3. Moved(t, Goto(t, "undrained"))
      BY <2>1, GotoMoves DEF Goto, Pcs, Plain, RepairInv, Rebuilding, InRebuild, At
    <2> QED
      BY <1>21, <2>3, PauseHolds DEF SendFails
  <1>22. CASE Undrained(t)
    <2>1. At(t, "undrained") /\ ~At(t, "idle") /\ ~At(t, "settling")
      BY <1>22 DEF Undrained, At
    <2>2. Moved(t, Ended(t)) /\ Moved(t, Thrown(t))
      BY <2>1, EndMoves DEF RepairInv
    <2>4. "draining" \in Plain \ {"idle", "settling"} /\ ~InRebuild(Ended(t)[t])
      BY DEF Pcs, Plain, InRebuild, Ended, Task, Idle, RepairInv, TypeInv, TypeOK
    <2> QED
      BY <1>22, <2>1, <2>2, <2>4, LockHolds DEF Undrained, Rebuilding, InRebuild, At
  <1>23. CASE Waited(t)
    <2>1. At(t, "waiting") /\ ~At(t, "idle") /\ ~At(t, "settling")
      BY <1>23 DEF Waited, At
    <2>2. Moved(t, Ended(t)) /\ Moved(t, Thrown(t))
      BY <2>1, EndMoves DEF RepairInv
    <2> QED
      BY <1>23, <2>2, MoveHolds DEF Waited
  <1>24. CASE AckBehind(t)
    <2>1. At(t, "recover") /\ ~At(t, "idle") /\ ~At(t, "settling")
      BY <1>24 DEF AckBehind, At
    <2>2. Moved(t, Ended(t)) /\ Moved(t, Thrown(t))
      BY <2>1, EndMoves DEF RepairInv
    <2>3. Moved(t, Goto(t, "pausing"))
      BY <2>1, GotoMoves DEF Goto, Pcs, Plain, RepairInv, Rebuilding, InRebuild, At
    <2> QED
      BY <1>24, <2>2, <2>3, MoveHolds DEF AckBehind, Recover
  <1>25. CASE AckEqual(t)
    <2>1. At(t, "live") /\ ~At(t, "idle") /\ ~At(t, "settling")
      BY <1>25 DEF AckEqual, At
    <2>3. Moved(t, Goto(t, "drain"))
      BY <2>1, GotoMoves DEF Goto, Pcs, Plain, RepairInv, Rebuilding, InRebuild, At
    <2> QED
      BY <1>25, <2>3, MoveHolds DEF AckEqual
  <1>26. CASE NeedsSubtree(t)
    <2>1. PICK new : tasks' = new /\ (new = tasks \/ Moved(t, new))
      <3>1. SubtreeStage \in Stages /\ 0 \in 0 .. MaxSilentRecovery
        BY BoundsAssumption DEF SubtreeStage, Stages
      <3>2. tasks[t].pc \in {"replay", "fill"} => Moved(t, Stage(t, SubtreeStage, tasks[t].pc, 0))
        BY <3>1, StageMoves DEF Origins, At, RepairInv, Rebuilding, InRebuild
      <3>3. tasks[t].pc = "subtree" /\ tasks[t].deep < MaxSilentRecovery
              => Moved(t, Stage(t, SubtreeStage, tasks[t].back, tasks[t].deep + 1))
        BY <3>1, StaysMoves DEF Stages, RepairInv
      <3> QED
        BY <1>26, <3>2, <3>3 DEF NeedsSubtree, At
    <2>2. claim' = claim /\ locks' = locks
      BY <1>26 DEF NeedsSubtree
    <2>3. CASE new = tasks
      BY <2>1, <2>2, <2>3 DEF RepairInv, HoldInv, At, Working, Rebuilding, InRebuild, Lock
    <2> QED
      BY <2>1, <2>2, <2>3, MoveHolds
  <1>m. tasks[t].pc \in Stages => Moved(t, Stay(t, "applied")) /\ Moved(t, Stay(t, "fallback"))
    BY StaysMoves DEF RepairInv, Stages
  <1>27. CASE SubtreeRecovered(t)
    BY <1>27, <1>m, MoveHolds DEF SubtreeRecovered, At, Stages
  <1>28. CASE SubtreeFails(t)
    <2>1. Moved(t, Stay(t, "fallback")) /\ locks' = locks
      BY <1>28, <1>m DEF SubtreeFails, At, Stages
    <2>2. PauseWorkspace("retry", Stay(t, "fallback")) \/ (tasks' = Stay(t, "fallback") /\ claim' = claim)
      BY <1>28 DEF SubtreeFails
    <2> QED
      BY <2>1, <2>2, PauseHolds, MoveHolds
  <1>29. CASE FallBack(t)
    BY <1>29, <1>m, PauseHolds DEF FallBack, At, Stages
  <1>30. CASE SubtreeThrows(t)
    <2>1. PICK rest : /\ PauseWorkspace("retry", rest) /\ locks' = locks
                      /\ rest = IF tasks[t].deep > 0 THEN Stage(t, "fallback", tasks[t].back, tasks[t].deep - 1)
                                ELSE IF tasks[t].back = "fill" THEN Goto(t, "filled") ELSE Ended(t)
      BY <1>30 DEF SubtreeThrows
    <2>2. tasks[t].pc \in Stages /\ "fallback" \in Stages /\ ~At(t, "idle") /\ ~At(t, "settling")
      BY <1>30 DEF SubtreeThrows, At, Stages
    <2>3. Moved(t, Ended(t))
      BY <2>2, EndMoves DEF RepairInv
    <2>4. tasks[t].back = "fill" => Moved(t, Goto(t, "filled"))
      BY <2>2, GotoMoves DEF Goto, Pcs, Plain, RepairInv, Rebuilding, InRebuild
    <2>5. Moved(t, rest)
      BY <2>1, <2>2, <2>3, <2>4, StaysMoves DEF RepairInv
    <2> QED
      BY <2>1, <2>5, PauseHolds
  <1>31. CASE EventApplied(t)
    <2>1. tasks[t].pc \in Stages /\ "subtree" \in Stages /\ ~At(t, "idle") /\ ~At(t, "settling")
      BY <1>31 DEF EventApplied, At, Stages
    <2>2. tasks[t].back \in {"event", "replay", "fill"}
      BY <2>1 DEF RepairInv, TypeInv, ArmedInv, Origins
    <2>3. Moved(t, Ended(t)) /\ Moved(t, Goto(t, "replay"))
      BY <2>1, EndMoves, GotoMoves DEF Goto, Pcs, Plain, RepairInv
    <2>4. tasks[t].back = "fill" => Moved(t, Goto(t, "fill"))
      BY <2>1, GotoMoves DEF Goto, Pcs, Plain, RepairInv, Rebuilding, InRebuild
    <2>5. Moved(t, tasks')
      BY <1>31, <2>1, <2>2, <2>3, <2>4, StaysMoves DEF EventApplied, RepairInv
    <2>6. claim' = claim /\ locks' = locks
      BY <1>31 DEF EventApplied
    <2> QED
      BY <2>5, <2>6, MoveHolds
  <1> QED
    BY <1>26, <1>27, <1>28, <1>29, <1>30, <1>31, <1>1, <1>2, <1>3, <1>4, <1>5, <1>6, <1>7, <1>8, <1>9, <1>10, <1>11, <1>12, <1>13, <1>14, <1>15, <1>16, <1>17, <1>18, <1>19, <1>20, <1>21, <1>22, <1>23, <1>24, <1>25 DEF Repair

(* A new task starts from a slot that is free, and is not a chain's. *)
LEMMA HoldEnvironment == ASSUME RepairInv, Environment PROVE HoldInv'
  <1>b. ASSUME NEW pc \in {"retry", "rebuild", "replay", "recover", "live", "drain", "connect"},
               NEW t \in Free(tasks), tasks' = Goto(t, pc), claim' = claim, locks' = locks
        PROVE  HoldInv'
    BY <1>b DEF Goto, GotoOn, Task, Free, RepairInv, HoldInv, At, Working, Rebuilding, InRebuild, Lock, TypeInv, TypeOK
  <1>s. UNCHANGED <<claim, tasks, locks>> => HoldInv'
    BY DEF RepairInv, HoldInv, At, Working, Rebuilding, InRebuild, Lock
  <1>p. ASSUME NEW hint, PauseWorkspace(hint, tasks), locks' = locks PROVE HoldInv'
    <2>1. CASE Tasks = {}
      BY <2>1 DEF HoldInv
    <2>2. CASE Tasks # {}
      <3>1. PICK t \in Tasks : TRUE
        BY <2>2
      <3>2. Moved(t, tasks)
        BY DEF Moved, Working, Rebuilding, InRebuild, At, TaskTable, RepairInv, HoldInv, TypeInv, TypeOK
      <3> QED
        BY <1>p, <3>2, PauseHolds
    <2> QED
      BY <2>1, <2>2
  <1>1. CASE Request("retry") \/ Request("rebuild")
    BY <1>1, <1>b DEF Request, Begin
  <1>2. CASE \E i \in Intents : Edit(i)
    BY <1>2, <1>b DEF Edit, Begin
  <1>3. CASE RejectLocal("rebuild") \/ RejectLocal("retry")
    BY <1>3, <1>p DEF RejectLocal
  <1>4. CASE LiveEvent
    <2>1. CASE UNCHANGED <<claim, tasks>>
      BY <1>4, <1>s, <2>1 DEF LiveEvent
    <2>2. CASE PauseWorkspace("retry", tasks)
      BY <1>4, <1>p, <2>2 DEF LiveEvent
    <2>3. CASE claim' = claim /\ Begin("replay")
      BY <1>4, <1>b, <2>3 DEF LiveEvent, Begin
    <2>4. CASE claim' = claim /\ \E t \in Free(tasks) : tasks' = Stage(t, SubtreeStage, "event", 0)
      <3>1. PICK t \in Tasks : At(t, "idle") /\ tasks' = Stage(t, SubtreeStage, "event", 0)
        BY <2>4 DEF Free, At
      <3>2. /\ tasks'[t] = [tasks[t] EXCEPT !.pc = SubtreeStage, !.back = "event", !.deep = 0]
            /\ \A s \in Tasks \ {t} : tasks'[s] = tasks[s]
        BY <3>1 DEF Stage, RepairInv, TypeInv, TypeOK
      <3>3. /\ tasks'[t].auto = tasks[t].auto /\ tasks'[t].pc = SubtreeStage /\ tasks'[t].back = "event"
        BY <3>2 DEF RepairInv, TypeInv, TypeOK, TaskType
      <3>4. locks' = locks
        BY <1>4 DEF LiveEvent
      <3> QED
        BY <2>4, <3>1, <3>2, <3>3, <3>4
           DEF RepairInv, HoldInv, At, Working, Rebuilding, InRebuild, Lock, SubtreeStage
    <2> QED
      BY <1>4, <2>1, <2>2, <2>3, <2>4 DEF LiveEvent
  <1>5. CASE Ack
    BY <1>5, <1>b DEF Ack
  <1>6. CASE Reconnect
    BY <1>6, <1>b DEF Reconnect, Begin
  <1>7. CASE Callback \/ SocketCloses \/ LoseSession \/ SignIn
    BY <1>7, <1>s DEF Callback, SocketCloses, LoseSession, SignIn
  <1>8. CASE Evict
    BY <1>8 DEF Evict, HoldInv, At, Working, Rebuilding, InRebuild, Idle, Task
  <1> QED
    BY <1>1, <1>2, <1>3, <1>4, <1>5, <1>6, <1>7, <1>8 DEF Environment

THEOREM RepairInductive == Spec => []RepairInv
  <1>1. Init => RepairInv
    BY RepairTypeInit, HoldInit DEF RepairInv
  <1>2. RepairInv /\ [Next]_vars => RepairInv'
    <2>1. RepairInv /\ UNCHANGED vars => HoldInv'
      BY DEF RepairInv, HoldInv, vars, At, Working, Rebuilding, InRebuild, Lock
    <2> QED
      BY <2>1, RepairTypeNext, HoldTask, HoldEnvironment DEF Next, RepairInv
  <1> QED
    BY <1>1, <1>2, PTL DEF Spec

(* At most one automatic chain works on a workspace, and at most one task  *)
(* removes and fills its tree, however many pauses, requests, replays and  *)
(* evictions overlap.                                                      *)
THEOREM RepairsOneAtATime == Spec => []OneAtATime
  <1>1. RepairInv => OneChain
    BY DEF RepairInv, HoldInv, OneChain
  <1>2. RepairInv => OneRebuild
    BY DEF RepairInv, HoldInv, OneRebuild
  <1>3. RepairInv => OneAtATime
    BY <1>1, <1>2 DEF OneAtATime
  <1> QED
    BY RepairInductive, <1>3, PTL

--------------------------------------------------------------------------------
(* A pause counts up or leaves the count alone, a recovery leaves it alone. *)
Grows == ~(shown'.attempts < shown.attempts)

LEMMA PauseGrows == ASSUME TypeInv, NEW hint, NEW rest, PauseWorkspace(hint, rest) PROVE Grows
  <1>1. shown.attempts \in Nat
    BY BoundsAssumption DEF TypeInv, TypeOK
  <1>2. Counted.attempts = shown.attempts + 1
    BY DEF Counted, TypeInv, TypeOK
  <1>3. \A h : [shown EXCEPT !.health = h].attempts = shown.attempts
    BY DEF TypeInv, TypeOK
  <1>4. shown' = Counted \/ \E h : shown' = [shown EXCEPT !.health = h]
    BY DEF PauseWorkspace
  <1>5. shown'.attempts = shown.attempts + 1 \/ shown'.attempts = shown.attempts
    BY <1>2, <1>3, <1>4
  <1> QED
    BY <1>1, <1>5 DEF Grows

LEMMA OthersGrow ==
  ASSUME TypeInv,
         \/ shown' = EnterRecovery \/ shown' = Refreshed \/ shown' = shown
         \/ \E h \in Healths : shown' = [shown EXCEPT !.health = h]
         \/ shown' = [shown EXCEPT !.connected = TRUE]
  PROVE  Grows
  <1>1. shown.attempts \in Nat
    BY BoundsAssumption DEF TypeInv, TypeOK
  <1>2. shown'.attempts = shown.attempts
    BY DEF EnterRecovery, Refreshed, TypeInv, TypeOK
  <1> QED
    BY <1>1, <1>2 DEF Grows

(* The count of repairs falls only when the workspace comes live with its  *)
(* journal unpaused, which are the ends of a rebuild and of a replay and   *)
(* an ack that finds nothing missing, or when a subtree has been           *)
(* recovered, whose update sets it back over any journal.                  *)
THEOREM BudgetIsKept == Spec => BudgetKept
  <1> DEFINE Falls == shown'.attempts < shown.attempts =>
                        /\ shown'.health = "live"
                        /\ \/ journal'.phase = "live"
                           \/ \E t \in Tasks : At(t, "subtree") /\ tasks'[t].pc = "applied"
  <1>1. TypeInv /\ [Next]_vars => Falls
    <2> SUFFICES ASSUME TypeInv, [Next]_vars PROVE Falls
      OBVIOUS
    <2>g. Grows => Falls
      BY DEF Grows
    <2>l. Cleared.phase = "live" /\ Live.health = "live" /\ [Live EXCEPT !.connected = TRUE].health = "live"
      BY HealthTyped DEF Cleared, Live, TypeInv, TypeOK
    <2> HIDE DEF Falls
    <2>1. ASSUME NEW t \in Tasks, Repair(t) PROVE Falls
      <3>1. CASE Fill(t) \/ ReplayEnds(t) \/ AckEqual(t)
        <4>1. \/ journal' = Cleared /\ shown' = [Live EXCEPT !.connected = TRUE]
              \/ shown' = [shown EXCEPT !.health = "recovering"]
              \/ shown' = shown
          BY <3>1 DEF Fill, ReplayEnds, AckEqual
        <4>2. CASE journal' = Cleared /\ shown' = [Live EXCEPT !.connected = TRUE]
          BY <2>l, <4>2 DEF Falls
        <4> QED
          BY <2>g, <4>1, <4>2, OthersGrow DEF Healths
      <3>2. CASE PauseForRebuild(t) \/ FillFails(t) \/ ReplayPauses(t) \/ SendFails(t)
        BY <2>g, <3>2, PauseGrows DEF PauseForRebuild, FillFails, ReplayPauses, SendFails
      <3>3. CASE Settle(t)
        BY <2>g, <3>3, PauseGrows, OthersGrow DEF Settle, Healths
      <3>4. CASE Start(t) \/ End(t) \/ RebuildJournal(t) \/ Coalesce(t) \/ Unfilled(t) \/ RetryJournal(t)
        BY <2>g, <3>4, OthersGrow DEF Start, End, RebuildJournal, Coalesce, Unfilled, RetryJournal
      <3>5. CASE Resync(t) \/ Connect(t) \/ ReplayStops(t) \/ ReplayThrows(t) \/ ReplayGap(t)
        BY <2>g, <3>5, OthersGrow DEF Resync, Connect, ReplayStops, ReplayThrows, ReplayGap, Recover, Healths
      <3>6. CASE Drain(t) \/ DrainNext(t) \/ Acknowledged(t) \/ Undrained(t) \/ Waited(t) \/ AckBehind(t)
        BY <2>g, <3>6, OthersGrow DEF Drain, DrainNext, Acknowledged, Undrained, Waited, AckBehind, Recover
      <3>7. CASE NeedsSubtree(t) \/ EventApplied(t)
        BY <2>g, <3>7, OthersGrow DEF NeedsSubtree, EventApplied
      <3>8. CASE SubtreeFails(t) \/ FallBack(t) \/ SubtreeThrows(t)
        BY <2>g, <3>8, PauseGrows, OthersGrow DEF SubtreeFails, FallBack, SubtreeThrows
      <3>9. CASE SubtreeRecovered(t)
        <4>1. At(t, "subtree") /\ shown' = [Live EXCEPT !.connected = TRUE] /\ tasks' = Stay(t, "applied")
          BY <3>9 DEF SubtreeRecovered
        <4>2. tasks'[t].pc = "applied"
          BY <4>1 DEF Stay, Stage, TypeInv, TypeOK, TaskType
        <4> QED
          BY <2>l, <4>1, <4>2 DEF Falls
      <3> QED
        BY <2>1, <3>1, <3>2, <3>3, <3>4, <3>5, <3>6, <3>7, <3>8, <3>9 DEF Repair
    <2>2. ASSUME Environment PROVE Falls
      <3>1. CASE RejectLocal("rebuild") \/ RejectLocal("retry")
        BY <2>g, <3>1, PauseGrows DEF RejectLocal
      <3>2. CASE LiveEvent
        <4>1. PauseWorkspace("retry", tasks) \/ shown' = Refreshed \/ shown' = EnterRecovery
          BY <3>2 DEF LiveEvent
        <4> QED
          BY <2>g, <4>1, PauseGrows, OthersGrow
      <3>3. CASE Request("retry") \/ Request("rebuild") \/ (\E i \in Intents : Edit(i)) \/ Callback \/ Ack
        BY <2>g, <3>3, OthersGrow DEF Request, Edit, Callback, Ack
      <3>4. CASE SocketCloses \/ Reconnect \/ LoseSession \/ SignIn \/ Evict
        BY <2>g, <3>4, OthersGrow DEF SocketCloses, Reconnect, LoseSession, SignIn, Evict
      <3> QED
        BY <2>2, <3>1, <3>2, <3>3, <3>4 DEF Environment
    <2>3. CASE UNCHANGED vars
      BY <2>g, <2>3, OthersGrow DEF vars
    <2> QED
      BY <2>1, <2>2, <2>3 DEF Next
  <1>2. Spec => []TypeInv
    BY RepairTypeInit, RepairTypeNext, PTL DEF Spec
  <1> QED
    BY <1>1, <1>2, PTL DEF Spec, BudgetKept

--------------------------------------------------------------------------------
(***************************************************************************)
(* A pause that shows "recovering" is attended.  What is inductive names   *)
(* who attends it: the chain that holds the claim, a rebuild about to fill *)
(* the tree, or a chain that has let go of its claim after it read the     *)
(* pause, and will answer it.                                              *)
(***************************************************************************)
WorkInv ==
  /\ claim # None => Working(claim)
  /\ \A t \in Tasks : At(t, "settling") => tasks[t].auto

Attends(t) == At(t, "fill") \/ (At(t, "settling") /\ tasks[t].saw.paused)
Attended == claim # None \/ \E t \in Tasks : Attends(t)

AttendInv ==
  /\ WorkInv
  /\ journal.phase = "paused" /\ shown.health = "recovering" /\ ~masked => Attended

(* A new table of tasks in which chains go on, and nobody settles anew. *)
Keeps(new) ==
  \A s \in Tasks : /\ Working(s) => new[s].auto /\ new[s].pc # "settling"
                   /\ new[s].pc = "settling" => new[s].auto

(* ... and in which whoever attends a pause stays where it is. *)
Watches(new) == \A s \in Tasks : Attends(s) => new[s] = tasks[s]

LEMMA GotoKeeps ==
  ASSUME TypeInv, WorkInv, NEW t \in Tasks, NEW on, NEW pc, pc # "settling"
  PROVE  /\ Keeps(GotoOn(t, pc, on)) /\ Keeps(Goto(t, pc))
         /\ ~Attends(t) => Watches(GotoOn(t, pc, on)) /\ Watches(Goto(t, pc))
  BY DEF TypeInv, TypeOK, WorkInv, At, Working, Keeps, Watches, Goto, GotoOn, Task

LEMMA StageKeeps ==
  ASSUME TypeInv, WorkInv, NEW t \in Tasks, ~At(t, "settling"), NEW pc, NEW back, NEW deep, pc # "settling"
  PROVE  /\ Keeps(Stage(t, pc, back, deep)) /\ Keeps(Stay(t, pc))
         /\ ~Attends(t) => Watches(Stage(t, pc, back, deep)) /\ Watches(Stay(t, pc))
  <1>1. ASSUME NEW b, NEW d
        PROVE  /\ Stage(t, pc, b, d)[t].auto = tasks[t].auto /\ Stage(t, pc, b, d)[t].pc = pc
               /\ \A s \in Tasks \ {t} : Stage(t, pc, b, d)[s] = tasks[s]
    BY DEF TypeInv, TypeOK, TaskType, Stage
  <1>2. ASSUME NEW b, NEW d
        PROVE  Keeps(Stage(t, pc, b, d)) /\ (~Attends(t) => Watches(Stage(t, pc, b, d)))
    BY <1>1 DEF WorkInv, At, Working, Keeps, Watches
  <1> QED
    BY <1>2 DEF Stay

LEMMA EndKeeps ==
  ASSUME TypeInv, WorkInv, NEW t \in Tasks
  PROVE  /\ Keeps(Ended(t)) /\ Keeps(Thrown(t))
         /\ ~Attends(t) => Watches(Ended(t)) /\ Watches(Thrown(t))
         /\ ~Working(t) => Keeps([tasks EXCEPT ![t] = Idle])
         /\ ~Attends(t) => Watches([tasks EXCEPT ![t] = Idle])
  BY DEF TypeInv, TypeOK, WorkInv, At, Working, Keeps, Watches, Ended, Thrown, Idle, Task

LEMMA LockKeeps ==
  ASSUME TypeInv, WorkInv, NEW t \in Tasks, NEW l, NEW first, NEW next,
         first # "settling", ~Attends(t),
         Enter(t, l, first) \/ (Rerun(t, l, first, next) /\ Keeps(next) /\ Watches(next))
  PROVE  Keeps(tasks') /\ Watches(tasks')
  <1>1. /\ Keeps(Goto(t, first)) /\ Watches(Goto(t, first))
        /\ Keeps(GotoOn(t, "waiting", Lock(l).holder)) /\ Watches(GotoOn(t, "waiting", Lock(l).holder))
    BY GotoKeeps
  <1> QED
    BY <1>1 DEF Enter, Rerun

(* The claim stays with a chain that works, or is given back. *)
LEMMA KeepsWork ==
  ASSUME TypeInv, WorkInv, Keeps(tasks'), claim' = claim
  PROVE  WorkInv'
  BY DEF TypeInv, TypeOK, WorkInv, Keeps, Working, At

(* A step that pauses nothing, and shows as recovering only what was, or   *)
(* what a silent reconnect recovers.                                       *)
LEMMA CalmAttends ==
  ASSUME TypeInv, AttendInv, Remember, Keeps(tasks'), Watches(tasks'), claim' = claim,
         journal'.phase = "paused" => journal.phase = "paused",
         shown'.health = "recovering" => shown.health = "recovering" \/ shown'.recoveries > shown.recoveries
  PROVE  AttendInv'
  <1>1. WorkInv'
    BY KeepsWork DEF AttendInv
  <1>2. ASSUME journal'.phase = "paused", shown'.health = "recovering", ~masked' PROVE Attended'
    <2>1. journal.phase = "paused" /\ ~masked /\ shown.health = "recovering"
      BY <1>2 DEF Remember, Masks
    <2>2. Attended
      BY <2>1 DEF AttendInv
    <2>3. CASE claim # None
      BY <2>3 DEF Attended
    <2>4. ASSUME NEW s \in Tasks, Attends(s) PROVE Attended'
      <3>1. tasks'[s] = tasks[s]
        BY <2>4 DEF Watches
      <3>2. Attends(s)'
        BY <2>4, <3>1 DEF Attends, At
      <3> QED
        BY <3>2 DEF Attended
    <2> QED
      BY <2>2, <2>3, <2>4 DEF Attended
  <1> QED
    BY <1>1, <1>2 DEF AttendInv

(* The decision point shows "recovering" only over a chain that works. *)
LEMMA PauseAttends ==
  ASSUME TypeInv, WorkInv, NEW hint, NEW rest, rest \in TaskTable, Keeps(rest), PauseWorkspace(hint, rest)
  PROVE  AttendInv'
  <1>1. CASE MayRepair /\ PlanAutoRepair(Gate(hint)) # None
    <2>1. PICK c \in Free(rest) : claim' = c /\ tasks' = [rest EXCEPT ![c] = Chain(PlanAutoRepair(Gate(hint)))]
      BY <1>1 DEF PauseWorkspace
    <2>2. c \in Tasks /\ c # None
      BY <2>1, BoundsAssumption DEF Free
    <2>3. tasks'[c] = Chain(PlanAutoRepair(Gate(hint))) /\ \A s \in Tasks \ {c} : tasks'[s] = rest[s]
      BY <2>1, <2>2 DEF TaskTable
    <2>4. WorkInv'
      BY <2>1, <2>2, <2>3 DEF WorkInv, Working, At, Keeps, Chain, Task
    <2> QED
      BY <2>1, <2>2, <2>4 DEF AttendInv, Attended
  <1>2. CASE ~(MayRepair /\ PlanAutoRepair(Gate(hint)) # None)
    <2>1. /\ tasks' = rest /\ claim' = claim
          /\ shown' = [shown EXCEPT !.health = IF claim # None THEN "recovering" ELSE "degraded"]
      BY <1>2 DEF PauseWorkspace
    <2>2. shown'.health = "recovering" => claim' # None
      BY <2>1 DEF TypeInv, TypeOK
    <2> QED
      BY <2>1, <2>2, KeepsWork DEF AttendInv, Attended
  <1> QED
    BY <1>1, <1>2

(* How the shown state may change in a step that is no pause. *)
LEMMA CalmHealth ==
  ASSUME TypeInv,
         \/ shown' \in {shown, EnterRecovery, Refreshed, Live, [Live EXCEPT !.connected = TRUE]}
         \/ shown' \in {[shown EXCEPT !.health = "degraded"], [shown EXCEPT !.connected = TRUE]}
  PROVE  shown'.health = "recovering" => shown.health = "recovering" \/ shown'.recoveries > shown.recoveries
  <1>1. shown.recoveries \in Nat
    BY BoundsAssumption DEF TypeInv, TypeOK
  <1>2. CASE shown' = EnterRecovery
    <2>1. EnterRecovery.health = "degraded" \/ EnterRecovery.recoveries = shown.recoveries + 1
      BY DEF EnterRecovery, TypeInv, TypeOK
    <2>2. shown.recoveries + 1 > shown.recoveries
      BY <1>1
    <2> QED
      BY <1>2, <2>1, <2>2
  <1>3. CASE shown' # EnterRecovery
    BY <1>3 DEF Refreshed, Live, TypeInv, TypeOK
  <1> QED
    BY <1>2, <1>3

LEMMA AttendTask == ASSUME RepairInv, AttendInv, Remember, NEW t \in Tasks, Repair(t) PROVE AttendInv'
  <1> USE DEF RepairInv
  <1>w. TypeInv /\ WorkInv
    BY DEF AttendInv
  <1>t. Ended(t) \in TaskTable /\ [tasks EXCEPT ![t] = Idle] \in TaskTable
    BY EndedTyped
  <1>1. CASE Start(t) \/ Waited(t)
    <2>1. ~Attends(t)
      BY <1>1 DEF Start, Waited, Attends, At
    <2>2. At(t, "armed") => tasks[t].on \in {"retry", "rebuild"}
      BY <1>w DEF TypeInv, ArmedInv, Actions
    <2>3. Keeps(tasks') /\ Watches(tasks')
      BY <1>1, <1>w, <2>1, <2>2, GotoKeeps, EndKeeps DEF Start, Waited
    <2>4. claim' = claim /\ journal' = journal /\ shown' = shown
      BY <1>1 DEF Start, Waited
    <2> QED
      BY <1>w, <2>3, <2>4, CalmAttends
  <1>2. CASE End(t)
    <2>1. CASE claim = t
      <3>1. Working(t) /\ claim # None
        BY <1>w, <2>1, BoundsAssumption DEF WorkInv
      <3>2. /\ claim' = None /\ journal' = journal
            /\ \A s \in Tasks \ {t} : tasks'[s] = tasks[s]
            /\ tasks'[t].pc = "settling" /\ tasks'[t].auto
            /\ tasks'[t].saw.paused = (journal.phase = "paused")
        BY <1>2, <2>1, <3>1 DEF End, TypeInv, TypeOK, TaskType, Working
      <3>3. WorkInv'
        BY <1>w, <3>2 DEF WorkInv, At, Working
      <3>4. journal'.phase = "paused" => Attends(t)'
        BY <3>2 DEF Attends, At
      <3> QED
        BY <3>3, <3>4 DEF AttendInv, Attended
    <2>2. CASE claim # t
      <3>1. ~Working(t) /\ ~Attends(t)
        BY <1>2, <2>2 DEF HoldInv, End, Attends, At
      <3>2. tasks' = [tasks EXCEPT ![t] = Idle] /\ claim' = claim /\ journal' = journal /\ shown' = shown
        BY <1>2, <2>2 DEF End
      <3> QED
        BY <1>w, <3>1, <3>2, EndKeeps, CalmAttends
    <2> QED
      BY <2>1, <2>2
  <1>3. CASE Settle(t)
    <2>1. ~Working(t) /\ At(t, "settling")
      BY <1>3 DEF Settle, Working
    <2>2. Keeps([tasks EXCEPT ![t] = Idle])
      BY <1>w, <2>1, EndKeeps
    <2>3. CASE tasks[t].saw.paused
      BY <1>3, <1>t, <1>w, <2>2, <2>3, PauseAttends DEF Settle
    <2>4. CASE ~tasks[t].saw.paused
      <3>1. ~Attends(t)
        BY <2>1, <2>4 DEF Attends, At
      <3>2. /\ tasks' = [tasks EXCEPT ![t] = Idle] /\ claim' = claim /\ journal' = journal
            /\ shown' \in {shown, [shown EXCEPT !.health = "degraded"]}
        BY <1>3, <2>4 DEF Settle
      <3> QED
        BY <1>w, <2>2, <3>1, <3>2, EndKeeps, CalmHealth, CalmAttends
    <2> QED
      BY <2>3, <2>4
  <1>4. CASE PauseForRebuild(t) \/ ReplayPauses(t)
    BY <1>4, <1>t, <1>w, EndKeeps, PauseAttends DEF PauseForRebuild, ReplayPauses
  <1>5. CASE FillFails(t)
    <2>1. Goto(t, "filled") \in TaskTable
      BY GotoTyped DEF Goto, Pcs, Plain
    <2> QED
      BY <1>5, <1>w, <2>1, GotoKeeps, PauseAttends DEF FillFails
  <1>6. CASE SendFails(t)
    <2>1. Goto(t, "undrained") \in TaskTable
      BY GotoTyped DEF Goto, Pcs, Plain
    <2> QED
      BY <1>6, <1>w, <2>1, GotoKeeps, PauseAttends DEF SendFails
  <1>7. CASE Fill(t)
    <2>1. Keeps(Goto(t, "resync")) /\ Keeps(Goto(t, "connect"))
      BY <1>w, GotoKeeps
    <2>2. Keeps(tasks') /\ claim' = claim
      BY <1>7, <2>1 DEF Fill, Rerun
    <2>3. journal'.phase = "live"
      BY <1>7 DEF Fill, Cleared, TypeInv, TypeOK
    <2> QED
      BY <1>w, <2>2, <2>3, KeepsWork DEF AttendInv
  <1>8. CASE Resync(t)
    <2>1. ~Attends(t)
      BY <1>8 DEF Resync, Attends, At
    <2>2. claim' = claim /\ journal' = journal
      BY <1>8 DEF Resync
    <2>3. CASE signedIn
      <3>1. tasks' = Goto(t, "fill")
        BY <1>8, <2>3 DEF Resync
      <3>2. WorkInv'
        BY <1>w, <2>2, <3>1, GotoKeeps, KeepsWork
      <3>3. Attends(t)'
        BY <3>1 DEF Attends, At, Goto, GotoOn, Task, TypeInv, TypeOK
      <3> QED
        BY <3>2, <3>3 DEF AttendInv, Attended
    <2>4. CASE ~signedIn
      <3>1. Keeps(tasks') /\ Watches(tasks')
        BY <1>8, <1>w, <2>1, <2>4, EndKeeps, LockKeeps DEF Resync
      <3> QED
        BY <1>8, <1>w, <2>2, <2>4, <3>1, CalmAttends DEF Resync
    <2> QED
      BY <2>3, <2>4
  <1>9. CASE Coalesce(t) \/ Drain(t) \/ Unfilled(t) \/ Undrained(t)
    <2>1. ~Attends(t)
      BY <1>9 DEF Coalesce, Drain, Unfilled, Undrained, Attends, At
    <2>2. Keeps(tasks') /\ Watches(tasks')
      BY <1>9, <1>w, <2>1, EndKeeps, LockKeeps DEF Coalesce, Drain, Unfilled, Undrained
    <2>3. claim' = claim /\ journal' = journal /\ shown' = shown
      BY <1>9 DEF Coalesce, Drain, Unfilled, Undrained
    <2> QED
      BY <1>w, <2>2, <2>3, CalmAttends
  <1>10. CASE DrainNext(t)
    <2>1. ~Attends(t)
      BY <1>10 DEF DrainNext, Attends, At
    <2>2. Keeps(tasks') /\ Watches(tasks')
      <3>1. CASE signedIn /\ journal.phase # "paused" /\ journal.unacked # {}
        BY <1>10, <1>w, <2>1, <3>1, GotoKeeps DEF DrainNext
      <3>2. CASE ~(signedIn /\ journal.phase # "paused" /\ journal.unacked # {})
        BY <1>10, <1>w, <2>1, <3>2, EndKeeps, LockKeeps DEF DrainNext
      <3> QED
        BY <3>1, <3>2
    <2>3. claim' = claim /\ journal' = journal /\ shown' = shown
      BY <1>10 DEF DrainNext
    <2> QED
      BY <1>w, <2>2, <2>3, CalmAttends
  <1>11. CASE RebuildJournal(t) \/ Connect(t) \/ RetryJournal(t) \/ ReplayStops(t) \/ ReplayThrows(t) \/ ReplayGap(t)
    <2>1. ~Attends(t)
      BY <1>11 DEF RebuildJournal, Connect, RetryJournal, ReplayStops, ReplayThrows, ReplayGap, Attends, At
    <2>2. Keeps(tasks') /\ Watches(tasks')
      BY <1>11, <1>w, <2>1, GotoKeeps, EndKeeps
         DEF RebuildJournal, Connect, RetryJournal, ReplayStops, ReplayThrows, ReplayGap, Recover
    <2>3. claim' = claim /\ shown' \in {shown, EnterRecovery, Refreshed}
      BY <1>11 DEF RebuildJournal, Connect, RetryJournal, ReplayStops, ReplayThrows, ReplayGap, Recover
    <2>4. journal'.phase = "paused" => journal.phase = "paused"
      BY <1>11 DEF RebuildJournal, Connect, RetryJournal, ReplayStops, ReplayThrows, ReplayGap, Recover, TypeInv, TypeOK
    <2> QED
      BY <1>w, <2>2, <2>3, <2>4, CalmHealth, CalmAttends
  <1>12. CASE ReplayEnds(t) \/ Acknowledged(t) \/ AckBehind(t) \/ AckEqual(t)
    <2>1. ~Attends(t)
      BY <1>12 DEF ReplayEnds, Acknowledged, AckBehind, AckEqual, Attends, At
    <2>2. Keeps(tasks') /\ Watches(tasks')
      BY <1>12, <1>w, <2>1, GotoKeeps, EndKeeps DEF ReplayEnds, Acknowledged, AckBehind, AckEqual, Recover
    <2>3. claim' = claim /\ shown' \in {shown, EnterRecovery, Refreshed, [Live EXCEPT !.connected = TRUE]}
      BY <1>12 DEF ReplayEnds, Acknowledged, AckBehind, AckEqual, Recover
    <2>4. journal'.phase = "paused" => journal.phase = "paused"
      BY <1>12 DEF ReplayEnds, Acknowledged, AckBehind, AckEqual, Recover, Cleared, TypeInv, TypeOK
    <2> QED
      BY <1>w, <2>2, <2>3, <2>4, CalmHealth, CalmAttends
  <1>13. CASE NeedsSubtree(t)
    <2>1. ~At(t, "settling") /\ claim' = claim /\ journal' = journal /\ journal.phase # "paused"
      BY <1>13 DEF NeedsSubtree, Open, At
    <2>2. SubtreeStage # "settling" /\ Keeps(tasks)
      BY <1>w DEF SubtreeStage, Keeps, WorkInv, Working, At
    <2>3. Keeps(tasks')
      BY <1>13, <1>w, <2>1, <2>2, StageKeeps DEF NeedsSubtree
    <2> QED
      BY <1>w, <2>1, <2>3, KeepsWork DEF AttendInv
  <1>14. CASE SubtreeRecovered(t) \/ EventApplied(t)
    <2>1. ~Attends(t) /\ ~At(t, "settling")
      BY <1>14 DEF SubtreeRecovered, EventApplied, Attends, At
    <2>2. EventApplied(t) => tasks[t].back # "settling"
      BY DEF EventApplied, At, TypeInv, ArmedInv, Stages, Origins
    <2>3. Keeps(tasks') /\ Watches(tasks')
      <3>1. CASE SubtreeRecovered(t)
        <4>1. tasks' = Stay(t, "applied")
          BY <3>1 DEF SubtreeRecovered
        <4> QED
          BY <1>w, <2>1, <4>1, StageKeeps
      <3>2. CASE EventApplied(t)
        <4>1. \/ tasks' = Stage(t, "subtree", tasks[t].back, tasks[t].deep - 1)
              \/ tasks' = Ended(t)
              \/ tasks' = Goto(t, tasks[t].back)
          BY <3>2 DEF EventApplied
        <4>2. Keeps(Goto(t, tasks[t].back)) /\ Watches(Goto(t, tasks[t].back))
          BY <1>w, <2>1, <2>2, <3>2, GotoKeeps
        <4>3. Keeps(Ended(t)) /\ Watches(Ended(t))
          BY <1>w, <2>1, EndKeeps
        <4>4. /\ Keeps(Stage(t, "subtree", tasks[t].back, tasks[t].deep - 1))
              /\ Watches(Stage(t, "subtree", tasks[t].back, tasks[t].deep - 1))
          BY <1>w, <2>1, StageKeeps
        <4> QED
          BY <4>1, <4>2, <4>3, <4>4
      <3> QED
        BY <1>14, <3>1, <3>2
    <2>4. claim' = claim /\ journal' = journal /\ shown' \in {Refreshed, [Live EXCEPT !.connected = TRUE]}
      BY <1>14 DEF SubtreeRecovered, EventApplied
    <2> QED
      BY <1>w, <2>3, <2>4, CalmHealth, CalmAttends
  <1>15. CASE SubtreeFails(t)
    <2>1. At(t, "subtree") /\ ~Attends(t) /\ ~At(t, "settling") /\ tasks[t].pc \in Stages
      BY <1>15 DEF SubtreeFails, Attends, At, Stages
    <2>2. Keeps(Stay(t, "fallback")) /\ Watches(Stay(t, "fallback"))
      BY <1>w, <2>1, StageKeeps
    <2>3. CASE PauseWorkspace("retry", Stay(t, "fallback"))
      <3>1. Stay(t, "fallback") \in TaskTable
        BY <2>1, StaysTyped DEF Stages
      <3> QED
        BY <1>w, <2>2, <2>3, <3>1, PauseAttends
    <2>4. CASE ~PauseWorkspace("retry", Stay(t, "fallback"))
      <3>1. tasks' = Stay(t, "fallback") /\ claim' = claim /\ shown' \in {shown, Refreshed}
        BY <1>15, <2>4 DEF SubtreeFails
      <3>2. journal'.phase = "paused" => journal.phase = "paused"
        BY <1>15, <2>4 DEF SubtreeFails, TypeInv, TypeOK
      <3> QED
        BY <1>w, <2>2, <3>1, <3>2, CalmHealth, CalmAttends
    <2> QED
      BY <2>3, <2>4
  <1>16. CASE FallBack(t)
    <2>1. ~At(t, "settling") /\ tasks[t].pc \in Stages
      BY <1>16 DEF FallBack, At, Stages
    <2>2. Stay(t, "applied") \in TaskTable
      BY <2>1, StaysTyped DEF Stages
    <2> QED
      BY <1>16, <1>w, <2>1, <2>2, StageKeeps, PauseAttends DEF FallBack
  <1>17. CASE SubtreeThrows(t)
    <2>1. PICK rest : /\ PauseWorkspace("retry", rest)
                      /\ rest = IF tasks[t].deep > 0 THEN Stage(t, "fallback", tasks[t].back, tasks[t].deep - 1)
                                ELSE IF tasks[t].back = "fill" THEN Goto(t, "filled") ELSE Ended(t)
      BY <1>17 DEF SubtreeThrows
    <2>2. ~At(t, "settling") /\ tasks[t].pc \in Stages /\ "fallback" \in Stages
      BY <1>17 DEF SubtreeThrows, At, Stages
    <2>3. Goto(t, "filled") \in TaskTable
      BY GotoTyped DEF Goto, Pcs, Plain
    <2>4. rest \in TaskTable
      BY <1>t, <2>1, <2>2, <2>3, StaysTyped
    <2>5. Keeps(rest)
      BY <1>w, <2>1, <2>2, GotoKeeps, EndKeeps, StageKeeps
    <2> QED
      BY <1>w, <2>1, <2>4, <2>5, PauseAttends
  <1> QED
    BY <1>1, <1>2, <1>3, <1>4, <1>5, <1>6, <1>7, <1>8, <1>9, <1>10, <1>11, <1>12,
       <1>13, <1>14, <1>15, <1>16, <1>17 DEF Repair

LEMMA AttendEnvironment == ASSUME RepairInv, AttendInv, Remember, Environment PROVE AttendInv'
  <1> USE DEF RepairInv
  <1>w. TypeInv /\ WorkInv
    BY DEF AttendInv
  <1>s. Keeps(tasks) /\ Watches(tasks) /\ tasks \in TaskTable
    BY <1>w DEF Keeps, Watches, WorkInv, Working, At, TaskTable, TypeInv, TypeOK
  <1>b. ASSUME NEW t \in Free(tasks), NEW pc, pc # "settling"
        PROVE  Keeps(Goto(t, pc)) /\ Watches(Goto(t, pc))
    <2>1. t \in Tasks /\ ~Attends(t)
      BY DEF Free, Attends, At
    <2> QED
      BY <1>b, <1>w, <2>1, GotoKeeps
  <1>1. CASE RejectLocal("rebuild") \/ RejectLocal("retry")
    BY <1>1, <1>s, <1>w, PauseAttends DEF RejectLocal
  <1>2. CASE LiveEvent
    <2>1. CASE PauseWorkspace("retry", tasks)
      BY <1>s, <1>w, <2>1, PauseAttends
    <2>2. CASE ~PauseWorkspace("retry", tasks)
      <3>1. claim' = claim /\ shown' \in {Refreshed, EnterRecovery}
        BY <1>2, <2>2 DEF LiveEvent
      <3>a. ASSUME NEW t \in Free(tasks), tasks' = Stage(t, SubtreeStage, "event", 0)
            PROVE  Keeps(tasks') /\ Watches(tasks')
        <4>1. t \in Tasks /\ ~At(t, "settling") /\ ~Attends(t) /\ SubtreeStage # "settling"
          BY DEF Free, At, Attends, SubtreeStage
        <4> QED
          BY <1>w, <3>a, <4>1, StageKeeps
      <3>2. Keeps(tasks') /\ Watches(tasks')
        BY <1>2, <1>b, <1>s, <2>2, <3>a DEF LiveEvent, Begin
      <3>3. journal'.phase = "paused" => journal.phase = "paused"
        BY <1>2, <2>2 DEF LiveEvent, TypeInv, TypeOK
      <3> QED
        BY <1>w, <3>1, <3>2, <3>3, CalmHealth, CalmAttends
    <2> QED
      BY <2>1, <2>2
  <1>3. CASE Callback
    <2>1. Masks
      BY <1>3 DEF Masks
    <2>2. journal'.phase = "paused" => masked'
      BY <2>1 DEF Remember
    <2>3. WorkInv'
      BY <1>3, <1>s, <1>w, KeepsWork DEF Callback
    <2> QED
      BY <2>2, <2>3 DEF AttendInv
  <1>4. CASE Evict
    <2>1. Masks
      BY <1>4 DEF Masks
    <2>2. journal'.phase = "paused" => masked'
      BY <2>1 DEF Remember
    <2>3. WorkInv'
      BY <1>4 DEF Evict, WorkInv, At, Idle, Task
    <2> QED
      BY <2>2, <2>3 DEF AttendInv
  <1>5. CASE Request("retry") \/ Request("rebuild") \/ (\E i \in Intents : Edit(i)) \/ Ack \/ Reconnect
    <2>1. Keeps(tasks') /\ Watches(tasks')
      BY <1>5, <1>b DEF Request, Edit, Ack, Reconnect, Begin
    <2>2. claim' = claim /\ shown' \in {shown, [shown EXCEPT !.connected = TRUE]}
      BY <1>5 DEF Request, Edit, Ack, Reconnect
    <2>3. journal'.phase = journal.phase
      BY <1>5 DEF Request, Edit, Ack, Reconnect, TypeInv, TypeOK
    <2> QED
      BY <1>w, <2>1, <2>2, <2>3, CalmHealth, CalmAttends
  <1>6. CASE SocketCloses \/ LoseSession \/ SignIn
    <2>1. tasks' = tasks /\ claim' = claim /\ journal' = journal /\ shown' \in {shown, EnterRecovery}
      BY <1>6 DEF SocketCloses, LoseSession, SignIn
    <2> QED
      BY <1>s, <1>w, <2>1, CalmHealth, CalmAttends
  <1> QED
    BY <1>1, <1>2, <1>3, <1>4, <1>5, <1>6 DEF Environment

(* A workspace that a pause left "recovering" has a chain or a rebuild at  *)
(* work on it, whatever clicks, replays, lost sessions and other pauses    *)
(* come in between: no pause is left without an answer.                    *)
THEOREM PausesAreAttended == Spec => []RecoveringHasChain
  <1>1. Init => AttendInv
    BY DEF Init, AttendInv, WorkInv, Attended, At, Idle, Task
  <1>2. RepairInv /\ AttendInv /\ [Next]_vars => AttendInv'
    <2>1. AttendInv /\ UNCHANGED vars => AttendInv'
      BY DEF AttendInv, WorkInv, Attended, Attends, Working, At, vars
    <2> QED
      BY <2>1, AttendTask, AttendEnvironment DEF Next
  <1>3. RepairInv /\ AttendInv => RecoveringHasChain
    <2> SUFFICES ASSUME RepairInv, AttendInv, journal.phase = "paused", shown.health = "recovering", ~masked
                 PROVE  \E t \in Tasks : tasks[t].auto \/ Rebuilding(t)
      BY DEF RecoveringHasChain
    <2>1. Attended
      BY DEF AttendInv
    <2>2. CASE claim # None
      BY <2>2 DEF AttendInv, WorkInv, Working, RepairInv, TypeInv, TypeOK
    <2>3. CASE \E t \in Tasks : Attends(t)
      BY <2>3 DEF Attends, AttendInv, WorkInv, Rebuilding, InRebuild, At
    <2> QED
      BY <2>1, <2>2, <2>3 DEF Attended
  <1> QED
    BY RepairInductive, <1>1, <1>2, <1>3, PTL DEF Spec

================================================================================
