------------------------------- MODULE AutoRepair -------------------------------
(***************************************************************************)
(* The bounded automatic repair of one workspace in the extension          *)
(* (extension/src/background/projection.ts): every pause of the            *)
(* convergence journal goes through pauseWorkspace, which in one slot of   *)
(* the state queue gates the journal, decides whether a repair may run,    *)
(* counts it and claims it; the claimed chain then runs detached from its  *)
(* caller, and at its end the same decision is taken again.                *)
(*                                                                         *)
(* Chains run among the user's own Retry and Rebuild, replays after a      *)
(* socket's ack, live events, the callbacks of local edits with their      *)
(* drain, loss of the session, and eviction of the worker.  Each is a      *)
(* task that holds a place in the code (pc) between two awaits; a step of  *)
(* a task is one slot of the state queue or the answer to one request.     *)
(*                                                                         *)
(* Abstracted: what an effect does to the tree, and cursors (WorkspaceSync *)
(* has both): an event here applies, leaves a receipt, fails, or needs the *)
(* subtree around it recovered first.                                      *)
(***************************************************************************)
EXTENDS Naturals, FiniteSets

CONSTANTS
  Tasks,                \* slots for tasks that run at the same time
  Intents,              \* the local edits a user may make
  MaxAutoRepair,        \* MAX_AUTO_REPAIR_ATTEMPTS
  MaxSilentRecovery,    \* MAX_SILENT_RECOVERY_ATTEMPTS; bound: the depth of nested recoveries
  MaxOutside,           \* bound: what happens from outside (clicks, events, edits, losses, evictions)
  None

ASSUME BoundsAssumption ==
  /\ {MaxAutoRepair, MaxSilentRecovery, MaxOutside} \subseteq Nat
  /\ None \notin Tasks

VARIABLES
  journal,     \* convergenceJournal: phase, pause, disposition, receipt, unacknowledged intents
  shown,       \* the projection's health, socketConnected and the two attempt counters
  claim,       \* autoRepairFlights: the task that holds the workspace's claim
  tasks,       \* what each task will do next
  locks,       \* rebuildLocks and workspaceLocks: holder and rerunRequested
  socket,      \* "down", "wanted" (a reconnect is due), "open" (no ack yet), "acked"
  signedIn,    \* state.session
  outside,     \* how much has happened from outside, for the bound
  masked       \* history: this pause, or its health, did not come from pauseWorkspace

vars == <<journal, shown, claim, tasks, locks, socket, signedIn, outside, masked>>

-----------------------------------------------------------------------------
(* Tasks. *)

(* on: the action of an armed chain, the task that is waited for, the edit  *)
(* that is being sent; saw: what the end of a chain read of the workspace;  *)
(* back: where the event comes from whose subtree is being recovered; deep: *)
(* how many other recoveries this one is nested in.                         *)
Task(auto, pc, on) ==
  [pc |-> pc, auto |-> auto, failed |-> FALSE, on |-> on, saw |-> None, back |-> "none", deep |-> 0]
Idle == Task(FALSE, "idle", None)
Chain(action) == Task(TRUE, "armed", action)

Free(ts) == {t \in Tasks : ts[t].pc = "idle"}
At(t, pc) == tasks[t].pc = pc
GotoOn(t, pc, on) == [tasks EXCEPT ![t] = Task(tasks[t].auto, pc, on)]
Goto(t, pc) == GotoOn(t, pc, None)
Stage(t, pc, back, deep) ==
  [tasks EXCEPT ![t] = [tasks[t] EXCEPT !.pc = pc, !.back = back, !.deep = deep]]
Stay(t, pc) == Stage(t, pc, tasks[t].back, tasks[t].deep)

(* A task is over; an automatic one still has to give its claim back. *)
Ended(t) == [tasks EXCEPT ![t] = IF tasks[t].auto THEN Task(TRUE, "ending", None) ELSE Idle]
Thrown(t) == [tasks EXCEPT ![t] = IF tasks[t].auto THEN [Task(TRUE, "ending", None) EXCEPT !.failed = TRUE]
                                  ELSE Idle]

-----------------------------------------------------------------------------
(* The journal (convergence.ts) and the single decision point. *)

(* The reason of a pause shows in the disposition alone: "rebuild" for      *)
(* bootstrap-required, for what resyncWorkspace asks, or with a receipt.    *)
Gate(hint) ==
  [journal EXCEPT !.phase = "paused",
                  !.disposition = IF hint = "rebuild" \/ journal.receipt THEN "rebuild" ELSE "retry"]

NeedsRebuild(j) == j.disposition = "rebuild" \/ j.receipt

PlanAutoRepair(j) ==
  IF ~NeedsRebuild(j) THEN "retry"
  ELSE IF j.unacked # {} THEN None ELSE "rebuild"

MayRepairForever == claim = None                                  \* mutant: ignores the budget
MayRepairAgain == shown.attempts < MaxAutoRepair                  \* mutant: ignores the claim

(* No chain runs and the budget is not spent. *)
MayRepair == claim = None /\ shown.attempts < MaxAutoRepair

NotCounted == [shown EXCEPT !.health = "recovering"]              \* mutant
Counted == [shown EXCEPT !.health = "recovering", !.attempts = @ + 1]

(* pauseWorkspace: gate, decide, count and claim in one slot.  "rest" is   *)
(* tasks after the step of the caller, which does not wait for the chain.  *)
PauseWorkspace(hint, rest) ==
  LET gated == Gate(hint)
      action == IF MayRepair THEN PlanAutoRepair(gated) ELSE None
  IN /\ journal' = gated
     /\ \/ /\ action # None
           /\ \E c \in Free(rest) : /\ claim' = c
                                    /\ tasks' = [rest EXCEPT ![c] = Chain(action)]
           /\ shown' = Counted
        \/ /\ action = None
           /\ shown' = [shown EXCEPT !.health = IF claim # None THEN "recovering" ELSE "degraded"]
           /\ tasks' = rest
           /\ UNCHANGED claim

(* enterRecovery: the separate budget of silent reconnects. *)
GivesUp == shown.recoveries >= MaxSilentRecovery
(* mutant: a silent reconnect gives the repair a new budget *)
EnterRecoveryResets ==
  IF GivesUp THEN [shown EXCEPT !.connected = FALSE, !.health = "degraded"]
  ELSE [shown EXCEPT !.connected = FALSE, !.health = "recovering", !.recoveries = @ + 1, !.attempts = 0]

EnterRecovery ==
  IF GivesUp THEN [shown EXCEPT !.connected = FALSE, !.health = "degraded"]
  ELSE [shown EXCEPT !.connected = FALSE, !.health = "recovering", !.recoveries = @ + 1]

(* recoverWorkspace(..., "resync"): a recovery; if it does not give up, a pause for a rebuild follows. *)
Recover(t) ==
  /\ shown' = EnterRecovery
  /\ tasks' = IF GivesUp THEN Ended(t) ELSE Goto(t, "pausing")
  /\ UNCHANGED <<journal, claim>>

Live == [shown EXCEPT !.health = "live", !.attempts = 0, !.recoveries = 0]
Cleared == [journal EXCEPT !.phase = "live"]

(* health after an applied event or an acknowledged edit: the journal is not asked *)
Refreshed == [shown EXCEPT !.health = IF shown.connected THEN "live" ELSE @]

-----------------------------------------------------------------------------
Init ==
  /\ journal = [phase |-> "live", disposition |-> "retry",
                receipt |-> FALSE, unacked |-> {}]
  /\ shown = [health |-> "live", connected |-> TRUE, attempts |-> 0, recoveries |-> 0]
  /\ claim = None
  /\ tasks = [t \in Tasks |-> Idle]
  /\ locks = [l \in {"rebuild", "drain"} |-> [holder |-> None, rerun |-> FALSE]]
  /\ socket = "acked"
  /\ signedIn = TRUE /\ masked = FALSE
  /\ outside = 0

-----------------------------------------------------------------------------
(* runCoalescedWorkspaceTask: one runner per lock; who comes later asks it *)
(* to run again and waits for it to end.                                   *)

Lock(l) == locks[l]
(* mutant: nobody looks at the lock *)
EnterAnyway(t, l, first) ==
  /\ locks' = [locks EXCEPT ![l] = [holder |-> t, rerun |-> FALSE]]
  /\ tasks' = Goto(t, first)

Enter(t, l, first) ==
  IF Lock(l).holder = None
    THEN /\ locks' = [locks EXCEPT ![l] = [holder |-> t, rerun |-> FALSE]]
         /\ tasks' = Goto(t, first)
    ELSE /\ locks' = [locks EXCEPT ![l].rerun = TRUE]
         /\ tasks' = GotoOn(t, "waiting", Lock(l).holder)

Waited(t) ==
  /\ At(t, "waiting")
  /\ \A l \in DOMAIN locks : Lock(l).holder # tasks[t].on
  /\ tasks' = Ended(t)
  /\ UNCHANGED <<journal, shown, claim, locks, socket, signedIn, outside>>

(* The runner returned: again if somebody asked, else the lock is released. *)
Rerun(t, l, first, next) ==
  IF Lock(l).rerun
    THEN /\ locks' = [locks EXCEPT ![l].rerun = FALSE]
         /\ tasks' = Goto(t, first)
    ELSE /\ locks' = [locks EXCEPT ![l].holder = None]
         /\ tasks' = next

-----------------------------------------------------------------------------
(* An automatic chain. *)

(* runAutoRepair: nothing is done without a session. *)
Start(t) ==
  /\ At(t, "armed")
  /\ tasks' = IF signedIn THEN Goto(t, tasks[t].on) ELSE Ended(t)
  /\ UNCHANGED <<journal, shown, claim, locks, socket, signedIn, outside>>

(* finally: the claim is given back and the outcome is read, in one slot; *)
(* the settlement is another.                                              *)
End(t) ==
  /\ At(t, "ending")
  /\ claim' = IF claim = t THEN None ELSE claim
  /\ tasks' = IF claim = t
                THEN [tasks EXCEPT ![t].pc = "settling",
                                   ![t].saw = [paused |-> journal.phase = "paused",
                                               hint |-> journal.disposition, health |-> shown.health]]
                ELSE [tasks EXCEPT ![t] = Idle]
  /\ UNCHANGED <<journal, shown, locks, socket, signedIn, outside>>

(* mutant: whoever paused during the chain is not answered *)
SettleForgets(t) ==
  /\ At(t, "settling")
  /\ shown' = IF tasks[t].failed /\ tasks[t].saw.health = "recovering"
                THEN [shown EXCEPT !.health = "degraded"] ELSE shown
  /\ tasks' = [tasks EXCEPT ![t] = Idle]
  /\ UNCHANGED <<journal, claim, locks, socket, signedIn, outside>>

(* settleAfterAutoRepair, on what End read. *)
Settle(t) ==
  /\ At(t, "settling")
  /\ LET was == tasks[t].saw
         rest == [tasks EXCEPT ![t] = Idle]
     IN IF was.paused
          THEN PauseWorkspace(was.hint, rest)
          ELSE /\ shown' = IF tasks[t].failed /\ was.health = "recovering"
                             THEN [shown EXCEPT !.health = "degraded"] ELSE shown
               /\ tasks' = rest
               /\ UNCHANGED <<journal, claim>>
  /\ UNCHANGED <<locks, socket, signedIn, outside>>

(* The pause that follows a recovery by rebuild. *)
PauseForRebuild(t) ==
  /\ At(t, "pausing")
  /\ PauseWorkspace("rebuild", Ended(t))
  /\ UNCHANGED <<locks, socket, signedIn, outside>>

-----------------------------------------------------------------------------
(* Rebuild: rebuildWorkspace and doResyncWorkspace. *)

(* rebuildJournal keeps what is acknowledged, consumed and done: nothing else. *)
RebuildJournal(t) ==
  /\ At(t, "rebuild")
  /\ journal' = [journal EXCEPT !.phase = "replay", !.disposition = "rebuild",
                                !.receipt = FALSE, !.unacked = {}]
  /\ tasks' = Goto(t, "coalesce")
  /\ UNCHANGED <<shown, claim, locks, socket, signedIn, outside>>

Coalesce(t) ==
  /\ At(t, "coalesce")
  /\ Enter(t, "rebuild", "resync")
  /\ UNCHANGED <<journal, shown, claim, socket, signedIn, outside>>

Resync(t) ==
  /\ At(t, "resync")
  /\ IF signedIn
       THEN /\ shown' = [shown EXCEPT !.health = "recovering"]
            /\ tasks' = Goto(t, "fill")
            /\ UNCHANGED locks
       ELSE /\ Rerun(t, "rebuild", "resync", Ended(t))
            /\ UNCHANGED shown
  /\ UNCHANGED <<journal, claim, socket, signedIn, outside>>

Fill(t) ==
  /\ At(t, "fill")
  /\ journal' = Cleared
  /\ shown' = IF shown.connected THEN [Live EXCEPT !.connected = TRUE]
              ELSE [shown EXCEPT !.health = "recovering"]
  /\ Rerun(t, "rebuild", "resync", Goto(t, "connect"))
  /\ UNCHANGED <<claim, socket, signedIn, outside>>

(* One of its effects, or a request, fails, or an event leaves a receipt:  *)
(* the runner pauses the workspace and answers false.                      *)
FillFails(t) ==
  /\ At(t, "fill")
  /\ PauseWorkspace("retry", Goto(t, "filled"))
  /\ UNCHANGED <<locks, socket, signedIn, outside>>

Unfilled(t) ==
  /\ At(t, "filled")
  /\ Rerun(t, "rebuild", "resync", Ended(t))
  /\ UNCHANGED <<journal, shown, claim, socket, signedIn, outside>>

(* connectWorkspace: the socket in use is closed without its onClose being *)
(* heard, and the health is left as it is until the ack.                   *)
Connect(t) ==
  /\ At(t, "connect")
  /\ \/ ~signedIn /\ UNCHANGED <<socket, shown>>
     \/ signedIn /\ socket' = "open" /\ UNCHANGED shown
     \/ /\ signedIn                                      \* no ticket
        /\ shown' = EnterRecovery
        /\ socket' = IF GivesUp THEN "down" ELSE "wanted"
  /\ tasks' = Ended(t)
  /\ UNCHANGED <<journal, claim, locks, signedIn, outside>>

-----------------------------------------------------------------------------
(* Retry: retryWorkspace and replayWorkspaceDelta. *)

RetryJournal(t) ==
  /\ At(t, "retry")
  /\ \/ /\ journal.phase = "paused" /\ NeedsRebuild(journal)
        /\ journal' = [journal EXCEPT !.disposition = "rebuild"]
        /\ tasks' = Ended(t)
     \/ /\ journal.phase = "paused" /\ ~NeedsRebuild(journal)
        /\ journal' = [journal EXCEPT !.phase = "replay", !.disposition = "retry"]
        /\ tasks' = Goto(t, "replay")
     \/ /\ journal.phase # "paused"
        /\ tasks' = IF journal.phase = "replay" THEN Goto(t, "replay") ELSE Ended(t)
        /\ UNCHANGED journal
  /\ UNCHANGED <<shown, claim, locks, socket, signedIn, outside>>

(* The journal lets an event through. *)
Open == journal.phase # "paused" /\ ~journal.receipt

(* The replay reaches the head of the log. *)
ReplayEnds(t) ==
  /\ At(t, "replay") /\ signedIn
  /\ IF journal.phase = "paused"
       THEN UNCHANGED <<journal, shown>>
       ELSE journal' = Cleared /\ shown' = [Live EXCEPT !.connected = TRUE]
  /\ tasks' = Goto(t, "drain")
  /\ UNCHANGED <<claim, locks, socket, signedIn, outside>>

(* It stops at an event it may not pass: the journal is paused, a receipt *)
(* is pending, or the event leaves one; or there is no session.            *)
ReplayStops(t) ==
  /\ At(t, "replay")
  /\ \/ /\ ~signedIn \/ journal.phase = "paused" \/ journal.receipt
        /\ UNCHANGED <<journal, shown>>
     \/ /\ signedIn /\ Open
        /\ journal' = [journal EXCEPT !.receipt = TRUE]
        /\ shown' = Refreshed
  /\ tasks' = Ended(t)
  /\ UNCHANGED <<claim, locks, socket, signedIn, outside>>

(* An effect of an event fails. *)
ReplayPauses(t) ==
  /\ At(t, "replay") /\ signedIn
  /\ Open
  /\ PauseWorkspace("retry", Ended(t))
  /\ UNCHANGED <<locks, socket, signedIn, outside>>

(* The request fails: the error reaches the chain, the popup or the log. *)
ReplayThrows(t) ==
  /\ At(t, "replay") /\ signedIn
  /\ tasks' = Thrown(t)
  /\ UNCHANGED <<journal, shown, claim, locks, socket, signedIn, outside>>

(* The server's log has a gap. *)
ReplayGap(t) ==
  /\ At(t, "replay") /\ signedIn
  /\ Recover(t)
  /\ UNCHANGED <<locks, socket, signedIn, outside>>

-----------------------------------------------------------------------------
(* recoverSubtreeThenWorkspace: an event that meets a stale mapping or a    *)
(* missing parent has the tree around it built again, and is applied with   *)
(* what is replayed there; then it counts as applied, recovered or not.     *)

(* attemptSubtreeRecovery does nothing without a session. *)
SubtreeStage == IF signedIn THEN "subtree" ELSE "fallback"

(* An event of a replay, of a rebuild, or of the replay of a recovery; when *)
(* the recovery gives up, the event counts as applied at once.              *)
NeedsSubtree(t) ==
  /\ Open
  /\ shown' = EnterRecovery
  /\ \/ /\ (At(t, "replay") /\ signedIn) \/ At(t, "fill")
        /\ tasks' = IF GivesUp THEN tasks ELSE Stage(t, SubtreeStage, tasks[t].pc, 0)
     \/ /\ At(t, "subtree") /\ tasks[t].deep < MaxSilentRecovery
        /\ tasks' = IF GivesUp THEN tasks
                    ELSE Stage(t, SubtreeStage, tasks[t].back, tasks[t].deep + 1)
  /\ UNCHANGED <<journal, claim, locks, socket, signedIn, outside>>

(* Its last update does not look at the journal. *)
SubtreeRecovered(t) ==
  /\ At(t, "subtree")
  /\ shown' = [Live EXCEPT !.connected = TRUE]
  /\ tasks' = Stay(t, "applied")
  /\ UNCHANGED <<journal, claim, locks, socket, signedIn, outside>>

(* It answers false: the anchor is gone, the log has a gap, or an event it  *)
(* replays is held back, leaves a receipt, or fails to have its effect ...  *)
SubtreeFails(t) ==
  /\ At(t, "subtree")
  /\ \/ tasks' = Stay(t, "fallback") /\ UNCHANGED <<journal, shown, claim>>
     \/ /\ Open
        /\ journal' = [journal EXCEPT !.receipt = TRUE]
        /\ shown' = Refreshed
        /\ tasks' = Stay(t, "fallback")
        /\ UNCHANGED claim
     \/ Open /\ PauseWorkspace("retry", Stay(t, "fallback"))
  /\ UNCHANGED <<locks, socket, signedIn, outside>>

(* ... and the workspace is paused for a rebuild.                           *)
FallBack(t) ==
  /\ At(t, "fallback")
  /\ PauseWorkspace("rebuild", Stay(t, "applied"))
  /\ UNCHANGED <<locks, socket, signedIn, outside>>

(* A request fails: the event has not been applied, and whoever replayed it *)
(* stops.                                                                   *)
SubtreeThrows(t) ==
  /\ At(t, "subtree")
  /\ PauseWorkspace("retry",
       IF tasks[t].deep > 0 THEN Stage(t, "fallback", tasks[t].back, tasks[t].deep - 1)
       ELSE IF tasks[t].back = "fill" THEN Goto(t, "filled") ELSE Ended(t))
  /\ UNCHANGED <<locks, socket, signedIn, outside>>

EventApplied(t) ==
  /\ At(t, "applied")
  /\ shown' = Refreshed
  /\ tasks' = IF tasks[t].deep > 0 THEN Stage(t, "subtree", tasks[t].back, tasks[t].deep - 1)
              ELSE IF tasks[t].back = "event" THEN Ended(t) ELSE Goto(t, tasks[t].back)
  /\ UNCHANGED <<journal, claim, locks, socket, signedIn, outside>>

-----------------------------------------------------------------------------
(* drainLocalIntents. *)

Drain(t) ==
  /\ At(t, "drain")
  /\ Enter(t, "drain", "draining")
  /\ UNCHANGED <<journal, shown, claim, socket, signedIn, outside>>

DrainNext(t) ==
  /\ At(t, "draining")
  /\ IF signedIn /\ journal.phase # "paused" /\ journal.unacked # {}
       THEN /\ \E i \in journal.unacked : tasks' = GotoOn(t, "sending", i)
            /\ UNCHANGED locks
       ELSE Rerun(t, "drain", "draining", Ended(t))
  /\ UNCHANGED <<journal, shown, claim, socket, signedIn, outside>>

(* settleLocalMutation, whatever happened to the journal meanwhile. *)
Acknowledged(t) ==
  /\ At(t, "sending")
  /\ journal' = [journal EXCEPT !.unacked = @ \ {tasks[t].on}]
  /\ shown' = Refreshed
  /\ tasks' = Goto(t, "draining")
  /\ UNCHANGED <<claim, locks, socket, signedIn, outside>>

SendFails(t) ==
  /\ At(t, "sending")
  /\ PauseWorkspace("retry", Goto(t, "undrained"))
  /\ UNCHANGED <<locks, socket, signedIn, outside>>

Undrained(t) ==
  /\ At(t, "undrained")
  /\ Rerun(t, "drain", "draining", Ended(t))
  /\ UNCHANGED <<journal, shown, claim, socket, signedIn, outside>>

-----------------------------------------------------------------------------
(* What starts tasks. *)

Happens == outside < MaxOutside /\ outside' = outside + 1
Begin(pc) == \E t \in Free(tasks) : tasks' = Goto(t, pc)

(* The user clicks Retry or Rebuild. *)
Request(action) ==
  /\ Happens
  /\ Begin(action)
  /\ UNCHANGED <<journal, shown, claim, locks, socket, signedIn>>

(* A callback of a node in the workspace: the user's edit is recorded and  *)
(* drained, paused or not.                                                 *)
Edit(i) ==
  /\ Happens /\ i \notin journal.unacked
  /\ journal' = [journal EXCEPT !.unacked = @ \union {i}]
  /\ Begin("drain")
  /\ UNCHANGED <<shown, claim, locks, socket, signedIn>>

(* A callback meets the pending receipt: it proves it, or it gates the     *)
(* journal directly (consumeRemoteCallback).                               *)
Callback ==
  /\ Happens /\ journal.receipt
  /\ \/ journal' = [journal EXCEPT !.receipt = FALSE]
     \/ journal' = [journal EXCEPT !.phase = "paused", !.disposition = "retry"]
  /\ UNCHANGED <<shown, claim, tasks, locks, socket, signedIn>>

(* A local change the workspace may not have (resyncWorkspace), or of a    *)
(* node that is gone or outside (captureLocalUpdateOrMove).                *)
RejectLocal(hint) ==
  /\ Happens
  /\ PauseWorkspace(hint, tasks)
  /\ UNCHANGED <<locks, socket, signedIn>>

(* An event on the live queue, when its turn comes and the journal lets it  *)
(* through.                                                                 *)
LiveEvent ==
  /\ Happens
  /\ socket = "acked" /\ Open
  /\ \A t \in Tasks : tasks[t].back # "event"
  /\ \/ shown' = Refreshed /\ UNCHANGED <<journal, claim, tasks>>
     \/ shown' = Refreshed /\ journal' = [journal EXCEPT !.receipt = TRUE] /\ UNCHANGED <<claim, tasks>>
     \/ PauseWorkspace("retry", tasks)
     \/ /\ shown' = EnterRecovery                        \* a gap: recoverWorkspace(..., "replay")
        /\ IF GivesUp THEN UNCHANGED tasks ELSE Begin("replay")
        /\ UNCHANGED <<journal, claim>>
     \/ /\ shown' = EnterRecovery                        \* its subtree has to be recovered
        /\ IF GivesUp THEN UNCHANGED tasks
           ELSE \E t \in Free(tasks) : tasks' = Stage(t, SubtreeStage, "event", 0)
        /\ UNCHANGED <<journal, claim>>
  /\ UNCHANGED <<locks, socket, signedIn>>

(* The first frame of a socket: the server is ahead, behind or equal. *)
Ack ==
  /\ socket = "open" /\ signedIn
  /\ socket' = "acked"
  /\ \E t \in Free(tasks), pc \in {"replay", "recover", "live"} : tasks' = Goto(t, pc)
  /\ shown' = [shown EXCEPT !.connected = TRUE]
  /\ UNCHANGED <<journal, claim, locks, signedIn, outside>>

AckBehind(t) ==
  /\ At(t, "recover")
  /\ Recover(t)
  /\ UNCHANGED <<locks, socket, signedIn, outside>>

(* markProjectionLive: nothing on a paused journal. *)
AckEqual(t) ==
  /\ At(t, "live")
  /\ IF journal.phase = "paused"
       THEN UNCHANGED <<journal, shown>>
       ELSE journal' = Cleared /\ shown' = [Live EXCEPT !.connected = TRUE]
  /\ tasks' = Goto(t, "drain")
  /\ UNCHANGED <<claim, locks, socket, signedIn, outside>>

SocketCloses ==
  /\ Happens
  /\ socket \in {"open", "acked"} /\ signedIn
  /\ shown' = EnterRecovery
  /\ socket' = IF GivesUp THEN "down" ELSE "wanted"
  /\ UNCHANGED <<journal, claim, tasks, locks, signedIn>>

Reconnect ==
  /\ socket = "wanted" /\ signedIn
  /\ Begin("connect")
  /\ socket' = "down"
  /\ UNCHANGED <<journal, shown, claim, locks, signedIn, outside>>

(* pauseForLogin and, later, login: the projection and its journal stay. *)
LoseSession ==
  /\ Happens /\ signedIn
  /\ signedIn' = FALSE /\ socket' = "down"
  /\ UNCHANGED <<journal, shown, claim, tasks, locks>>

SignIn ==
  /\ ~signedIn
  /\ signedIn' = TRUE /\ socket' = "wanted"
  /\ UNCHANGED <<journal, shown, claim, tasks, locks, outside>>

(* The browser ends the worker: the registries and every task are gone.    *)
(* The next worker connects the selected workspaces.                       *)
Evict ==
  /\ Happens
  /\ claim' = None
  /\ tasks' = [t \in Tasks |-> Idle]
  /\ locks' = [l \in DOMAIN locks |-> [holder |-> None, rerun |-> FALSE]]
  /\ socket' = IF signedIn THEN "wanted" ELSE "down"
  /\ UNCHANGED <<journal, shown, signedIn>>

-----------------------------------------------------------------------------
Repair(t) ==
  \/ Start(t) \/ End(t) \/ Settle(t) \/ PauseForRebuild(t)
  \/ RebuildJournal(t) \/ Coalesce(t) \/ Resync(t) \/ Fill(t) \/ FillFails(t) \/ Unfilled(t) \/ Connect(t)
  \/ RetryJournal(t) \/ ReplayEnds(t) \/ ReplayStops(t) \/ ReplayPauses(t) \/ ReplayThrows(t) \/ ReplayGap(t)
  \/ Drain(t) \/ DrainNext(t) \/ Acknowledged(t) \/ SendFails(t) \/ Undrained(t)
  \/ NeedsSubtree(t) \/ SubtreeRecovered(t) \/ SubtreeFails(t) \/ FallBack(t) \/ SubtreeThrows(t)
  \/ EventApplied(t)
  \/ Waited(t) \/ AckBehind(t) \/ AckEqual(t)

Environment ==
  \/ Request("retry") \/ Request("rebuild")
  \/ \E i \in Intents : Edit(i)
  \/ Callback \/ RejectLocal("rebuild") \/ RejectLocal("retry") \/ LiveEvent
  \/ Ack \/ SocketCloses \/ Reconnect
  \/ LoseSession \/ SignIn \/ Evict

(* A callback gates the journal itself, a silent reconnect writes            *)
(* "recovering" over a pause, and an eviction forgets the chain.             *)
Masks == masked \/ Callback
                \/ shown'.recoveries > shown.recoveries
                \/ Evict
Remember == masked' = (journal'.phase = "paused" /\ Masks)

Next == ((\E t \in Tasks : Repair(t)) \/ Environment) /\ Remember

Spec == Init /\ [][Next]_vars

(* A task goes on: an await ends, in one way or another. *)
FairSpec == Spec /\ \A t \in Tasks : WF_vars(Repair(t) /\ Remember)

-----------------------------------------------------------------------------
Pcs == {"idle", "armed", "ending", "settling", "pausing", "rebuild", "coalesce", "resync", "fill",
        "filled", "connect", "retry", "replay", "drain", "draining", "sending", "undrained",
        "waiting", "recover", "live", "subtree", "fallback", "applied"}

Healths == {"live", "recovering", "degraded"}
Actions == {"retry", "rebuild"}
TaskType ==
  [pc: Pcs, auto: BOOLEAN, failed: BOOLEAN, on: Actions \union Tasks \union Intents \union {None},
   saw: {None} \union [paused: BOOLEAN, hint: Actions, health: Healths],
   back: {"none", "event", "replay", "fill"}, deep: 0 .. MaxSilentRecovery]

TypeOK ==
  /\ journal \in [phase: {"live", "paused", "replay"}, disposition: Actions,
                  receipt: BOOLEAN, unacked: SUBSET Intents]
  /\ shown \in [health: Healths, connected: BOOLEAN,
                attempts: 0 .. MaxAutoRepair, recoveries: 0 .. MaxSilentRecovery]
  /\ claim \in Tasks \union {None}
  /\ tasks \in [Tasks -> TaskType]
  /\ locks \in [{"rebuild", "drain"} -> [holder: Tasks \union {None}, rerun: BOOLEAN]]
  /\ socket \in {"down", "wanted", "open", "acked"} /\ signedIn \in BOOLEAN /\ masked \in BOOLEAN
  /\ outside \in 0 .. MaxOutside

Working(t) == tasks[t].auto /\ ~At(t, "settling")
InRebuild(task) == task.pc \in {"resync", "fill", "filled"} \/ task.back = "fill"
Rebuilding(t) == InRebuild(tasks[t])

(* At most one automatic chain works on the workspace: the claim is taken  *)
(* in the slot that decides and kept until the chain has let go of it,     *)
(* whatever pauses, clicks, replays and evictions happen meanwhile.        *)
OneChain == \A s, t \in Tasks : Working(s) /\ Working(t) => s = t

(* At most one task is inside doResyncWorkspace, be it a chain's or the    *)
(* user's: the tree is never removed and filled by two at once.            *)
OneRebuild == \A s, t \in Tasks : Rebuilding(s) /\ Rebuilding(t) => s = t

(* Automatic chains and rebuilds never overlap on a workspace. *)
OneAtATime == OneChain /\ OneRebuild

(* A workspace that pauseWorkspace left "recovering" has somebody at work  *)
(* on it: it is never shown as recovering over a paused journal for good.  *)
RecoveringHasChain ==
  journal.phase = "paused" /\ shown.health = "recovering" /\ ~masked
    => \E t \in Tasks : tasks[t].auto \/ Rebuilding(t)

(* The count of attempts goes back to zero only when the workspace is live *)
(* and its journal is unpaused, or a subtree has been recovered: not by a  *)
(* reconnect, a recovery that begins, falls back or throws, a pause, the   *)
(* user's click, an eviction, or the loss of the session.                  *)
BudgetKept ==
  [][shown'.attempts < shown.attempts =>
       /\ shown'.health = "live"
       /\ \/ journal'.phase = "live"
          \/ \E t \in Tasks : At(t, "subtree") /\ tasks'[t].pc = "applied"]_vars

(* If tasks never cease, it is because the workspace comes live again and  *)
(* again: the budget ends every other chain of repairs.  Set apart: the    *)
(* bound on tasks leaves a fallback no slot for the chain it starts.       *)
Crowded == Free(tasks) = {} /\ \E t \in Tasks : At(t, "fallback")

BudgetBounds ==
  []<>(\E t \in Tasks : ~At(t, "idle")) => []<>(shown.health = "live") \/ <>[]Crowded

(* What documents say and the code does not keep (README, divergences).    *)

(* design.md of the change, C3: the budget is monotonic for as long as the *)
(* workspace stays broken, here, paused.                                   *)
BrokenKeepsCount ==
  [][journal.phase = "paused" /\ journal'.phase = "paused" => shown'.attempts >= shown.attempts]_vars

(* The repairs of one workspace come to an end once nothing happens from   *)
(* outside: spec.md of the change, "Exhausted bounded repair settles".     *)
AlwaysEnds == <>[](\A t \in Tasks : At(t, "idle"))

(* An automatic rebuild discards no unacknowledged intent. *)
IntentVeto == [][\A t \in Tasks : tasks[t].auto /\ RebuildJournal(t) => journal.unacked = {}]_vars

(* A paused workspace does not show as live. *)
PausedNotLive == journal.phase = "paused" /\ ~masked => shown.health # "live"

(* A degraded workspace is paused or out of reconnects. *)
DegradedHasCause == shown.health = "degraded" => journal.phase = "paused" \/ GivesUp

(* The end of a rebuild clears no pause that was set during it. *)
PauseNotLost == [][\A t \in Tasks : Fill(t) => journal.phase # "paused"]_vars
================================================================================
