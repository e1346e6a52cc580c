---------------------------- MODULE MCSyncScenarios ----------------------------
(***************************************************************************)
(* Scenarios of WorkspaceSync in one run: a behaviour keeps to one of      *)
(* them, chosen at the start, and TLC explores them all.                   *)
(***************************************************************************)
EXTENDS MCWorkspaceSync

CONSTANT Scenarios  \* the scenarios of a run

(* In the first two scenarios nobody edits in Chrome, the workspace is not *)
(* empty, and no two bookmarks share title and URL (README: what the code  *)
(* does otherwise).                                                        *)
ASSUME RemoteAssumption ==
  Scenarios \subseteq {"remote", "rebuild"} =>
    /\ MaxEdits = 0 /\ Changes \subseteq {"create", "delete", "retitle", "move"}
    /\ IsFiniteSet(Bookmarks)
    /\ \A b, c \in Bookmarks : b # c => TitlesOf[b] \cap TitlesOf[c] = {}
    /\ History # <<>>
    /\ \A k \in DOMAIN History :
         History[k].shape # None => History[k].shape.title \in TitlesOf[History[k].bookmark]

VARIABLE scenario

LastKind ==
  LET n == Len(log')
      e == log'[n]
  IN  Kind(e.bookmark, Tree(n - 1)[e.bookmark], e.shape)
Commits(kinds, folders) ==
  IF log' = log THEN TRUE
  ELSE LastKind \in kinds /\ log'[Len(log')].shape \in {None} \cup [title : Titles, folder : folders]

EditsStay(folders) ==
  \A k \in DOMAIN nodes' : nodes'[k] \in {None} \cup [title : Titles, folder : folders]

(* "remote": other clients change anything while the worker is evicted;    *)
(* one event less than the bound, which is for "rebuild".                  *)
(* "rebuild": they create and delete around a rebuild.                     *)
(* "local": two edits of the user's, or one and an eviction, against a      *)
(* rename or a deletion.                                                   *)
(* "receipt": one edit or one eviction, against the callbacks of others.   *)
(* Neither of these two loses its socket, except by an eviction.           *)
(* "overlap": two tasks work at the same time on a rename and a deletion   *)
(* of one bookmark.                                                        *)
(* "calm": one task, and whatever else the bounds allow.                   *)
OneTask == \A t \in Tasks \ {t1} : tasks'[t] = Idle
Renamed ==
  \A i \in DOMAIN log' \ DOMAIN History :
    log'[i] = Event(b1, IF i = 2 THEN [title |-> B, folder |-> P] ELSE None)

Allowed ==
  CASE scenario = "remote" -> spent'.rebuilds = 0 /\ Len(log') < MaxLog /\ OneTask
    [] scenario = "rebuild" -> spent'.evictions = 0 /\ Commits({"create", "delete"}, {P}) /\ OneTask
    [] scenario = "local" ->
         /\ Commits({"retitle", "delete"}, {P}) /\ EditsStay({P})
         /\ spent'.edits + spent'.evictions <= 2 /\ stored'.attempts = 0 /\ OneTask
    [] scenario = "receipt" ->
         /\ Commits({"retitle", "move"}, {P, Q}) /\ spent'.edits + spent'.evictions <= 1
         /\ stored'.attempts = 0 /\ OneTask
    [] scenario = "overlap" -> Renamed /\ spent'.edits = 0 /\ spent'.evictions = 0
    [] scenario = "calm" -> OneTask

ScenarioInit == Init /\ scenario \in Scenarios

Scene == Allowed /\ UNCHANGED scenario

(* The steps of WorkspaceSync that the scenario allows, one by one.        *)
TaskStep(t) ==
  \/ (OnAck(t) /\ Scene) \/ ((\E i \in incoming : Receive(t, i)) /\ Scene)
  \/ (Skip(t) /\ Scene) \/ (RecoverGap(t) /\ Scene) \/ (Admit(t) /\ Scene)
  \/ (StartCreate(t) /\ Scene) \/ (CreateNode(t) /\ Scene) \/ (MapNode(t) /\ Scene)
  \/ (FinishCreate(t) /\ Scene)
  \/ (Reconcile(t) /\ Scene) \/ (Stale(t) /\ Scene) \/ (Retitle(t) /\ Scene) \/ (Move(t) /\ Scene)
  \/ (Defer(t) /\ Scene) \/ (Checkpoint(t) /\ Scene)
  \/ (DeleteNothing(t) /\ Scene) \/ (StartDelete(t) /\ Scene) \/ (RemoveNode(t) /\ Scene)
  \/ (FinishDelete(t) /\ Scene) \/ (EffectFails(t) /\ Scene)
  \/ (Fetch(t) /\ Scene) \/ (FetchFails(t) /\ Scene) \/ (EndReplay(t) /\ Scene)
  \/ (Retry(t) /\ Scene) \/ (Rebuild(t) /\ Scene) \/ (Clear(t) /\ Scene) \/ (Fill(t) /\ Scene)
  \/ (EndRebuild(t) /\ Scene) \/ (RebuildFails(t) /\ Scene)

ScenarioNext ==
  \/ ((\E b \in Bookmarks, shape \in Shapes \cup {None} : OtherChange(b, shape)) /\ Scene)
  \/ (Connect /\ Scene) \/ (ConnectFails /\ Scene) \/ (Close /\ Scene) \/ (Evict /\ Scene)
  \/ \E t \in Tasks : TaskStep(t)
  \/ ((\E n \in DOMAIN nodes, shape \in Shapes : UserEdit(n, shape)) /\ Scene)
  \/ (IgnoreCallback /\ Scene) \/ (HandleCallback /\ Scene) \/ (MissingNode /\ Scene)
  \/ (HandleRemoved /\ Scene)
  \/ (DrainDone /\ Scene) \/ (SendIntent /\ Scene) \/ (ServePatch /\ Scene) \/ (Settle /\ Scene)
  \/ (PatchFails /\ Scene)

ScenarioSpec == ScenarioInit /\ [][ScenarioNext]_<<vars, scenario>>
ScenarioFair == ScenarioSpec /\ Fairness
================================================================================
