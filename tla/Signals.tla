------------------------------- MODULE Signals -------------------------------
(***************************************************************************)
(* What the extension tells of its activity: the revisions of the activity *)
(* and of the secret reads, the badge of the toolbar that follows the      *)
(* stored state, and the pages (popup, options) that render a snapshot of  *)
(* it and acknowledge what it holds.                                      *)
(*                                                                         *)
(* Updates of the stored state are one step each: updateState queues them. *)
(* Each raises chrome.storage.onChanged, and each refresh of the badge it  *)
(* starts awaits the state and then up to three calls of chrome.action.    *)
(* The storage answers in order, and so does chrome.action.                *)
(* Abstracted: labels, dates, themes and the rest of the projections.      *)
(***************************************************************************)
EXTENDS Naturals, Sequences, FiniteSets

CONSTANTS
  Workspaces, Pages,
  Queue,     \* bound: refreshes of the badge under way
  MaxSteps,  \* bound: what happens besides rendering and the badge
  None

VARIABLES
  session,           \* signed in?
  projected,         \* workspaces with a projection
  health,            \* "live", "degraded" or another
  activityRevision,  \* of each projection
  activitySignal, secretReadSignal,
  reads,             \* refreshes that wait for the state: their number
  action,            \* calls of chrome.action under way, in order
  badge,             \* what the toolbar shows
  page,              \* what each page keeps
  marks,             \* acknowledgements on their way to the worker
  steps

stored == <<session, projected, health, activityRevision, activitySignal, secretReadSignal>>
toolbar == <<reads, action, badge>>
vars == <<stored, toolbar, page, marks, steps>>

Zero == [revision |-> 0, lastSeenRevision |-> 0]
NoPage == [open |-> FALSE, pending |-> None, shown |-> 0, lastAcknowledged |-> 0,
           lastAcknowledgedSecret |-> 0, lame |-> FALSE]
Acts == steps < MaxSteps /\ steps' = steps + 1
Smaller(a, b) == IF a < b THEN a ELSE b

-----------------------------------------------------------------------------
(* status.ts                                                                *)
degradedWorkspaceCount == Cardinality({w \in projected : health[w] = "degraded"})
hasUnseenActivity(signal) == signal.revision > signal.lastSeenRevision
hasProjectionFreshActivity(w) == activityRevision[w] > activitySignal.lastSeenRevision
getFreshWorkspaceActivity == {w \in projected : hasProjectionFreshActivity(w)}

getToolbarBadgeModel ==
  IF degradedWorkspaceCount > 0 THEN [text |-> "dot", backgroundColor |-> "red", title |-> "degraded"]
  ELSE IF hasUnseenActivity(activitySignal) THEN [text |-> "dot", backgroundColor |-> "blue", title |-> "activity"]
  ELSE [text |-> "", backgroundColor |-> None, title |-> "default"]

\* The projections follow the selection (module Projections): a workspace selected has one.
getStatusOverview == [selected |-> Cardinality(projected), degraded |-> degradedWorkspaceCount,
                      live |-> Cardinality({w \in projected : health[w] = "live"})]

\* The snapshot a page renders.
Snapshot == [session |-> session, activity |-> activitySignal, secret |-> secretReadSignal,
             fresh |-> getFreshWorkspaceActivity, overview |-> getStatusOverview]

getPopupStatusModel(ui) ==
  IF ui.overview.degraded = 0 /\ ui.overview.selected = 0
  THEN [tone |-> "neutral", showNewActivity |-> FALSE, recentActivity |-> {}]
  ELSE [tone |-> IF ui.overview.degraded > 0 THEN "attention" ELSE IF ui.overview.live > 0 THEN "live" ELSE "neutral",
        showNewActivity |-> hasUnseenActivity(ui.activity), recentActivity |-> ui.fresh]

-----------------------------------------------------------------------------
Init ==
  /\ session \in BOOLEAN /\ projected \in IF session THEN SUBSET Workspaces ELSE {{}}
  /\ health = [w \in Workspaces |-> IF w \in projected THEN "live" ELSE "bootstrap"]
  /\ activityRevision = [w \in Workspaces |-> 0]
  /\ activitySignal = Zero /\ secretReadSignal = Zero
  /\ reads = 1 /\ action = <<>> /\ badge = [text |-> "", backgroundColor |-> None, title |-> "default"]
  /\ page = [p \in Pages |-> NoPage] /\ marks = {} /\ steps = 0

\* A change while a refresh is under way starts none.
skippedChange == reads' = IF reads + Len(action) = 0 THEN 1 ELSE reads

\* storage.onChanged: every change starts a refresh.
onChanged == reads + Len(action) < Queue /\ reads' = reads + 1

Changed == onChanged /\ UNCHANGED <<action, badge, page, marks>>

login ==
  /\ Acts /\ ~session /\ session' = TRUE
  /\ Changed /\ UNCHANGED <<projected, health, activityRevision, activitySignal, secretReadSignal>>

\* resetStatePreservingSettings
logout ==
  /\ Acts /\ session /\ session' = FALSE /\ projected' = {}
  /\ activityRevision' = [w \in Workspaces |-> 0] /\ health' = [w \in Workspaces |-> "bootstrap"]
  /\ activitySignal' = Zero /\ secretReadSignal' = Zero
  /\ onChanged /\ page' = [p \in Pages |-> [page[p] EXCEPT !.lame = @ \/ page[p].open]]
  /\ UNCHANGED <<action, badge, marks>>

updateProjectionState(w, h) ==
  /\ Acts /\ session /\ (w \in projected => health[w] # h)
  /\ projected' = projected \cup {w} /\ health' = [health EXCEPT ![w] = h]
  /\ Changed /\ UNCHANGED <<session, activityRevision, activitySignal, secretReadSignal>>

removeWorkspaceProjection(w) ==
  /\ Acts /\ w \in projected /\ projected' = projected \ {w}
  /\ health' = [health EXCEPT ![w] = "bootstrap"] /\ activityRevision' = [activityRevision EXCEPT ![w] = 0]
  /\ Changed /\ UNCHANGED <<session, activitySignal, secretReadSignal>>

recordActivity(w) ==
  /\ Acts /\ w \in projected
  /\ activitySignal' = [activitySignal EXCEPT !.revision = @ + 1]
  /\ activityRevision' = [activityRevision EXCEPT ![w] = activitySignal.revision + 1]
  /\ Changed /\ UNCHANGED <<session, projected, health, secretReadSignal>>

recordSecretRead ==
  /\ Acts /\ session /\ secretReadSignal' = [secretReadSignal EXCEPT !.revision = @ + 1]
  /\ Changed /\ UNCHANGED <<session, projected, health, activityRevision, activitySignal>>

-----------------------------------------------------------------------------
(* refreshToolbarBadge: the state, the text, the colour if there is one,    *)
(* the title.                                                              *)
refreshToolbarBadge ==
  /\ reads > 0 /\ reads' = reads - 1
  /\ action' = Append(action, [op |-> "text", model |-> getToolbarBadgeModel, goesOn |-> TRUE])
  /\ UNCHANGED <<stored, badge, page, marks, steps>>

actionAnswers ==
  /\ action # <<>>
  /\ LET a == Head(action)
         then == IF a.op = "title" \/ ~a.goesOn THEN <<>>
                 ELSE <<[op |-> IF a.op = "text" /\ a.model.backgroundColor # None THEN "colour" ELSE "title",
                         model |-> a.model, goesOn |-> TRUE]>>
     IN  /\ action' = Tail(action) \o then
         /\ badge' = CASE a.op = "text" -> [badge EXCEPT !.text = a.model.text]
                       [] a.op = "colour" -> [badge EXCEPT !.backgroundColor = a.model.backgroundColor]
                       [] a.op = "title" -> [badge EXCEPT !.title = a.model.title]
  /\ UNCHANGED <<stored, reads, page, marks, steps>>

(* The worker is evicted: the calls it made are answered, and nothing comes *)
(* after them; it starts with a refresh.                                    *)
evicted ==
  /\ Acts /\ reads' = 1 /\ action' = [i \in DOMAIN action |-> [action[i] EXCEPT !.goesOn = FALSE]]
  /\ UNCHANGED <<stored, badge, page, marks>>

-----------------------------------------------------------------------------
\* A page asks for the state when it opens, and with each message it sends.
load(p) ==
  /\ Acts /\ page[p].pending = None
  /\ page' = [page EXCEPT ![p] = IF page[p].open THEN [page[p] EXCEPT !.pending = Snapshot]
                                 ELSE [NoPage EXCEPT !.open = TRUE, !.pending = Snapshot]]
  /\ UNCHANGED <<stored, toolbar, marks>>

\* Only the first activity of a page is acknowledged.
acknowledgeFirst(p, kind, signal, lastAcknowledged) ==
  IF signal.revision <= signal.lastSeenRevision \/ lastAcknowledged > 0 THEN {}
  ELSE {[page |-> p, kind |-> kind, revision |-> signal.revision, lastSeen |-> signal.lastSeenRevision]}

acknowledgeIfNeeded(p, kind, signal, lastAcknowledged) ==
  IF signal.revision <= signal.lastSeenRevision \/ signal.revision <= lastAcknowledged THEN {}
  ELSE {[page |-> p, kind |-> kind, revision |-> signal.revision, lastSeen |-> signal.lastSeenRevision]}

render(p) ==
  LET ui == page[p].pending
      activity == acknowledgeIfNeeded(p, "activity", ui.activity, page[p].lastAcknowledged)
      secret == IF p = "popup" THEN acknowledgeIfNeeded(p, "secret", ui.secret, page[p].lastAcknowledgedSecret) ELSE {}
  IN  /\ page[p].pending # None
      /\ IF ui.session
         THEN /\ page' = [page EXCEPT ![p].pending = None, ![p].shown = ui.activity.revision,
                     ![p].lastAcknowledged = IF activity # {} THEN ui.activity.revision ELSE @,
                     ![p].lastAcknowledgedSecret = IF secret # {} THEN ui.secret.revision ELSE @]
              /\ marks' = marks \cup activity \cup secret
         ELSE page' = [page EXCEPT ![p].pending = None, ![p].shown = 0] /\ UNCHANGED marks
      /\ UNCHANGED <<stored, toolbar, steps>>

close(p) ==
  /\ Acts /\ page[p].open /\ page' = [page EXCEPT ![p] = NoPage]
  /\ UNCHANGED <<stored, toolbar, marks>>

\* markActivitySeen: what is stored by now is seen.
markActivitySeen(m) ==
  /\ m \in marks /\ m.kind = "activity" /\ marks' = marks \ {m}
  /\ activitySignal' = [activitySignal EXCEPT !.lastSeenRevision = activitySignal.revision]
  /\ onChanged
  /\ UNCHANGED <<session, projected, health, activityRevision, secretReadSignal, action, badge, page, steps>>

markSecretReadSeen(m) ==
  /\ m \in marks /\ m.kind = "secret" /\ marks' = marks \ {m}
  /\ secretReadSignal' = [secretReadSignal EXCEPT !.lastSeenRevision = secretReadSignal.revision]
  /\ onChanged
  /\ UNCHANGED <<session, projected, health, activityRevision, activitySignal, action, badge, page, steps>>

\* The message fails: the page may acknowledge again when it next renders.
markFails(m) ==
  /\ Acts /\ m \in marks /\ marks' = marks \ {m}
  /\ page' = IF m.kind = "activity"
             THEN [page EXCEPT ![m.page].lastAcknowledged = Smaller(@, m.lastSeen), ![m.page].lame = page[m.page].open]
             ELSE [page EXCEPT ![m.page].lastAcknowledgedSecret = Smaller(@, m.lastSeen)]
  /\ UNCHANGED <<stored, toolbar>>

Next ==
  \/ login
  \/ logout
  \/ \E w \in Workspaces, h \in {"live", "degraded"} : updateProjectionState(w, h)
  \/ \E w \in Workspaces : removeWorkspaceProjection(w)
  \/ \E w \in Workspaces : recordActivity(w)
  \/ recordSecretRead
  \/ refreshToolbarBadge
  \/ actionAnswers
  \/ evicted
  \/ \E p \in Pages : load(p)
  \/ \E p \in Pages : render(p)
  \/ \E p \in Pages : close(p)
  \/ \E m \in marks : markActivitySeen(m)
  \/ \E m \in marks : markSecretReadSeen(m)
  \/ \E m \in marks : markFails(m)

Spec == Init /\ [][Next]_vars

\* The browser answers, pages render what they are given, the worker takes the messages.
Fairness ==
  /\ WF_vars(refreshToolbarBadge) /\ WF_vars(actionAnswers) /\ WF_vars(\E p \in Pages : render(p))
  /\ \A p \in Pages : WF_vars(\E m \in marks : m.page = p /\ (markActivitySeen(m) \/ markSecretReadSeen(m)))

FairSpec == Spec /\ Fairness

-----------------------------------------------------------------------------
TypeOK ==
  /\ projected \subseteq Workspaces /\ reads \in 0..Queue
  /\ activitySignal.lastSeenRevision \in 0..activitySignal.revision
  /\ secretReadSignal.lastSeenRevision \in 0..secretReadSignal.revision

(* Once no refresh is under way the dot and its colour tell the stored      *)
(* state, whatever refreshes overlapped or were lost with the worker; they  *)
(* and the popup, if opened now, say the same of what needs attention, and  *)
(* no workspace is listed there as active that lights no dot                *)
(* (service-worker.ts:55-60, 207-214; status.ts; recordActivity).           *)
BadgeTells ==
  (reads = 0 /\ action = <<>>) =>
     LET model == getPopupStatusModel(Snapshot)
     IN  /\ badge.text = getToolbarBadgeModel.text
         /\ badge.text = "dot" => badge.backgroundColor = getToolbarBadgeModel.backgroundColor
         /\ (model.tone = "attention") = (badge.text = "dot" /\ badge.backgroundColor = "red")
         /\ model.recentActivity # {} => model.showNewActivity /\ badge.text = "dot"

(* The same of the title, which a refresh with a colour sets a call later   *)
(* than one without.                                                        *)
TitleTells == (reads = 0 /\ action = <<>>) => badge.title = getToolbarBadgeModel.title

(* Only what a page has rendered is marked as seen (design.md:37 of         *)
(* extension-premium-ui).                                                   *)
SeenWasShown ==
  [][activitySignal'.lastSeenRevision > activitySignal.lastSeenRevision =>
       \E m \in marks : m.revision >= activitySignal'.lastSeenRevision]_vars

(* A page that shows activity has it acknowledged, unless it closes or the  *)
(* acknowledgement is refused; a page that outlives a logout is left out:   *)
(* it takes the next account's revisions for its own (options.ts:402-414).  *)
Acknowledged ==
  \A p \in Pages :
    page[p].shown > activitySignal.lastSeenRevision ~>
      (page[p].lame \/ page[p].shown <= activitySignal.lastSeenRevision)

(* The same, of a page that outlives a logout. *)
AcknowledgedAlways ==
  \A p \in Pages :
    (session /\ page[p].shown > activitySignal.lastSeenRevision) ~>
      (~session \/ page[p].shown <= activitySignal.lastSeenRevision)
================================================================================
