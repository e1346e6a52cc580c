--------------------------------- MODULE MCTree ---------------------------------
(***************************************************************************)
(* One workspace where it is shown, in one run: its tree in Chrome, of two *)
(* folders and a bookmark; its tree in the administration panel, of two    *)
(* folders and two bookmarks; the search over it, of two queries whose     *)
(* answers the cap cuts; and the badge that tells of its activity.  A      *)
(* behaviour is of one part.                                               *)
(***************************************************************************)
EXTENDS TreeSync, TLC

CONSTANTS
  Queries, Nothing, SearchFolders, Answer, Workspaces, Managed, Cap, Pages, Queue, MaxSteps, None,
  PanelFolders, PanelBookmarks, FirstTree, Budgets,
  f1, f2, b1, g1, g2, d1, d2, q1, q2, folder, p1, p2, a1, a2, c1, wa, wb

ASSUME TreeAssumption ==
  /\ \A q \in Queries : Answer[q] \in Seq(UNION {Range(Answer[x]) : x \in Queries})
  /\ Nothing \notin Queries /\ Cap \in Nat \ {0} /\ IsFiniteSet(Workspaces)
  /\ None \notin [query : Queries, token : Nat] \union {"blue", "red"}

VARIABLES
  part, steps,
  signedIn, selected, preferred, messages, boot, open, input, latest, timer, searches,
  persistedScope, workspaceEnabled, managedChromeIds, shown, highlightIndex, opening, tabs, early,
  session, projected, health, activityRevision, activitySignal, secretReadSignal,
  reads, action, badge, page, marks,
  panelTree, rows, closed, moves, issued, moveKeys, known, held, fetch, fails, behind, left

searchVars == <<signedIn, selected, preferred, messages, boot, open, input, latest, timer, searches,
                persistedScope, workspaceEnabled, managedChromeIds, shown, highlightIndex, opening, tabs, early>>
signalVars == <<session, projected, health, activityRevision, activitySignal, secretReadSignal,
                reads, action, badge, page, marks>>
panelVars == <<panelTree, rows, closed, moves, issued, moveKeys, known, held, fetch, fails, behind,
               left>>

Q == INSTANCE QuickSearch WITH Folders <- SearchFolders
S == INSTANCE Signals
Panel == INSTANCE PanelTree WITH Folders <- PanelFolders, Bookmarks <- PanelBookmarks,
                                 tree <- panelTree, shown <- rows, calls <- moves,
                                 keys <- moveKeys, late <- held, failed <- fails

ASSUME PanelAssumption ==
  /\ IsFiniteSet(PanelFolders \union PanelBookmarks)
  /\ PanelFolders \intersect PanelBookmarks = {} /\ Root \notin PanelFolders \union PanelBookmarks
  /\ FirstTree \in Panel!Trees /\ Panel!Forest(FirstTree)

AnswerOf == q1 :> <<p1, folder, p2, a1, c1, a2>> @@ q2 :> <<a1, p1>>
ManagedOf == wa :> {a1, a2} @@ wb :> {c1}

(* Two folders at the root, with two bookmarks in one of them; a budget of *)
(* two moves, or of one move and a change made by somebody else.           *)
Place(folders, bookmarks) == [folder |-> folders, bookmark |-> bookmarks]
TreeShown ==
  [p \in {Root, g1, g2} |->
     CASE p = Root -> Place(<<g1, g2>>, <<>>)
       [] p = g1 -> Place(<<>>, <<d1, d2>>)
       [] p = g2 -> Place(<<>>, <<>>)]
Bounds(own, foreign, cuts) == [calls |-> own, others |-> foreign, faults |-> cuts]
TwoBudgets == {Bounds(2, 0, 1), Bounds(1, 1, 1)}

Symmetry == Permutations(Folders)

TreeInit ==
  /\ part \in {"tree", "panel", "search", "signals"}
  /\ Init /\ Panel!Init /\ Q!Init /\ S!Init
  /\ part # "panel" => closed = {} /\ left = Bounds(2, 0, 1)
  /\ part # "search" => ~signedIn /\ selected = {} /\ preferred = "global"
  /\ part # "signals" => ~session

TreeNext ==
  \/ part = "tree" /\ Next /\ UNCHANGED <<part, steps, searchVars, signalVars, panelVars>>
  \/ part = "panel" /\ Panel!Next /\ UNCHANGED <<part, steps, vars, searchVars, signalVars>>
  \/ part = "search" /\ Q!Next /\ UNCHANGED <<part, vars, signalVars, panelVars>>
  \/ part = "signals" /\ S!Next /\ UNCHANGED <<part, vars, searchVars, panelVars>>

TreeSpec == TreeInit /\ [][TreeNext]_<<part, steps, vars, searchVars, signalVars, panelVars>>

(* Where two acts have happened the server has three events, not four.     *)
Bounded == Len(log) + acts <= MaxEvents + 1

(* When all is applied Chrome mirrors the server's tree, and every shared  *)
(* node is known as its entity: see TreeSync.                              *)
TreeMirrors == Mirrors /\ Owned

(* The rows of the panel are a forest, shown as the server has it once     *)
(* nothing is in flight, and a drop lands where it was made: see PanelTree. *)
TreeShownAtRest == part = "panel" => Panel!OneForest /\ Panel!ShownAtRest
LandsWhereDropped == Panel!LandsWhereDropped

(* The search lists what was typed last, and the badge tells what the      *)
(* stored state holds: see QuickSearch and Signals.                        *)
PagesTell == Q!RestIsAnswer /\ S!BadgeTells
================================================================================
