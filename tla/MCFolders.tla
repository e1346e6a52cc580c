------------------------------- MODULE MCFolders -------------------------------
(***************************************************************************)
(* What the worker keeps in Chrome, in one run: the folders of two         *)
(* workspaces of one organization, with two messages at a time; and its    *)
(* own windows, four of them and two openings at a time.  A behaviour is   *)
(* of one part.                                                            *)
(***************************************************************************)
EXTENDS Projections, TLC

CONSTANTS
  Windows, Browser, Calls, MaxSteps, None,
  w1, w2, t1, t2, v1, v2, v3, v4, k1, k2

(* No workspace's folder is one on the way to another's: what the code     *)
(* does with workspaces that share all their titles is another matter      *)
(* (README, divergences).                                                  *)
ASSUME FoldersAssumption ==
  /\ None \notin Windows /\ Browser \in Windows
  /\ \A v, w \in Workspaces :
       v # w => \A j \in 1 .. Len(Path[v]) : SubSeq(Path[v], 1, j) # Path[w]

VARIABLES
  part, kind, focus, tracked, target, calls, removals, closing, result, calm, steps

windowVars == <<kind, focus, tracked, target, calls, removals, closing, result, calm, steps>>

P == INSTANCE PopupWindows

OwnTitles == [w \in Workspaces |-> <<"URLises", w>>]
Symmetry == Permutations(Tasks) \union Permutations(Workspaces) \union Permutations(Calls)

FoldersInit == part = "folders" /\ Init /\ P!Init

WindowsInit ==
  /\ part = "windows" /\ P!Init
  /\ Init /\ selected = {} /\ nodes = <<>> /\ task \in Starts

FoldersNext ==
  \/ part = "folders" /\ Next /\ UNCHANGED <<part, windowVars>>
  \/ part = "windows" /\ P!Next /\ UNCHANGED <<part, vars>>

FoldersSpec == (FoldersInit \/ WindowsInit) /\ [][FoldersNext]_<<part, vars, windowVars>>

(* In the run, the folder of the old title stands where no workspace was    *)
(* selected yet, and only there.                                           *)
FoldersRun == FoldersSpec /\ (part = "folders" => (nodes = <<>> <=> selected # {}))

(* Each workspace that is ready has its own folder, made once and left     *)
(* only with its projection: see Projections.                              *)
FoldersHold == OneFolder /\ ReadyHasFolder /\ NoLeftovers

(* Openings that do not overlap keep one window of each kind, and results  *)
(* are opened in windows that hold tabs: see PopupWindows.                 *)
WindowsHold == P!OneWindowIfCalm /\ P!ResultsHaveTabs
================================================================================
