---------------------------- MODULE MCPanelTree -----------------------------
(* Two folders at the root, with two bookmarks and with one.                *)
EXTENDS PanelTree

CONSTANTS f1, f2, b1, b2, b3

Place(folders, bookmarks) == [folder |-> folders, bookmark |-> bookmarks]

MCFirstTree ==
    [p \in {Root, f1, f2} |->
        CASE p = Root -> Place(<<f1, f2>>, <<>>)
          [] p = f1 -> Place(<<>>, <<b1, b2>>)
          [] p = f2 -> Place(<<>>, <<b3>>)]

Bounds(own, foreign, cuts) == [calls |-> own, others |-> foreign, faults |-> cuts]
MCBudgets == {Bounds(2, 0, 1), Bounds(1, 1, 1)}
MCRepeated == {Bounds(2, 1, 1)}
=============================================================================
