---------------------------- MODULE MCWorkspaceSync ----------------------------
(***************************************************************************)
(* Small instances of WorkspaceSync for TLC.                               *)
(***************************************************************************)
EXTENDS WorkspaceSync

CONSTANTS b1, b2, A, B, C, P, Q, t1, t2

Shape1 == [title |-> A, folder |-> P]
OneBookmark == <<Event(b1, Shape1)>>

(* A title stands for title and URL: two bookmarks hardly ever share both. *)
OwnTitles == [b \in Bookmarks |-> IF b = b1 THEN {A, B} ELSE {C}]

(* Environments in which the code departs from its documents (README).     *)
NoHistory == <<>>
SharedTitle == [b \in Bookmarks |-> {A}]
================================================================================
