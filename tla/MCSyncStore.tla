------------------------------ MODULE MCSyncStore ------------------------------
(***************************************************************************)
(* Small instances of SyncStore for TLC: what clients send, in one of      *)
(* seven workloads, and two moves of nested folders on their own.          *)
(***************************************************************************)
EXTENDS SyncStore

CONSTANTS e1, e2, e3, e4, f0, f1, f2, f3, i0, i1, i2, i3, i4, o1, o2, o3, t1, t2

VARIABLE workload  \* which requests the clients of this behaviour send

Create(id, title, place) ==
  [op |-> "create", id |-> id, entity |-> Nobody, title |-> title, place |-> place]
Delete(id, entity) ==
  [op |-> "delete", id |-> id, entity |-> entity, title |-> Keep, place |-> Keep]
Patch(id, entity, title, place) ==
  [op |-> "patch", id |-> id, entity |-> entity, title |-> title, place |-> place]

Made(cur, id, entity, title, place) ==
  [cursor |-> cur, id |-> id, entity |-> entity, kind |-> "created",
   shape |-> [title |-> title, place |-> place]]

(* Lists 1, 2 and 3 are the bookmarks of f1, f2 and f3, lists 4 and 5 the  *)
(* folders of f1 and f2; list 6 is that of a folder which does not exist,  *)
(* list 7 the folders of f3 and list 8 those of the workspace.             *)
ListFolders == <<f1, f2, f3, f1, f2, f0, f3, Nobody>>

(* The bookmarks e1 and e2 are in f1 and f2, and f1 is in f3.              *)
OppositeRows ==
  {Made(1, o1, f3, t1, 8), Made(2, o2, f2, t1, 8), Made(3, o3, f1, t1, 7),
   Made(4, i0, e1, t1, 1), Made(5, i1, e2, t1, 2)}

(* Clients create two bookmarks in one folder.                             *)
CreateRequests == {Create(i2, t1, 1), Create(i3, t1, 1)}

(* A bookmark is created in the folder another one is deleted from.        *)
ReplaceRequests == {Create(i2, t1, 1), Delete(i3, e1)}

(* One bookmark is renamed and moved, or moved and deleted.                *)
EditRequests == {Patch(i2, e1, t2, Keep), Patch(i3, e1, Keep, 3)}
RemoveRequests == {Patch(i3, e1, Keep, 3), Delete(i4, e1)}

(* Two bookmarks are moved in opposite directions.                         *)
MoveRequests == {Patch(i2, e1, Keep, 2), Patch(i3, e2, Keep, 1)}

(* Two folders are moved into one another, and one is moved into nothing.  *)
CrossRequests == {Patch(i2, f1, Keep, 5), Patch(i3, f2, Keep, 4), Patch(i4, f2, Keep, 6)}

(* One event id is reused by a careless client.                            *)
ReuseRequests == {Delete(i2, e1), Delete(i2, e2), Create(i2, t1, 1), Patch(i2, e2, t2, Keep)}

Workloads == {"create", "replace", "edit", "remove", "move", "cross", "reuse"}
SentIn == [create |-> CreateRequests, replace |-> ReplaceRequests, edit |-> EditRequests,
           remove |-> RemoveRequests, move |-> MoveRequests, cross |-> CrossRequests,
           reuse |-> ReuseRequests]
AnyRequest == UNION {SentIn[w] : w \in Workloads}

Arrivals == \E h \in Handlers, q \in SentIn[workload] : Receive(h, q)
Replays == workload \in {"create", "replace"} /\ \E r \in Readers : Replay(r)

MCInit == Init /\ workload \in Workloads
MCNext ==
  \/ Arrivals /\ UNCHANGED workload
  \/ (\E h \in Handlers : Step(h)) /\ UNCHANGED workload
  \/ (\E h \in Handlers : Abandon(h)) /\ UNCHANGED workload
  \/ ExpireReceipt /\ UNCHANGED workload
  \/ Replays /\ UNCHANGED workload
MCSpec == MCInit /\ [][MCNext]_<<vars, workload>>
MCFair == MCSpec /\ \A h \in Handlers : SF_vars(Step(h))

(* e1 is in f1 and e2 in f2, all folders; f1 is moved into e2 and f2 into  *)
(* e1, from different parents.                                             *)
NestFolders == <<e1, e2, f1, f2, f3, Nobody>>
NestRows ==
  {Made(1, o1, f3, t1, 6), Made(2, o2, f2, t1, 6), Made(3, o3, f1, t1, 5),
   Made(4, i0, e1, t1, 3), Made(5, i1, e2, t1, 4)}
NestRequests == {Patch(i2, f1, Keep, 2), Patch(i3, f2, Keep, 1)}
NestSpec ==
  /\ Init /\ workload = "nest"
  /\ [][Next /\ UNCHANGED workload]_<<vars, workload>>
================================================================================
