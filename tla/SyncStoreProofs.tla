---------------------------- MODULE SyncStoreProofs ----------------------------
(***************************************************************************)
(* Machine-checked proofs about SyncStore, for every number of handlers,   *)
(* readers, entities, event ids and requests, in three parts: the types,   *)
(* the log and its replays; the refinement of SyncLog; and what the locks  *)
(* protect.                                                                *)
(***************************************************************************)
EXTENDS SyncStore, Sequences, FiniteSetTheorems, WellFoundedInduction, TLAPS

(***************************************************************************)
(* What a handler's private record holds at each stage.                    *)
(***************************************************************************)
TxOK ==
  \A h \in Handlers :
    /\ pc[h] \notin {"idle", "refused"} => tx[h].req \in Requests
    /\ pc[h] \in {"received", "keyed"} => tx[h].scopes = {}
    /\ pc[h] \in {"discovered", "rowlocked", "preparing"} =>
         /\ tx[h].req.op = "patch"
         /\ tx[h].entity \in Entities
         /\ tx[h].target \in Places
         /\ tx[h].scopes \subseteq tx[h].wanted
         /\ \E a, b \in Places : tx[h].wanted = {a, b}
    /\ pc[h] \in {"checked", "reordering", "recorded", "committed"} =>
         /\ tx[h].entity \in Entities
         /\ tx[h].final \in Shapes

TypeInv == TypeOK /\ TxOK

USE DEF dbVars

(* The fields of a request have their types, and a PATCH merged with a row *)
(* is a row.                                                               *)
LEMMA RequestFields ==
  ASSUME NEW q \in Requests
  PROVE  /\ q.op \in {"create", "delete", "patch"}
         /\ q.id \in Ids
         /\ q.op = "create" => [title |-> q.title, place |-> q.place] \in Shapes
         /\ q.op \in {"delete", "patch"} => q.entity \in Entities
         /\ q.op = "patch" => \A s \in Shapes : Merge(q, s) \in Shapes
  BY StoreAssumption DEF Creates, Deletes, Patches, Shapes, Merge

(* The record of a handler without a transaction is well typed.            *)
LEMMA NoTxType == NoTx \in TxType
  BY DEF NoTx, TxType

(* The empty tables and idle handlers are well typed.                      *)
THEOREM TypeInit == Init => TypeInv
  <1> SUFFICES ASSUME Init PROVE TypeInv
    OBVIOUS
  <1>1. PICK t \in Titles, p \in Places : TRUE
    BY StoreAssumption
  <1>2. (CHOOSE x \in Shapes : TRUE) \in Shapes
    <2>1. [title |-> t, place |-> p] \in Shapes
      BY <1>1 DEF Shapes
    <2> QED
      BY <2>1
  <1>3. \A e \in Entities : RowOf(e) # {} => (CHOOSE ev \in RowOf(e) : TRUE).shape \in Shapes
    <2> SUFFICES ASSUME NEW e \in Entities, RowOf(e) # {}
                 PROVE  (CHOOSE ev \in RowOf(e) : TRUE).shape \in Shapes
      OBVIOUS
    <2>1. (CHOOSE ev \in RowOf(e) : TRUE) \in RowOf(e)
      OBVIOUS
    <2> QED
      BY <2>1, PastAssumption DEF RowOf, Events
  <1>4. Cardinality(Past) \in Nat
    BY PastAssumption, FS_CardinalityType
  <1>5. TypeOK
    BY <1>2, <1>3, <1>4, NoTxType, PastAssumption DEF Init, TypeOK, Stages
  <1> QED
    BY <1>5 DEF Init, TypeInv, TxOK

(***************************************************************************)
(* Most steps of a handler change only its own stage and record.  This is  *)
(* what such a step has to show.                                           *)
(***************************************************************************)
LEMMA AdvanceType ==
  ASSUME TypeInv, NEW h \in Handlers, NEW stage \in Stages, NEW t \in TxType,
         Advance(h, stage, t),
         stage \notin {"idle", "refused"} => t.req \in Requests,
         stage \in {"received", "keyed"} => t.scopes = {},
         stage \in {"discovered", "rowlocked", "preparing"} =>
           /\ t.req.op = "patch" /\ t.entity \in Entities /\ t.target \in Places
           /\ t.scopes \subseteq t.wanted
           /\ \E a, b \in Places : t.wanted = {a, b},
         stage \in {"checked", "reordering", "recorded", "committed"} =>
           t.entity \in Entities /\ t.final \in Shapes
  PROVE  TypeInv'
  BY DEF Advance, TypeInv, TypeOK, TxOK

(* A refusal, which rolls the transaction back, keeps the types.           *)
LEMMA RefuseType ==
  ASSUME TypeInv, NEW h \in Handlers, Refuse(h)
  PROVE  TypeInv'
  BY NoTxType, AdvanceType DEF Refuse, Stages

(* An answer, which ends the transaction, keeps the types.                 *)
LEMMA AcknowledgeType ==
  ASSUME TypeInv, NEW h \in Handlers, NEW cur \in Nat, pc[h] \notin {"idle", "refused"},
         Acknowledge(h, cur), UNCHANGED <<cursor, events, status, shape>>,
         receipts' \subseteq [id : Ids, entity : Entities, final : Shapes, cursor : Nat]
  PROVE  TypeInv'
  BY NoTxType DEF Acknowledge, TypeInv, TypeOK, TxOK, Stages

(* Every step keeps the types and what the stages of a handler promise.    *)
LEMMA TypeNext == TypeInv /\ [Next]_vars => TypeInv'
  <1> SUFFICES ASSUME TypeInv, [Next]_vars PROVE TypeInv'
    OBVIOUS
  <1> USE DEF Stages
  <1>1. ASSUME NEW h \in Handlers, NEW q \in Requests, Receive(h, q) PROVE TypeInv'
    <2>1. [NoTx EXCEPT !.req = q] \in TxType
      BY DEF NoTx, TxType
    <2>2. [NoTx EXCEPT !.req = q].req = q /\ [NoTx EXCEPT !.req = q].scopes = {}
      BY DEF NoTx
    <2> QED
      BY <1>1, <2>1, <2>2, AdvanceType DEF Receive
  <1>2. ASSUME NEW h \in Handlers, Step(h) PROVE TypeInv'
    <2>1. tx[h] \in TxType
      BY DEF TypeInv, TypeOK
    <2>2. CASE LockEventKey(h)
      BY <2>1, <2>2, AdvanceType DEF LockEventKey, TypeInv, TxOK
    <2>3. CASE TryReceiptKey(h)
      BY <2>1, <2>3, AdvanceType, NoTxType DEF TryReceiptKey, TypeInv, TxOK
    <2>4. CASE AnswerDuplicate(h)
      <3>1. PICK ev \in Duplicates(tx[h].req) : Acknowledge(h, ev.cursor)
        BY <2>4 DEF AnswerDuplicate
      <3>2. ev.cursor \in Nat
        BY DEF Duplicates, Logged, TypeInv, TypeOK, Events
      <3> QED
        BY <2>4, <3>1, <3>2, AcknowledgeType DEF AnswerDuplicate, TypeInv, TypeOK
    <2>5. CASE CreateApply(h)
      <3>1. tx[h].req \in Requests
        BY <2>5 DEF CreateApply, TypeInv, TxOK
      <3> DEFINE shp == [title |-> tx[h].req.title, place |-> tx[h].req.place]
      <3>2. shp \in Shapes
        BY <2>5, <3>1, RequestFields DEF CreateApply
      <3> HIDE DEF shp
      <3>3. PICK e \in FreshEntities :
              Advance(h, "reordering", [tx[h] EXCEPT !.entity = e, !.final = shp, !.rows = {e},
                                                     !.todo = Siblings(e, tx[h].req.place)])
        BY <2>5 DEF CreateApply, shp
      <3> DEFINE t == [tx[h] EXCEPT !.entity = e, !.final = shp, !.rows = {e},
                                    !.todo = Siblings(e, tx[h].req.place)]
      <3>4. e \in Entities /\ Siblings(e, tx[h].req.place) \subseteq Entities
        BY DEF FreshEntities, Siblings
      <3>5. t \in TxType /\ t.req = tx[h].req /\ t.entity = e /\ t.final = shp
        BY <2>1, <3>2, <3>4 DEF TxType
      <3> HIDE DEF t
      <3> QED
        BY <3>1, <3>2, <3>3, <3>4, <3>5, AdvanceType DEF t
    <2>6. CASE CreateRefused(h)
      BY <2>6, RefuseType DEF CreateRefused
    <2>7. CASE DeleteCheck(h)
      <3>1. tx[h].req \in Requests /\ tx[h].req.entity \in Entities
        BY <2>7, RequestFields DEF DeleteCheck, TypeInv, TxOK
      <3>2. shape[tx[h].req.entity] \in Shapes
        BY <3>1 DEF TypeInv, TypeOK
      <3> DEFINE t == [tx[h] EXCEPT !.entity = tx[h].req.entity, !.final = shape[tx[h].req.entity]]
      <3>3. t \in TxType /\ t.req = tx[h].req /\ t.entity \in Entities /\ t.final \in Shapes
        BY <2>1, <3>1, <3>2 DEF TxType
      <3>4. CASE Advance(h, "checked", t)
        <4> HIDE DEF t
        <4> QED
          BY <3>1, <3>3, <3>4, AdvanceType
      <3> QED
        BY <2>7, <3>4, RefuseType DEF DeleteCheck
    <2>8. CASE DeleteApply(h)
      <3> DEFINE t == [tx[h] EXCEPT !.rows = {tx[h].entity},
                                    !.todo = Siblings(tx[h].entity, tx[h].final.place)]
      <3>1. tx[h].req \in Requests /\ tx[h].entity \in Entities /\ tx[h].final \in Shapes
        BY <2>8 DEF DeleteApply, TypeInv, TxOK
      <3>2. t \in TxType /\ t.req = tx[h].req /\ t.entity = tx[h].entity /\ t.final = tx[h].final
        BY <2>1, <3>1 DEF TxType, Siblings
      <3>3. Advance(h, "reordering", t)
        BY <2>8 DEF DeleteApply
      <3> HIDE DEF t
      <3> QED
        BY <3>1, <3>2, <3>3, AdvanceType
    <2>9. CASE PatchDiscover(h)
      <3> DEFINE q == tx[h].req
                 t == [tx[h] EXCEPT !.entity = q.entity,
                                    !.target = Merge(q, shape[q.entity]).place,
                                    !.wanted = Scopes(q, shape[q.entity])]
      <3>1. q \in Requests /\ q.op = "patch" /\ q.entity \in Entities
        BY <2>9, RequestFields DEF PatchDiscover, TypeInv, TxOK
      <3>2. shape[q.entity] \in Shapes /\ Merge(q, shape[q.entity]) \in Shapes
        BY <3>1, RequestFields DEF TypeInv, TypeOK
      <3>3. Merge(q, shape[q.entity]).place \in Places /\ Scopes(q, shape[q.entity]) \subseteq Places
        BY <3>2 DEF Shapes, Scopes
      <3>4. t \in TxType /\ t.req = q /\ t.entity = q.entity /\ t.target \in Places
        BY <2>1, <3>1, <3>3 DEF TxType
      <3>6. /\ t.scopes \subseteq t.wanted
            /\ t.wanted = {shape[q.entity].place, Merge(q, shape[q.entity]).place}
        BY <2>1, <2>9, <3>4 DEF TxType, Scopes, PatchDiscover, TypeInv, TxOK
      <3>7. \E a, b \in Places : t.wanted = {a, b}
        BY <3>2, <3>6 DEF Shapes
      <3>5. Advance(h, "discovered", t) \/ Refuse(h)
        BY <2>9 DEF PatchDiscover
      <3> HIDE DEF t, q
      <3> QED
        BY <3>1, <3>4, <3>5, <3>6, <3>7, AdvanceType, RefuseType
    <2>10. CASE PatchLockScope(h)
      <3> DEFINE p == NextScope(tx[h])
                 t == [tx[h] EXCEPT !.scopes = @ \cup {p}]
      <3>1. tx[h].req \in Requests /\ tx[h].req.op = "patch" /\ tx[h].entity \in Entities
            /\ tx[h].target \in Places
        BY <2>10 DEF PatchLockScope, TypeInv, TxOK
      <3>2. Advance(h, "discovered", t)
        BY <2>10 DEF PatchLockScope
      <3>3. PICK a \in Places, b \in Places : tx[h].wanted = {a, b}
        BY <2>10 DEF PatchLockScope, TypeInv, TxOK
      <3>4. tx[h].scopes \subseteq tx[h].wanted /\ tx[h].wanted \ tx[h].scopes # {}
        BY <2>10 DEF PatchLockScope, TypeInv, TxOK
      <3>5. p \in tx[h].wanted \ tx[h].scopes
        <4>1. \E x \in tx[h].wanted \ tx[h].scopes :
                \A o \in tx[h].wanted \ tx[h].scopes : x <= o
          BY <3>3, <3>4, StoreAssumption
        <4> QED
          BY <4>1 DEF NextScope
      <3>6. /\ t \in TxType /\ t.req = tx[h].req /\ t.entity = tx[h].entity
            /\ t.target = tx[h].target /\ t.wanted = tx[h].wanted /\ t.scopes \subseteq t.wanted
        BY <2>1, <3>3, <3>4, <3>5 DEF TxType
      <3> HIDE DEF t
      <3> QED
        BY <3>1, <3>2, <3>3, <3>6, AdvanceType
    <2>11. CASE PatchLockRow(h)
      <3> DEFINE e == tx[h].entity
                 t == [tx[h] EXCEPT !.rows = {e}]
      <3>1. /\ tx[h].req \in Requests /\ tx[h].req.op = "patch" /\ e \in Entities
            /\ tx[h].target \in Places /\ tx[h].scopes \subseteq tx[h].wanted
            /\ \E a, b \in Places : tx[h].wanted = {a, b}
        BY <2>11 DEF PatchLockRow, TypeInv, TxOK
      <3>2. /\ t \in TxType /\ t.req = tx[h].req /\ t.entity = e /\ t.target = tx[h].target
            /\ t.wanted = tx[h].wanted /\ t.scopes = tx[h].scopes
        BY <2>1, <3>1 DEF TxType
      <3>3. Advance(h, "rowlocked", t) \/ Refuse(h)
        BY <2>11 DEF PatchLockRow
      <3> HIDE DEF t
      <3> QED
        BY <3>1, <3>2, <3>3, AdvanceType, RefuseType
    <2>12. CASE PatchDrifted(h)
      BY <2>12, RefuseType DEF PatchDrifted
    <2>13. CASE PatchConflict(h)
      BY <2>13, RefuseType DEF PatchConflict
    <2>14. CASE PatchReplay(h)
      <3>1. PICK rc \in ReceiptOf(h) : Acknowledge(h, rc.cursor)
        BY <2>14 DEF PatchReplay
      <3>2. rc.cursor \in Nat
        BY DEF ReceiptOf, TypeInv, TypeOK
      <3> QED
        BY <2>14, <3>1, <3>2, AcknowledgeType DEF PatchReplay, Prepared, TypeInv, TypeOK
    <2>15. CASE PatchNoOp(h)
      <3>1. /\ tx[h].req \in Requests /\ tx[h].req.op = "patch" /\ tx[h].entity \in Entities
            /\ tx[h].target \in Places
        BY <2>15 DEF PatchNoOp, Prepared, TypeInv, TxOK
      <3>2. shape[tx[h].entity] \in Shapes /\ Merge(tx[h].req, shape[tx[h].entity]) \in Shapes
        BY <3>1, RequestFields DEF TypeInv, TypeOK
      <3>3. Final(h) \in Shapes
        BY <3>1, <3>2 DEF Final, Shapes
      <3>4. Receipt(h, 0) \in [id : Ids, entity : Entities, final : Shapes, cursor : Nat]
        BY <3>1, <3>3, RequestFields DEF Receipt
      <3> QED
        BY <2>15, <3>4, AcknowledgeType DEF PatchNoOp, Prepared, TypeInv, TypeOK
    <2>16. CASE PatchApply(h)
      <3> DEFINE from == shape[tx[h].entity].place
                 todo == IF from = tx[h].target THEN {} ELSE Siblings(tx[h].entity, from)
                 t == [tx[h] EXCEPT !.final = Final(h), !.todo = todo]
      <3>1. /\ tx[h].req \in Requests /\ tx[h].req.op = "patch" /\ tx[h].entity \in Entities
            /\ tx[h].target \in Places
        BY <2>16 DEF PatchApply, Prepared, TypeInv, TxOK
      <3>2. shape[tx[h].entity] \in Shapes /\ Merge(tx[h].req, shape[tx[h].entity]) \in Shapes
        BY <3>1, RequestFields DEF TypeInv, TypeOK
      <3>3. Final(h) \in Shapes
        BY <3>1, <3>2 DEF Final, Shapes
      <3>4. todo \subseteq Entities
        BY DEF Siblings
      <3>5. Advance(h, "reordering", t)
        BY <2>16 DEF PatchApply
      <3> HIDE DEF todo
      <3>6. ASSUME NEW f \in Shapes, NEW d \in SUBSET Entities
            PROVE  LET u == [tx[h] EXCEPT !.final = f, !.todo = d]
                   IN  u \in TxType /\ u.req = tx[h].req /\ u.entity = tx[h].entity /\ u.final = f
        BY <2>1 DEF TxType
      <3>7. t \in TxType /\ t.req = tx[h].req /\ t.entity = tx[h].entity /\ t.final = Final(h)
        BY <3>3, <3>4, <3>6
      <3> HIDE DEF t
      <3> QED
        BY <3>1, <3>3, <3>5, <3>7, AdvanceType
    <2>17. CASE LockSibling(h)
      <3>1. PICK s \in tx[h].todo :
              Advance(h, pc[h], [tx[h] EXCEPT !.rows = @ \cup {s}, !.todo = @ \ {s}])
        BY <2>17 DEF LockSibling
      <3> DEFINE t == [tx[h] EXCEPT !.rows = @ \cup {s}, !.todo = @ \ {s}]
      <3>2. s \in Entities
        BY <2>1 DEF TxType
      <3>3. /\ t \in TxType /\ t.req = tx[h].req /\ t.entity = tx[h].entity
            /\ t.target = tx[h].target /\ t.final = tx[h].final
            /\ t.wanted = tx[h].wanted /\ t.scopes = tx[h].scopes
        BY <2>1, <3>2 DEF TxType
      <3>4. Advance(h, pc[h], t) /\ pc[h] \in {"preparing", "reordering"}
        BY <2>17, <3>1 DEF LockSibling
      <3> HIDE DEF t
      <3> QED
        BY <3>3, <3>4, AdvanceType DEF TypeInv, TxOK
    <2>18. CASE RecordEvent(h)
      <3> DEFINE t == [tx[h] EXCEPT !.claimed = cursor + 1]
      <3>1. tx[h].req \in Requests /\ tx[h].entity \in Entities /\ tx[h].final \in Shapes
        BY <2>18 DEF RecordEvent, TypeInv, TxOK
      <3>2. cursor + 1 \in Nat
        BY DEF TypeInv, TypeOK
      <3>3. t \in TxType /\ t.req = tx[h].req /\ t.entity = tx[h].entity /\ t.final = tx[h].final
        BY <2>1, <3>2 DEF TxType
      <3>4. Advance(h, "recorded", t) \/ Refuse(h)
        BY <2>18 DEF RecordEvent
      <3> HIDE DEF t
      <3> QED
        BY <3>1, <3>3, <3>4, AdvanceType, RefuseType
    <2>19. CASE Commit(h)
      <3> DEFINE t == tx[h]
                 u == [t EXCEPT !.scopes = {}, !.rows = {}]
      <3>1. /\ t.req \in Requests /\ t.entity \in Entities /\ t.final \in Shapes
            /\ t.claimed \in Nat
        BY <2>1, <2>19 DEF Commit, TypeInv, TxOK, TxType
      <3>2. t.req.id \in Ids /\ KindOf(t.req.op) \in Kinds
        BY <3>1, RequestFields DEF KindOf, Kinds
      <3>3. EventOf(t) \in Events
        BY <3>1, <3>2 DEF EventOf, Events
      <3>4. u \in TxType /\ u.req = t.req /\ u.entity = t.entity /\ u.final = t.final
        BY <2>1 DEF TxType
      <3>5. tx' = [tx EXCEPT ![h] = u]
        BY <2>19 DEF Commit
      <3> HIDE DEF u
      <3>6. tx' \in [Handlers -> TxType]
        BY <3>4, <3>5 DEF TypeInv, TypeOK
      <3>7. cursor' \in Nat /\ events' \subseteq Events
        BY <2>19, <3>1, <3>3 DEF Commit, TypeInv, TypeOK
      <3>8. status' \in [Entities -> {"absent", "live", "deleted"}] /\ shape' \in [Entities -> Shapes]
        BY <2>19, <3>1 DEF Commit, TypeInv, TypeOK
      <3>9. receipts' \subseteq [id : Ids, entity : Entities, final : Shapes, cursor : Nat]
        BY <2>19, <3>1, <3>2 DEF Commit, TypeInv, TypeOK
      <3>10. TypeOK'
        BY <2>19, <3>6, <3>7, <3>8, <3>9 DEF Commit, TypeInv, TypeOK
      <3>11. TxOK'
        BY <2>19, <3>1, <3>4, <3>5 DEF Commit, TypeInv, TypeOK, TxOK
      <3> QED
        BY <3>10, <3>11 DEF TypeInv
    <2>20. CASE PublishAndAnswer(h)
      <3>1. tx[h].claimed \in Nat
        BY <2>1 DEF TxType
      <3> QED
        BY <2>20, <3>1, AcknowledgeType DEF PublishAndAnswer, TypeInv, TypeOK
    <2>21. CASE DeadlockAbort(h)
      BY <2>21, RefuseType DEF DeadlockAbort
    <2>22. CASE PatchLockParent(h)
      <3> DEFINE rows == tx[h].rows \cup ({ParentOf(tx[h])} \ {Nobody})
                 todo == Siblings(tx[h].entity, tx[h].target)
                 t == [tx[h] EXCEPT !.rows = rows, !.todo = todo]
      <3>1. /\ tx[h].req \in Requests /\ tx[h].req.op = "patch" /\ tx[h].entity \in Entities
            /\ tx[h].target \in Places /\ tx[h].scopes \subseteq tx[h].wanted
            /\ \E a, b \in Places : tx[h].wanted = {a, b}
        BY <2>22 DEF PatchLockParent, TypeInv, TxOK
      <3>2. rows \subseteq Entities /\ todo \subseteq Entities
        <4>1. ParentOf(tx[h]) \in Entities \cup {Nobody}
          BY <3>1, FolderAssumption DEF ParentOf
        <4> QED
          BY <2>1, <4>1 DEF TxType, Siblings
      <3>3. Advance(h, "preparing", t) \/ Refuse(h)
        BY <2>22 DEF PatchLockParent
      <3> HIDE DEF rows, todo
      <3>4. /\ t \in TxType /\ t.req = tx[h].req /\ t.entity = tx[h].entity
            /\ t.target = tx[h].target /\ t.wanted = tx[h].wanted /\ t.scopes = tx[h].scopes
        BY <2>1, <3>2 DEF TxType
      <3> HIDE DEF t
      <3> QED
        BY <3>1, <3>3, <3>4, AdvanceType, RefuseType
    <2> QED
      BY <1>2, <2>2, <2>3, <2>4, <2>5, <2>6, <2>7, <2>8, <2>9, <2>10, <2>11, <2>12, <2>13,
         <2>14, <2>15, <2>16, <2>17, <2>18, <2>19, <2>20, <2>21, <2>22 DEF Step
  <1>3. ASSUME NEW h \in Handlers, Abandon(h) PROVE TypeInv'
    BY <1>3, NoTxType, AdvanceType DEF Abandon
  <1>4. CASE ExpireReceipt
    BY <1>4 DEF ExpireReceipt, TypeInv, TypeOK, TxOK
  <1>5. ASSUME NEW r \in Readers, Replay(r) PROVE TypeInv'
    <2> DEFINE ReaderType == [stage : {"idle", "cursor", "replayed", "resync"},
                              after : Nat, upTo : Nat, got : SUBSET Nat]
    <2>1. reader' \in [Readers -> ReaderType]
      <3>1. ASSUME NEW after \in 0 .. cursor, ReadCursor(r, after) PROVE reader' \in [Readers -> ReaderType]
        BY <3>1 DEF ReadCursor, TypeInv, TypeOK
      <3>2. CASE ReadEvents(r)
        <4> DEFINE got == {ev.cursor : ev \in {e \in events : e.cursor > reader[r].after}}
        <4>1. got \subseteq Nat
          BY DEF TypeInv, TypeOK, Events
        <4>2. \E s \in {"replayed", "resync"} :
                reader' = [reader EXCEPT ![r].got = got, ![r].stage = s]
          BY <3>2 DEF ReadEvents
        <4> HIDE DEF got
        <4>3. PICK s \in {"replayed", "resync"} :
                reader' = [reader EXCEPT ![r].got = got, ![r].stage = s]
          BY <4>2
        <4>4. reader \in [Readers -> ReaderType]
          BY DEF TypeInv, TypeOK
        <4>5. [reader[r] EXCEPT !.got = got, !.stage = s] \in ReaderType
          BY <4>1, <4>4
        <4>6. reader' = [reader EXCEPT ![r] = [reader[r] EXCEPT !.got = got, !.stage = s]]
          BY <4>3
        <4> QED
          BY <4>4, <4>5, <4>6
      <3>3. CASE FinishReplay(r)
        BY <3>3 DEF FinishReplay, TypeInv, TypeOK
      <3> QED
        BY <1>5, <3>1, <3>2, <3>3 DEF Replay
    <2>2. UNCHANGED <<dbVars, pc, tx, acks>>
      BY <1>5 DEF Replay, ReadCursor, ReadEvents, FinishReplay
    <2> QED
      BY <2>1, <2>2 DEF TypeInv, TypeOK, TxOK
  <1>6. CASE UNCHANGED vars
    BY <1>6 DEF vars, TypeInv, TypeOK, TxOK
  <1> QED
    BY <1>1, <1>2, <1>3, <1>4, <1>5, <1>6 DEF Next

(* Every reachable state is well typed.                                    *)
THEOREM TypeCorrect == Spec => []TypeOK
  <1>1. TypeInv => TypeOK
    BY DEF TypeInv
  <1> QED
    BY TypeInit, TypeNext, <1>1, PTL DEF Spec

--------------------------------------------------------------------------------
(***************************************************************************)
(* The numbering of the log.  Contiguity is not inductive by itself: it    *)
(* also takes that the handler about to commit, the only one at that       *)
(* stage, has claimed the very next cursor for an event id not yet logged. *)
(***************************************************************************)
ClaimInv ==
  \A h \in Handlers : pc[h] = "recorded" =>
    /\ tx[h].claimed = cursor + 1
    /\ Logged(tx[h].req.id) = {}
    /\ \A g \in Handlers : pc[g] = "recorded" => g = h

(* An answer in the making or kept for a retry names a logged event.       *)
Names(i, cur) == \E ev \in events : ev.cursor = cur /\ ev.id = i

AnswerInv ==
  /\ AckNamesEvent
  /\ \A h \in Handlers : pc[h] = "committed" => Names(tx[h].req.id, tx[h].claimed)
  /\ \A rc \in receipts : rc.cursor # 0 => Names(rc.id, rc.cursor)

LogInv == Contiguity /\ ClaimInv /\ AnswerInv

(* The empty log is contiguous and nothing has been acknowledged yet.      *)
THEOREM LogInit == Init => LogInv
  BY PastAssumption DEF Init, LogInv, Contiguity, ClaimInv, AnswerInv, AckNamesEvent

(***************************************************************************)
(* What a step does to the log and to the answers: nothing, or one of      *)
(* claim, commit and acknowledge.                                          *)
(***************************************************************************)
Quiet(h) ==
  /\ UNCHANGED <<cursor, events, acks>>
  /\ receipts' \subseteq receipts
  /\ \A g \in Handlers \ {h} : pc'[g] = pc[g] /\ tx'[g] = tx[g]
  /\ pc'[h] \notin {"recorded", "committed"}

Claims(h) ==
  /\ UNCHANGED <<cursor, events, acks, receipts>>
  /\ \A g \in Handlers \ {h} : pc[g] # "recorded" /\ pc'[g] = pc[g] /\ tx'[g] = tx[g]
  /\ pc'[h] = "recorded"
  /\ tx'[h].claimed = cursor + 1
  /\ Logged(tx'[h].req.id) = {}

Acknowledges(h, cur) ==
  /\ UNCHANGED <<cursor, events>>
  /\ pc[h] \notin {"idle", "refused"}
  /\ cur \in Nat
  /\ cur # 0 => Names(tx[h].req.id, cur)
  /\ acks' = acks \cup {[req |-> tx[h].req, cursor |-> cur]}
  /\ \A rc \in receipts' \ receipts : rc.cursor = 0
  /\ \A g \in Handlers \ {h} : pc'[g] = pc[g] /\ tx'[g] = tx[g]
  /\ pc'[h] = "idle"

(* A step that changes only its handler leaves log and answers alone.      *)
LEMMA AdvanceQuiet ==
  ASSUME TypeInv, NEW h \in Handlers, NEW stage, NEW t, stage \notin {"recorded", "committed"},
         Advance(h, stage, t)
  PROVE  Quiet(h)
  BY DEF Advance, Quiet, TypeInv, TypeOK

(* An answer names an event that the log holds, or none.                   *)
LEMMA AcknowledgeAcknowledges ==
  ASSUME TypeInv, NEW h \in Handlers, NEW cur \in Nat, Acknowledge(h, cur),
         pc[h] \notin {"idle", "refused"},
         UNCHANGED <<cursor, events>>, cur # 0 => Names(tx[h].req.id, cur),
         \A rc \in receipts' \ receipts : rc.cursor = 0
  PROVE  Acknowledges(h, cur)
  BY DEF Acknowledge, Acknowledges, TypeInv, TypeOK

(* A step of a handler is quiet, claims the next cursor, commits its event *)
(* or acknowledges its request: nothing else touches log and answers.      *)
LEMMA StepEffect ==
  ASSUME TypeInv, LogInv, NEW h \in Handlers, Step(h)
  PROVE  Quiet(h) \/ Claims(h) \/ Commit(h) \/ \E cur \in Nat : Acknowledges(h, cur)
  <1>1. CASE \/ LockEventKey(h) \/ TryReceiptKey(h) \/ CreateApply(h) \/ CreateRefused(h)
             \/ DeleteCheck(h) \/ DeleteApply(h) \/ PatchDiscover(h) \/ PatchLockScope(h)
             \/ PatchLockRow(h) \/ PatchLockParent(h) \/ PatchDrifted(h) \/ PatchConflict(h)
             \/ PatchApply(h) \/ LockSibling(h) \/ DeadlockAbort(h)
    <2>1. CASE LockEventKey(h) \/ TryReceiptKey(h) \/ DeleteApply(h)
      BY <2>1, AdvanceQuiet DEF LockEventKey, TryReceiptKey, DeleteApply
    <2>2. CASE CreateRefused(h) \/ PatchDrifted(h) \/ PatchConflict(h) \/ DeadlockAbort(h)
      BY <2>2, AdvanceQuiet DEF CreateRefused, PatchDrifted, PatchConflict, DeadlockAbort, Refuse
    <2>3. CASE CreateApply(h)
      <3>1. PICK t : Advance(h, "reordering", t)
        BY <2>3 DEF CreateApply
      <3> QED
        BY <3>1, AdvanceQuiet
    <2>4. CASE DeleteCheck(h) \/ PatchDiscover(h) \/ PatchLockRow(h) \/ PatchLockParent(h)
      BY <2>4, AdvanceQuiet DEF DeleteCheck, PatchDiscover, PatchLockRow, PatchLockParent, Refuse
    <2>5. CASE PatchLockScope(h) \/ PatchApply(h)
      BY <2>5, AdvanceQuiet DEF PatchLockScope, PatchApply
    <2>6. CASE LockSibling(h)
      <3>1. PICK t : Advance(h, pc[h], t)
        BY <2>6 DEF LockSibling
      <3> QED
        BY <2>6, <3>1, AdvanceQuiet DEF LockSibling
    <2> QED
      BY <1>1, <2>1, <2>2, <2>3, <2>4, <2>5, <2>6
  <1>2. CASE AnswerDuplicate(h)
    <2>1. PICK ev \in Duplicates(tx[h].req) : Acknowledge(h, ev.cursor)
      BY <1>2 DEF AnswerDuplicate
    <2>2. ev.cursor \in Nat /\ Names(tx[h].req.id, ev.cursor)
      BY DEF Duplicates, Logged, Names, TypeInv, TypeOK, Events
    <2> QED
      BY <1>2, <2>1, <2>2, AcknowledgeAcknowledges DEF AnswerDuplicate
  <1>3. CASE PatchReplay(h)
    <2>1. PICK rc \in ReceiptOf(h) : Acknowledge(h, rc.cursor)
      BY <1>3 DEF PatchReplay
    <2>2. rc.cursor \in Nat /\ (rc.cursor # 0 => Names(tx[h].req.id, rc.cursor))
      BY DEF ReceiptOf, LogInv, AnswerInv, TypeInv, TypeOK
    <2> QED
      BY <1>3, <2>1, <2>2, AcknowledgeAcknowledges DEF PatchReplay, Prepared
  <1>4. CASE PatchNoOp(h)
    BY <1>4, AcknowledgeAcknowledges DEF PatchNoOp, Prepared, Receipt
  <1>5. CASE PublishAndAnswer(h)
    <2>1. tx[h].claimed \in Nat /\ Names(tx[h].req.id, tx[h].claimed)
      BY <1>5 DEF PublishAndAnswer, LogInv, AnswerInv, TypeInv, TypeOK, TxType
    <2> QED
      BY <1>5, <2>1, AcknowledgeAcknowledges DEF PublishAndAnswer
  <1>6. CASE RecordEvent(h)
    <2>1. CASE Refuse(h)
      BY <2>1, AdvanceQuiet DEF Refuse
    <2>2. CASE Advance(h, "recorded", [tx[h] EXCEPT !.claimed = cursor + 1]) /\ Logged(tx[h].req.id) = {}
      <3>1. tx[h] \in TxType
        BY DEF TypeInv, TypeOK
      <3> DEFINE t == [tx[h] EXCEPT !.claimed = cursor + 1]
      <3>2. t.claimed = cursor + 1 /\ t.req = tx[h].req
        BY <3>1 DEF TxType
      <3> HIDE DEF t
      <3>3. pc'[h] = "recorded" /\ tx'[h] = t
        BY <2>2 DEF Advance, TypeInv, TypeOK, t
      <3>4. \A g \in Handlers \ {h} : pc[g] # "recorded" /\ pc'[g] = pc[g] /\ tx'[g] = tx[g]
        BY <1>6, <2>2 DEF RecordEvent, CursorFree, Advance, TypeInv, TypeOK
      <3> QED
        BY <2>2, <3>2, <3>3, <3>4 DEF Claims, Advance
    <2> QED
      BY <1>6, <2>1, <2>2 DEF RecordEvent
  <1>7. CASE Commit(h)
    BY <1>7
  <1> QED
    BY <1>1, <1>2, <1>3, <1>4, <1>5, <1>6, <1>7 DEF Step

(* A commit adds one event, under the next cursor and a new event id.      *)
LEMMA CommitEffect ==
  ASSUME TypeInv, LogInv, NEW h \in Handlers, Commit(h)
  PROVE  /\ cursor' = cursor + 1
         /\ events' = events \cup {EventOf(tx[h])}
         /\ EventOf(tx[h]) \in Events
         /\ EventOf(tx[h]).cursor = cursor + 1
         /\ EventOf(tx[h]).id = tx[h].req.id
         /\ \A ev \in events : ev.id # tx[h].req.id
         /\ acks' = acks
         /\ \A g \in Handlers \ {h} : pc[g] # "recorded" /\ pc'[g] = pc[g] /\ tx'[g] = tx[g]
         /\ pc'[h] = "committed"
         /\ tx'[h].req = tx[h].req /\ tx'[h].claimed = cursor + 1
         /\ \A rc \in receipts' \ receipts : rc.id = tx[h].req.id /\ rc.cursor = cursor + 1
  <1>1. tx[h] \in TxType /\ cursor \in Nat
    BY DEF TypeInv, TypeOK
  <1>2. tx[h].claimed = cursor + 1 /\ Logged(tx[h].req.id) = {}
    BY DEF Commit, LogInv, ClaimInv
  <1>3. tx[h].req \in Requests /\ tx[h].entity \in Entities /\ tx[h].final \in Shapes
    BY DEF Commit, TypeInv, TxOK
  <1>4. tx[h].req.id \in Ids /\ KindOf(tx[h].req.op) \in Kinds
    BY <1>3, RequestFields DEF KindOf, Kinds
  <1>5. EventOf(tx[h]) \in Events
    BY <1>1, <1>2, <1>3, <1>4 DEF EventOf, Events
  <1>6. EventOf(tx[h]).cursor = cursor + 1 /\ EventOf(tx[h]).id = tx[h].req.id
    BY <1>2 DEF EventOf
  <1> DEFINE u == [tx[h] EXCEPT !.scopes = {}, !.rows = {}]
  <1>7. u.req = tx[h].req /\ u.claimed = tx[h].claimed
    BY <1>1 DEF TxType
  <1>8. tx' = [tx EXCEPT ![h] = u]
    BY DEF Commit
  <1> HIDE DEF u
  <1>9. tx'[h] = u /\ \A g \in Handlers \ {h} : tx'[g] = tx[g]
    BY <1>8 DEF TypeInv, TypeOK
  <1>10. \A ev \in events : ev.id # tx[h].req.id
    BY <1>2 DEF Logged
  <1>11. \A g \in Handlers \ {h} : pc[g] # "recorded"
    BY DEF Commit, LogInv, ClaimInv
  <1> QED
    BY <1>2, <1>5, <1>6, <1>7, <1>9, <1>10, <1>11 DEF Commit, TypeInv, TypeOK

(* Every step keeps the log contiguous and the answers true.               *)
LEMMA LogNext == TypeInv /\ LogInv /\ [Next]_vars => LogInv'
  <1> SUFFICES ASSUME TypeInv, LogInv, [Next]_vars PROVE LogInv'
    OBVIOUS
  <1>1. ASSUME NEW h \in Handlers, Quiet(h) PROVE LogInv'
    BY <1>1 DEF Quiet, LogInv, Contiguity, ClaimInv, AnswerInv, AckNamesEvent, Names, Logged
  <1>2. ASSUME NEW h \in Handlers, Claims(h) PROVE LogInv'
    BY <1>2 DEF Claims, LogInv, Contiguity, ClaimInv, AnswerInv, AckNamesEvent, Names, Logged
  <1>3. ASSUME NEW h \in Handlers, NEW cur \in Nat, Acknowledges(h, cur) PROVE LogInv'
    BY <1>3 DEF Acknowledges, LogInv, Contiguity, ClaimInv, AnswerInv, AckNamesEvent, Names, Logged
  <1>4. ASSUME NEW h \in Handlers, Commit(h) PROVE LogInv'
    <2> DEFINE e == EventOf(tx[h])
    <2>1. /\ cursor' = cursor + 1 /\ events' = events \cup {e}
          /\ e.cursor = cursor + 1 /\ e.id = tx[h].req.id
          /\ \A ev \in events : ev.id # e.id
          /\ \A g \in Handlers \ {h} : pc[g] # "recorded" /\ pc'[g] = pc[g] /\ tx'[g] = tx[g]
          /\ pc'[h] = "committed" /\ tx'[h].req = tx[h].req /\ tx'[h].claimed = cursor + 1
      BY <1>4, CommitEffect
    <2>2. acks' = acks /\ \A rc \in receipts' \ receipts : rc.id = e.id /\ rc.cursor = e.cursor
      BY <1>4, <2>1, CommitEffect
    <2> HIDE DEF e
    <2>3. cursor \in Nat
      BY DEF TypeInv, TypeOK
    <2>4. \A ev \in events : ev.cursor \in 1 .. cursor
      BY DEF LogInv, Contiguity
    <2>5. {ev.cursor : ev \in events'} = 1 .. cursor'
      BY <2>1, <2>3 DEF LogInv, Contiguity
    <2>6. \A a, b \in events' : a.cursor = b.cursor \/ a.id = b.id => a = b
      BY <2>1, <2>3, <2>4 DEF LogInv, Contiguity
    <2>7. ClaimInv'
      BY <2>1 DEF LogInv, ClaimInv
    <2>8. \A i, cur : Names(i, cur) => \E ev \in events' : ev.cursor = cur /\ ev.id = i
      BY <2>1 DEF Names
    <2>9. \E ev \in events' : ev.cursor = e.cursor /\ ev.id = e.id
      BY <2>1
    <2>10. AckNamesEvent'
      BY <2>1, <2>2 DEF LogInv, AnswerInv, AckNamesEvent
    <2>11. \A g \in Handlers : pc'[g] = "committed" =>
              \E ev \in events' : ev.cursor = tx'[g].claimed /\ ev.id = tx'[g].req.id
      BY <2>1, <2>8, <2>9 DEF LogInv, AnswerInv
    <2>12. \A rc \in receipts' : rc.cursor # 0 =>
              \E ev \in events' : ev.cursor = rc.cursor /\ ev.id = rc.id
      BY <2>2, <2>8, <2>9 DEF LogInv, AnswerInv
    <2> QED
      BY <2>5, <2>6, <2>7, <2>10, <2>11, <2>12 DEF LogInv, Contiguity, AnswerInv, Names
  <1>5. ASSUME NEW h \in Handlers, NEW q \in Requests, Receive(h, q) PROVE LogInv'
    BY <1>1, <1>5, AdvanceQuiet DEF Receive
  <1>6. ASSUME NEW h \in Handlers, Abandon(h) PROVE LogInv'
    BY <1>1, <1>6, AdvanceQuiet DEF Abandon
  <1>7. CASE ExpireReceipt
    BY <1>7 DEF ExpireReceipt, LogInv, Contiguity, ClaimInv, AnswerInv, AckNamesEvent, Names, Logged
  <1>8. ASSUME NEW r \in Readers, Replay(r) PROVE LogInv'
    <2>1. UNCHANGED <<cursor, events, receipts, pc, tx, acks>>
      BY <1>8 DEF Replay, ReadCursor, ReadEvents, FinishReplay
    <2> QED
      BY <2>1 DEF LogInv, Contiguity, ClaimInv, AnswerInv, AckNamesEvent, Names, Logged
  <1>9. CASE UNCHANGED vars
    BY <1>9 DEF vars, LogInv, Contiguity, ClaimInv, AnswerInv, AckNamesEvent, Names, Logged
  <1>10. ASSUME NEW h \in Handlers, Step(h) PROVE LogInv'
    BY <1>1, <1>2, <1>3, <1>4, <1>10, StepEffect
  <1> QED
    BY <1>5, <1>6, <1>7, <1>8, <1>9, <1>10 DEF Next

(* The inductive invariant holds in every reachable state.                 *)
LEMMA Invariants == Spec => [](TypeInv /\ LogInv)
  BY TypeInit, TypeNext, LogInit, LogNext, PTL DEF Spec

(* The committed log is numbered 1 .. cursor without a gap or a repetition,*)
(* and holds an event id at most once.                                     *)
THEOREM LogIsContiguous == Spec => []Contiguity
  <1>1. LogInv => Contiguity
    BY DEF LogInv
  <1> QED
    BY Invariants, <1>1, PTL

(* Whatever copy of a request is acknowledged with a cursor, the cursor is *)
(* that of the event logged under the request's event id.                  *)
THEOREM AcksNameEvents == Spec => []AckNamesEvent
  <1>1. LogInv => AckNamesEvent
    BY DEF LogInv, AnswerInv
  <1> QED
    BY Invariants, <1>1, PTL

--------------------------------------------------------------------------------
(***************************************************************************)
(* A replay.  Its first read bounds the second from below, since the       *)
(* cursor only grows, and the second finds the whole log at that moment.   *)
(***************************************************************************)
ReplayInv ==
  \A r \in Readers :
    /\ reader[r].stage # "idle" =>
         reader[r].after <= reader[r].upTo /\ reader[r].upTo <= cursor
    /\ reader[r].stage = "replayed" =>
         \E top \in reader[r].upTo .. cursor : reader[r].got = reader[r].after + 1 .. top

(* No replay has begun.                                                    *)
LEMMA ReplayInit == Init => ReplayInv
  BY DEF Init, ReplayInv

(* What is not a replay leaves the readers alone, and the cursor grows.    *)
LEMMA CursorGrows ==
  ASSUME TypeInv, LogInv, [Next]_vars, \A r \in Readers : ~ Replay(r)
  PROVE  cursor' \in Nat /\ cursor <= cursor' /\ reader' = reader
  <1>1. cursor \in Nat
    BY DEF TypeInv, TypeOK
  <1>2. ASSUME NEW h \in Handlers, Step(h)
        PROVE  cursor' \in Nat /\ cursor <= cursor' /\ reader' = reader
    <2>1. cursor' \in Nat /\ cursor <= cursor'
      <3>1. CASE Commit(h)
        BY <1>1, <3>1, CommitEffect
      <3> QED
        BY <1>1, <1>2, <3>1, StepEffect DEF Quiet, Claims, Acknowledges
    <2>2. reader' = reader
      BY <1>2 DEF Step, LockEventKey, TryReceiptKey, AnswerDuplicate, CreateApply, CreateRefused,
           DeleteCheck, DeleteApply, PatchDiscover, PatchLockScope, PatchLockRow,
           PatchLockParent, PatchDrifted, PatchConflict, PatchReplay, PatchNoOp, PatchApply, LockSibling, RecordEvent, Commit,
           PublishAndAnswer, DeadlockAbort, Acknowledge, Refuse, Advance
    <2> QED
      BY <2>1, <2>2
  <1> QED
    BY <1>1, <1>2 DEF Next, vars, Receive, Abandon, ExpireReceipt, Advance

(* A step of a replay keeps what the replays know.                         *)
LEMMA ReplayStep ==
  ASSUME TypeInv, LogInv, ReplayInv, NEW r \in Readers, Replay(r)
  PROVE  ReplayInv'
  <1>1. cursor \in Nat /\ cursor' = cursor
    BY DEF TypeInv, TypeOK, Replay, ReadCursor, ReadEvents, FinishReplay
  <1>2. DOMAIN reader = Readers
    BY DEF TypeInv, TypeOK
  <1>3. ASSUME NEW after \in 0 .. cursor, ReadCursor(r, after) PROVE ReplayInv'
    BY <1>1, <1>2, <1>3 DEF ReadCursor, ReplayInv
  <1>4. CASE ReadEvents(r)
    <2> DEFINE after == reader[r].after
               got == {ev.cursor : ev \in {e \in events : e.cursor > after}}
    <2>1. after \in Nat /\ reader[r].upTo \in Nat
      BY DEF TypeInv, TypeOK
    <2>2. got = after + 1 .. cursor
      <3>1. {ev.cursor : ev \in events} = 1 .. cursor
        BY DEF LogInv, Contiguity
      <3>2. ASSUME NEW c \in got PROVE c \in after + 1 .. cursor
        <4>1. PICK ev \in events : ev.cursor > after /\ c = ev.cursor
          OBVIOUS
        <4>2. c \in 1 .. cursor
          BY <3>1, <4>1
        <4> QED
          BY <1>1, <2>1, <4>1, <4>2
      <3>3. ASSUME NEW c \in after + 1 .. cursor PROVE c \in got
        <4>1. c \in 1 .. cursor /\ c > after
          BY <1>1, <2>1
        <4>2. PICK ev \in events : ev.cursor = c
          BY <3>1, <4>1
        <4> QED
          BY <4>1, <4>2
      <3> QED
        BY <3>2, <3>3
    <2>3. reader[r].stage = "cursor"
      BY <1>4 DEF ReadEvents
    <2>4. after <= reader[r].upTo /\ reader[r].upTo <= cursor
      BY <2>3 DEF ReplayInv
    <2>5. PICK s \in {"replayed", "resync"} : reader' = [reader EXCEPT ![r].got = got, ![r].stage = s]
      BY <1>4 DEF ReadEvents
    <2> HIDE DEF got
    <2>9. reader' = [reader EXCEPT ![r] = [reader[r] EXCEPT !.got = got, !.stage = s]]
      BY <2>5
    <2>10. /\ reader'[r].after = after /\ reader'[r].upTo = reader[r].upTo
           /\ reader'[r].got = got
      BY <1>2, <2>9 DEF TypeInv, TypeOK
    <2>6. \A o \in Readers \ {r} : reader'[o] = reader[o]
      BY <1>2, <2>9
    <2>7. cursor \in reader[r].upTo .. cursor
      BY <1>1, <2>1, <2>4
    <2>8. ASSUME NEW o \in Readers
          PROVE  /\ reader'[o].stage # "idle" =>
                      reader'[o].after <= reader'[o].upTo /\ reader'[o].upTo <= cursor'
                 /\ reader'[o].stage = "replayed" =>
                      \E top \in reader'[o].upTo .. cursor' : reader'[o].got = reader'[o].after + 1 .. top
      <3>1. CASE o = r
        BY <1>1, <2>2, <2>4, <2>10, <2>7, <3>1
      <3>2. CASE o # r
        BY <1>1, <2>6, <3>2 DEF ReplayInv
      <3> QED
        BY <3>1, <3>2
    <2> QED
      BY <2>8 DEF ReplayInv
  <1>5. CASE FinishReplay(r)
    BY <1>1, <1>2, <1>5 DEF FinishReplay, ReplayInv
  <1> QED
    BY <1>3, <1>4, <1>5 DEF Replay

(* Every step keeps it.                                                    *)
LEMMA ReplayNext == TypeInv /\ LogInv /\ ReplayInv /\ [Next]_vars => ReplayInv'
  <1> SUFFICES ASSUME TypeInv, LogInv, ReplayInv, [Next]_vars PROVE ReplayInv'
    OBVIOUS
  <1>1. CASE \E r \in Readers : Replay(r)
    BY <1>1, ReplayStep
  <1>2. CASE \A r \in Readers : ~ Replay(r)
    <2>1. cursor' \in Nat /\ cursor <= cursor' /\ reader' = reader
      BY <1>2, CursorGrows
    <2>2. cursor \in Nat /\ \A r \in Readers : reader[r].upTo \in Nat
      BY DEF TypeInv, TypeOK
    <2> QED
      BY <2>1, <2>2 DEF ReplayInv
  <1> QED
    BY <1>1, <1>2

(* A replay that is answered with events has all of them, from its cursor  *)
(* to one that is not older than the cursor it read, whatever is committed *)
(* between its two statements.                                             *)
THEOREM ReplaysAreComplete == Spec => []ReplayComplete
  <1>1. ReplayInv => ReplayComplete
    BY DEF ReplayInv, ReplayComplete
  <1> QED
    BY Invariants, ReplayInit, ReplayNext, <1>1, PTL DEF Spec

--------------------------------------------------------------------------------
(***************************************************************************)
(* SyncStore implements SyncLog: whatever its transactions do, what its    *)
(* clients can observe is one log that grows at its end and answers that   *)
(* name positions in it.                                                   *)
(***************************************************************************)

EntryOf(ev) == [id |-> ev.id, entity |-> ev.entity, kind |-> ev.kind, shape |-> ev.shape]

(* In a log without gaps or repetitions there is one event at each cursor. *)
Numbered(S, n) ==
  /\ {ev.cursor : ev \in S} = 1 .. n
  /\ \A a, b \in S : a.cursor = b.cursor => a = b

(* The event found at a cursor is the one that carries it.                 *)
LEMMA EventAtIs ==
  ASSUME NEW S, NEW n \in Nat, Numbered(S, n), NEW ev \in S
  PROVE  EventAt(S, ev.cursor) = ev
  BY DEF Numbered, EventAt

(* Each position of the abstract log is the event with that cursor.        *)
LEMMA ViewAt ==
  ASSUME NEW S, NEW n \in Nat, NEW i \in 1 .. n
  PROVE  View(S, n)[i] = EntryOf(EventAt(S, i))
  BY DEF View, EntryOf

(* A view is a sequence as long as the log.                                *)
LEMMA ViewSeq ==
  ASSUME NEW S, NEW n \in Nat
  PROVE  DOMAIN View(S, n) = 1 .. n /\ Len(View(S, n)) = n
  BY DEF View

(* An event under the next cursor is appended to the view.                 *)
LEMMA ViewAppends ==
  ASSUME NEW S, NEW n \in Nat, NEW e, Numbered(S, n), e.cursor = n + 1
  PROVE  View(S \cup {e}, n + 1) = Append(View(S, n), EntryOf(e))
  <1> DEFINE T == S \cup {e}
  <1>1. n + 1 \in Nat
    OBVIOUS
  <1>2. \A ev \in S : ev.cursor \in 1 .. n
    BY DEF Numbered
  <1>3. Numbered(T, n + 1)
    <2>1. {ev.cursor : ev \in T} = 1 .. n + 1
      BY DEF Numbered
    <2>2. \A a, b \in T : a.cursor = b.cursor => a = b
      BY <1>2 DEF Numbered
    <2> QED
      BY <2>1, <2>2 DEF Numbered
  <1>4. ASSUME NEW i \in 1 .. n PROVE EventAt(T, i) = EventAt(S, i)
    <2>1. PICK ev \in S : ev.cursor = i
      BY DEF Numbered
    <2>2. EventAt(S, i) = ev
      BY <2>1, EventAtIs
    <2>3. ev \in T
      OBVIOUS
    <2> HIDE DEF T
    <2>4. EventAt(T, i) = ev
      BY <1>1, <1>3, <2>1, <2>3, EventAtIs
    <2> QED
      BY <2>2, <2>4
  <1>5. EventAt(T, n + 1) = e
    <2>1. e \in T
      OBVIOUS
    <2> HIDE DEF T
    <2> QED
      BY <1>1, <1>3, <2>1, EventAtIs
  <1> HIDE DEF T
  <1>6. View(T, n + 1) = [i \in 1 .. n + 1 |-> EntryOf(EventAt(T, i))]
    BY DEF View, EntryOf
  <1>7. View(S, n) = [i \in 1 .. n |-> EntryOf(EventAt(S, i))]
    BY DEF View, EntryOf
  <1>8. \A i \in 1 .. n + 1 : View(T, n + 1)[i] = IF i <= n THEN View(S, n)[i] ELSE EntryOf(e)
    BY <1>4, <1>5, <1>6, <1>7
  <1>9. Append(View(S, n), EntryOf(e)) =
          [i \in 1 .. n + 1 |-> IF i <= n THEN View(S, n)[i] ELSE EntryOf(e)]
    BY <1>7
  <1>10. View(T, n + 1) = Append(View(S, n), EntryOf(e))
    BY <1>6, <1>8, <1>9
  <1> QED
    BY <1>10 DEF T

(* The history and no answers are an initial state of the log.             *)
LEMMA InitRefines == Init => Log!Init
  BY DEF Init, Log!Init, LogView, AckView

(* A commit appends its event to the log.                                  *)
LEMMA CommitRecords ==
  ASSUME TypeInv, LogInv, NEW h \in Handlers, Commit(h)
  PROVE  Log!Record
  <1> DEFINE e == EventOf(tx[h])
  <1>1. /\ cursor' = cursor + 1 /\ events' = events \cup {e} /\ e \in Events
        /\ e.cursor = cursor + 1 /\ e.id = tx[h].req.id /\ acks' = acks
        /\ \A ev \in events : ev.id # e.id
    BY CommitEffect
  <1> HIDE DEF e
  <1>2. cursor \in Nat /\ Numbered(events, cursor)
    BY DEF TypeInv, TypeOK, LogInv, Contiguity, Numbered
  <1>3. View(events \cup {e}, cursor + 1) = Append(View(events, cursor), EntryOf(e))
    BY <1>1, <1>2, ViewAppends
  <1>4. LogView' = Append(LogView, EntryOf(e))
    BY <1>1, <1>3 DEF LogView
  <1>5. EntryOf(e) \in Entries
    BY <1>1 DEF EntryOf, Entries, Events
  <1>6. ASSUME NEW i \in DOMAIN LogView PROVE LogView[i].id # EntryOf(e).id
    <2>1. i \in 1 .. cursor
      BY <1>2, ViewSeq DEF LogView
    <2>2. PICK ev \in events : ev.cursor = i
      BY <1>2, <2>1 DEF Numbered
    <2>3. EventAt(events, i) = ev
      BY <1>2, <2>2, EventAtIs
    <2>4. LogView[i] = EntryOf(ev)
      BY <1>2, <2>1, <2>3, ViewAt DEF LogView
    <2> QED
      BY <1>1, <2>4 DEF EntryOf
  <1>7. AckView' = AckView
    BY <1>1 DEF AckView
  <1>8. Len(LogView') = Len(LogView) + 1
    <2>1. Len(View(events, cursor)) = cursor /\ Len(View(events \cup {e}, cursor + 1)) = cursor + 1
      BY <1>2, ViewSeq
    <2> QED
      BY <1>1, <2>1 DEF LogView
  <1> QED
    BY <1>4, <1>5, <1>6, <1>7, <1>8 DEF Log!Record

(* An acknowledgement names a position of the log, or carries no cursor    *)
(* and cannot be told from a step of nothing.                              *)
LEMMA AnswerAcknowledges ==
  ASSUME TypeInv, LogInv, NEW h \in Handlers, NEW cur \in Nat, Acknowledges(h, cur)
  PROVE  Log!Acknowledge \/ UNCHANGED <<LogView, AckView>>
  <1>1. /\ UNCHANGED <<cursor, events>>
        /\ acks' = acks \cup {[req |-> tx[h].req, cursor |-> cur]}
        /\ cur # 0 => Names(tx[h].req.id, cur)
    BY DEF Acknowledges
  <1>2. LogView' = LogView
    BY <1>1 DEF LogView
  <1>3. CASE cur = 0
    BY <1>1, <1>2, <1>3 DEF AckView
  <1>4. CASE cur # 0
    <2>1. PICK ev \in events : ev.cursor = cur /\ ev.id = tx[h].req.id
      BY <1>1, <1>4 DEF Names
    <2>2. cursor \in Nat /\ Numbered(events, cursor)
      BY DEF TypeInv, TypeOK, LogInv, Contiguity, Numbered
    <2>3. cur \in 1 .. cursor
      BY <2>1, <2>2 DEF Numbered
    <2>4. cur \in DOMAIN LogView
      BY <2>2, <2>3, ViewSeq DEF LogView
    <2>5. EventAt(events, cur) = ev
      BY <2>1, <2>2, EventAtIs
    <2>6. LogView[cur] = EntryOf(ev)
      BY <2>2, <2>3, <2>5, ViewAt DEF LogView
    <2>7. LogView[cur].id = tx[h].req.id
      BY <2>1, <2>6 DEF EntryOf
    <2>8. AckView' = AckView \cup {[id |-> tx[h].req.id, cursor |-> cur]}
      <3> DEFINE r == [req |-> tx[h].req, cursor |-> cur]
                 Cursored(S) == {b \in S : b.cursor # 0}
                 Answer(a) == [id |-> a.req.id, cursor |-> a.cursor]
      <3>1. Cursored(acks \cup {r}) = Cursored(acks) \cup {r}
        BY <1>4
      <3>2. Answer(r) = [id |-> tx[h].req.id, cursor |-> cur]
        OBVIOUS
      <3> HIDE DEF r, Cursored
      <3>3. {Answer(a) : a \in Cursored(acks) \cup {r}} = {Answer(a) : a \in Cursored(acks)} \cup {Answer(r)}
        OBVIOUS
      <3>4. AckView = {Answer(a) : a \in Cursored(acks)}
        BY DEF AckView, Cursored
      <3>5. AckView' = {Answer(a) : a \in Cursored(acks \cup {r})}
        BY <1>1 DEF AckView, Cursored, r
      <3> QED
        BY <3>1, <3>2, <3>3, <3>4, <3>5
    <2> QED
      BY <1>2, <2>4, <2>7, <2>8 DEF Log!Acknowledge
  <1> QED
    BY <1>3, <1>4

(* Every step of the store is a step of the log, or of nothing it shows.   *)
LEMMA NextRefines ==
  ASSUME TypeInv, LogInv, [Next]_vars
  PROVE  [Log!Next]_(Log!vars)
  <1> SUFFICES Log!Record \/ Log!Acknowledge \/ UNCHANGED <<LogView, AckView>>
    BY DEF Log!Next, Log!vars
  <1>1. ASSUME UNCHANGED <<cursor, events, acks>> PROVE UNCHANGED <<LogView, AckView>>
    BY <1>1 DEF LogView, AckView
  <1>2. ASSUME NEW h \in Handlers, Step(h)
        PROVE  Log!Record \/ Log!Acknowledge \/ UNCHANGED <<LogView, AckView>>
    <2>1. CASE Quiet(h) \/ Claims(h)
      BY <1>1, <2>1 DEF Quiet, Claims
    <2>2. CASE Commit(h)
      BY <2>2, CommitRecords
    <2>3. CASE \E cur \in Nat : Acknowledges(h, cur)
      BY <2>3, AnswerAcknowledges
    <2> QED
      BY <1>2, <2>1, <2>2, <2>3, StepEffect
  <1>3. ASSUME NEW h \in Handlers, NEW q \in Requests, Receive(h, q) PROVE UNCHANGED <<LogView, AckView>>
    BY <1>1, <1>3 DEF Receive, Advance, dbVars
  <1>4. ASSUME NEW h \in Handlers, Abandon(h) PROVE UNCHANGED <<LogView, AckView>>
    BY <1>1, <1>4 DEF Abandon, Advance, dbVars
  <1>5. CASE ExpireReceipt
    BY <1>1, <1>5 DEF ExpireReceipt
  <1>6. ASSUME NEW r \in Readers, Replay(r) PROVE UNCHANGED <<LogView, AckView>>
    BY <1>1, <1>6 DEF Replay, ReadCursor, ReadEvents, FinishReplay, dbVars
  <1>7. CASE UNCHANGED vars
    BY <1>1, <1>7 DEF vars, dbVars
  <1> QED
    BY <1>2, <1>3, <1>4, <1>5, <1>6, <1>7 DEF Next

(* The store implements the log, for every instance: nobody who sees the   *)
(* committed events and the answers can tell it from a server that does    *)
(* one thing at a time.                                                    *)
THEOREM StoreImplementsLog == Spec => ImplementsLog
  <1>1. TypeInv /\ LogInv /\ [Next]_vars => [Log!Next]_(Log!vars)
    BY NextRefines
  <1> QED
    BY <1>1, Invariants, InitRefines, PTL DEF Spec, ImplementsLog, Log!Spec

--------------------------------------------------------------------------------
(***************************************************************************)
(* What the row, scope and key locks of SyncStore protect, proved for      *)
(* every number of handlers, entities, folders, event ids and requests:    *)
(* the log tells the rows, a PATCH keeps the fields it does not set, the   *)
(* scope order leaves no deadlock among PATCHes that respect it but for    *)
(* the rows of their target folders, and an acknowledged POST or DELETE is *)
(* never refused.                                                          *)
(***************************************************************************)

(***************************************************************************)
(* What a transaction t that has come to a stage has locked and may rely   *)
(* on.  Between its row lock and its commit it is Writing; an insertion is *)
(* a POST that is.                                                         *)
(***************************************************************************)
Writing == {"reordering", "recorded"}
Locking == {"rowlocked", "preparing"} \cup Writing

Inserting(stage, t) == stage \in Writing /\ t.req.op = "create"

RowsOK(stage, t) ==
  /\ stage \notin Locking => t.rows = {} /\ t.todo = {}
  /\ stage = "recorded" => t.todo = {}
  /\ stage = "checked" => t.req.op = "delete"
  /\ stage \in {"idle", "refused", "received", "keyed"} => t.entity = Nobody
  /\ \A s \in t.rows \cup t.todo : status[s] # "absent" \/ s = t.entity
  /\ stage \in Writing => t.entity \in t.rows
  /\ Inserting(stage, t) => status[t.entity] = "absent"
  /\ ~ Inserting(stage, t) /\ t.entity # Nobody => status[t.entity] # "absent"

(* A PATCH has its scopes in ascending order, then its row, then that of   *)
(* the folder it goes to, then the rows of siblings in those scopes; a     *)
(* field that it does not set is the row's.                                *)
PatchOK(stage, t) ==
  t.req # Nobody /\ t.req.op = "patch" =>
    /\ stage = "discovered" => \A p \in t.scopes, o \in t.wanted \ t.scopes : p < o
    /\ stage \in {"discovered", "rowlocked", "preparing"} =>
         /\ t.target \in t.wanted
         /\ t.target = t.req.place \/ (t.req.place = Keep /\ t.wanted = {t.target})
    /\ stage \in Locking =>
         /\ t.entity \in t.rows /\ status[t.entity] = "live"
         /\ t.scopes = t.wanted
         /\ \A s \in (t.rows \ {t.entity, ParentOf(t)}) \cup t.todo :
              shape[s].place \in t.scopes
    /\ stage \in Writing =>
         /\ shape[t.entity].place \in t.scopes
         /\ \A f \in {"title", "place"} : t.req[f] = Keep => t.final[f] = shape[t.entity][f]

ScopesOK(stage, t) ==
  /\ stage \notin {"discovered"} \cup Locking => t.scopes = {}
  /\ t.req # Nobody /\ t.req.op # "patch" => t.scopes = {}

Own(stage, t) == RowsOK(stage, t) /\ PatchOK(stage, t) /\ ScopesOK(stage, t)

(* Two transactions have no lock in common, nor the row that one inserts.  *)
Apart(stage, t, g) ==
  /\ t.rows \cap tx[g].rows = {}
  /\ t.scopes \cap tx[g].scopes = {}
  /\ Inserting(stage, t) \/ Inserting(pc[g], tx[g]) => t.entity # tx[g].entity

LockInv ==
  \A h \in Handlers :
    /\ Own(pc[h], tx[h])
    /\ \A g \in Handlers \ {h} : Apart(pc[h], tx[h], g)

(* Before the first request nothing is locked.                             *)
LEMMA LockInit == Init => LockInv
  BY DEF Init, LockInv, Own, RowsOK, PatchOK, ScopesOK, Apart, Inserting, Writing, Locking, NoTx

(***************************************************************************)
(* A step that writes only its handler's private record.                   *)
(***************************************************************************)
Local(h, stage, t) ==
  /\ pc' = [pc EXCEPT ![h] = stage]
  /\ tx' = [tx EXCEPT ![h] = t]
  /\ UNCHANGED <<cursor, events, status, shape>>

LEMMA AdvanceIsLocal ==
  ASSUME NEW h, NEW stage, NEW t, Advance(h, stage, t)
  PROVE  Local(h, stage, t)
  BY DEF Advance, Local, dbVars

(* What such a step has to show: its own record, and that it stays apart.  *)
LEMMA LocalLocks ==
  ASSUME TypeInv, LockInv, NEW h \in Handlers, NEW stage, NEW t, Local(h, stage, t),
         Own(stage, t), \A g \in Handlers \ {h} : Apart(stage, t, g)
  PROVE  LockInv'
  <1>1. pc'[h] = stage /\ tx'[h] = t /\ status' = status /\ shape' = shape
    BY DEF Local, TypeInv, TypeOK
  <1>2. \A g \in Handlers \ {h} : pc'[g] = pc[g] /\ tx'[g] = tx[g]
    BY DEF Local, TypeInv, TypeOK
  <1>3. ASSUME NEW g \in Handlers PROVE Own(pc[g], tx[g])'
    BY <1>1, <1>2 DEF LockInv, Own, RowsOK, PatchOK, ScopesOK, Inserting
  <1>4. ASSUME NEW g \in Handlers, NEW o \in Handlers \ {g} PROVE Apart(pc[g], tx[g], o)'
    BY <1>1, <1>2 DEF LockInv, Apart, Inserting
  <1> QED
    BY <1>3, <1>4 DEF LockInv

(* A transaction that ends gives everything up.                            *)
LEMMA QuitLocks ==
  ASSUME TypeInv, LockInv, NEW h \in Handlers, NEW stage \in {"idle", "refused"},
         Local(h, stage, NoTx)
  PROVE  LockInv'
  <1>1. Own(stage, NoTx)
    BY DEF Own, RowsOK, PatchOK, ScopesOK, Inserting, Writing, Locking, NoTx
  <1>2. ASSUME NEW g \in Handlers \ {h} PROVE Apart(stage, NoTx, g)
    <2>1. tx[g] \in TxType
      BY DEF TypeInv, TypeOK
    <2>2. Inserting(pc[g], tx[g]) => tx[g].entity \in Entities
      BY DEF TypeInv, TxOK, Inserting, Writing
    <2> QED
      BY <2>1, <2>2, StoreAssumption DEF Apart, Inserting, Writing, NoTx
  <1> QED
    BY <1>1, <1>2, LocalLocks

(* A request arrives.                                                      *)
LEMMA ReceiveLocks ==
  ASSUME TypeInv, LockInv, NEW h \in Handlers, NEW q \in Requests, Receive(h, q)
  PROVE  LockInv'
  <1> DEFINE t == [NoTx EXCEPT !.req = q]
  <1>1. /\ t.req = q /\ t.entity = Nobody /\ t.rows = {} /\ t.todo = {}
        /\ t.scopes = {} /\ t.wanted = {}
    BY DEF NoTx
  <1>2. Local(h, "received", t)
    BY AdvanceIsLocal DEF Receive
  <1> HIDE DEF t
  <1>3. Own("received", t)
    BY <1>1 DEF Own, RowsOK, PatchOK, ScopesOK, Inserting, Writing, Locking
  <1>4. ASSUME NEW g \in Handlers \ {h} PROVE Apart("received", t, g)
    <2>1. Inserting(pc[g], tx[g]) => tx[g].entity \in Entities
      BY DEF TypeInv, TxOK, Inserting, Writing
    <2> QED
      BY <1>1, <2>1, StoreAssumption DEF Apart, Inserting, Writing
  <1> QED
    BY <1>2, <1>3, <1>4, LocalLocks

(* The event key or receipt key is free.                                   *)
LEMMA KeyLocks ==
  ASSUME TypeInv, LockInv, NEW h \in Handlers, pc[h] = "received", Advance(h, "keyed", tx[h])
  PROVE  LockInv'
  <1>1. Own("keyed", tx[h])
    BY DEF LockInv, Own, RowsOK, PatchOK, ScopesOK, Inserting, Writing, Locking
  <1>2. ASSUME NEW g \in Handlers \ {h} PROVE Apart("keyed", tx[h], g)
    BY DEF LockInv, Apart, Inserting, Writing
  <1> QED
    BY <1>1, <1>2, AdvanceIsLocal, LocalLocks

(* A POST inserts a row that no transaction knows.                         *)
LEMMA CreateLocks ==
  ASSUME TypeInv, LockInv, NEW h \in Handlers, CreateApply(h)
  PROVE  LockInv'
  <1>1. tx[h] \in TxType /\ tx[h].req \in Requests /\ tx[h].req.op = "create" /\ pc[h] = "keyed"
    BY DEF TypeInv, TypeOK, TxOK, CreateApply
  <1> DEFINE shp == [title |-> tx[h].req.title, place |-> tx[h].req.place]
  <1> HIDE DEF shp
  <1>2. PICK e \in FreshEntities :
          Advance(h, "reordering", [tx[h] EXCEPT !.entity = e, !.final = shp, !.rows = {e},
                                                 !.todo = Siblings(e, tx[h].req.place)])
    BY DEF CreateApply, shp
  <1> DEFINE t == [tx[h] EXCEPT !.entity = e, !.final = shp, !.rows = {e},
                                !.todo = Siblings(e, tx[h].req.place)]
  <1>3. /\ t.req = tx[h].req /\ t.entity = e /\ t.rows = {e} /\ t.scopes = tx[h].scopes
        /\ t.todo = Siblings(e, tx[h].req.place)
    BY <1>1 DEF TxType
  <1>4. Local(h, "reordering", t)
    BY <1>2, AdvanceIsLocal
  <1> HIDE DEF t
  <1>5. e \in Entities /\ status[e] = "absent" /\ \A g \in Handlers : tx[g].entity # e
    BY DEF FreshEntities
  <1>6. tx[h].scopes = {} /\ t.req # Nobody
    BY <1>1, <1>3, StoreAssumption DEF TypeInv, TxOK
  <1>7. Own("reordering", t)
    <2>1. RowsOK("reordering", t)
      BY <1>1, <1>3, <1>5 DEF RowsOK, Inserting, Writing, Locking, Siblings
    <2>2. PatchOK("reordering", t) /\ ScopesOK("reordering", t)
      BY <1>1, <1>3, <1>6 DEF PatchOK, ScopesOK, Writing, Locking
    <2> QED
      BY <2>1, <2>2 DEF Own
  <1>8. ASSUME NEW g \in Handlers \ {h} PROVE Apart("reordering", t, g)
    <2>1. e \notin tx[g].rows
      BY <1>5 DEF LockInv, Own, RowsOK
    <2> QED
      BY <1>3, <1>5, <1>6, <2>1 DEF Apart
  <1> QED
    BY <1>4, <1>7, <1>8, LocalLocks

(* A DELETE finds its row live ...                                         *)
LEMMA CheckLocks ==
  ASSUME TypeInv, LockInv, NEW h \in Handlers, DeleteCheck(h), ~ Refuse(h)
  PROVE  LockInv'
  <1>1. /\ tx[h] \in TxType /\ tx[h].req \in Requests /\ tx[h].req.op = "delete"
        /\ pc[h] = "keyed" /\ status[tx[h].req.entity] = "live"
    BY DEF TypeInv, TypeOK, TxOK, DeleteCheck
  <1> DEFINE t == [tx[h] EXCEPT !.entity = tx[h].req.entity, !.final = shape[tx[h].req.entity]]
  <1>2. /\ t.req = tx[h].req /\ t.entity = tx[h].req.entity /\ t.rows = tx[h].rows
        /\ t.scopes = tx[h].scopes /\ t.todo = tx[h].todo
    BY <1>1 DEF TxType
  <1>3. Local(h, "checked", t)
    BY AdvanceIsLocal DEF DeleteCheck
  <1> HIDE DEF t
  <1>4. tx[h].scopes = {} /\ tx[h].rows = {} /\ tx[h].todo = {}
    BY <1>1 DEF TypeInv, TxOK, LockInv, Own, RowsOK, Writing, Locking
  <1>5. Own("checked", t)
    BY <1>1, <1>2, <1>4 DEF Own, RowsOK, PatchOK, ScopesOK, Inserting, Writing, Locking
  <1>6. ASSUME NEW g \in Handlers \ {h} PROVE Apart("checked", t, g)
    BY <1>1, <1>2, <1>4 DEF Apart, Inserting, Writing, LockInv, Own, RowsOK
  <1> QED
    BY <1>3, <1>5, <1>6, LocalLocks

(* ... and waits for it.                                                   *)
LEMMA DeleteLocks ==
  ASSUME TypeInv, LockInv, NEW h \in Handlers, DeleteApply(h)
  PROVE  LockInv'
  <1> DEFINE e == tx[h].entity
             t == [tx[h] EXCEPT !.rows = {e}, !.todo = Siblings(e, tx[h].final.place)]
  <1>1. /\ tx[h] \in TxType /\ tx[h].req \in Requests /\ e \in Entities /\ pc[h] = "checked"
        /\ RowFree(h, e)
    BY DEF TypeInv, TypeOK, TxOK, DeleteApply
  <1>2. /\ t.req = tx[h].req /\ t.entity = e /\ t.rows = {e} /\ t.scopes = tx[h].scopes
        /\ t.todo = Siblings(e, tx[h].final.place)
    BY <1>1 DEF TxType
  <1>3. Local(h, "reordering", t)
    BY AdvanceIsLocal DEF DeleteApply
  <1> HIDE DEF t
  <1>4. tx[h].scopes = {} /\ status[e] # "absent" /\ e # Nobody /\ tx[h].req # Nobody
    BY <1>1, StoreAssumption DEF LockInv, Own, RowsOK, ScopesOK, Inserting, Writing, Locking
  <1>5. tx[h].req.op = "delete"
    BY <1>1 DEF LockInv, Own, RowsOK
  <1>6. Own("reordering", t)
    <2>1. RowsOK("reordering", t)
      BY <1>2, <1>4, <1>5 DEF RowsOK, Inserting, Writing, Locking, Siblings
    <2>2. PatchOK("reordering", t) /\ ScopesOK("reordering", t)
      BY <1>2, <1>4, <1>5 DEF PatchOK, ScopesOK, Writing, Locking
    <2> QED
      BY <2>1, <2>2 DEF Own
  <1>7. ASSUME NEW g \in Handlers \ {h} PROVE Apart("reordering", t, g)
    BY <1>1, <1>2, <1>4, <1>5 DEF Apart, Inserting, Writing, RowFree, LockInv
  <1> QED
    BY <1>3, <1>6, <1>7, LocalLocks

(* A PATCH reads its row without a lock.                                   *)
LEMMA DiscoverLocks ==
  ASSUME TypeInv, LockInv, NEW h \in Handlers, PatchDiscover(h), ~ Refuse(h)
  PROVE  LockInv'
  <1> DEFINE q == tx[h].req
             s == shape[q.entity]
             t == [tx[h] EXCEPT !.entity = q.entity, !.target = Merge(q, s).place,
                                !.wanted = Scopes(q, s)]
  <1>1. /\ tx[h] \in TxType /\ q \in Requests /\ q.op = "patch" /\ pc[h] = "keyed"
        /\ status[q.entity] = "live"
    BY DEF TypeInv, TypeOK, TxOK, PatchDiscover
  <1>2. /\ t.req = q /\ t.entity = q.entity /\ t.rows = tx[h].rows /\ t.todo = tx[h].todo
        /\ t.scopes = tx[h].scopes
        /\ t.target = Merge(q, s).place /\ t.wanted = {s.place, Merge(q, s).place}
    BY <1>1 DEF TxType, Scopes
  <1>3. Local(h, "discovered", t)
    BY AdvanceIsLocal DEF PatchDiscover
  <1> HIDE DEF t
  <1>4. tx[h].scopes = {} /\ tx[h].rows = {} /\ tx[h].todo = {}
    BY <1>1 DEF TypeInv, TxOK, LockInv, Own, RowsOK, Writing, Locking
  <1>5. t.target = q.place \/ (q.place = Keep /\ t.wanted = {t.target})
    BY <1>2 DEF Merge
  <1>6. Own("discovered", t)
    <2>1. RowsOK("discovered", t) /\ ScopesOK("discovered", t)
      BY <1>1, <1>2, <1>4 DEF RowsOK, ScopesOK, Inserting, Writing, Locking
    <2>2. PatchOK("discovered", t)
      <3>1. t.target \in t.wanted /\ t.req = q /\ t.scopes = {}
        BY <1>2, <1>4
      <3>2. "discovered" \notin Locking /\ "discovered" \notin Writing
        BY DEF Writing, Locking
      <3> QED
        BY <1>5, <3>1, <3>2 DEF PatchOK
    <2> QED
      BY <2>1, <2>2 DEF Own
  <1>7. ASSUME NEW g \in Handlers \ {h} PROVE Apart("discovered", t, g)
    BY <1>1, <1>2, <1>4 DEF Apart, Inserting, Writing, LockInv, Own, RowsOK
  <1> QED
    BY <1>3, <1>6, <1>7, LocalLocks

(* The next scope of a PATCH is the least of those it still wants.         *)
LEMMA NextScopeLeast ==
  ASSUME TypeInv, NEW h \in Handlers, pc[h] = "discovered", tx[h].wanted # tx[h].scopes
  PROVE  /\ NextScope(tx[h]) \in tx[h].wanted \ tx[h].scopes
         /\ \A o \in tx[h].wanted \ tx[h].scopes : NextScope(tx[h]) <= o
  <1>1. /\ tx[h].scopes \subseteq tx[h].wanted /\ tx[h].wanted \ tx[h].scopes # {}
        /\ \E a, b \in Places : tx[h].wanted = {a, b}
    BY DEF TypeInv, TxOK
  <1>2. \E x \in tx[h].wanted \ tx[h].scopes : \A o \in tx[h].wanted \ tx[h].scopes : x <= o
    BY <1>1, StoreAssumption
  <1> QED
    BY <1>2 DEF NextScope

(* A PATCH locks its scopes in ascending order.                            *)
LEMMA ScopeLocks ==
  ASSUME TypeInv, LockInv, NEW h \in Handlers, PatchLockScope(h)
  PROVE  LockInv'
  <1> DEFINE p == NextScope(tx[h])
             t == [tx[h] EXCEPT !.scopes = @ \cup {p}]
  <1>1. /\ tx[h] \in TxType /\ pc[h] = "discovered" /\ tx[h].req.op = "patch" /\ ScopeFree(h, p)
        /\ tx[h].wanted \subseteq Nat /\ tx[h].req # Nobody
    BY StoreAssumption DEF TypeInv, TypeOK, TxOK, TxType, PatchLockScope
  <1>2. p \in tx[h].wanted \ tx[h].scopes /\ \A o \in tx[h].wanted \ tx[h].scopes : p <= o
    BY NextScopeLeast DEF PatchLockScope
  <1>3. /\ t.req = tx[h].req /\ t.entity = tx[h].entity /\ t.rows = tx[h].rows
        /\ t.todo = tx[h].todo /\ t.scopes = tx[h].scopes \cup {p}
        /\ t.target = tx[h].target /\ t.wanted = tx[h].wanted
    BY <1>1 DEF TxType
  <1>4. Local(h, "discovered", t)
    BY AdvanceIsLocal DEF PatchLockScope
  <1> HIDE DEF t, p
  <1>5. Own("discovered", t)
    <2>1. Own("discovered", tx[h])
      BY <1>1 DEF LockInv
    <2>2. RowsOK("discovered", t) /\ ScopesOK("discovered", t)
      BY <1>1, <1>3, <2>1 DEF Own, RowsOK, ScopesOK, Inserting, Writing, Locking
    <2>3. \A x \in t.scopes, o \in t.wanted \ t.scopes : x < o
      BY <1>1, <1>2, <1>3, <2>1 DEF Own, PatchOK
    <2>4. PatchOK("discovered", t)
      BY <1>3, <2>1, <2>3 DEF Own, PatchOK, Writing, Locking
    <2> QED
      BY <2>2, <2>4 DEF Own
  <1>6. ASSUME NEW g \in Handlers \ {h} PROVE Apart("discovered", t, g)
    <2>1. Apart("discovered", tx[h], g)
      BY <1>1 DEF LockInv
    <2> QED
      BY <1>1, <1>3, <2>1 DEF Apart, Inserting, Writing, ScopeFree
  <1> QED
    BY <1>4, <1>5, <1>6, LocalLocks

(* It locks its row and reads it again ...                                 *)
LEMMA RowLocks ==
  ASSUME TypeInv, LockInv, NEW h \in Handlers, PatchLockRow(h), ~ Refuse(h)
  PROVE  LockInv'
  <1> DEFINE e == tx[h].entity
             t == [tx[h] EXCEPT !.rows = {e}]
  <1>1. /\ tx[h] \in TxType /\ pc[h] = "discovered" /\ tx[h].req.op = "patch"
        /\ RowFree(h, e) /\ status[e] = "live" /\ tx[h].wanted = tx[h].scopes
    BY DEF TypeInv, TypeOK, TxOK, PatchLockRow
  <1>2. /\ t.req = tx[h].req /\ t.entity = e /\ t.rows = {e} /\ t.scopes = tx[h].scopes
        /\ t.todo = tx[h].todo /\ t.target = tx[h].target /\ t.wanted = tx[h].wanted
    BY <1>1 DEF TxType
  <1>3. Local(h, "rowlocked", t)
    BY AdvanceIsLocal DEF PatchLockRow
  <1> HIDE DEF t
  <1>4. Own("discovered", tx[h])
    BY <1>1 DEF LockInv
  <1>5. tx[h].req # Nobody /\ tx[h].todo = {}
    BY <1>1, <1>4, StoreAssumption DEF TypeInv, TxOK, Own, RowsOK, Locking, Writing
  <1>6. Own("rowlocked", t)
    <2>1. RowsOK("rowlocked", t) /\ ScopesOK("rowlocked", t)
      BY <1>1, <1>2, <1>4, <1>5 DEF Own, RowsOK, ScopesOK, Inserting, Writing, Locking
    <2>2. PatchOK("rowlocked", t)
      BY <1>1, <1>2, <1>4, <1>5 DEF Own, PatchOK, Writing, Locking
    <2> QED
      BY <2>1, <2>2 DEF Own
  <1>7. ASSUME NEW g \in Handlers \ {h} PROVE Apart("rowlocked", t, g)
    <2>1. Apart("discovered", tx[h], g)
      BY <1>1 DEF LockInv
    <2> QED
      BY <1>1, <1>2, <2>1 DEF Apart, Inserting, Writing, RowFree
  <1> QED
    BY <1>3, <1>6, <1>7, LocalLocks

(* ... and then the row of the folder it goes to.                          *)
LEMMA ParentLocks ==
  ASSUME TypeInv, LockInv, NEW h \in Handlers, PatchLockParent(h), ~ Refuse(h)
  PROVE  LockInv'
  <1> DEFINE e == tx[h].entity
             f == ParentOf(tx[h])
             more == {f} \ {Nobody}
             t == [tx[h] EXCEPT !.rows = @ \cup more, !.todo = Siblings(e, tx[h].target)]
  <1>1. /\ tx[h] \in TxType /\ pc[h] = "rowlocked" /\ tx[h].req.op = "patch"
        /\ tx[h].target \in Places /\ RowFree(h, f) /\ Standing(tx[h].target)
    BY DEF TypeInv, TypeOK, TxOK, PatchLockParent
  <1>2. Local(h, "preparing", t)
    BY AdvanceIsLocal DEF PatchLockParent
  <1>3. Own("rowlocked", tx[h]) /\ tx[h].req # Nobody
    BY <1>1, StoreAssumption DEF LockInv, TypeInv, TxOK
  <1>4. \A s \in more : s = ParentOf(tx[h]) /\ status[s] # "absent"
    BY <1>1, StoreAssumption DEF ParentOf, Standing
  <1>5. \A s \in more : RowFree(h, s)
    BY <1>1
  <1> HIDE DEF more
  <1>6. /\ t.req = tx[h].req /\ t.entity = e /\ t.rows = tx[h].rows \cup more
        /\ t.scopes = tx[h].scopes /\ t.todo = Siblings(e, tx[h].target)
        /\ t.target = tx[h].target /\ t.wanted = tx[h].wanted
    BY <1>1 DEF TxType
  <1>7. ParentOf(t) = ParentOf(tx[h])
    BY <1>6 DEF ParentOf
  <1> HIDE DEF t, f
  <1>8. Own("preparing", t)
    <2>1. RowsOK("preparing", t) /\ ScopesOK("preparing", t)
      BY <1>1, <1>3, <1>4, <1>6 DEF Own, RowsOK, ScopesOK, Inserting, Writing, Locking, Siblings
    <2>2. \A s \in (t.rows \ {t.entity, ParentOf(t)}) \cup t.todo : shape[s].place \in t.scopes
      BY <1>1, <1>3, <1>4, <1>6, <1>7 DEF Own, PatchOK, Locking, Siblings
    <2>3. PatchOK("preparing", t)
      BY <1>1, <1>3, <1>6, <2>2 DEF Own, PatchOK, Writing, Locking
    <2> QED
      BY <2>1, <2>3 DEF Own
  <1>9. ASSUME NEW g \in Handlers \ {h} PROVE Apart("preparing", t, g)
    <2>1. Apart("rowlocked", tx[h], g)
      BY <1>1 DEF LockInv
    <2> QED
      BY <1>1, <1>5, <1>6, <2>1 DEF Apart, Inserting, Writing, RowFree
  <1> QED
    BY <1>2, <1>8, <1>9, LocalLocks

(* One sibling more.                                                       *)
LEMMA SiblingLocks ==
  ASSUME TypeInv, LockInv, NEW h \in Handlers, LockSibling(h)
  PROVE  LockInv'
  <1>1. PICK s \in tx[h].todo :
          /\ RowFree(h, s)
          /\ Advance(h, pc[h], [tx[h] EXCEPT !.rows = @ \cup {s}, !.todo = @ \ {s}])
    BY DEF LockSibling
  <1> DEFINE t == [tx[h] EXCEPT !.rows = @ \cup {s}, !.todo = @ \ {s}]
  <1>2. tx[h] \in TxType /\ pc[h] \in {"preparing", "reordering"}
    BY DEF TypeInv, TypeOK, LockSibling
  <1>3. /\ t.req = tx[h].req /\ t.entity = tx[h].entity /\ t.rows = tx[h].rows \cup {s}
        /\ t.todo = tx[h].todo \ {s} /\ t.scopes = tx[h].scopes
        /\ t.target = tx[h].target /\ t.wanted = tx[h].wanted /\ t.final = tx[h].final
    BY <1>2 DEF TxType
  <1>4. Local(h, pc[h], t)
    BY <1>1, AdvanceIsLocal
  <1> HIDE DEF t
  <1>5. Own(pc[h], t)
    <2>1. Own(pc[h], tx[h])
      BY DEF LockInv
    <2>2. RowsOK(pc[h], t) /\ ScopesOK(pc[h], t)
      BY <1>2, <1>3, <2>1 DEF Own, RowsOK, ScopesOK, Inserting, Writing, Locking
    <2>3. ParentOf(t) = ParentOf(tx[h])
      BY <1>3 DEF ParentOf
    <2>4. PatchOK(pc[h], t)
      BY <1>2, <1>3, <2>1, <2>3 DEF Own, PatchOK, Writing, Locking
    <2> QED
      BY <2>2, <2>4 DEF Own
  <1>6. ASSUME NEW g \in Handlers \ {h} PROVE Apart(pc[h], t, g)
    <2>1. Apart(pc[h], tx[h], g)
      BY DEF LockInv
    <2> QED
      BY <1>1, <1>3, <2>1 DEF Apart, Inserting, RowFree
  <1> QED
    BY <1>4, <1>5, <1>6, LocalLocks

(* A PATCH that is still in the scopes it has locked merges its fields.    *)
LEMMA ApplyLocks ==
  ASSUME TypeInv, LockInv, NEW h \in Handlers, PatchApply(h)
  PROVE  LockInv'
  <1> DEFINE e == tx[h].entity
             from == shape[e].place
             todo == IF from = tx[h].target THEN {} ELSE Siblings(e, from)
             t == [tx[h] EXCEPT !.final = Final(h), !.todo = todo]
  <1>1. /\ tx[h] \in TxType /\ pc[h] = "preparing" /\ tx[h].req.op = "patch"
        /\ InScope(h) /\ tx[h].req # Nobody
    BY StoreAssumption DEF TypeInv, TypeOK, TxOK, PatchApply, Prepared
  <1>2. Own("preparing", tx[h])
    BY <1>1 DEF LockInv
  <1>3. /\ \A s \in todo : status[s] = "live" /\ shape[s].place = from
        /\ from \in tx[h].scopes
    BY <1>1, <1>2 DEF Siblings, InScope, Scopes, Own, PatchOK, Locking
  <1>4. Local(h, "reordering", t)
    BY AdvanceIsLocal DEF PatchApply
  <1> HIDE DEF todo
  <1>5. /\ t.req = tx[h].req /\ t.entity = e /\ t.rows = tx[h].rows /\ t.todo = todo
        /\ t.scopes = tx[h].scopes /\ t.wanted = tx[h].wanted /\ t.final = Final(h)
        /\ t.target = tx[h].target
    BY <1>1 DEF TxType
  <1> HIDE DEF t
  <1>6. \A f \in {"title", "place"} : tx[h].req[f] = Keep => t.final[f] = shape[e][f]
    <2>1. tx[h].req.title = Keep => t.final.title = shape[e].title
      BY <1>5 DEF Final, Merge
    <2>2. tx[h].req.place = Keep => tx[h].wanted = {tx[h].target}
      BY <1>1, <1>2, StoreAssumption DEF Own, PatchOK, TypeInv, TxOK
    <2>3. tx[h].req.place = Keep => t.final.place = shape[e].place
      BY <1>1, <1>5, <2>2 DEF Final, InScope, Scopes
    <2> QED
      BY <2>1, <2>3
  <1>7. Own("reordering", t)
    <2>1. RowsOK("reordering", t) /\ ScopesOK("reordering", t)
      BY <1>1, <1>2, <1>3, <1>5 DEF Own, RowsOK, PatchOK, ScopesOK, Inserting, Writing, Locking
    <2>2. ParentOf(t) = ParentOf(tx[h])
      BY <1>5 DEF ParentOf
    <2>3. PatchOK("reordering", t)
      BY <1>1, <1>2, <1>3, <1>5, <1>6, <2>2 DEF Own, PatchOK, Writing, Locking
    <2> QED
      BY <2>1, <2>3 DEF Own
  <1>8. ASSUME NEW g \in Handlers \ {h} PROVE Apart("reordering", t, g)
    <2>1. Apart("preparing", tx[h], g)
      BY <1>1 DEF LockInv
    <2> QED
      BY <1>1, <1>5, <2>1 DEF Apart, Inserting, Writing
  <1> QED
    BY <1>4, <1>7, <1>8, LocalLocks

(* The event is inserted under the next cursor.                            *)
LEMMA RecordLocks ==
  ASSUME TypeInv, LockInv, NEW h \in Handlers, RecordEvent(h), ~ Refuse(h)
  PROVE  LockInv'
  <1> DEFINE t == [tx[h] EXCEPT !.claimed = cursor + 1]
  <1>1. tx[h] \in TxType /\ pc[h] = "reordering" /\ tx[h].todo = {}
    BY DEF TypeInv, TypeOK, RecordEvent
  <1>2. /\ t.req = tx[h].req /\ t.entity = tx[h].entity /\ t.rows = tx[h].rows
        /\ t.todo = tx[h].todo /\ t.scopes = tx[h].scopes /\ t.wanted = tx[h].wanted
        /\ t.final = tx[h].final /\ t.target = tx[h].target
    BY <1>1 DEF TxType
  <1>3. Local(h, "recorded", t)
    BY AdvanceIsLocal DEF RecordEvent
  <1> HIDE DEF t
  <1>4. Own("recorded", t)
    <2>1. Own("reordering", tx[h])
      BY <1>1 DEF LockInv
    <2>2. RowsOK("recorded", t) /\ ScopesOK("recorded", t)
      BY <1>1, <1>2, <2>1 DEF Own, RowsOK, ScopesOK, Inserting, Writing, Locking
    <2>3. ParentOf(t) = ParentOf(tx[h])
      BY <1>2 DEF ParentOf
    <2>4. PatchOK("recorded", t)
      BY <1>2, <2>1, <2>3 DEF Own, PatchOK, Writing, Locking
    <2> QED
      BY <2>2, <2>4 DEF Own
  <1>5. ASSUME NEW g \in Handlers \ {h} PROVE Apart("recorded", t, g)
    <2>1. Apart("reordering", tx[h], g)
      BY <1>1 DEF LockInv
    <2> QED
      BY <1>2, <2>1 DEF Apart, Inserting, Writing
  <1> QED
    BY <1>3, <1>4, <1>5, LocalLocks

(***************************************************************************)
(* A commit.  The row it writes is one that no other transaction has       *)
(* locked, inserts or, having locked its folder, is about to renumber.     *)
(***************************************************************************)
Written(h) == tx[h].entity

LEMMA CommitWrites ==
  ASSUME TypeInv, LockInv, NEW h \in Handlers, Commit(h)
  PROVE  /\ tx[h].req \in Requests /\ tx[h].req # Nobody
         /\ tx[h].req.op \in {"create", "delete", "patch"}
         /\ Written(h) \in Entities /\ Written(h) # Nobody
         /\ Own("recorded", tx[h])
         /\ \A e \in Entities : e # Written(h) => status'[e] = status[e] /\ shape'[e] = shape[e]
         /\ tx[h].req.op = "create" =>
              status'[Written(h)] = "live" /\ shape'[Written(h)] = tx[h].final
         /\ tx[h].req.op = "delete" =>
              status'[Written(h)] = "deleted" /\ shape' = shape
         /\ tx[h].req.op = "patch" => status' = status /\ shape'[Written(h)] = tx[h].final
         /\ status'[Written(h)] # "absent"
         /\ pc'[h] = "committed" /\ tx'[h].rows = {} /\ tx'[h].scopes = {} /\ tx'[h].todo = {}
         /\ tx'[h].req = tx[h].req /\ tx'[h].entity = tx[h].entity
         /\ \A g \in Handlers \ {h} : pc'[g] = pc[g] /\ tx'[g] = tx[g]
  <1>1. /\ tx[h] \in TxType /\ pc[h] = "recorded" /\ tx[h].req \in Requests
        /\ Written(h) \in Entities
    BY DEF TypeInv, TypeOK, TxOK, Commit, Written
  <1>2. Own("recorded", tx[h])
    BY <1>1 DEF LockInv
  <1>3. tx[h].req.op \in {"create", "delete", "patch"} /\ tx[h].req # Nobody /\ Written(h) # Nobody
    BY <1>1, RequestFields, StoreAssumption
  <1> DEFINE u == [tx[h] EXCEPT !.scopes = {}, !.rows = {}]
  <1>4. /\ u.req = tx[h].req /\ u.entity = tx[h].entity /\ u.todo = tx[h].todo
        /\ u.rows = {} /\ u.scopes = {}
    BY <1>1 DEF TxType
  <1>5. tx' = [tx EXCEPT ![h] = u]
    BY DEF Commit
  <1> HIDE DEF u
  <1>6. tx'[h] = u /\ \A g \in Handlers \ {h} : tx'[g] = tx[g]
    BY <1>5 DEF TypeInv, TypeOK
  <1>7. pc'[h] = "committed" /\ \A g \in Handlers \ {h} : pc'[g] = pc[g]
    BY DEF Commit, TypeInv, TypeOK
  <1>8. /\ \A e \in Entities : e # Written(h) => status'[e] = status[e] /\ shape'[e] = shape[e]
        /\ tx[h].req.op = "create" => status'[Written(h)] = "live" /\ shape'[Written(h)] = tx[h].final
        /\ tx[h].req.op = "delete" => status'[Written(h)] = "deleted" /\ shape' = shape
        /\ tx[h].req.op = "patch" => status' = status /\ shape'[Written(h)] = tx[h].final
    BY <1>1, <1>3 DEF Commit, TypeInv, TypeOK, Written
  <1>9. status'[Written(h)] # "absent"
    <2>1. CASE tx[h].req.op = "patch"
      BY <1>2, <1>3, <1>8, <2>1 DEF Own, PatchOK, Locking, Writing, Written
    <2> QED
      BY <1>3, <1>8, <2>1
  <1>10. tx[h].todo = {}
    BY <1>2 DEF Own, RowsOK
  <1> QED
    BY <1>1, <1>2, <1>3, <1>4, <1>6, <1>7, <1>8, <1>9, <1>10

(* The rows of the others keep what they were locked for.                  *)
LEMMA CommitKeepsOthers ==
  ASSUME TypeInv, LockInv, NEW h \in Handlers, Commit(h), NEW g \in Handlers \ {h}
  PROVE  Own(pc[g], tx[g])'
  <1> DEFINE w == Written(h)
  <1>1. Own(pc[g], tx[g]) /\ Apart(pc[h], tx[h], g) /\ tx[g] \in TxType
    BY DEF LockInv, TypeInv, TypeOK
  <1>2. /\ w \in Entities /\ w # Nobody /\ tx[h].req # Nobody /\ Own("recorded", tx[h])
        /\ \A e \in Entities : e # w => status'[e] = status[e] /\ shape'[e] = shape[e]
        /\ status'[w] # "absent" /\ pc'[g] = pc[g] /\ tx'[g] = tx[g]
        /\ tx[h].req.op \in {"create", "delete", "patch"}
        /\ tx[h].req.op = "delete" => shape' = shape
    BY CommitWrites
  <1>3. w \in tx[h].rows /\ w = tx[h].entity /\ pc[h] = "recorded"
    BY <1>2 DEF Own, RowsOK, Writing, Written, Commit
  <1>4. w \notin tx[g].rows /\ (Inserting(pc[g], tx[g]) => tx[g].entity # w)
    BY <1>1, <1>3 DEF Apart
  <1> HIDE DEF w
  <1>5. RowsOK(pc[g], tx[g])'
    <2>1. \A s \in tx[g].rows \cup tx[g].todo : status'[s] # "absent" \/ s = tx[g].entity
      BY <1>1, <1>2 DEF Own, RowsOK, TxType
    <2>2. Inserting(pc[g], tx[g]) => status'[tx[g].entity] = "absent"
      BY <1>1, <1>2, <1>4 DEF Own, RowsOK, TxType, Inserting, TypeInv, TxOK, Writing
    <2>3. ~ Inserting(pc[g], tx[g]) /\ tx[g].entity # Nobody => status'[tx[g].entity] # "absent"
      BY <1>1, <1>2 DEF Own, RowsOK, TxType
    <2> QED
      BY <1>1, <1>2, <2>1, <2>2, <2>3 DEF Own, RowsOK, Inserting
  <1>6. ScopesOK(pc[g], tx[g])'
    BY <1>1, <1>2 DEF Own, ScopesOK
  <1>7. PatchOK(pc[g], tx[g])'
    <2>1. ASSUME tx[g].req # Nobody, tx[g].req.op = "patch", pc[g] \in Locking
          PROVE  /\ status'[tx[g].entity] = status[tx[g].entity]
                 /\ shape'[tx[g].entity] = shape[tx[g].entity]
                 /\ \A s \in tx[g].rows \cup tx[g].todo : shape'[s] = shape[s]
      <3>1. /\ tx[g].entity \in tx[g].rows /\ tx[g].rows \subseteq Entities
            /\ tx[g].todo \subseteq Entities /\ status[tx[g].entity] = "live"
        BY <1>1, <2>1 DEF Own, PatchOK, TxType
      <3>2. ASSUME w \in tx[g].todo PROVE shape'[w] = shape[w]
        <4>1. shape[w].place \in tx[g].scopes
          BY <1>1, <2>1, <3>2 DEF Own, PatchOK
        <4>2. CASE tx[h].req.op = "patch"
          BY <1>1, <1>2, <1>3, <4>1, <4>2 DEF Own, PatchOK, Writing, Apart
        <4>3. CASE tx[h].req.op = "create"
          <5>1. status[w] = "absent"
            BY <1>2, <1>3, <4>3 DEF Own, RowsOK, Inserting, Writing
          <5> QED
            BY <1>1, <3>1, <3>2, <5>1 DEF Own, RowsOK
        <4> QED
          BY <1>2, <4>2, <4>3
      <3> QED
        BY <1>2, <1>4, <3>1, <3>2
    <2> QED
      BY <1>1, <1>2, <2>1 DEF Own, PatchOK, Locking
  <1> QED
    BY <1>5, <1>6, <1>7 DEF Own

LEMMA CommitLocks ==
  ASSUME TypeInv, LockInv, NEW h \in Handlers, Commit(h)
  PROVE  LockInv'
  <1>1. /\ pc'[h] = "committed" /\ tx'[h].rows = {} /\ tx'[h].scopes = {} /\ tx'[h].todo = {}
        /\ tx'[h].entity = Written(h) /\ status'[Written(h)] # "absent"
        /\ \A g \in Handlers \ {h} : pc'[g] = pc[g] /\ tx'[g] = tx[g]
    BY CommitWrites DEF Written
  <1>2. Own(pc[h], tx[h])'
    BY <1>1 DEF Own, RowsOK, PatchOK, ScopesOK, Inserting, Writing, Locking
  <1>3. ASSUME NEW g \in Handlers PROVE Own(pc[g], tx[g])'
    BY <1>2, CommitKeepsOthers
  <1>4. ASSUME NEW g \in Handlers \ {h} PROVE Apart(pc[h], tx[h], g)' /\ Apart(pc[g], tx[g], h)'
    <2>1. tx[h].entity \in tx[h].rows /\ Apart(pc[g], tx[g], h) /\ Own(pc[g], tx[g])
      BY CommitWrites DEF Own, RowsOK, Writing, LockInv
    <2>2. Inserting(pc[g], tx[g]) => tx[g].entity # tx[h].entity
      BY <2>1 DEF Apart
    <2> QED
      BY <1>1, <2>2 DEF Apart, Inserting, Writing, Written
  <1>5. ASSUME NEW g \in Handlers \ {h}, NEW o \in Handlers \ {g, h} PROVE Apart(pc[g], tx[g], o)'
    BY <1>1 DEF LockInv, Apart, Inserting
  <1> QED
    BY <1>3, <1>4, <1>5 DEF LockInv

(* Every step keeps the locks in order.                                    *)
LEMMA LockNext == TypeInv /\ LockInv /\ [Next]_vars => LockInv'
  <1> SUFFICES ASSUME TypeInv, LockInv, [Next]_vars PROVE LockInv'
    OBVIOUS
  <1>1. ASSUME NEW h \in Handlers, Refuse(h) PROVE LockInv'
    BY <1>1, AdvanceIsLocal, QuitLocks DEF Refuse
  <1>2. ASSUME NEW h \in Handlers, Step(h) PROVE LockInv'
    <2>1. ASSUME NEW cur, Acknowledge(h, cur), UNCHANGED <<cursor, events, status, shape>>
          PROVE  LockInv'
      BY <2>1, QuitLocks DEF Acknowledge, Local
    <2>2. CASE LockEventKey(h)
      BY <2>2, KeyLocks DEF LockEventKey
    <2>3. CASE TryReceiptKey(h)
      BY <2>3, KeyLocks, AdvanceIsLocal, QuitLocks DEF TryReceiptKey
    <2>4. CASE AnswerDuplicate(h) \/ PatchReplay(h) \/ PatchNoOp(h) \/ PublishAndAnswer(h)
      BY <2>1, <2>4 DEF AnswerDuplicate, PatchReplay, PatchNoOp, PublishAndAnswer, dbVars
    <2>5. CASE CreateRefused(h) \/ PatchDrifted(h) \/ PatchConflict(h) \/ DeadlockAbort(h)
      BY <1>1, <2>5 DEF CreateRefused, PatchDrifted, PatchConflict, DeadlockAbort
    <2> QED
      BY <1>1, <1>2, <2>2, <2>3, <2>4, <2>5, CreateLocks, CheckLocks, DeleteLocks, DiscoverLocks,
         ScopeLocks, RowLocks, ParentLocks, ApplyLocks, SiblingLocks, RecordLocks, CommitLocks DEF Step
  <1>3. ASSUME NEW h \in Handlers, Abandon(h) PROVE LockInv'
    BY <1>3, AdvanceIsLocal, QuitLocks DEF Abandon
  <1>4. CASE UNCHANGED <<status, shape, pc, tx>>
    BY <1>4 DEF LockInv, Own, RowsOK, PatchOK, ScopesOK, Apart, Inserting
  <1>5. CASE ExpireReceipt \/ UNCHANGED vars \/ \E r \in Readers : Replay(r)
    BY <1>4, <1>5 DEF ExpireReceipt, vars, Replay, ReadCursor, ReadEvents, FinishReplay, dbVars
  <1> QED
    BY <1>2, <1>3, <1>5, ReceiveLocks DEF Next

LEMMA Locks == Spec => [](TypeInv /\ LogInv /\ LockInv)
  BY Invariants, LockInit, LockNext, PTL DEF Spec

--------------------------------------------------------------------------------
(***************************************************************************)
(* The log tells the rows.  A commit appends the newest event about its    *)
(* row and writes what the event says; no deletion of a live row is logged.*)
(***************************************************************************)
LifeInv ==
  /\ LogTellsRows /\ LifeCycle
  /\ \A e \in Entities : status[e] = "live" => \A ev \in About(e) : ev.kind # "deleted"

(* The rows at the start are those that the past creations tell.           *)
LEMMA LifeInit == Init => LifeInv
  <1> SUFFICES ASSUME Init PROVE LifeInv
    OBVIOUS
  <1>1. \A e \in Entities : About(e) = RowOf(e)
    BY DEF Init, About, RowOf
  <1>2. \A e \in Entities : \A a, b \in RowOf(e) : a = b
    BY PastAssumption DEF RowOf
  <1>3. \A e \in Entities : \A ev \in RowOf(e) : ev.kind = "created" /\ ev.cursor \in Nat
    BY PastAssumption DEF RowOf, Events
  <1>4. ASSUME NEW e \in Entities
        PROVE  /\ status[e] = IF RowOf(e) = {} THEN "absent" ELSE "live"
               /\ \A ev \in RowOf(e) : shape[e] = ev.shape
    <2>1. RowOf(e) # {} => shape[e] = (CHOOSE ev \in RowOf(e) : TRUE).shape
      BY DEF Init
    <2>2. RowOf(e) # {} => (CHOOSE ev \in RowOf(e) : TRUE) \in RowOf(e)
      OBVIOUS
    <2> QED
      BY <1>2, <2>1, <2>2 DEF Init
  <1>5. LogTellsRows
    BY <1>1, <1>3, <1>4 DEF LogTellsRows
  <1>6. LifeCycle
    BY <1>1, <1>2, <1>3 DEF LifeCycle
  <1> QED
    BY <1>1, <1>3, <1>5, <1>6 DEF LifeInv

(* Only a commit writes the log and the rows.                              *)
LEMMA OnlyCommitsWrite ==
  ASSUME [Next]_vars, \A h \in Handlers : ~ Commit(h)
  PROVE  UNCHANGED <<events, status, shape>>
  <1>1. ASSUME NEW h \in Handlers, Step(h) PROVE UNCHANGED <<events, status, shape>>
    BY <1>1 DEF Step, LockEventKey, TryReceiptKey, AnswerDuplicate, CreateApply, CreateRefused,
         DeleteCheck, DeleteApply, PatchDiscover, PatchLockScope, PatchLockRow,
         PatchLockParent, PatchDrifted, PatchConflict, PatchReplay, PatchNoOp, PatchApply, LockSibling, RecordEvent,
         PublishAndAnswer, DeadlockAbort, Acknowledge, Refuse, Advance, dbVars
  <1> QED
    BY <1>1 DEF Next, vars, Receive, Abandon, ExpireReceipt, Replay, ReadCursor, ReadEvents,
         FinishReplay, Advance, dbVars

LEMMA CommitTells ==
  ASSUME TypeInv, LogInv, LockInv, LifeInv, NEW h \in Handlers, Commit(h)
  PROVE  LifeInv'
  <1>0. PICK w \in Entities, n \in Events : w = Written(h) /\ n = EventOf(tx[h])
    BY CommitEffect, CommitWrites
  <1> DEFINE op == tx[h].req.op
  <1>1. /\ events' = events \cup {n} /\ n.entity = w /\ n.kind = KindOf(op)
        /\ n.shape = tx[h].final /\ n.cursor = cursor + 1
    BY <1>0, CommitEffect DEF EventOf, Written
  <1>2. /\ w \in Entities /\ op \in {"create", "delete", "patch"}
        /\ Own("recorded", tx[h]) /\ tx[h].req # Nobody
        /\ \A e \in Entities : e # w => status'[e] = status[e] /\ shape'[e] = shape[e]
        /\ op = "create" => status'[w] = "live" /\ shape'[w] = n.shape
        /\ op = "delete" => status'[w] = "deleted" /\ shape' = shape
        /\ op = "patch" => status' = status /\ shape'[w] = n.shape
    BY <1>0, <1>1, CommitWrites
  <1>3. /\ op = "create" => status[w] = "absent"
        /\ op = "patch" => status[w] = "live"
        /\ op = "delete" => status[w] # "absent"
    BY <1>0, <1>2, StoreAssumption DEF Own, RowsOK, PatchOK, Inserting, Writing, Locking, Written
  <1>4. \A ev \in events : ev.cursor \in Nat /\ ev.cursor < n.cursor
    <2>1. cursor \in Nat /\ n.cursor = cursor + 1
      BY <1>1 DEF TypeInv, TypeOK
    <2>2. \A ev \in events : ev.cursor \in 1 .. cursor
      BY DEF LogInv, Contiguity
    <2> QED
      BY <2>1, <2>2
  <1>10. n.cursor \in Nat
    BY <1>1 DEF TypeInv, TypeOK
  <1>5. KindOf(op) = IF op = "create" THEN "created" ELSE IF op = "patch" THEN "updated" ELSE "deleted"
    BY <1>2 DEF KindOf
  <1> HIDE DEF op
  <1>6. About(w)' = About(w) \cup {n} /\ \A e \in Entities : e # w => About(e)' = About(e)
    BY <1>1 DEF About
  <1>7. LogTellsRows'
    <2> SUFFICES ASSUME NEW e \in Entities
                 PROVE  /\ status'[e] = "absent" <=> About(e)' = {}
                        /\ \A ev \in About(e)' :
                             (\A o \in About(e)' : o.cursor <= ev.cursor) =>
                               /\ status'[e] = IF ev.kind = "deleted" THEN "deleted" ELSE "live"
                               /\ ev.kind # "deleted" => shape'[e] = ev.shape
      BY DEF LogTellsRows, About
    <2>1. CASE e # w
      BY <1>2, <1>6, <2>1 DEF LifeInv, LogTellsRows
    <2>2. CASE e = w
      <3>1. status'[w] # "absent" /\ About(w)' # {}
        BY <1>2, <1>3, <1>6
      <3>2. ASSUME NEW ev \in About(w)', \A o \in About(w)' : o.cursor <= ev.cursor PROVE ev = n
        BY <1>4, <1>6, <1>10, <3>2 DEF About
      <3> QED
        BY <1>1, <1>2, <1>3, <1>5, <2>2, <3>1, <3>2
    <2> QED
      BY <2>1, <2>2
  <1>8. LifeCycle'
    <2> SUFFICES ASSUME NEW e \in Entities, NEW a \in About(e)', NEW b \in About(e)',
                        a.cursor < b.cursor
                 PROVE  b.kind # "created" /\ (a.kind = "deleted" => b.kind = "deleted")
      BY DEF LifeCycle, About
    <2>1. CASE e # w \/ b # n
      <3>1. a \in About(e) /\ b \in About(e)
        <4>1. CASE a = n /\ e = w
          <5>1. b \in About(w)
            BY <1>6, <2>1, <4>1
          <5> QED
            BY <1>4, <1>10, <4>1, <5>1 DEF About
        <4> QED
          BY <1>6, <2>1, <4>1
      <3> QED
        BY <3>1 DEF LifeInv, LifeCycle
    <2>2. CASE e = w /\ b = n
      <3>1. a \in About(w)
        BY <1>6, <1>10, <2>2
      <3>2. op # "create"
        BY <1>2, <1>3, <3>1 DEF LifeInv, LogTellsRows
      <3>3. a.kind = "deleted" => op # "patch"
        BY <1>2, <1>3, <3>1 DEF LifeInv
      <3> QED
        BY <1>1, <1>2, <1>5, <2>2, <3>2, <3>3
    <2> QED
      BY <2>1, <2>2
  <1>9. ASSUME NEW e \in Entities, status'[e] = "live", NEW ev \in About(e)'
        PROVE  ev.kind # "deleted"
    <2>1. CASE e # w
      BY <1>2, <1>6, <1>9, <2>1 DEF LifeInv
    <2>2. CASE e = w
      <3>1. op # "delete"
        BY <1>2, <1>9, <2>2
      <3>2. \A o \in About(w) : o.kind # "deleted"
        BY <1>2, <1>3, <3>1 DEF LifeInv, LogTellsRows
      <3> QED
        BY <1>1, <1>2, <1>5, <1>6, <2>2, <3>1, <3>2
    <2> QED
      BY <2>1, <2>2
  <1> QED
    BY <1>7, <1>8, <1>9 DEF LifeInv, About

LEMMA LifeNext == TypeInv /\ LogInv /\ LockInv /\ LifeInv /\ [Next]_vars => LifeInv'
  <1> SUFFICES ASSUME TypeInv, LogInv, LockInv, LifeInv, [Next]_vars PROVE LifeInv'
    OBVIOUS
  <1>1. CASE \E h \in Handlers : Commit(h)
    BY <1>1, CommitTells
  <1>2. CASE \A h \in Handlers : ~ Commit(h)
    <2>1. UNCHANGED <<events, status, shape>>
      BY <1>2, OnlyCommitsWrite
    <2> QED
      BY <2>1 DEF LifeInv, LogTellsRows, LifeCycle, About
  <1> QED
    BY <1>1, <1>2

(* The newest event about a row tells what the row holds, its creation     *)
(* comes first and its deletion last, whatever POST, PATCH and DELETE      *)
(* requests run at the same time: a client that applies the log has the    *)
(* server's data.                                                          *)
THEOREM RowsFollowTheLog == Spec => []RowsFollowLog
  <1>1. LifeInv => RowsFollowLog
    BY DEF LifeInv, RowsFollowLog
  <1> QED
    BY Locks, LifeInit, LifeNext, <1>1, PTL DEF Spec

--------------------------------------------------------------------------------
(* A committed PATCH writes the row's own value for a field its body does  *)
(* not set, because it has merged under the row's lock, in scopes it has   *)
(* compared again, and no other transaction writes the row until it ends.  *)
THEOREM PatchesKeepUnset == Spec => PatchKeepsUnset
  <1>1. ASSUME TypeInv, LogInv, LockInv, Next, NEW h \in Handlers, pc[h] = "recorded",
               pc'[h] = "committed", tx[h].req.op = "patch",
               NEW f \in {"title", "place"}, tx[h].req[f] = Keep
        PROVE  shape'[tx[h].entity][f] = shape[tx[h].entity][f]
    <2>1. Commit(h)
      <3>1. ASSUME NEW g \in Handlers, Step(g) PROVE Commit(h)
        <4>1. CASE Commit(g)
          BY <1>1, <4>1, CommitEffect
        <4>2. CASE Quiet(g) \/ Claims(g) \/ \E cur \in Nat : Acknowledges(g, cur)
          BY <1>1, <4>2 DEF Quiet, Claims, Acknowledges
        <4> QED
          BY <1>1, <3>1, <4>1, <4>2, StepEffect
      <3>2. ASSUME NEW g \in Handlers, NEW q \in Requests, Receive(g, q) PROVE FALSE
        BY <1>1, <3>2 DEF Receive, Advance, TypeInv, TypeOK
      <3>3. ASSUME NEW g \in Handlers, Abandon(g) PROVE FALSE
        BY <1>1, <3>3 DEF Abandon, Advance, TypeInv, TypeOK
      <3> QED
        BY <1>1, <3>1, <3>2, <3>3 DEF Next, ExpireReceipt, Replay, ReadCursor, ReadEvents, FinishReplay
    <2>2. shape'[tx[h].entity] = tx[h].final /\ Own("recorded", tx[h]) /\ tx[h].req # Nobody
      BY <1>1, <2>1, CommitWrites DEF Written
    <2> QED
      BY <1>1, <2>2 DEF Own, PatchOK, Writing
  <1>2. TypeInv /\ LogInv /\ LockInv /\ [Next]_vars =>
          [\A h \in Handlers :
             pc[h] = "recorded" /\ pc'[h] = "committed" /\ tx[h].req.op = "patch" =>
               \A f \in {"title", "place"} :
                 tx[h].req[f] = Keep => shape'[tx[h].entity][f] = shape[tx[h].entity][f]]_vars
    BY <1>1
  <1> QED
    BY Locks, <1>2, PTL DEF Spec, PatchKeepsUnset

--------------------------------------------------------------------------------
(***************************************************************************)
(* Deadlocks of scoped PATCHes.  A sibling row that one waits for lies in  *)
(* a scope it holds, so another that has it has it as the folder it moves  *)
(* into: they cross.  A target folder that one waits for either is another *)
(* one's row too, and they cross, or is its target as well; then that one  *)
(* waits for siblings.  Where none has a row, each waits for a scope, and  *)
(* those ascend along the cycle.                                           *)
(***************************************************************************)

(* A set of lists that is not empty has a greatest one.                    *)
LEMMA GreatestPlace ==
  ASSUME NEW P \in SUBSET Places, P # {}
  PROVE  \E p \in P : \A o \in P : o <= p
  <1> DEFINE Above(p) == {o \in Places : p < o}
             T == {Above(p) : p \in P}
  <1>1. IsWellFoundedOn(StrictSubsetOrdering(Places), SUBSET Places)
    BY StoreAssumption, FS_StrictSubsetOrderingWellFounded, FS_FiniteSubsetsOfFinite
  <1>2. T \subseteq SUBSET Places /\ T # {}
    OBVIOUS
  <1>3. PICK x \in T : \A y \in T : <<y, x>> \notin StrictSubsetOrdering(Places)
    BY <1>1, <1>2, WFMin
  <1>4. PICK p \in P : x = Above(p)
    BY <1>3
  <1>5. ASSUME NEW o \in P, ~ (o <= p) PROVE FALSE
    <2>1. o \in Nat /\ p \in Nat /\ p < o
      BY <1>5, StoreAssumption
    <2>2. Above(o) \subseteq Above(p) /\ o \in Above(p) /\ o \notin Above(o)
      <3>1. o \in Places /\ Places \subseteq Nat
        BY StoreAssumption
      <3>2. \A z \in Places : o < z => p < z
        BY <2>1, <3>1
      <3>3. \A z \in Above(o) : z \in Above(p)
        BY <3>2
      <3>4. o \in Above(p)
        BY <2>1, <3>1
      <3>5. o \notin Above(o)
        BY <2>1
      <3> QED
        BY <3>3, <3>4, <3>5
    <2>3. <<Above(o), Above(p)>> \in StrictSubsetOrdering(Places)
      <3>1. Above(o) \in SUBSET Places /\ Above(p) \in SUBSET Places /\ Above(o) # Above(p)
        BY <2>2
      <3> HIDE DEF Above
      <3> QED
        BY <2>2, <3>1 DEF StrictSubsetOrdering
    <2> QED
      BY <1>3, <1>4, <2>3
  <1> QED
    BY <1>5

(* A scoped PATCH holds rows only while it holds all of its scopes, which  *)
(* are those of the rows it waits for and, but for its target folder, of   *)
(* the rows it holds.                                                      *)
LEMMA ScopedRows ==
  ASSUME TypeInv, LockInv, NEW h \in Handlers, Scoped(h), tx[h].rows # {}
  PROVE  /\ pc[h] \in Locking
         /\ \A s \in tx[h].todo : shape[s].place \in tx[h].scopes
         /\ \A s \in tx[h].rows : s = ParentOf(tx[h]) \/ shape[s].place \in tx[h].scopes
  <1>1. pc[h] \in Locking /\ Own(pc[h], tx[h])
    BY DEF LockInv, Own, RowsOK
  <1>2. tx[h].req.op = "patch" /\ tx[h].req # Nobody /\ InScope(h)
    BY <1>1, StoreAssumption DEF Scoped, TypeInv, TxOK, Locking, Writing
  <1>3. shape[tx[h].entity].place \in tx[h].scopes
    BY <1>1, <1>2 DEF Own, PatchOK, InScope, Scopes
  <1>4. \A s \in (tx[h].rows \ {tx[h].entity, ParentOf(tx[h])}) \cup tx[h].todo :
          shape[s].place \in tx[h].scopes
    BY <1>1, <1>2 DEF Own, PatchOK
  <1> QED
    BY <1>1, <1>3, <1>4

(* One that waits for a sibling waits for a row that is locked as a target *)
(* folder.                                                                 *)
LEMMA SiblingWaitCrosses ==
  ASSUME TypeInv, LockInv, NEW h \in Handlers, NEW g \in Handlers \ {h},
         Scoped(h), Scoped(g), tx[h].rows # {}, tx[h].todo \cap tx[g].rows # {}
  PROVE  Crosses(h, g)
  <1>1. PICK s : s \in tx[h].todo /\ s \in tx[g].rows
    OBVIOUS
  <1>2. shape[s].place \in tx[h].scopes
    BY <1>1, ScopedRows
  <1>3. s = ParentOf(tx[g]) \/ shape[s].place \in tx[g].scopes
    BY <1>1, ScopedRows
  <1>4. tx[h].scopes \cap tx[g].scopes = {}
    BY DEF LockInv, Apart
  <1> QED
    BY <1>1, <1>2, <1>3, <1>4 DEF Crosses

(* A PATCH that holds rows waits for its target folder or for siblings.    *)
LEMMA RowWaits ==
  ASSUME TypeInv, LockInv, NEW h \in Handlers, Scoped(h), tx[h].rows # {},
         NEW g \in WaitsFor(h)
  PROVE  /\ g \in Handlers \ {h}
         /\ \/ pc[h] = "rowlocked" /\ ParentOf(tx[h]) \in tx[g].rows
            \/ tx[h].todo \cap tx[g].rows # {}
  <1>1. pc[h] \in Locking
    BY ScopedRows
  <1> QED
    BY <1>1 DEF WaitsFor, Locking, Writing

(* In a cycle of scoped PATCHes that do not cross none has a row.          *)
LEMMA ScopedCycleHasNoRows ==
  ASSUME TypeInv, LockInv, NEW S \in SUBSET Handlers, Cycle(S), \A h \in S : Scoped(h),
         \A h \in S : \A g \in WaitsFor(h) : ~ Crosses(h, g)
  PROVE  \A h \in S : tx[h].rows = {}
  <1> SUFFICES ASSUME NEW h \in S, tx[h].rows # {} PROVE FALSE
    OBVIOUS
  <1>1. ASSUME NEW k \in S, tx[k].rows # {}
        PROVE  \E g \in S \ {k} : pc[k] = "rowlocked" /\ ParentOf(tx[k]) \in tx[g].rows
    <2>1. PICK g \in S : g \in WaitsFor(k)
      BY DEF Cycle
    <2>2. g # k /\ (\/ pc[k] = "rowlocked" /\ ParentOf(tx[k]) \in tx[g].rows
                   \/ tx[k].todo \cap tx[g].rows # {})
      BY <1>1, <2>1, RowWaits
    <2>3. tx[k].todo \cap tx[g].rows = {}
      BY <1>1, <2>1, <2>2, SiblingWaitCrosses
    <2> QED
      BY <2>1, <2>2, <2>3
  <1>2. PICK g \in S \ {h} : pc[h] = "rowlocked" /\ ParentOf(tx[h]) \in tx[g].rows
    BY <1>1
  <1>3. g \in WaitsFor(h)
    BY <1>2 DEF WaitsFor
  <1>4. ParentOf(tx[h]) = ParentOf(tx[g])
    BY <1>2, <1>3 DEF Crosses
  <1>5. PICK k \in S \ {g} : ParentOf(tx[g]) \in tx[k].rows
    BY <1>1, <1>2
  <1>6. tx[g].rows \cap tx[k].rows = {}
    BY <1>5 DEF LockInv, Apart
  <1> QED
    BY <1>2, <1>4, <1>5, <1>6

(* So each of them waits for a scope, and has none beyond the one it waits *)
(* for.                                                                    *)
LEMMA ScopedCycleAscends ==
  ASSUME TypeInv, LockInv, NEW S \in SUBSET Handlers, Cycle(S), \A h \in S : Scoped(h),
         \A h \in S : \A g \in WaitsFor(h) : ~ Crosses(h, g), NEW h \in S
  PROVE  /\ NextScope(tx[h]) \in Places
         /\ \E g \in S : NextScope(tx[h]) < NextScope(tx[g])
  <1>1. \A g \in S : tx[g].rows = {}
    BY ScopedCycleHasNoRows
  <1>2. ASSUME NEW k \in S
        PROVE  /\ pc[k] = "discovered" /\ tx[k].wanted # tx[k].scopes
               /\ \E g \in S : NextScope(tx[k]) \in tx[g].scopes
    <2>1. PICK g \in S : g \in WaitsFor(k)
      BY DEF Cycle
    <2>2. tx[k].req.op = "patch" /\ tx[g].rows = {}
      BY <1>1 DEF Scoped
    <2> QED
      BY <2>1, <2>2 DEF WaitsFor
  <1>3. ASSUME NEW k \in S
        PROVE  /\ NextScope(tx[k]) \in tx[k].wanted \ tx[k].scopes
               /\ tx[k].wanted \subseteq Places
    BY <1>2, NextScopeLeast DEF TypeInv, TypeOK, TxType
  <1>4. PICK g \in S : NextScope(tx[h]) \in tx[g].scopes
    BY <1>2
  <1>5. \A p \in tx[g].scopes, o \in tx[g].wanted \ tx[g].scopes : p < o
    <2>1. tx[g].req.op = "patch" /\ tx[g].req # Nobody /\ pc[g] = "discovered"
      BY <1>2, StoreAssumption DEF TypeInv, TxOK
    <2> QED
      BY <2>1 DEF LockInv, Own, PatchOK
  <1> QED
    BY <1>3, <1>4, <1>5

(* A deadlock of PATCHes that are where they found their rows is one of    *)
(* folders that cross, a target folder of one being a row or sibling of    *)
(* another; every other deadlock includes a POST, a DELETE or a PATCH      *)
(* whose row was moved before it was locked.                               *)
THEOREM ScopedDeadlocksCross == Spec => []ScopedDeadlockCrosses
  <1>1. TypeInv /\ LockInv => ScopedDeadlockCrosses
    <2> SUFFICES ASSUME TypeInv, LockInv, NEW S \in SUBSET Handlers, S # {}, Cycle(S),
                        \A h \in S : Scoped(h),
                        \A h \in S : \A g \in WaitsFor(h) : ~ Crosses(h, g)
                 PROVE  FALSE
      BY DEF ScopedDeadlockCrosses
    <2> DEFINE P == {NextScope(tx[h]) : h \in S}
    <2>1. \A h \in S : NextScope(tx[h]) \in Places /\ \E g \in S : NextScope(tx[h]) < NextScope(tx[g])
      BY ScopedCycleAscends
    <2>2. P \in SUBSET Places /\ P # {}
      BY <2>1
    <2>3. PICK p \in P : \A o \in P : o <= p
      BY <2>2, GreatestPlace
    <2>4. PICK h \in S : p = NextScope(tx[h])
      BY <2>3
    <2>5. PICK g \in S : NextScope(tx[h]) < NextScope(tx[g])
      BY <2>1
    <2>6. NextScope(tx[g]) <= NextScope(tx[h])
      BY <2>3, <2>4
    <2>7. NextScope(tx[g]) \in Nat /\ NextScope(tx[h]) \in Nat
      <3>1. NextScope(tx[g]) \in Places /\ NextScope(tx[h]) \in Places
        BY <2>1
      <3> QED
        BY <3>1, StoreAssumption
    <2> QED
      BY <2>5, <2>6, <2>7
  <1> QED
    BY Locks, <1>1, PTL

--------------------------------------------------------------------------------
(***************************************************************************)
(* Retries.  Transactions that run together have different event keys.  So *)
(* while a POST or DELETE is Doing its work no copy of it has been         *)
(* acknowledged or is about to be; and what is acknowledged is in the log, *)
(* where every later copy finds it.                                        *)
(***************************************************************************)
Doing == {"checked", "reordering", "recorded"}

RetryInv ==
  /\ \A g, h \in Handlers : g # h /\ InTx(g) /\ InTx(h) => KeyOf(tx[g].req) # KeyOf(tx[h].req)
  /\ \A h \in Handlers : pc[h] \in Doing /\ tx[h].req.op # "patch" =>
       /\ \A a \in acks : KeyOf(a.req) # KeyOf(tx[h].req)
       /\ \A g \in Handlers : pc[g] = "committed" => KeyOf(tx[g].req) # KeyOf(tx[h].req)
  /\ \A a \in acks : a.req.op # "patch" => Duplicates(a.req) # {}
  /\ \A g \in Handlers : pc[g] = "committed" /\ tx[g].req.op # "patch" => Duplicates(tx[g].req) # {}
  /\ \A h \in Handlers : pc[h] \in Doing \cup {"committed"} /\ tx[h].req.op = "delete" =>
       tx[h].entity = tx[h].req.entity

(* Nothing has been requested or acknowledged.                             *)
LEMMA RetryInit == Init => RetryInv
  BY DEF Init, RetryInv, InTx, Doing

(* Two copies of a request have one key and find the same duplicates.      *)
LEMMA SameKey ==
  ASSUME NEW q, NEW r, KeyOf(q) = KeyOf(r)
  PROVE  q.op = r.op /\ q.id = r.id /\ Duplicates(q) = Duplicates(r)
  <1>1. q.op = r.op /\ q.id = r.id /\ (q.op = "delete" => q.entity = r.entity)
    BY DEF KeyOf
  <1> QED
    BY <1>1 DEF Duplicates, Logged

(* A step that neither logs nor acknowledges: its handler may have started *)
(* to work on a request that has no duplicate, or gone on working on it.   *)
Works(h) ==
  /\ UNCHANGED <<events, acks>>
  /\ \A g \in Handlers \ {h} : pc'[g] = pc[g] /\ tx'[g] = tx[g]
  /\ pc'[h] # "committed"
  /\ pc'[h] \notin {"idle", "received", "refused"} =>
       /\ tx'[h].req = tx[h].req
       /\ InTx(h) \/ KeyFree(h)
  /\ pc'[h] \in Doing /\ tx[h].req.op # "patch" =>
       \/ pc[h] = "keyed" /\ Duplicates(tx[h].req) = {}
       \/ pc[h] \in Doing
  /\ pc'[h] \in Doing /\ tx[h].req.op = "delete" =>
       tx'[h].entity = IF pc[h] \in Doing THEN tx[h].entity ELSE tx[h].req.entity

LEMMA WorksRetry ==
  ASSUME TypeInv, RetryInv, NEW h \in Handlers, Works(h)
  PROVE  RetryInv'
  <1>1. \A q : Duplicates(q)' = Duplicates(q)
    BY DEF Works, Duplicates, Logged
  <1>2. ASSUME NEW g \in Handlers \ {h}, InTx(g)', InTx(h)' PROVE KeyOf(tx'[g].req) # KeyOf(tx'[h].req)
    BY <1>2 DEF Works, RetryInv, InTx, KeyFree
  <1>3. ASSUME pc'[h] \in Doing, tx'[h].req.op # "patch"
        PROVE  /\ \A a \in acks' : KeyOf(a.req) # KeyOf(tx'[h].req)
               /\ \A g \in Handlers : pc'[g] = "committed" => KeyOf(tx'[g].req) # KeyOf(tx'[h].req)
    <2>1. tx'[h].req = tx[h].req
      BY <1>3 DEF Works, Doing
    <2>2. CASE pc[h] = "keyed" /\ Duplicates(tx[h].req) = {}
      <3>1. ASSUME NEW q, q.op # "patch" => Duplicates(q) # {} PROVE KeyOf(q) # KeyOf(tx[h].req)
        BY <1>3, <2>1, <2>2, <3>1, SameKey
      <3> QED
        BY <2>1, <3>1 DEF Works, RetryInv
    <2>3. CASE pc[h] \in Doing
      BY <1>3, <2>1, <2>3 DEF Works, RetryInv
    <2> QED
      BY <1>3, <2>1, <2>2, <2>3 DEF Works
  <1>4. ASSUME NEW g \in Handlers \ {h}, pc'[g] \in Doing, tx'[g].req.op # "patch"
        PROVE  /\ \A a \in acks' : KeyOf(a.req) # KeyOf(tx'[g].req)
               /\ \A k \in Handlers : pc'[k] = "committed" => KeyOf(tx'[k].req) # KeyOf(tx'[g].req)
    BY <1>4 DEF Works, RetryInv
  <1>5. \A a \in acks' : a.req.op # "patch" => Duplicates(a.req)' # {}
    BY <1>1 DEF Works, RetryInv
  <1>6. \A g \in Handlers : pc'[g] = "committed" /\ tx'[g].req.op # "patch" =>
          Duplicates(tx[g].req)' # {}
    BY <1>1 DEF Works, RetryInv
  <1>7. ASSUME pc'[h] \in Doing \cup {"committed"}, tx'[h].req.op = "delete"
        PROVE  tx'[h].entity = tx'[h].req.entity
    BY <1>7 DEF Works, RetryInv, Doing
  <1>8. ASSUME NEW g \in Handlers \ {h}, pc'[g] \in Doing \cup {"committed"}, tx'[g].req.op = "delete"
        PROVE  tx'[g].entity = tx'[g].req.entity
    BY <1>8 DEF Works, RetryInv
  <1>9. \A g, k \in Handlers : g # k /\ InTx(g)' /\ InTx(k)' => KeyOf(tx'[g].req) # KeyOf(tx'[k].req)
    <2>1. \A g, k \in Handlers \ {h} : g # k /\ InTx(g)' /\ InTx(k)' =>
             KeyOf(tx'[g].req) # KeyOf(tx'[k].req)
      BY DEF Works, RetryInv, InTx
    <2> QED
      BY <1>2, <2>1
  <1> QED
    BY <1>3, <1>4, <1>5, <1>6, <1>7, <1>8, <1>9 DEF RetryInv

(* An answer to a request that its handler found in the log, or committed, *)
(* or that is a PATCH.                                                     *)
LEMMA AcknowledgeRetry ==
  ASSUME TypeInv, RetryInv, NEW h \in Handlers, NEW cur, Acknowledge(h, cur), events' = events,
         InTx(h) \/ pc[h] = "committed", pc[h] \notin Doing,
         tx[h].req.op # "patch" => Duplicates(tx[h].req) # {}
  PROVE  RetryInv'
  <1>1. \A q : Duplicates(q)' = Duplicates(q)
    BY DEF Duplicates, Logged
  <1>2. /\ pc'[h] = "idle" /\ acks' = acks \cup {[req |-> tx[h].req, cursor |-> cur]}
        /\ \A g \in Handlers \ {h} : pc'[g] = pc[g] /\ tx'[g] = tx[g]
    BY DEF Acknowledge, TypeInv, TypeOK
  <1>3. \A a \in acks' : a \in acks \/ a.req = tx[h].req
    BY <1>2
  <1>4. ASSUME NEW g \in Handlers \ {h}, pc[g] \in Doing, tx[g].req.op # "patch"
        PROVE  \A a \in acks' : KeyOf(a.req) # KeyOf(tx[g].req)
    <2>1. KeyOf(tx[h].req) # KeyOf(tx[g].req)
      BY <1>4 DEF RetryInv, InTx, Doing
    <2> QED
      BY <1>3, <1>4, <2>1 DEF RetryInv
  <1>5. \A a \in acks' : a.req.op # "patch" => Duplicates(a.req)' # {}
    BY <1>1, <1>3 DEF RetryInv
  <1>6. \A g, k \in Handlers : g # k /\ InTx(g)' /\ InTx(k)' => KeyOf(tx'[g].req) # KeyOf(tx'[k].req)
    BY <1>2 DEF RetryInv, InTx
  <1>7. \A g \in Handlers : pc'[g] = "committed" /\ tx'[g].req.op # "patch" =>
          Duplicates(tx[g].req)' # {}
    BY <1>1, <1>2 DEF RetryInv
  <1>8. \A g \in Handlers : pc'[g] \in Doing \cup {"committed"} /\ tx'[g].req.op = "delete" =>
          tx'[g].entity = tx'[g].req.entity
    BY <1>2 DEF RetryInv, Doing
  <1>9. \A g \in Handlers : pc'[g] \in Doing /\ tx'[g].req.op # "patch" =>
          \A k \in Handlers : pc'[k] = "committed" => KeyOf(tx'[k].req) # KeyOf(tx'[g].req)
    BY <1>2 DEF RetryInv, Doing
  <1> QED
    BY <1>2, <1>4, <1>5, <1>6, <1>7, <1>8, <1>9 DEF RetryInv, Doing

(* A commit logs the event under its request's key, which is its own.      *)
LEMMA CommitRetry ==
  ASSUME TypeInv, LogInv, LockInv, RetryInv, NEW h \in Handlers, Commit(h)
  PROVE  RetryInv'
  <1>0. PICK n \in Events : n = EventOf(tx[h])
    BY CommitEffect
  <1>1. /\ events' = events \cup {n} /\ n.id = tx[h].req.id /\ n.entity = tx[h].entity
        /\ acks' = acks /\ pc[h] = "recorded" /\ pc'[h] = "committed"
        /\ tx'[h].req = tx[h].req /\ tx'[h].entity = tx[h].entity
        /\ \A g \in Handlers \ {h} : pc'[g] = pc[g] /\ tx'[g] = tx[g]
    BY <1>0, CommitEffect, CommitWrites DEF EventOf, Commit
  <1>2. \A q : Duplicates(q) \subseteq Duplicates(q)'
    BY <1>1 DEF Duplicates, Logged
  <1>3. n \in Duplicates(tx[h].req)'
    <2>1. tx[h].req.op = "delete" => n.entity = tx[h].req.entity
      BY <1>1 DEF RetryInv, Doing
    <2>2. \A q : q = tx[h].req => n \in Duplicates(q)'
      BY <1>1, <2>1 DEF Duplicates, Logged
    <2> QED
      BY <1>1, <2>2 DEF Duplicates, Logged
  <1>4. \A g, k \in Handlers : g # k /\ InTx(g)' /\ InTx(k)' => KeyOf(tx'[g].req) # KeyOf(tx'[k].req)
    BY <1>1 DEF RetryInv, InTx
  <1>5. ASSUME NEW g \in Handlers \ {h}, pc[g] \in Doing, tx[g].req.op # "patch"
        PROVE  KeyOf(tx'[h].req) # KeyOf(tx[g].req)
    BY <1>1, <1>5 DEF RetryInv, InTx, Doing
  <1>6. \A g \in Handlers : pc'[g] \in Doing /\ tx'[g].req.op # "patch" =>
          /\ \A a \in acks' : KeyOf(a.req) # KeyOf(tx'[g].req)
          /\ \A k \in Handlers : pc'[k] = "committed" => KeyOf(tx'[k].req) # KeyOf(tx'[g].req)
    BY <1>1, <1>5 DEF RetryInv, Doing
  <1>7. \A a \in acks' : a.req.op # "patch" => Duplicates(a.req)' # {}
    BY <1>1, <1>2 DEF RetryInv
  <1>8. \A g \in Handlers : pc'[g] = "committed" /\ tx'[g].req.op # "patch" =>
          Duplicates(tx[g].req)' # {}
    <2>1. ASSUME NEW g \in Handlers \ {h}, pc[g] = "committed", tx[g].req.op # "patch"
          PROVE  Duplicates(tx[g].req)' # {}
      <3>1. PICK q : q = tx[g].req
        OBVIOUS
      <3>2. Duplicates(q)' # {}
        BY <1>2, <2>1, <3>1 DEF RetryInv
      <3> QED
        BY <1>1, <3>1, <3>2 DEF Duplicates, Logged
    <2> QED
      BY <1>1, <1>3, <2>1
  <1>9. \A g \in Handlers : pc'[g] \in Doing \cup {"committed"} /\ tx'[g].req.op = "delete" =>
          tx'[g].entity = tx'[g].req.entity
    BY <1>1 DEF RetryInv, Doing
  <1> QED
    BY <1>4, <1>6, <1>7, <1>8, <1>9 DEF RetryInv

(* Every other step of a handler works or gives up.                        *)
LEMMA StepWorks ==
  ASSUME TypeInv, NEW h \in Handlers, NEW stage, NEW t, Advance(h, stage, t),
         stage # "committed",
         stage \notin {"idle", "received", "refused"} =>
           t.req = tx[h].req /\ (InTx(h) \/ KeyFree(h)),
         stage \in Doing /\ tx[h].req.op # "patch" =>
           \/ pc[h] = "keyed" /\ Duplicates(tx[h].req) = {}
           \/ pc[h] \in Doing,
         stage \in Doing /\ tx[h].req.op = "delete" =>
           t.entity = IF pc[h] \in Doing THEN tx[h].entity ELSE tx[h].req.entity
  PROVE  Works(h)
  BY DEF Advance, Works, TypeInv, TypeOK, dbVars

LEMMA StepRetry ==
  ASSUME TypeInv, LogInv, LockInv, RetryInv, NEW h \in Handlers, Step(h)
  PROVE  RetryInv'
  <1>1. tx[h] \in TxType
    BY DEF TypeInv, TypeOK
  <1>2. Refuse(h) => Works(h)
    BY StepWorks DEF Refuse, Doing
  <1>3. CASE LockEventKey(h) \/ TryReceiptKey(h)
    BY <1>3, StepWorks, WorksRetry DEF LockEventKey, TryReceiptKey, Doing
  <1>4. CASE CreateRefused(h) \/ PatchDrifted(h) \/ PatchConflict(h) \/ DeadlockAbort(h)
    BY <1>2, <1>4, WorksRetry DEF CreateRefused, PatchDrifted, PatchConflict, DeadlockAbort
  <1>5. CASE CreateApply(h)
    <2>1. PICK e, shp, todo :
            Advance(h, "reordering", [tx[h] EXCEPT !.entity = e, !.final = shp, !.rows = {e}, !.todo = todo])
      BY <1>5 DEF CreateApply
    <2> DEFINE t == [tx[h] EXCEPT !.entity = e, !.final = shp, !.rows = {e}, !.todo = todo]
    <2>2. t.req = tx[h].req
      BY <1>1 DEF TxType
    <2> HIDE DEF t
    <2> QED
      BY <1>5, <2>1, <2>2, StepWorks, WorksRetry DEF CreateApply, Doing, InTx, t
  <1>6. CASE DeleteCheck(h)
    <2> DEFINE t == [tx[h] EXCEPT !.entity = tx[h].req.entity, !.final = shape[tx[h].req.entity]]
    <2>1. t.req = tx[h].req /\ t.entity = tx[h].req.entity
      BY <1>1 DEF TxType
    <2>2. Advance(h, "checked", t) \/ Refuse(h)
      BY <1>6 DEF DeleteCheck
    <2> HIDE DEF t
    <2> QED
      BY <1>2, <1>6, <2>1, <2>2, StepWorks, WorksRetry DEF DeleteCheck, Doing, InTx
  <1>7. CASE DeleteApply(h)
    <2> DEFINE t == [tx[h] EXCEPT !.rows = {tx[h].entity},
                                  !.todo = Siblings(tx[h].entity, tx[h].final.place)]
    <2>1. t.req = tx[h].req /\ t.entity = tx[h].entity
      BY <1>1 DEF TxType
    <2>2. Advance(h, "reordering", t)
      BY <1>7 DEF DeleteApply
    <2> HIDE DEF t
    <2> QED
      BY <1>7, <2>1, <2>2, StepWorks, WorksRetry DEF DeleteApply, Doing, InTx
  <1>8. CASE PatchDiscover(h) \/ PatchLockScope(h) \/ PatchLockRow(h) \/ PatchLockParent(h)
    <2>1. PICK stage \in {"discovered", "rowlocked", "preparing", "refused"} :
            \E t : Advance(h, stage, t) /\ (stage # "refused" => t.req = tx[h].req) /\ InTx(h)
      <3>1. CASE PatchDiscover(h)
        BY <1>1, <3>1 DEF PatchDiscover, Refuse, InTx, TxType
      <3>2. CASE PatchLockScope(h)
        BY <1>1, <3>2 DEF PatchLockScope, InTx, TxType
      <3>3. CASE PatchLockRow(h)
        BY <1>1, <3>3 DEF PatchLockRow, Refuse, InTx, TxType
      <3>4. CASE PatchLockParent(h)
        BY <1>1, <3>4 DEF PatchLockParent, Refuse, InTx, TxType
      <3> QED
        BY <1>8, <3>1, <3>2, <3>3, <3>4
    <2>2. PICK t : Advance(h, stage, t) /\ (stage # "refused" => t.req = tx[h].req) /\ InTx(h)
      BY <2>1
    <2> QED
      BY <2>1, <2>2, StepWorks, WorksRetry DEF Doing
  <1>9. CASE PatchApply(h)
    <2> DEFINE from == shape[tx[h].entity].place
               todo == IF from = tx[h].target THEN {} ELSE Siblings(tx[h].entity, from)
               t == [tx[h] EXCEPT !.final = Final(h), !.todo = todo]
    <2>1. Advance(h, "reordering", t) /\ pc[h] = "preparing"
      BY <1>9 DEF PatchApply, Prepared
    <2> HIDE DEF todo
    <2>2. t.req = tx[h].req
      BY <1>1 DEF TxType
    <2>3. tx[h].req.op = "patch"
      BY <2>1 DEF TypeInv, TxOK
    <2> HIDE DEF t
    <2> QED
      BY <2>1, <2>2, <2>3, StepWorks, WorksRetry DEF Doing, InTx
  <1>10. CASE LockSibling(h)
    <2>1. PICK s \in tx[h].todo : Advance(h, pc[h], [tx[h] EXCEPT !.rows = @ \cup {s}, !.todo = @ \ {s}])
      BY <1>10 DEF LockSibling
    <2> DEFINE t == [tx[h] EXCEPT !.rows = @ \cup {s}, !.todo = @ \ {s}]
    <2>2. t.req = tx[h].req /\ t.entity = tx[h].entity
      BY <1>1 DEF TxType
    <2>3. Advance(h, pc[h], t) /\ pc[h] \in {"preparing", "reordering"}
      BY <1>10, <2>1 DEF LockSibling
    <2> HIDE DEF t
    <2> QED
      BY <2>2, <2>3, StepWorks, WorksRetry DEF Doing, InTx
  <1>11. CASE RecordEvent(h)
    <2> DEFINE t == [tx[h] EXCEPT !.claimed = cursor + 1]
    <2>1. t.req = tx[h].req /\ t.entity = tx[h].entity
      BY <1>1 DEF TxType
    <2>2. Advance(h, "recorded", t) \/ Refuse(h)
      BY <1>11 DEF RecordEvent
    <2> HIDE DEF t
    <2> QED
      BY <1>2, <1>11, <2>1, <2>2, StepWorks, WorksRetry DEF RecordEvent, Doing, InTx
  <1>12. CASE AnswerDuplicate(h)
    BY <1>12, AcknowledgeRetry DEF AnswerDuplicate, InTx, Doing, dbVars
  <1>13. CASE PatchReplay(h) \/ PatchNoOp(h)
    <2>1. PICK cur : Acknowledge(h, cur) /\ events' = events /\ pc[h] = "preparing"
      BY <1>13 DEF PatchReplay, PatchNoOp, Prepared, dbVars
    <2>2. tx[h].req.op = "patch"
      BY <2>1 DEF TypeInv, TxOK
    <2> QED
      BY <2>1, <2>2, AcknowledgeRetry DEF InTx, Doing
  <1>14. CASE PublishAndAnswer(h)
    BY <1>14, AcknowledgeRetry DEF PublishAndAnswer, RetryInv, Doing, dbVars
  <1> QED
    BY <1>3, <1>4, <1>5, <1>6, <1>7, <1>8, <1>9, <1>10, <1>11, <1>12, <1>13, <1>14, CommitRetry DEF Step

LEMMA RetryNext == TypeInv /\ LogInv /\ LockInv /\ RetryInv /\ [Next]_vars => RetryInv'
  <1> SUFFICES ASSUME TypeInv, LogInv, LockInv, RetryInv, [Next]_vars PROVE RetryInv'
    OBVIOUS
  <1>1. ASSUME NEW h \in Handlers, NEW q \in Requests, Receive(h, q) PROVE RetryInv'
    BY <1>1, StepWorks, WorksRetry DEF Receive, Doing
  <1>2. ASSUME NEW h \in Handlers, Abandon(h) PROVE RetryInv'
    BY <1>2, StepWorks, WorksRetry DEF Abandon, Doing
  <1>3. CASE UNCHANGED <<events, pc, tx, acks>>
    BY <1>3 DEF RetryInv, InTx, Duplicates, Logged
  <1>4. CASE ExpireReceipt \/ UNCHANGED vars \/ \E r \in Readers : Replay(r)
    BY <1>3, <1>4 DEF ExpireReceipt, vars, Replay, ReadCursor, ReadEvents, FinishReplay, dbVars
  <1> QED
    BY <1>1, <1>2, <1>4, StepRetry DEF Next

(* A POST or DELETE that finds its duplicate is not refused, and one that  *)
(* works has no acknowledged copy; nor does one that waits for its key in  *)
(* a deadlock, since the holder of the key works on a copy of it.          *)
LEMMA AcknowledgedNotRefused ==
  ASSUME TypeInv, LogInv, LockInv, RetryInv, NEW h \in Handlers, Step(h), Refused(h),
         tx[h].req # Nobody, tx[h].req.op # "patch", Acked(tx[h].req)
  PROVE  FALSE
  <1>1. Duplicates(tx[h].req) # {} /\ pc[h] \notin Doing
    BY DEF Acked, RetryInv
  <1>2. CASE CreateRefused(h) \/ DeleteCheck(h) \/ RecordEvent(h)
    BY <1>1, <1>2 DEF CreateRefused, DeleteCheck, RecordEvent, Doing
  <1>3. CASE \/ LockEventKey(h) \/ TryReceiptKey(h) \/ AnswerDuplicate(h) \/ CreateApply(h)
             \/ DeleteApply(h) \/ PatchLockScope(h) \/ PatchReplay(h) \/ PatchNoOp(h)
             \/ PatchApply(h) \/ LockSibling(h) \/ Commit(h) \/ PublishAndAnswer(h)
    <2>1. pc'[h] # "refused" \/ pc[h] = "refused"
      BY <1>3 DEF LockEventKey, TryReceiptKey, AnswerDuplicate, CreateApply, DeleteApply,
           PatchLockScope, PatchReplay, PatchNoOp, PatchApply, LockSibling, Commit,
           PublishAndAnswer, Acknowledge, Advance, TypeInv, TypeOK
    <2> QED
      BY <2>1 DEF Refused
  <1>4. CASE \/ PatchDiscover(h) \/ PatchLockRow(h) \/ PatchLockParent(h)
             \/ PatchDrifted(h) \/ PatchConflict(h)
    BY <1>4 DEF PatchDiscover, PatchLockRow, PatchLockParent, PatchDrifted, PatchConflict,
         Prepared, TypeInv, TxOK
  <1>5. CASE DeadlockAbort(h)
    <2>1. PICK S \in SUBSET Handlers : h \in S /\ Cycle(S)
      BY <1>5 DEF DeadlockAbort
    <2>2. ASSUME NEW k \in S, tx[k].req.op # "patch", pc[k] # "received" PROVE pc[k] \in Doing
      <3>1. PICK g \in S : g \in WaitsFor(k)
        BY <2>1 DEF Cycle
      <3>2. tx[k].todo # {} => pc[k] \in Locking
        BY DEF LockInv, Own, RowsOK
      <3> QED
        BY <2>2, <3>1, <3>2 DEF WaitsFor, Doing, Locking, Writing, TypeInv, TxOK
    <2>3. pc[h] = "received"
      BY <1>1, <2>1, <2>2
    <2>4. PICK g \in S : g \in WaitsFor(h)
      BY <2>1 DEF Cycle
    <2>5. tx[h].todo = {}
      BY <2>3 DEF LockInv, Own, RowsOK, Locking, Writing
    <2>6. InTx(g) /\ KeyOf(tx[g].req) = KeyOf(tx[h].req)
      BY <2>3, <2>4, <2>5 DEF WaitsFor
    <2>7. tx[g].req.op # "patch"
      BY <2>6, SameKey
    <2>8. pc[g] \in Doing
      BY <2>2, <2>6, <2>7 DEF InTx
    <2> QED
      BY <2>6, <2>7, <2>8 DEF Acked, RetryInv
  <1> QED
    BY <1>2, <1>3, <1>4, <1>5 DEF Step

(* A POST or DELETE that has been acknowledged once is never refused,      *)
(* however often it is repeated, also while a copy of it is executing.     *)
THEOREM RetriesAreAcknowledged == Spec => RetryAcknowledged
  <1>1. ASSUME TypeInv, LogInv, LockInv, RetryInv, Next, NEW h \in Handlers,
               tx[h].req # Nobody, tx[h].req.op # "patch", Acked(tx[h].req), Refused(h)
        PROVE  FALSE
    <2>1. ASSUME NEW g \in Handlers, Step(g) PROVE g = h
      <3>1. \A k \in Handlers \ {g} : pc'[k] = pc[k]
        BY <1>1, <2>1, StepEffect, CommitEffect DEF Quiet, Claims, Acknowledges
      <3> QED
        BY <1>1, <3>1 DEF Refused
    <2>2. ASSUME NEW g \in Handlers, NEW q \in Requests, Receive(g, q) PROVE FALSE
      BY <1>1, <2>2 DEF Receive, Advance, Refused, TypeInv, TypeOK
    <2>3. ASSUME NEW g \in Handlers, Abandon(g) PROVE FALSE
      BY <1>1, <2>3 DEF Abandon, Advance, Refused, TypeInv, TypeOK
    <2>4. CASE ExpireReceipt \/ \E r \in Readers : Replay(r)
      BY <1>1, <2>4 DEF ExpireReceipt, Replay, ReadCursor, ReadEvents, FinishReplay, Refused
    <2> QED
      BY <1>1, <2>1, <2>2, <2>3, <2>4, AcknowledgedNotRefused DEF Next
  <1>2. TypeInv /\ LogInv /\ LockInv /\ RetryInv /\ [Next]_vars =>
          [\A h \in Handlers :
             tx[h].req # Nobody /\ tx[h].req.op # "patch" /\ Acked(tx[h].req) => ~Refused(h)]_vars
    BY <1>1
  <1> QED
    BY Locks, RetryInit, RetryNext, <1>2, PTL DEF Spec, RetryAcknowledged
================================================================================
