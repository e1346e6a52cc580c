-------------------------------- MODULE SyncLog --------------------------------
(***************************************************************************)
(* What the sync API promises of one workspace, and nothing of how.        *)
(*                                                                         *)
(* A workspace has one log of changes.  A change enters the log at its     *)
(* end, under the event id its client chose, and no event id enters twice. *)
(* An acknowledgement names the position the change has in the log.        *)
(*                                                                         *)
(* SyncStore implements this with transactions over PostgreSQL.            *)
(***************************************************************************)
EXTENDS Naturals, Sequences

CONSTANTS
  Entry,          \* the changes a log can hold, records with a field id
  History         \* the log at the start

VARIABLES
  log,            \* the changes, in the order of their cursors
  acked           \* the acknowledgements given: [id, cursor]

vars == <<log, acked>>

Init ==
  /\ log = History
  /\ acked = {}

(* A change is appended unless its event id is already in the log (that    *)
(* the log grows by one follows from the last conjunct, and is decided     *)
(* faster).                                                                *)
Record ==
  /\ Len(log') = Len(log) + 1 /\ UNCHANGED acked
  /\ \E e \in Entry :
       /\ \A i \in DOMAIN log : log[i].id # e.id
       /\ log' = Append(log, e)

(* Any logged change may be acknowledged, any number of times.             *)
Acknowledge ==
  \E i \in DOMAIN log :
    /\ acked' = acked \cup {[id |-> log[i].id, cursor |-> i]}
    /\ UNCHANGED log

Next == Record \/ Acknowledge

Spec == Init /\ [][Next]_vars
================================================================================
