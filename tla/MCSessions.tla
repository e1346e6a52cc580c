------------------------------- MODULE MCSessions -------------------------------
(***************************************************************************)
(* Three parts in one run: the session of the extension, with two REST     *)
(* requests at a time; that of the admin panel, of two accounts and two    *)
(* organizations, on a fresh installation and on one in use; and the       *)
(* sockets of the worker, with two messages at a time.  A behaviour is of  *)
(* one part.                                                               *)
(***************************************************************************)
EXTENDS Session, TLC

CONSTANTS
  Tasks, MaxAttempts, MaxSocketEvents,
  Users, Orgs, First, FirstOrg, ClientIds, Slots, MaxSteps, None,
  r1, r2, t1, t2, u1, u2, o1, o2, i1, i2, c1, c2

ASSUME SessionsAssumption ==
  None \notin {"create", "delete", "leave", "undelete", "deactivate", "accept", "login", "register", "owner", "admin"}

VARIABLES
  part,
  session, selected, projected, attempts, degraded, connected, task, token,
  closer, connecting, retries, closing, acks, sockets, adrift, events,
  account, bound, role, live, invited, ever, stored, clientId, storedActive,
  status, mem, active, steps, page, visit, calls

socketVars == <<session, selected, projected, attempts, degraded, connected, task, token,
                closer, connecting, retries, closing, acks, sockets, adrift, events>>
panelVars == <<account, bound, role, live, invited, ever, stored, clientId, storedActive,
               status, mem, active, steps, page, visit, calls>>

S == INSTANCE Sockets WITH flight <- connecting, MaxEvents <- MaxSocketEvents
A == INSTANCE AdminSession WITH Ids <- ClientIds, Calls <- Slots

SessionsInit ==
  /\ part \in {"extension", "panel", "sockets"} /\ Init /\ S!Init /\ A!Init
  /\ part # "panel" => ever = {}
  /\ part # "sockets" => ~ selected /\ task = CHOOSE start \in S!Starts : TRUE
SessionsNext ==
  \/ part = "extension" /\ Next /\ UNCHANGED <<part, socketVars, panelVars>>
  \/ part = "panel" /\ A!Next /\ UNCHANGED <<part, vars, socketVars>>
  \/ part = "sockets" /\ S!Next /\ UNCHANGED <<part, vars, panelVars>>
SessionsSpec ==
  /\ SessionsInit /\ [][SessionsNext]_<<part, vars, socketVars, panelVars>>
  /\ WF_socketVars(part = "sockets" /\ S!Runs)
  /\ \A t \in Tasks : WF_socketVars(part = "sockets" /\ S!Worker(t))

(* Neither evictions nor lost or late answers make the stored token one    *)
(* that cannot be renewed, or one whose use looks like theft: see Session. *)
TokenRenews == NeverForeign /\ Recoverable

(* The worker's maps and timers name the one socket that is up, and a      *)
(* wanted workspace has it: see Sockets.                                   *)
OneSocket == S!OneSocket /\ S!TimerLivesWithSocket /\ S!Reconnects

(* The budget ends the retries, however often tickets and sockets fail.    *)
Quiesces == part = "sockets" => S!Quiesces

(* The panel shows one account, the one it keeps for the next load, with   *)
(* an active organization, and an acceptance once: see AdminSession.       *)
OneAccountShown == A!OwnOrganizations /\ A!StoredIsShown /\ A!ActiveSettled /\ A!AcceptedOnce
================================================================================
