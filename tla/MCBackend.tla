------------------------------- MODULE MCBackend -------------------------------
(***************************************************************************)
(* Two parts of the service in one run: the organizations, of two users    *)
(* and two transactions under way at once, and the hub, with the sockets   *)
(* of two clients of one user.  A behaviour is of one part.                *)
(***************************************************************************)
EXTENDS Organizations, TLC

CONSTANTS
  Clients, Connections, ClientOf, UserOf, Capacity, MaxLog,
  u1, u2, o1, i1, t1, t2, a, b, s1, s2

VARIABLES part, log, pending, walk, subs, stage, ack, queue, notes, sent, overflow, unpublished

H == INSTANCE Hub

TwoSockets == s1 :> a @@ s2 :> b
OneUser == s1 :> u1 @@ s2 :> u1

hubVars == <<log, pending, walk, subs, stage, ack, queue, notes, sent, overflow, unpublished>>
AllVars == <<part, vars, hubVars>>
BackendInit ==
  /\ part \in {"organizations", "hub"} /\ Init /\ H!Init
  /\ part = "hub" => \A o \in Orgs : org[o] = "none"
BackendNext ==
  \/ part = "organizations" /\ Next /\ UNCHANGED <<part, hubVars>>
  \/ part = "hub" /\ H!Next /\ UNCHANGED <<part, vars>>

BackendSpec ==
  /\ BackendInit /\ [][BackendNext]_AllVars
  /\ \A i \in 1 .. MaxLog : WF_hubVars(part = "hub" /\ H!BeginPublish(i))
  /\ \A i \in 1 .. MaxLog, c \in Connections : WF_hubVars(part = "hub" /\ H!Offer(i, c))
  /\ \A c \in Connections :
       /\ WF_hubVars(part = "hub" /\ H!ForwardEvent(c))
       /\ WF_hubVars(part = "hub" /\ H!ForwardNote(c))
       /\ SF_hubVars(part = "hub" /\ H!Close(c))

(* The sockets other than the one an event came from get it once, and no    *)
(* event falls between the subscription and the cursor of the ack: see Hub. *)
HubDelivers == H!HubDelivers

(* What a channel took is forwarded, or its socket is let go.  The two      *)
(* sockets are alike, so that this is asked of one of them: see Hub.        *)
Served == H!ReleasedOf(s1) /\ H!ForwardedTo(s1)
================================================================================
