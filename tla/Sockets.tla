-------------------------------- MODULE Sockets --------------------------------
(***************************************************************************)
(* The websocket of one projected workspace                                *)
(* (extension/src/background/projection.ts, shared/websocket.ts).          *)
(*                                                                         *)
(* The worker holds the runtime part of a socket in three maps: the token  *)
(* that tells the current socket from those it replaced, the closer, and   *)
(* the connection in flight that later callers join.  A selection, a login *)
(* and a logout, a closed socket, a retry timer and the end of a rebuild   *)
(* all reach them between two awaits of each other, and the browser may    *)
(* end the worker at any step, which empties the maps and keeps the        *)
(* projection.                                                             *)
(*                                                                         *)
(* Abstracted: what a frame says beyond its kind (WorkspaceSync), why a    *)
(* workspace is rebuilt (AutoRepair), how a session is lost (Session) and  *)
(* the folders that a selection removes (Projections).                     *)
(*                                                                         *)
(* "adrift" is a history: an operation has ended in a way that leaves the  *)
(* socket of a wanted workspace, or one of an unwanted workspace, to       *)
(* nobody.  It lasts until the next connection; the properties say what    *)
(* holds otherwise, and README names the ways there.                       *)
(***************************************************************************)
EXTENDS Naturals, FiniteSets

CONSTANTS
  Tasks,           \* messages that are answered at the same time
  MaxAttempts,     \* MAX_SILENT_RECOVERY_ATTEMPTS
  MaxEvents        \* bound: messages, acks, replays, losses of the session, evictions

VARIABLES
  session, selected, projected,   \* state: a session, the selection, a projection
  attempts,     \* projection.recoveryAttemptCount
  degraded,     \* projection.health is degraded
  connected,    \* projection.socketConnected
  task,         \* the messages being answered
  token,        \* socketTokens
  closer,       \* socketClosers
  flight,       \* socketConnectFlights
  retries,      \* timers that will connect again
  closing,      \* onClose callbacks that have not yet entered recovery
  acks,         \* sockets whose ack is being handled
  sockets,      \* token -> the browser's socket and its keepalive timer
  adrift, events

stateVars == <<session, selected, projected, attempts, degraded, connected>>
mapVars == <<token, closer, flight>>
runVars == <<retries, closing, acks, sockets>>
vars == <<stateVars, task, mapVars, runVars, adrift, events>>

-----------------------------------------------------------------------------
NoToken == 0
NoFlight == [pc |-> "none", token |-> NoToken]
NoTask == [kind |-> "none", pc |-> "done", want |-> FALSE]
Ids == DOMAIN sockets
Happens == events < MaxEvents /\ events' = events + 1
Wanted == session /\ selected /\ projected
Starts == {[u \in Tasks |-> IF u = t THEN [NoTask EXCEPT !.kind = "start", !.pc = "sync"] ELSE NoTask] : t \in Tasks}

InUse == Ids \union acks \union {token, closer, flight.token}
Fresh == CHOOSE n \in 1 .. Cardinality(InUse) + 1 : n \notin InUse

Init ==
  /\ session = TRUE /\ selected \in BOOLEAN /\ projected = selected
  /\ attempts = 0 /\ degraded = FALSE /\ connected = FALSE
  /\ task \in Starts
  /\ token = NoToken /\ closer = NoToken /\ flight = NoFlight
  /\ retries = 0 /\ closing = 0 /\ acks = {} /\ sockets = <<>>
  /\ adrift = FALSE /\ events = 0

-----------------------------------------------------------------------------
(* shared/websocket.ts: the browser's socket and its keepalive timer.      *)

Set(s, ready, timer) == [sockets EXCEPT ![s] = [ready |-> ready, timer |-> timer]]

(* Mutant: the timer of a socket that is closed keeps running. *)
CloseOnly(s) == Set(s, "closing", sockets[s].timer)

(* The function that connectWorkspaceSocket returns. *)
Closed(s) == Set(s, "closing", FALSE)

(* A socket whose protocol is refused is closed before it is used. *)
SocketOpens(s) ==
  /\ sockets[s].ready = "connecting"
  /\ sockets' \in {Set(s, "open", TRUE), Set(s, "closing", FALSE)}
  /\ UNCHANGED <<stateVars, task, mapVars, retries, closing, acks, adrift, events>>

(* The timer fires and the socket does not take the keepalive. *)
KeepaliveFails(s) ==
  /\ sockets[s].ready = "open" /\ sockets[s].timer
  /\ sockets' = Set(s, "closing", FALSE)
  /\ UNCHANGED <<stateVars, task, mapVars, retries, closing, acks, adrift, events>>

SocketErrors(s) ==
  /\ sockets[s].ready \in {"connecting", "open"}
  /\ sockets' = Set(s, "closing", FALSE)
  /\ UNCHANGED <<stateVars, task, mapVars, retries, closing, acks, adrift, events>>

(* The close event: onClose is for the current socket only. *)
SocketCloses(s) ==
  /\ sockets' = IF sockets[s].timer /\ sockets[s].ready = "closing"
                  THEN Set(s, "closed", TRUE) ELSE [n \in Ids \ {s} |-> sockets[n]]
  /\ IF token = s THEN token' = NoToken /\ closing' = closing + 1 ELSE UNCHANGED <<token, closing>>
  /\ UNCHANGED <<stateVars, task, closer, flight, retries, acks, adrift, events>>

-----------------------------------------------------------------------------
(* connectWorkspace and connectWorkspaceNow.                               *)

(* A caller joins the connection that is in flight. *)
Connect == flight' = IF flight.pc = "none" THEN [pc |-> "begin", token |-> NoToken] ELSE flight

(* The flight that would be joined belongs to a token that was dropped. *)
JoinsTheDead == flight.pc = "ticket" /\ token # flight.token

(* A selection or a logout has closed the socket and has not yet taken the *)
(* workspace away.                                                         *)
Leaving == \E t \in Tasks : task[t].pc \in {"leave", "reset"}

(* closeWorkspaceSocket *)
CloseHeld == IF closer \in Ids THEN Closed(closer) ELSE sockets

FlightBegins ==
  /\ flight.pc = "begin"
  /\ IF Wanted
       THEN /\ token' = Fresh /\ closer' = NoToken /\ sockets' = CloseHeld
            /\ flight' = [pc |-> "ticket", token |-> Fresh]
            /\ adrift' = Leaving
       ELSE flight' = NoFlight /\ UNCHANGED <<token, closer, sockets, adrift>>
  /\ UNCHANGED <<stateVars, task, retries, closing, acks, events>>

(* Mutant: a ticket that comes late is used all the same. *)
AnyToken == Wanted

IsCurrent == token = flight.token /\ Wanted

Opens ==
  /\ flight.pc = "ticket"
  /\ IF IsCurrent
       THEN /\ sockets' = [s \in Ids \union {flight.token} |->
                            IF s = flight.token THEN [ready |-> "connecting", timer |-> FALSE] ELSE sockets[s]]
            /\ closer' = flight.token
       ELSE UNCHANGED <<sockets, closer>>
  /\ flight' = NoFlight
  /\ UNCHANGED <<stateVars, task, token, retries, closing, acks, adrift, events>>

(* Mutant: a failed recovery is not counted. *)
Uncounted ==
  /\ connected' = IF projected THEN FALSE ELSE connected
  /\ degraded' = FALSE
  /\ UNCHANGED attempts

(* Mutant: the budget is checked before it is counted. *)
OffByOne == projected /\ attempts > MaxAttempts

Exhausted == projected /\ attempts + 1 > MaxAttempts

(* Mutant: the budget runs out without a word. *)
Quiet ==
  /\ connected' = IF projected THEN FALSE ELSE connected
  /\ attempts' = IF projected /\ ~Exhausted THEN attempts + 1 ELSE attempts
  /\ degraded' = FALSE

(* enterRecovery: without a projection the caller goes on. *)
EnterRecovery ==
  /\ connected' = IF projected THEN FALSE ELSE connected
  /\ attempts' = IF projected /\ ~Exhausted THEN attempts + 1 ELSE attempts
  /\ degraded' = IF projected THEN Exhausted ELSE degraded

(* createWSTicket fails: again in 250 ms, within the budget. *)
NoTicket ==
  /\ flight.pc = "ticket"
  /\ IF IsCurrent
       THEN EnterRecovery /\ retries' = IF Exhausted THEN retries ELSE retries + 1
       ELSE UNCHANGED <<connected, attempts, degraded, retries>>
  /\ flight' = NoFlight
  /\ UNCHANGED <<session, selected, projected, task, token, closer, closing, acks, sockets, adrift, events>>

RetryFires ==
  /\ retries > 0 /\ retries' = retries - 1
  /\ Connect
  /\ adrift' = (adrift \/ JoinsTheDead)
  /\ UNCHANGED <<stateVars, task, token, closer, closing, acks, sockets, events>>

(* onClose goes on: recoverWorkspace in mode reconnect. *)
Recover ==
  /\ closing > 0 /\ closing' = closing - 1
  /\ EnterRecovery
  /\ IF Exhausted THEN UNCHANGED <<flight, adrift>> ELSE Connect /\ adrift' = (adrift \/ JoinsTheDead)
  /\ UNCHANGED <<session, selected, projected, task, token, closer, retries, acks, sockets, events>>

-----------------------------------------------------------------------------
(* What the frames, a replay and a rebuild make of the projection.         *)

(* A frame restarts the keepalive timer; only the current socket's acts. *)
Frame(s) ==
  /\ sockets[s].ready = "open" /\ token = s /\ Happens
  /\ acks' = acks \union {s}
  /\ sockets' = Set(s, "open", TRUE)
  /\ UNCHANGED <<stateVars, task, mapVars, retries, closing, adrift>>

(* There is a socket, or one is on its way. *)
Supplied ==
  \/ token \in Ids \/ closing > 0 \/ retries > 0
  \/ flight.pc = "begin" \/ (flight.pc = "ticket" /\ token = flight.token)

(* markProjectionLive, at once or after the replay of what was missed. *)
Live == attempts' = 0 /\ degraded' = FALSE /\ connected' = TRUE

AckLands(s) ==
  /\ s \in acks /\ acks' = acks \ {s}
  /\ IF session /\ projected THEN Live /\ adrift' = (adrift \/ ~Supplied) ELSE UNCHANGED <<attempts, degraded, connected, adrift>>
  /\ UNCHANGED <<session, selected, projected, task, mapVars, retries, closing, sockets, events>>

(* retryWorkspace on a paused workspace: the replay marks it live. *)
Replayed ==
  /\ Wanted /\ Happens
  /\ Live /\ adrift' = (adrift \/ ~Supplied)
  /\ UNCHANGED <<session, selected, projected, task, mapVars, runVars>>

(* rebuildWorkspace: a workspace whose socket is up is live again. *)
Rebuilt ==
  /\ Wanted /\ Happens
  /\ IF connected THEN attempts' = 0 /\ degraded' = FALSE ELSE UNCHANGED <<attempts, degraded>>
  /\ Connect
  /\ adrift' = (adrift \/ JoinsTheDead)
  /\ UNCHANGED <<session, selected, projected, connected, task, token, closer, runVars>>

-----------------------------------------------------------------------------
(* Messages, one await at a time.                                          *)

Becomes(t, kind, pc, want) == task' = [task EXCEPT ![t] = [kind |-> kind, pc |-> pc, want |-> want]]
Goes(t, pc) == task' = [task EXCEPT ![t].pc = pc]
Ends(t) == task' = [task EXCEPT ![t] = NoTask]
At(t, kind, pc) == task[t].kind = kind /\ task[t].pc = pc
Free(t) == task[t].kind = "none"

CloseAll ==
  /\ token' = NoToken /\ closer' = NoToken
  /\ sockets' = CloseHeld

(* setSelectedWorkspaces closes the socket first and stores the selection last. *)
Select(t, want) ==
  /\ Free(t) /\ session /\ Happens
  /\ IF selected /\ ~want THEN CloseAll /\ Becomes(t, "select", "leave", want)
                          ELSE UNCHANGED <<token, closer, sockets>> /\ Becomes(t, "select", "store", want)
  /\ UNCHANGED <<stateVars, flight, retries, closing, acks, adrift>>

StoreSelection(t) ==
  /\ task[t].kind = "select" /\ task[t].pc \in {"leave", "store"}
  /\ selected' = task[t].want
  /\ projected' = (projected /\ task[t].want)
  /\ IF task[t].want THEN UNCHANGED <<attempts, degraded, connected>>
                     ELSE attempts' = 0 /\ degraded' = FALSE /\ connected' = FALSE
  /\ adrift' = (adrift \/ (~task[t].want /\ token # NoToken))
  /\ Goes(t, "sync")
  /\ UNCHANGED <<session, mapVars, runVars, events>>

(* syncSelectedWorkspaces, whose catalog may not come, and                 *)
(* ensureWorkspaceProjection.                                              *)
Sync(t) ==
  /\ task[t].pc = "sync"
  /\ \/ /\ session /\ selected
        /\ projected' = TRUE
        /\ Connect
        /\ adrift' = (adrift \/ JoinsTheDead)
        /\ Goes(t, "connecting")
     \/ /\ UNCHANGED <<projected, flight>>
        /\ adrift' = (adrift \/ Wanted)
        /\ Ends(t)
  /\ UNCHANGED <<session, selected, attempts, degraded, connected, token, closer, runVars, events>>

Connected(t) ==
  /\ task[t].pc = "connecting" /\ flight.pc = "none"
  /\ Ends(t)
  /\ UNCHANGED <<stateVars, mapVars, runVars, adrift, events>>

Login(t) ==
  /\ Free(t) /\ ~session /\ Happens
  /\ session' = TRUE
  /\ Becomes(t, "login", "sync", TRUE)
  /\ UNCHANGED <<selected, projected, attempts, degraded, connected, mapVars, runVars, adrift>>

Logout(t) ==
  /\ Free(t) /\ session /\ Happens
  /\ CloseAll
  /\ Becomes(t, "logout", "leave", FALSE)
  /\ UNCHANGED <<stateVars, flight, retries, closing, acks, adrift>>

(* clearSession *)
ClearSession(t) ==
  /\ At(t, "logout", "leave")
  /\ session' = FALSE
  /\ Goes(t, "reset")
  /\ UNCHANGED <<selected, projected, attempts, degraded, connected, mapVars, runVars, adrift, events>>

(* resetStatePreservingSettings *)
Reset(t) ==
  /\ At(t, "logout", "reset")
  /\ session' = FALSE /\ selected' = FALSE /\ projected' = FALSE
  /\ attempts' = 0 /\ degraded' = FALSE /\ connected' = FALSE
  /\ adrift' = (adrift \/ token # NoToken)
  /\ Ends(t)
  /\ UNCHANGED <<mapVars, runVars, events>>

(* pauseForLogin, and the handler it calls when the state is stored. *)
SessionLost(t) ==
  /\ Free(t) /\ session /\ Happens
  /\ session' = FALSE
  /\ Becomes(t, "pause", "close", FALSE)
  /\ UNCHANGED <<selected, projected, attempts, degraded, connected, mapVars, runVars, adrift>>

Paused(t) ==
  /\ At(t, "pause", "close")
  /\ CloseAll
  /\ adrift' = (adrift \/ Wanted)
  /\ Ends(t)
  /\ UNCHANGED <<stateVars, flight, retries, closing, acks, events>>

(* The worker ends and starts again. *)
Evict ==
  /\ Happens
  /\ token' = NoToken /\ closer' = NoToken /\ flight' = NoFlight
  /\ retries' = 0 /\ closing' = 0 /\ acks' = {} /\ sockets' = <<>>
  /\ task' \in Starts
  /\ UNCHANGED <<stateVars, adrift>>

-----------------------------------------------------------------------------
Worker(t) == StoreSelection(t) \/ Sync(t) \/ Connected(t) \/ ClearSession(t) \/ Reset(t) \/ Paused(t)
Runs == FlightBegins \/ Opens \/ NoTicket \/ RetryFires \/ Recover \/ \E s \in acks : AckLands(s)
Messages(t) == (\E want \in BOOLEAN : Select(t, want)) \/ Login(t) \/ Logout(t) \/ SessionLost(t)
Browser(s) == SocketOpens(s) \/ KeepaliveFails(s) \/ SocketErrors(s) \/ SocketCloses(s) \/ Frame(s)

Next ==
  \/ \E t \in Tasks : Worker(t) \/ Messages(t)
  \/ Runs \/ (\E s \in Ids : Browser(s))
  \/ Replayed \/ Rebuilt \/ Evict

Spec == Init /\ [][Next]_vars

(* Promises and timers run to their end while the worker lives. *)
FairSpec == Spec /\ WF_vars(Runs) /\ \A t \in Tasks : WF_vars(Worker(t))

-----------------------------------------------------------------------------
TypeOK ==
  /\ {session, selected, projected, degraded, connected, adrift} \subseteq BOOLEAN
  /\ attempts \in 0 .. MaxAttempts /\ retries \in Nat /\ closing \in Nat
  /\ flight.pc \in {"none", "begin", "ticket"} /\ acks \subseteq Nat
  /\ \A s \in Ids : sockets[s].ready \in {"connecting", "open", "closing", "closed"}

Up(s) == sockets[s].ready \in {"connecting", "open"}

(* At most one socket is up, the one that the maps name: nothing arrives   *)
(* twice, and whoever closes the workspace's socket closes it.             *)
OneSocket == \A s \in Ids : Up(s) => token = s /\ closer = s

(* A socket's keepalive timer ends with it and runs as long as it is open. *)
TimerLivesWithSocket == \A s \in Ids : sockets[s].timer <=> sockets[s].ready = "open"

AtRest == /\ \A t \in Tasks : Free(t)
          /\ flight.pc = "none" /\ retries = 0 /\ closing = 0 /\ acks = {}

(* When nothing is going on, a workspace that is wanted and not reported   *)
(* as degraded has a socket that is up, or whose close is about to come,   *)
(* and one that is not wanted has none.                                    *)
Reconnects ==
  AtRest /\ ~adrift =>
    /\ Wanted /\ ~degraded => token \in Ids
    /\ ~Wanted => \A s \in Ids : ~Up(s)

(* The budget ends the retries, however often tickets and sockets fail. *)
Quiesces == <>[]AtRest

(* What documents say and the code does not keep (README, divergences).    *)

(* A degraded workspace stays degraded until its live delivery is back.    *)
DegradedUntilRestored == [][degraded /\ ~degraded' /\ Wanted' => Supplied']_vars
================================================================================
