--------------------------------- MODULE Session ---------------------------------
(***************************************************************************)
(* The extension's session with the server                                 *)
(* (extension/src/shared/session.ts, api.ts, background/projection.ts) and *)
(* the refresh families it rotates (backend/internal/auth).                *)
(*                                                                         *)
(* The private refresh token and a mirror of the access token live in      *)
(* Chrome's storage, the session's outline in the extension's state, and   *)
(* the access token in use, the epoch and the single refresh flight in the *)
(* memory of a worker that the browser may evict at any await.  Requests,  *)
(* a refresh, a login and a logout interleave between their awaits; a      *)
(* request to the server may execute late, never, or with its answer lost. *)
(*                                                                         *)
(* A token is its own history: the family and the attempts that derived it,*)
(* as derive("child", token, attempt) is deterministic.  Abstracted: other *)
(* devices, and what a request carries.                                    *)
(***************************************************************************)
EXTENDS Naturals, Sequences, SequencesExt

CONSTANTS
  Requests,        \* REST requests that may be under way at the same time
  MaxLogins,       \* bound: logins the server accepts
  MaxEvents        \* bound: clicks, requests, expiries, evictions, windows that close

ASSUME SessionAssumption == {MaxLogins, MaxEvents} \subseteq Nat

VARIABLES
  families,    \* refresh_families: how many were made, and which are revoked
  retired,     \* retired refresh_tokens: the attempt that retired each, and whether its window is open
  reused,      \* history: why reuse was detected last, "no", "late" or "foreign"
  net,         \* requests that the server has not executed
  priv,        \* chrome.storage.local: the refresh token and the pending attempt
  access,      \* the access token in memory and its mirror in chrome.storage.session
  shown,       \* state.session and state.authState
  epoch,       \* sessionEpoch
  flight,      \* refreshFlight
  request,     \* what each REST request waits for
  login, logout, restore,   \* the other tasks, each between two awaits
  count        \* for the bounds: attempts and events; the worker's generation; history: a logout cleared the token

serverVars == <<families, retired, reused>>
storageVars == <<priv, access, shown>>
taskVars == <<flight, request, login, logout, restore>>
vars == <<serverVars, net, storageVars, epoch, taskVars, count>>

-----------------------------------------------------------------------------
NoToken == <<>>
Valid(token) == token # NoToken /\ Head(token) \notin families.revoked
Kept(token, attempt) == [token |-> token, attempt |-> attempt]
NoTask == [pc |-> "none", token |-> NoToken]
NoFlight == [pc |-> "none", epoch |-> 0, token |-> NoToken, attempt |-> 0]
Tokens(a) == [memory |-> a, stored |-> a]
Happens == count.events < MaxEvents /\ count' = [count EXCEPT !.events = @ + 1]

Init ==
  /\ families = [made |-> 0, revoked |-> {}]
  /\ retired = <<>> /\ reused = "no" /\ net = {}
  /\ priv = Kept(NoToken, 0) /\ access = Tokens("none")
  /\ shown = [session |-> FALSE, auth |-> "unset"]
  /\ epoch = 0 /\ flight = NoFlight
  /\ request = [r \in Requests |-> [pc |-> "idle", token |-> "none", sends |-> 0]]
  /\ login = NoTask /\ logout = NoTask /\ restore = NoTask
  /\ count = [attempts |-> 0, worker |-> 0, events |-> 0, cleared |-> FALSE]

-----------------------------------------------------------------------------
(* The server: each call is one transaction with its rows locked.          *)

(* derive("child", token, attempt): the same child for the same attempt. *)
Child(token, attempt) == Append(token, attempt)

(* rotateForClient: a live token gets its child, and so does one that the  *)
(* same attempt has retired within the window; another retired token is a  *)
(* reuse and ends the family.                                              *)
Grants(token, attempt) ==
  /\ Valid(token)
  /\ token \in DOMAIN retired => retired[token] = [attempt |-> attempt, open |-> TRUE]

Rotate(token, attempt) ==
  \/ /\ ~Valid(token) \/ (token \in DOMAIN retired /\ Grants(token, attempt))
     /\ UNCHANGED serverVars
  \/ /\ Valid(token) /\ token \notin DOMAIN retired
     /\ retired' = [u \in DOMAIN retired \union {token} |->
                      IF u = token THEN [attempt |-> attempt, open |-> TRUE] ELSE retired[u]]
     /\ UNCHANGED <<families, reused>>
  \/ /\ Valid(token) /\ token \in DOMAIN retired /\ ~Grants(token, attempt)
     /\ families' = [families EXCEPT !.revoked = @ \union {Head(token)}]
     /\ reused' = IF retired[token].attempt = attempt THEN "late" ELSE "foreign"
     /\ UNCHANGED retired

Awaits(m) == flight.pc = "waiting" /\ m.worker = count.worker

(* The answer of a refresh reaches the flight that still waits for it. *)
ServeRefresh(m) ==
  /\ m.kind = "refresh" /\ net' = net \ {m}
  /\ Rotate(m.token, m.attempt)
  /\ flight' = IF Awaits(m) THEN [flight EXCEPT !.pc = IF Grants(m.token, m.attempt) THEN "granted" ELSE "refused"]
               ELSE flight
  /\ UNCHANGED <<storageVars, epoch, request, login, logout, restore, count>>

(* logoutForClient revokes every family of the device. *)
ServeLogout(m) ==
  /\ m.kind = "logout" /\ net' = net \ {m}
  /\ families' = [families EXCEPT !.revoked = IF Valid(m.token) THEN 1 .. families.made ELSE @]
  /\ UNCHANGED <<retired, reused, storageVars, epoch, taskVars, count>>

Lost(m) ==
  /\ net' = net \ {m}
  /\ UNCHANGED <<serverVars, storageVars, epoch, taskVars, count>>

(* createTx: the family of a login takes the place of the device's others. *)
ServeLogin ==
  /\ login.pc = "posted"
  /\ \/ /\ families.made < MaxLogins
        /\ families' = [made |-> families.made + 1, revoked |-> 1 .. families.made]
        /\ login' = [pc |-> "granted", token |-> <<families.made + 1>>]
     \/ login' = NoTask /\ UNCHANGED families              \* refused, or the answer is lost
  /\ UNCHANGED <<retired, reused, net, storageVars, epoch, flight, request, logout, restore, count>>

WindowCloses(token) ==
  /\ Happens /\ retired[token].open
  /\ retired' = [retired EXCEPT ![token].open = FALSE]
  /\ UNCHANGED <<families, reused, net, storageVars, epoch, taskVars>>

-----------------------------------------------------------------------------
(* refresh: one flight for all callers.                                    *)

(* refreshSession *)
Flying == IF flight.pc = "none" THEN [NoFlight EXCEPT !.pc = "read", !.epoch = epoch] ELSE flight

(* Mutant: only a renewal lets go of the requests that wait. *)
LandOnlyRenewals(outcome) ==
  /\ flight' = NoFlight
  /\ request' = [r \in Requests |->
                   IF request[r].pc = "waiting" /\ outcome = "replay" THEN [request[r] EXCEPT !.pc = outcome] ELSE request[r]]

(* A flight ends: who waits for it replays its request, or fails. *)
Land(outcome) ==
  /\ flight' = NoFlight
  /\ request' = [r \in Requests |->
                   IF request[r].pc = "waiting" THEN [request[r] EXCEPT !.pc = outcome] ELSE request[r]]

(* pauseForLogin removes the credentials, then the session. *)
Forget == priv' = Kept(NoToken, 0) /\ access' = Tokens("none")
LoginRequired == shown' = [session |-> FALSE, auth |-> "loginRequired"]

Read ==
  /\ flight.pc = "read"
  /\ IF priv.token = NoToken
       THEN /\ Forget
            /\ flight' = [flight EXCEPT !.pc = "pausing"]
       ELSE /\ flight' = [flight EXCEPT !.pc = "keep", !.token = priv.token, !.attempt = priv.attempt]
            /\ UNCHANGED <<priv, access>>
  /\ UNCHANGED <<serverVars, net, shown, epoch, request, login, logout, restore, count>>

(* Mutant: the attempt is used without being stored. *)
UseAttempt ==
  /\ flight.pc = "keep"
  /\ count' = [count EXCEPT !.attempts = @ + 1]
  /\ flight' = [flight EXCEPT !.pc = "send", !.attempt = count.attempts + 1]
  /\ UNCHANGED <<serverVars, net, priv, access, shown, epoch, request, login, logout, restore>>

(* Mutant: a stored attempt is not used again. *)
DrawAttempt ==
  /\ flight.pc = "keep"
  /\ count' = [count EXCEPT !.attempts = @ + 1]
  /\ priv' = Kept(flight.token, count.attempts + 1)
  /\ flight' = [flight EXCEPT !.pc = "send", !.attempt = count.attempts + 1]
  /\ UNCHANGED <<serverVars, net, access, shown, epoch, request, login, logout, restore>>

(* The attempt is stored before it is used; one that is stored already is  *)
(* used again.                                                             *)
KeepAttempt ==
  /\ flight.pc = "keep"
  /\ IF flight.attempt # 0
       THEN flight' = [flight EXCEPT !.pc = "send"] /\ UNCHANGED <<priv, count>>
       ELSE /\ count' = [count EXCEPT !.attempts = @ + 1]
            /\ priv' = Kept(flight.token, count.attempts + 1)
            /\ flight' = [flight EXCEPT !.pc = "send", !.attempt = count.attempts + 1]
  /\ UNCHANGED <<serverVars, net, access, shown, epoch, request, login, logout, restore>>

Send ==
  /\ flight.pc = "send"
  /\ net' = net \union {[kind |-> "refresh", token |-> flight.token, attempt |-> flight.attempt, worker |-> count.worker]}
  /\ flight' = [flight EXCEPT !.pc = "waiting"]
  /\ UNCHANGED <<serverVars, storageVars, epoch, request, login, logout, restore, count>>

(* Mutant: a refresh without an answer asks for a login. *)
UnavailablePauses ==
  /\ flight.pc \in {"waiting", "granted", "refused"}
  /\ Forget
  /\ flight' = [flight EXCEPT !.pc = "pausing"]
  /\ UNCHANGED <<serverVars, net, shown, epoch, request, login, logout, restore, count>>

(* No answer, or one that is neither 200 nor 401: the session stays. *)
RefreshUnavailable ==
  /\ flight.pc \in {"waiting", "granted", "refused"}
  /\ Land("failed")
  /\ UNCHANGED <<serverVars, net, storageVars, epoch, login, logout, restore, count>>

Granted ==
  /\ flight.pc = "granted"
  /\ IF flight.epoch = epoch
       THEN /\ priv' = Kept(Child(flight.token, flight.attempt), 0)
            /\ flight' = [flight EXCEPT !.pc = "stored"]
            /\ UNCHANGED request
       ELSE Land("failed") /\ UNCHANGED priv
  /\ UNCHANGED <<serverVars, net, access, shown, epoch, login, logout, restore, count>>

Stored ==
  /\ flight.pc = "stored"
  /\ access' = Tokens("good")
  /\ flight' = [flight EXCEPT !.pc = "mirrored"]
  /\ UNCHANGED <<serverVars, net, priv, shown, epoch, request, login, logout, restore, count>>

Renewed ==
  /\ flight.pc = "mirrored"
  /\ shown' = [session |-> TRUE, auth |-> "authenticated"]
  /\ Land("replay")
  /\ UNCHANGED <<serverVars, net, priv, access, epoch, login, logout, restore, count>>

Refused ==
  /\ flight.pc = "refused"
  /\ Forget
  /\ flight' = [flight EXCEPT !.pc = "pausing"]
  /\ UNCHANGED <<serverVars, net, shown, epoch, request, login, logout, restore, count>>

Paused ==
  /\ flight.pc = "pausing"
  /\ LoginRequired
  /\ Land("failed")
  /\ UNCHANGED <<serverVars, net, priv, access, epoch, login, logout, restore, count>>

-----------------------------------------------------------------------------
(* requestRaw: the access token in memory, one renewal, one replay.        *)

Call(r) ==
  /\ Happens
  /\ request[r].pc \in {"idle", "done", "failed"} /\ shown.session
  /\ request' = [request EXCEPT ![r] = [pc |-> "sent", token |-> access.memory, sends |-> 1]]
  /\ UNCHANGED <<serverVars, net, storageVars, epoch, flight, login, logout, restore>>

Answered(r) ==
  /\ request[r].pc = "sent" /\ request[r].token = "good"
  /\ request' = [request EXCEPT ![r].pc = "done"]
  /\ UNCHANGED <<serverVars, net, storageVars, epoch, flight, login, logout, restore, count>>

(* Mutant: every 401 renews. *)
RenewAgain(r) ==
  /\ request[r].pc = "sent" /\ request[r].token # "good"
  /\ flight' = Flying /\ request' = [request EXCEPT ![r].pc = "waiting"]
  /\ UNCHANGED <<serverVars, net, storageVars, epoch, login, logout, restore, count>>

Unauthorized(r) ==
  /\ request[r].pc = "sent" /\ request[r].token # "good"
  /\ IF request[r].sends = 1
       THEN flight' = Flying /\ request' = [request EXCEPT ![r].pc = "waiting"]
       ELSE request' = [request EXCEPT ![r].pc = "failed"] /\ UNCHANGED flight
  /\ UNCHANGED <<serverVars, net, storageVars, epoch, login, logout, restore, count>>

Replay(r) ==
  /\ request[r].pc = "replay"
  /\ request' = [request EXCEPT ![r] = [pc |-> "sent", token |-> access.memory, sends |-> @.sends + 1]]
  /\ UNCHANGED <<serverVars, net, storageVars, epoch, flight, login, logout, restore, count>>

-----------------------------------------------------------------------------
(* login and saveSession; logout and clearSession; restoreSession.         *)

Login ==
  /\ Happens /\ ~shown.session /\ login.pc = "none"
  /\ login' = [NoTask EXCEPT !.pc = "posted"]
  /\ UNCHANGED <<serverVars, net, storageVars, epoch, flight, request, logout, restore>>

SaveToken ==
  /\ login.pc = "granted"
  /\ epoch' = epoch + 1
  /\ priv' = Kept(login.token, 0)
  /\ login' = [login EXCEPT !.pc = "stored"]
  /\ UNCHANGED <<serverVars, net, access, shown, flight, request, logout, restore, count>>

SaveAccess ==
  /\ login.pc = "stored"
  /\ access' = Tokens("good")
  /\ login' = [login EXCEPT !.pc = "mirrored"]
  /\ UNCHANGED <<serverVars, net, priv, shown, epoch, flight, request, logout, restore, count>>

SignedIn ==
  /\ login.pc = "mirrored"
  /\ shown' = [session |-> TRUE, auth |-> "authenticated"]
  /\ login' = NoTask
  /\ UNCHANGED <<serverVars, net, priv, access, epoch, flight, request, logout, restore, count>>

Logout ==
  /\ Happens /\ shown.session /\ logout.pc = "none"
  /\ logout' = [NoTask EXCEPT !.pc = "clicked"]
  /\ UNCHANGED <<serverVars, net, storageVars, epoch, flight, request, login, restore>>

(* bestEffortLogout reads the token just before clearSession removes it. *)
ClearToken ==
  /\ logout.pc = "clicked"
  /\ epoch' = epoch + 1
  /\ net' = IF priv.token = NoToken THEN net
            ELSE net \union {[kind |-> "logout", token |-> priv.token, attempt |-> 0, worker |-> 0]}
  /\ Forget
  /\ logout' = [logout EXCEPT !.pc = "cleared"]
  /\ count' = [count EXCEPT !.cleared = TRUE]
  /\ UNCHANGED <<serverVars, shown, flight, request, login, restore>>

ClearSession ==
  /\ logout.pc = "cleared"
  /\ shown' = [shown EXCEPT !.session = FALSE]
  /\ logout' = [logout EXCEPT !.pc = "resetting"]
  /\ UNCHANGED <<serverVars, net, priv, access, epoch, flight, request, login, restore, count>>

(* resetStatePreservingSettings, once the projections are removed. *)
SignedOut ==
  /\ logout.pc = "resetting"
  /\ shown' = [session |-> FALSE, auth |-> "unset"]
  /\ logout' = NoTask
  /\ UNCHANGED <<serverVars, net, priv, access, epoch, flight, request, login, restore, count>>

(* The browser ends the worker, or itself: then session storage is lost too. *)
Evict(mirror) ==
  /\ count.events < MaxEvents
  /\ count' = [count EXCEPT !.events = @ + 1, !.worker = @ + 1]
  /\ access' = [memory |-> "none", stored |-> mirror]
  /\ epoch' = 0 /\ flight' = NoFlight
  /\ request' = [r \in Requests |-> [pc |-> "idle", token |-> "none", sends |-> 0]]
  /\ login' = NoTask /\ logout' = NoTask
  /\ restore' = [NoTask EXCEPT !.pc = "read"]
  /\ UNCHANGED <<serverVars, net, priv, shown>>

RestoreAccess ==
  /\ restore.pc = "read"
  /\ access' = [access EXCEPT !.memory = access.stored]
  /\ restore' = [restore EXCEPT !.pc = "check"]
  /\ UNCHANGED <<serverVars, net, priv, shown, epoch, flight, request, login, logout, count>>

Restore ==
  /\ restore.pc = "check"
  /\ \/ /\ priv.token # NoToken /\ access.memory = "none"
        /\ flight' = Flying /\ restore' = NoTask
        /\ UNCHANGED <<priv, access>>
     \/ /\ priv.token = NoToken /\ shown.session
        /\ Forget
        /\ restore' = [restore EXCEPT !.pc = "pausing"]
        /\ UNCHANGED flight
     \/ /\ IF priv.token # NoToken THEN access.memory # "none" ELSE ~shown.session
        /\ restore' = NoTask
        /\ UNCHANGED <<priv, access, flight>>
  /\ UNCHANGED <<serverVars, net, shown, epoch, request, login, logout, count>>

RestorePaused ==
  /\ restore.pc = "pausing"
  /\ LoginRequired
  /\ restore' = NoTask
  /\ UNCHANGED <<serverVars, net, priv, access, epoch, flight, request, login, logout, count>>

Expire ==
  /\ Happens /\ access.memory = "good"
  /\ access' = Tokens("expired")
  /\ UNCHANGED <<serverVars, net, priv, shown, epoch, taskVars>>

-----------------------------------------------------------------------------
Worker ==
  \/ Read \/ KeepAttempt \/ Send \/ Granted \/ Stored \/ Renewed \/ Refused \/ Paused \/ RefreshUnavailable
  \/ \E r \in Requests : Answered(r) \/ Unauthorized(r) \/ Replay(r)
  \/ SaveToken \/ SaveAccess \/ SignedIn \/ ClearToken \/ ClearSession \/ SignedOut
  \/ RestoreAccess \/ Restore \/ RestorePaused

Environment ==
  \/ Login \/ Logout \/ ServeLogin \/ Expire
  \/ \E r \in Requests : Call(r)
  \/ \E m \in net : ServeRefresh(m) \/ ServeLogout(m) \/ Lost(m)
  \/ \E token \in DOMAIN retired : WindowCloses(token)
  \/ Evict("none") \/ Evict(access.stored)

Next == Worker \/ Environment
Spec == Init /\ [][Next]_vars

(* The worker goes on with what it has begun. *)
FairSpec == Spec /\ WF_vars(Worker)

-----------------------------------------------------------------------------
Pcs == {"none", "read", "keep", "send", "waiting", "granted", "stored", "mirrored", "refused", "pausing"}
TypeOK ==
  /\ families.made \in 0 .. MaxLogins /\ families.revoked \subseteq 1 .. families.made
  /\ flight.pc \in Pcs /\ flight.attempt \in 0 .. count.attempts
  /\ \A r \in Requests : request[r].sends \in 0 .. 2
  /\ access.memory \in {"none", "good", "expired"} /\ access.stored \in {"none", "good", "expired"}
  /\ shown.session \in BOOLEAN

(* A retired token is presented again only by the attempt that retired it: *)
(* evictions, lost answers and late requests never look like its reuse.    *)
NeverForeign == reused # "foreign"

(* The stored token can always be renewed: if it is retired already, its    *)
(* attempt is stored with it, so the same child is still to be had.        *)
Recoverable ==
  Valid(priv.token) /\ priv.token \in DOMAIN retired => priv.attempt = retired[priv.token].attempt

(* A session ends in "login required" only for a cause: a family was       *)
(* revoked, or a logout has removed the token.                             *)
EndsForCause ==
  [][shown'.auth = "loginRequired" /\ shown.auth # "loginRequired"
       => families.revoked # {} \/ count.cleared]_vars

(* Every request that waits for a renewal is let go. *)
RequestsEnd == \A r \in Requests : request[r].pc = "waiting" ~> request[r].pc # "waiting"

(* What documents say and the code does not keep (README, divergences).    *)

(* A 401 starts no refresh if another has just renewed the token. *)
OneRefresh ==
  [][\A r \in Requests : Unauthorized(r) /\ flight.pc = "none" /\ flight'.pc = "read"
       => request[r].token # "expired" \/ access.memory # "good"]_vars

(* After a logout only a login signs in. *)
SignedOutStays == [][shown.auth = "unset" /\ shown'.session => SignedIn]_vars

(* A refused refresh removes no token but the one it presented. *)
LoginSurvives == [][flight.pc = "refused" /\ Refused => priv.token = flight.token]_vars
=============================================================================
