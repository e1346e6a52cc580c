----------------------------- MODULE SessionsProofs -----------------------------
(***************************************************************************)
(* Machine-checked proofs about the three parts of MCSessions: the session *)
(* of the extension (Session), its sockets (Sockets) and the session of    *)
(* the admin panel (AdminSession), for any requests, messages, accounts    *)
(* and bounds.                                                             *)
(***************************************************************************)
EXTENDS MCSessions, FiniteSetTheorems, TLAPS

(***************************************************************************)
(* The session of the extension.  A token in use was given by the server,  *)
(* and so its family is one of those made.                                 *)
(***************************************************************************)
AccessWords == {"none", "good", "expired"}
Known(t) == t # NoToken /\ Head(t) \in 1 .. families.made
Holding == flight.pc \in {"keep", "send", "waiting", "granted"}
Refreshes == {m \in net : m.kind = "refresh"}

ServerTypes ==
  /\ families \in [made : Nat, revoked : SUBSET Nat] /\ families.revoked \subseteq 1 .. families.made
  /\ DOMAIN retired \subseteq Seq(Nat) /\ retired \in [DOMAIN retired -> [attempt : Nat, open : BOOLEAN]]
  /\ net \subseteq [kind : {"refresh", "logout"}, token : Seq(Nat), attempt : Nat, worker : Nat]
ClientTypes ==
  /\ priv \in [token : Seq(Nat), attempt : Nat]
  /\ access \in [memory : AccessWords, stored : AccessWords]
  /\ shown \in [session : BOOLEAN, auth : {"unset", "authenticated", "loginRequired"}]
  /\ epoch \in Nat
  /\ count \in [attempts : Nat, worker : Nat, events : Nat, cleared : BOOLEAN]
TaskTypes ==
  /\ flight \in [pc : Pcs, epoch : Nat, token : Seq(Nat), attempt : Nat]
  /\ request \in [Requests -> [pc : {"idle", "sent", "waiting", "replay", "done", "failed"},
                               token : AccessWords, sends : Nat]]
  /\ login \in [pc : {"none", "posted", "granted", "stored", "mirrored"}, token : Seq(Nat)]
  /\ logout \in [pc : {"none", "clicked", "cleared", "resetting"}, token : Seq(Nat)]
  /\ restore \in [pc : {"none", "read", "check", "pausing"}, token : Seq(Nat)]
SessionTypes == ServerTypes /\ ClientTypes /\ TaskTypes

(* Tokens that are held or under way are known, and what has been sent was *)
(* sent with an attempt.                                                   *)
TokensKnown ==
  /\ \A t \in DOMAIN retired : Known(t) /\ retired[t].attempt # 0
  /\ \A m \in Refreshes : Known(m.token) /\ m.attempt # 0
  /\ priv.token # NoToken => Known(priv.token)
  /\ Holding => Known(flight.token)
  /\ flight.pc \in {"send", "waiting", "granted"} => flight.attempt # 0
  /\ login.pc = "granted" => \E n \in 1 .. families.made : login.token = <<n>>

(* What the server was asked or has retired: a token and the attempt.      *)
Pairs == {<<m.token, m.attempt>> : m \in Refreshes} \cup {<<t, retired[t].attempt>> : t \in DOMAIN retired}

(* One token descends from another.                                        *)
Longer(u, t) == Len(u) > Len(t) /\ \A i \in 1 .. Len(t) : u[i] = t[i]

(* Whoever holds t with attempt a holds the newest of its line, and the    *)
(* only attempt that was ever made with it.                                *)
Held(t, a) == \A p \in Pairs : (p[1] = t => p[2] = a) /\ ~ Longer(p[1], t)

OneEach == \A p, q \in Pairs : p[1] = q[1] => p[2] = q[2]
BothHeld ==
  Holding /\ priv.token # NoToken =>
    /\ ~ Longer(priv.token, flight.token) /\ ~ Longer(flight.token, priv.token)
    /\ priv.token = flight.token => priv.attempt = flight.attempt
Unborn ==
  login.pc = "granted" =>
    /\ \A p \in Pairs : Head(p[1]) # Head(login.token)
    /\ priv.token # NoToken => Head(priv.token) # Head(login.token)
    /\ Holding => Head(flight.token) # Head(login.token)
TokenInv ==
  /\ OneEach /\ BothHeld /\ Unborn
  /\ priv.token # NoToken => Held(priv.token, priv.attempt)
  /\ Holding => Held(flight.token, flight.attempt)

(* The login is asked for only when a family was revoked or a logout took  *)
(* the token; without either, a stored token backs whatever is going on.   *)
Cause == families.revoked # {} \/ count.cleared
Quiet ==   \* nobody has signed in yet, and nothing that needs a session goes on
  /\ ~ shown.session /\ flight.pc = "none" /\ login.pc \notin {"stored", "mirrored"}
  /\ \A r \in Requests : request[r].pc = "idle"
CauseInv ==
  /\ flight.pc \in {"refused", "pausing"} \/ restore.pc = "pausing" => Cause
  /\ Cause \/ priv.token # NoToken \/ Quiet

SessionInv == SessionTypes /\ TokensKnown /\ TokenInv /\ CauseInv

LEMMA ServerTypesNext == ASSUME SessionTypes, TokensKnown, Next PROVE ServerTypes'
  <1> USE DEF SessionTypes, ServerTypes
  <1>0. CASE UNCHANGED <<serverVars, net>>
    BY <1>0 DEF serverVars
  <1>1. ASSUME NEW m \in net, ServeRefresh(m)
        PROVE  ServerTypes'
    <2>1. m \in [kind : {"refresh", "logout"}, token : Seq(Nat), attempt : Nat, worker : Nat] /\ net' = net \ {m}
      BY <1>1 DEF ServeRefresh
    <2>2. CASE UNCHANGED serverVars
      BY <2>1, <2>2 DEF serverVars
    <2>3. CASE /\ retired' = [u \in DOMAIN retired \union {m.token} |->
                                IF u = m.token THEN [attempt |-> m.attempt, open |-> TRUE] ELSE retired[u]]
               /\ UNCHANGED <<families, reused>>
      BY <2>1, <2>3
    <2>4. CASE /\ families' = [families EXCEPT !.revoked = @ \union {Head(m.token)}]
               /\ UNCHANGED retired
      <3>1. PICK f : f = Head(m.token)
        OBVIOUS
      <3>2. f \in 1 .. families.made /\ f \in Nat
        BY <1>1, <3>1 DEF TokensKnown, Refreshes, Known, ServeRefresh
      <3>3. families' = [families EXCEPT !.revoked = @ \union {f}] /\ UNCHANGED retired
        BY <2>4, <3>1
      <3>4. families' \in [made : Nat, revoked : SUBSET Nat] /\ families'.revoked \subseteq 1 .. families'.made
        BY <3>2, <3>3
      <3>5. net' \subseteq net
        BY <2>1
      <3> QED
        BY <3>3, <3>4, <3>5
    <2> QED
      BY <1>1, <2>2, <2>3, <2>4 DEF ServeRefresh, Rotate
  <1>2. ASSUME NEW m \in net, ServeLogout(m)
        PROVE  ServerTypes'
    <2> DEFINE Revoked == IF Valid(m.token) THEN 1 .. families.made ELSE families.revoked
    <2>1. families' = [families EXCEPT !.revoked = Revoked] /\ retired' = retired /\ net' = net \ {m}
      BY <1>2 DEF ServeLogout
    <2>2. Revoked \subseteq 1 .. families.made
      OBVIOUS
    <2> HIDE DEF Revoked
    <2>3. families'.made = families.made /\ families'.revoked = Revoked /\ families' \in [made : Nat, revoked : SUBSET Nat]
      BY <2>1, <2>2
    <2>4. families'.revoked \subseteq 1 .. families'.made
      BY <2>2, <2>3
    <2>5. net' \subseteq net
      BY <2>1
    <2> QED
      BY <2>1, <2>3, <2>4, <2>5
  <1>3. ASSUME NEW m \in net, Lost(m)
        PROVE  ServerTypes'
    BY <1>3 DEF Lost, serverVars
  <1>4. CASE ServeLogin
    BY <1>4 DEF ServeLogin
  <1>5. ASSUME NEW t \in DOMAIN retired, WindowCloses(t)
        PROVE  ServerTypes'
    BY <1>5 DEF WindowCloses
  <1>6. CASE Send
    <2> DEFINE m == [kind |-> "refresh", token |-> flight.token, attempt |-> flight.attempt, worker |-> count.worker]
    <2>1. net' = net \union {m} /\ families' = families /\ retired' = retired
      BY <1>6 DEF Send, serverVars
    <2>2. flight.token \in Seq(Nat) /\ flight.attempt \in Nat /\ count.worker \in Nat
      BY DEF TaskTypes, ClientTypes
    <2>3. m \in [kind : {"refresh", "logout"}, token : Seq(Nat), attempt : Nat, worker : Nat]
      BY <2>2
    <2> HIDE DEF m
    <2> QED
      BY <2>1, <2>3
  <1>7. CASE ClearToken
    BY <1>7 DEF ClearToken, serverVars, ClientTypes
  <1> QED
    BY <1>0, <1>1, <1>2, <1>3, <1>4, <1>5, <1>6, <1>7 DEF Next, Worker, Environment,
       Read, KeepAttempt, Granted, Stored, Renewed, Refused, Paused, RefreshUnavailable, Answered,
       Unauthorized, Replay, SaveToken, SaveAccess, SignedIn, ClearSession, SignedOut, RestoreAccess,
       Restore, RestorePaused, Login, Logout, Expire, Call, Evict

(* What a step may write to each variable of the client.                   *)
LEMMA ClientWrites ==
  ASSUME Next
  PROVE  /\ priv' \in {priv, Kept(NoToken, 0), Kept(flight.token, count.attempts + 1),
                       Kept(Child(flight.token, flight.attempt), 0), Kept(login.token, 0)}
         /\ \/ access' \in {access, Tokens("none"), Tokens("good"), Tokens("expired")}
            \/ access' \in {[memory |-> "none", stored |-> a] : a \in {"none", access.stored}}
            \/ access' = [access EXCEPT !.memory = access.stored]
         /\ shown' \in {shown, [shown EXCEPT !.session = FALSE], [session |-> FALSE, auth |-> "loginRequired"],
                        [session |-> FALSE, auth |-> "unset"], [session |-> TRUE, auth |-> "authenticated"]}
         /\ epoch' \in {epoch, epoch + 1, 0}
         /\ count' \in {count, [count EXCEPT !.attempts = @ + 1], [count EXCEPT !.cleared = TRUE],
                        [count EXCEPT !.events = @ + 1], [count EXCEPT !.events = @ + 1, !.worker = @ + 1]}
  <1>1. priv' \in {priv, Kept(NoToken, 0), Kept(flight.token, count.attempts + 1),
                     Kept(Child(flight.token, flight.attempt), 0), Kept(login.token, 0)}
    BY DEF Next, Worker, Environment, Read, KeepAttempt, Send, Granted, Stored, Renewed, Refused, Paused,
       RefreshUnavailable, Answered, Unauthorized, Replay, SaveToken, SaveAccess, SignedIn, ClearToken,
       ClearSession, SignedOut, RestoreAccess, Restore, RestorePaused, Login, Logout, ServeLogin, Expire, Call,
       ServeRefresh, ServeLogout, Lost, WindowCloses, Evict, Happens, Forget, LoginRequired, storageVars
  <1>2. \/ access' \in {access, Tokens("none"), Tokens("good"), Tokens("expired")}
        \/ access' \in {[memory |-> "none", stored |-> a] : a \in {"none", access.stored}}
        \/ access' = [access EXCEPT !.memory = access.stored]
    BY DEF Next, Worker, Environment, Read, KeepAttempt, Send, Granted, Stored, Renewed, Refused, Paused,
       RefreshUnavailable, Answered, Unauthorized, Replay, SaveToken, SaveAccess, SignedIn, ClearToken,
       ClearSession, SignedOut, RestoreAccess, Restore, RestorePaused, Login, Logout, ServeLogin, Expire, Call,
       ServeRefresh, ServeLogout, Lost, WindowCloses, Evict, Happens, Forget, LoginRequired, storageVars
  <1>3. shown' \in {shown, [shown EXCEPT !.session = FALSE], [session |-> FALSE, auth |-> "loginRequired"],
                      [session |-> FALSE, auth |-> "unset"], [session |-> TRUE, auth |-> "authenticated"]}
    BY DEF Next, Worker, Environment, Read, KeepAttempt, Send, Granted, Stored, Renewed, Refused, Paused,
       RefreshUnavailable, Answered, Unauthorized, Replay, SaveToken, SaveAccess, SignedIn, ClearToken,
       ClearSession, SignedOut, RestoreAccess, Restore, RestorePaused, Login, Logout, ServeLogin, Expire, Call,
       ServeRefresh, ServeLogout, Lost, WindowCloses, Evict, Happens, Forget, LoginRequired, storageVars
  <1>4. epoch' \in {epoch, epoch + 1, 0}
    BY DEF Next, Worker, Environment, Read, KeepAttempt, Send, Granted, Stored, Renewed, Refused, Paused,
       RefreshUnavailable, Answered, Unauthorized, Replay, SaveToken, SaveAccess, SignedIn, ClearToken,
       ClearSession, SignedOut, RestoreAccess, Restore, RestorePaused, Login, Logout, ServeLogin, Expire, Call,
       ServeRefresh, ServeLogout, Lost, WindowCloses, Evict, Happens, Forget, LoginRequired, storageVars
  <1>5. count' \in {count, [count EXCEPT !.attempts = @ + 1], [count EXCEPT !.cleared = TRUE],
                      [count EXCEPT !.events = @ + 1], [count EXCEPT !.events = @ + 1, !.worker = @ + 1]}
    BY DEF Next, Worker, Environment, Read, KeepAttempt, Send, Granted, Stored, Renewed, Refused, Paused,
       RefreshUnavailable, Answered, Unauthorized, Replay, SaveToken, SaveAccess, SignedIn, ClearToken,
       ClearSession, SignedOut, RestoreAccess, Restore, RestorePaused, Login, Logout, ServeLogin, Expire, Call,
       ServeRefresh, ServeLogout, Lost, WindowCloses, Evict, Happens, Forget, LoginRequired, storageVars
  <1> QED
    BY <1>1, <1>2, <1>3, <1>4, <1>5

LEMMA ClientTypesNext == ASSUME SessionTypes, Next PROVE ClientTypes'
  <1>1. NoToken \in Seq(Nat) /\ Child(flight.token, flight.attempt) \in Seq(Nat)
    BY DEF NoToken, Child, SessionTypes, TaskTypes
  <1>2. priv' \in [token : Seq(Nat), attempt : Nat]
    <2> DEFINE Records == [token : Seq(Nat), attempt : Nat]
    <2>1. priv' \in {priv, Kept(NoToken, 0), Kept(flight.token, count.attempts + 1),
                     Kept(Child(flight.token, flight.attempt), 0), Kept(login.token, 0)}
      BY ClientWrites
    <2>2. flight.token \in Seq(Nat) /\ login.token \in Seq(Nat) /\ count.attempts + 1 \in Nat /\ priv \in Records
      BY DEF TaskTypes, SessionTypes, ClientTypes
    <2>3. \A t \in Seq(Nat), a \in Nat : Kept(t, a) \in Records
      BY DEF Kept
    <2> HIDE DEF Records
    <2>4. priv' \in Records
      BY <1>1, <2>1, <2>2, <2>3
    <2> QED
      BY <2>4 DEF Records
  <1>3. access' \in [memory : AccessWords, stored : AccessWords]
    BY ClientWrites DEF Tokens, AccessWords, SessionTypes, ClientTypes
  <1>4. shown' \in [session : BOOLEAN, auth : {"unset", "authenticated", "loginRequired"}]
    <2>1. shown \in [session : BOOLEAN, auth : {"unset", "authenticated", "loginRequired"}]
      BY DEF SessionTypes, ClientTypes
    <2>2. shown' \in {shown, [shown EXCEPT !.session = FALSE], [session |-> FALSE, auth |-> "loginRequired"],
                      [session |-> FALSE, auth |-> "unset"], [session |-> TRUE, auth |-> "authenticated"]}
      BY ClientWrites
    <2>3. CASE shown' \in {[session |-> FALSE, auth |-> "loginRequired"],
                           [session |-> FALSE, auth |-> "unset"], [session |-> TRUE, auth |-> "authenticated"]}
      <3>1. /\ [session |-> FALSE, auth |-> "loginRequired"] \in [session : BOOLEAN, auth : {"unset", "authenticated", "loginRequired"}]
            /\ [session |-> FALSE, auth |-> "unset"] \in [session : BOOLEAN, auth : {"unset", "authenticated", "loginRequired"}]
            /\ [session |-> TRUE, auth |-> "authenticated"] \in [session : BOOLEAN, auth : {"unset", "authenticated", "loginRequired"}]
        OBVIOUS
      <3> QED
        BY <2>3, <3>1
    <2>4. CASE shown' = [shown EXCEPT !.session = FALSE]
      BY <2>1, <2>4
    <2> QED
      BY <2>1, <2>2, <2>3, <2>4
  <1>5. epoch' \in Nat
    BY ClientWrites DEF SessionTypes, ClientTypes
  <1>6. count' \in [attempts : Nat, worker : Nat, events : Nat, cleared : BOOLEAN]
    <2>1. count \in [attempts : Nat, worker : Nat, events : Nat, cleared : BOOLEAN]
      BY DEF SessionTypes, ClientTypes
    <2>2. [count EXCEPT !.attempts = @ + 1] \in [attempts : Nat, worker : Nat, events : Nat, cleared : BOOLEAN]
      BY <2>1
    <2>3. [count EXCEPT !.cleared = TRUE] \in [attempts : Nat, worker : Nat, events : Nat, cleared : BOOLEAN]
      BY <2>1
    <2>4. [count EXCEPT !.events = @ + 1] \in [attempts : Nat, worker : Nat, events : Nat, cleared : BOOLEAN]
      BY <2>1
    <2>5. [count EXCEPT !.events = @ + 1, !.worker = @ + 1]
             \in [attempts : Nat, worker : Nat, events : Nat, cleared : BOOLEAN]
      <3>1. PICK n, w \in Nat : n = count.events + 1 /\ w = count.worker + 1
        BY <2>1
      <3> QED
        BY <2>1, <3>1
    <2> QED
      BY <2>1, <2>2, <2>3, <2>4, <2>5, ClientWrites
  <1> QED
    BY <1>2, <1>3, <1>4, <1>5, <1>6 DEF ClientTypes

(* The records of a login, a logout and a restore, by the steps they have. *)
TaskForms(pcs) == [pc : pcs, token : Seq(Nat)]

LEMMA TaskTypesNext == ASSUME SessionTypes, Next PROVE TaskTypes'
  <1> DEFINE Flights == [pc : Pcs, epoch : Nat, token : Seq(Nat), attempt : Nat]
             Asks == [pc : {"idle", "sent", "waiting", "replay", "done", "failed"}, token : AccessWords, sends : Nat]
  <1>1. NoFlight \in Flights /\ NoToken \in Seq(Nat) /\ flight \in Flights
    BY DEF NoFlight, NoToken, Pcs, SessionTypes, TaskTypes
  <1>2. flight' \in Flights
    <2>1. /\ [NoFlight EXCEPT !.pc = "read", !.epoch = epoch] \in Flights
          /\ \A pc \in Pcs : [flight EXCEPT !.pc = pc] \in Flights
          /\ [flight EXCEPT !.pc = "keep", !.token = priv.token, !.attempt = priv.attempt] \in Flights
          /\ [flight EXCEPT !.pc = "send", !.attempt = count.attempts + 1] \in Flights
      <3>1. [NoFlight EXCEPT !.pc = "read", !.epoch = epoch] \in Flights
        BY <1>1 DEF Pcs, NoFlight, SessionTypes, ClientTypes
      <3>2. \A pc \in Pcs : [flight EXCEPT !.pc = pc] \in Flights
        BY <1>1
      <3>3. "keep" \in Pcs /\ "send" \in Pcs /\ priv.token \in Seq(Nat) /\ priv.attempt \in Nat /\ count.attempts + 1 \in Nat
        BY DEF Pcs, SessionTypes, ClientTypes
      <3>4. [flight EXCEPT !.pc = "keep", !.token = priv.token, !.attempt = priv.attempt] \in Flights
        BY <1>1, <3>3
      <3>5. [flight EXCEPT !.pc = "send", !.attempt = count.attempts + 1] \in Flights
        BY <1>1, <3>3
      <3> QED
        BY <3>1, <3>2, <3>4, <3>5
    <2>2. \/ flight' \in {flight, NoFlight, [NoFlight EXCEPT !.pc = "read", !.epoch = epoch],
                         [flight EXCEPT !.pc = "keep", !.token = priv.token, !.attempt = priv.attempt],
                         [flight EXCEPT !.pc = "send", !.attempt = count.attempts + 1]}
          \/ \E pc \in Pcs : flight' = [flight EXCEPT !.pc = pc]
      BY DEF Next, Worker, Environment, Read, KeepAttempt, Send, Granted, Stored, Renewed, Refused, Paused,
         RefreshUnavailable, Answered, Unauthorized, Replay, SaveToken, SaveAccess, SignedIn, ClearToken,
         ClearSession, SignedOut, RestoreAccess, Restore, RestorePaused, Login, Logout, ServeLogin, Expire, Call,
         ServeRefresh, ServeLogout, Lost, WindowCloses, Evict, Land, Flying, Pcs, taskVars
    <2> HIDE DEF Flights
    <2> QED
      BY <1>1, <2>1, <2>2
  <1>3. request' \in [Requests -> Asks]
    <2>0. request \in [Requests -> Asks] /\ access.memory \in AccessWords /\ "none" \in AccessWords
      BY DEF SessionTypes, TaskTypes, ClientTypes, AccessWords
    <2>1. CASE request' = request
      BY <2>0, <2>1
    <2>2. ASSUME NEW outcome \in {"failed", "replay"}, Land(outcome)
          PROVE  request' \in [Requests -> Asks]
      BY <2>0, <2>2 DEF Land
    <2>3. ASSUME NEW r \in Requests, Answered(r) \/ Unauthorized(r) \/ Replay(r) \/ Call(r)
          PROVE  request' \in [Requests -> Asks]
      BY <2>0, <2>3 DEF Answered, Unauthorized, Replay, Call
    <2>4. ASSUME NEW mirror, Evict(mirror)
          PROVE  request' \in [Requests -> Asks]
      BY <2>0, <2>4 DEF Evict
    <2> QED
      BY <2>1, <2>2, <2>3, <2>4 DEF Next, Worker, Environment, Read, KeepAttempt, Send, Granted, Stored, Renewed,
         Refused, Paused, RefreshUnavailable, SaveToken, SaveAccess, SignedIn, ClearToken,
         ClearSession, SignedOut, RestoreAccess, Restore, RestorePaused, Login, Logout, ServeLogin, Expire,
         ServeRefresh, ServeLogout, Lost, WindowCloses, taskVars
  <1>4. /\ login' \in TaskForms({"none", "posted", "granted", "stored", "mirrored"})
        /\ logout' \in TaskForms({"none", "clicked", "cleared", "resetting"})
        /\ restore' \in TaskForms({"none", "read", "check", "pausing"})
    <2>1. /\ login \in TaskForms({"none", "posted", "granted", "stored", "mirrored"})
          /\ logout \in TaskForms({"none", "clicked", "cleared", "resetting"})
          /\ restore \in TaskForms({"none", "read", "check", "pausing"})
          /\ families.made + 1 \in Nat /\ NoToken \in Seq(Nat)
      BY <1>1 DEF SessionTypes, TaskTypes, ServerTypes, TaskForms
    <2>2. \/ login' \in {login, NoTask, [NoTask EXCEPT !.pc = "posted"], [login EXCEPT !.pc = "stored"],
                        [login EXCEPT !.pc = "mirrored"]}
          \/ login' = [pc |-> "granted", token |-> <<families.made + 1>>]
      BY DEF Next, Worker, Environment, Read, KeepAttempt, Send, Granted, Stored, Renewed, Refused, Paused,
         RefreshUnavailable, Answered, Unauthorized, Replay, SaveToken, SaveAccess, SignedIn, ClearToken,
         ClearSession, SignedOut, RestoreAccess, Restore, RestorePaused, Login, Logout, ServeLogin, Expire, Call,
         ServeRefresh, ServeLogout, Lost, WindowCloses, Evict, taskVars
    <2>3. logout' \in {logout, NoTask, [NoTask EXCEPT !.pc = "clicked"], [logout EXCEPT !.pc = "cleared"],
                       [logout EXCEPT !.pc = "resetting"]}
      BY DEF Next, Worker, Environment, Read, KeepAttempt, Send, Granted, Stored, Renewed, Refused, Paused,
         RefreshUnavailable, Answered, Unauthorized, Replay, SaveToken, SaveAccess, SignedIn, ClearToken,
         ClearSession, SignedOut, RestoreAccess, Restore, RestorePaused, Login, Logout, ServeLogin, Expire, Call,
         ServeRefresh, ServeLogout, Lost, WindowCloses, Evict, taskVars
    <2>4. restore' \in {restore, NoTask, [NoTask EXCEPT !.pc = "read"], [restore EXCEPT !.pc = "check"],
                        [restore EXCEPT !.pc = "pausing"]}
      BY DEF Next, Worker, Environment, Read, KeepAttempt, Send, Granted, Stored, Renewed, Refused, Paused,
         RefreshUnavailable, Answered, Unauthorized, Replay, SaveToken, SaveAccess, SignedIn, ClearToken,
         ClearSession, SignedOut, RestoreAccess, Restore, RestorePaused, Login, Logout, ServeLogin, Expire, Call,
         ServeRefresh, ServeLogout, Lost, WindowCloses, Evict, taskVars
    <2>5. login' \in TaskForms({"none", "posted", "granted", "stored", "mirrored"})
      <3> DEFINE Forms == TaskForms({"none", "posted", "granted", "stored", "mirrored"})
      <3>1. NoTask \in Forms /\ [NoTask EXCEPT !.pc = "posted"] \in Forms
        BY <2>1 DEF TaskForms, NoTask
      <3>2. [login EXCEPT !.pc = "stored"] \in Forms /\ [login EXCEPT !.pc = "mirrored"] \in Forms
        BY <2>1 DEF TaskForms
      <3>3. [pc |-> "granted", token |-> <<families.made + 1>>] \in Forms
        BY <2>1 DEF TaskForms
      <3> HIDE DEF Forms
      <3>4. login \in Forms
        BY <2>1 DEF Forms
      <3>5. login' \in Forms
        BY <2>2, <3>1, <3>2, <3>3, <3>4
      <3> QED
        BY <3>5 DEF Forms
    <2>6. logout' \in TaskForms({"none", "clicked", "cleared", "resetting"})
      <3> DEFINE Forms == TaskForms({"none", "clicked", "cleared", "resetting"})
      <3>1. NoTask \in Forms /\ [NoTask EXCEPT !.pc = "clicked"] \in Forms
        BY <2>1 DEF TaskForms, NoTask
      <3>2. [logout EXCEPT !.pc = "cleared"] \in Forms /\ [logout EXCEPT !.pc = "resetting"] \in Forms
        BY <2>1 DEF TaskForms
      <3> HIDE DEF Forms
      <3>3. logout \in Forms
        BY <2>1 DEF Forms
      <3>4. logout' \in Forms
        BY <2>3, <3>1, <3>2, <3>3
      <3> QED
        BY <3>4 DEF Forms
    <2>7. restore' \in TaskForms({"none", "read", "check", "pausing"})
      <3> DEFINE Forms == TaskForms({"none", "read", "check", "pausing"})
      <3>1. NoTask \in Forms /\ [NoTask EXCEPT !.pc = "read"] \in Forms
        BY <2>1 DEF TaskForms, NoTask
      <3>2. [restore EXCEPT !.pc = "check"] \in Forms /\ [restore EXCEPT !.pc = "pausing"] \in Forms
        BY <2>1 DEF TaskForms
      <3> HIDE DEF Forms
      <3>3. restore \in Forms
        BY <2>1 DEF Forms
      <3>4. restore' \in Forms
        BY <2>4, <3>1, <3>2, <3>3
      <3> QED
        BY <3>4 DEF Forms
    <2> QED
      BY <2>5, <2>6, <2>7
  <1> QED
    BY <1>2, <1>3, <1>4 DEF TaskTypes, TaskForms

(***************************************************************************)
(* Tokens and attempts.                                                    *)
(***************************************************************************)
(* A token that is known stays so.                                         *)
LEMMA KnownStays ==
  ASSUME SessionTypes, Next
  PROVE  /\ families'.made \in Nat /\ families.made \in Nat /\ families'.made >= families.made
         /\ \A t \in Seq(Nat) : Known(t) => Known(t)'
  <1>1. families' = families \/ (\E x : families' = [families EXCEPT !.revoked = x]) \/ ServeLogin
    BY DEF Next, Worker, Environment, Read, KeepAttempt, Send, Granted, Stored, Renewed, Refused, Paused,
       RefreshUnavailable, Answered, Unauthorized, Replay, SaveToken, SaveAccess, SignedIn, ClearToken,
       ClearSession, SignedOut, RestoreAccess, Restore, RestorePaused, Login, Logout, Expire, Call,
       ServeRefresh, Rotate, ServeLogout, Lost, WindowCloses, Evict, serverVars
  <1>2. families.made \in Nat /\ families \in [made : Nat, revoked : SUBSET Nat]
    BY DEF SessionTypes, ServerTypes
  <1>3. families'.made \in {families.made, families.made + 1}
    BY <1>1, <1>2 DEF ServeLogin
  <1> QED
    BY <1>2, <1>3 DEF Known

(* What is on its way or retired only comes from a flight that sends.      *)
LEMMA PairsGrow ==
  ASSUME SessionTypes, Next
  PROVE  Pairs' \subseteq Pairs \/ (Send /\ Pairs' \subseteq Pairs \cup {<<flight.token, flight.attempt>>})
  <1>1. CASE UNCHANGED <<net, retired>>
    BY <1>1 DEF Pairs, Refreshes
  <1>2. ASSUME NEW m \in net, ServeRefresh(m)
        PROVE  Pairs' \subseteq Pairs
    <2>1. m \in Refreshes /\ net' = net \ {m}
      BY <1>2 DEF ServeRefresh, Refreshes
    <2>2. Refreshes' \subseteq Refreshes
      BY <2>1 DEF Refreshes
    <2>3. \A t \in DOMAIN retired' : \/ t \in DOMAIN retired /\ retired'[t].attempt = retired[t].attempt
                                     \/ t = m.token /\ retired'[t].attempt = m.attempt
      BY <1>2 DEF ServeRefresh, Rotate, serverVars
    <2> QED
      BY <2>1, <2>2, <2>3 DEF Pairs
  <1>3. ASSUME NEW m \in net, ServeLogout(m) \/ Lost(m)
        PROVE  Pairs' \subseteq Pairs
    <2>1. retired' = retired /\ net' \subseteq net
      BY <1>3 DEF ServeLogout, Lost, serverVars
    <2> QED
      BY <2>1 DEF Pairs, Refreshes
  <1>4. ASSUME NEW t \in DOMAIN retired, WindowCloses(t)
        PROVE  Pairs' \subseteq Pairs
    <2>1. net' = net /\ retired' = [retired EXCEPT ![t].open = FALSE] /\ retired \in [DOMAIN retired -> [attempt : Nat, open : BOOLEAN]]
      BY <1>4 DEF WindowCloses, SessionTypes, ServerTypes
    <2>2. DOMAIN retired' = DOMAIN retired /\ \A u \in DOMAIN retired : retired'[u].attempt = retired[u].attempt
      BY <2>1
    <2> QED
      BY <2>1, <2>2 DEF Pairs, Refreshes
  <1>5. CASE ClearToken
    <2>1. retired' = retired
      BY <1>5 DEF ClearToken, serverVars
    <2>2. Refreshes' \subseteq Refreshes
      BY <1>5 DEF ClearToken, Refreshes
    <2> QED
      BY <2>1, <2>2 DEF Pairs
  <1>6. CASE Send
    <2>1. retired' = retired
      BY <1>6 DEF Send, serverVars
    <2>2. \A m \in Refreshes' : m \in Refreshes \/ (m.token = flight.token /\ m.attempt = flight.attempt)
      BY <1>6 DEF Send, Refreshes
    <2> QED
      BY <1>6, <2>1, <2>2 DEF Pairs
  <1> QED
    BY <1>1, <1>2, <1>3, <1>4, <1>5, <1>6 DEF Next, Worker, Environment, Read, KeepAttempt, Granted, Stored,
       Renewed, Refused, Paused, RefreshUnavailable, Answered, Unauthorized, Replay, SaveToken, SaveAccess,
       SignedIn, ClearSession, SignedOut, RestoreAccess, Restore, RestorePaused, Login, Logout, ServeLogin,
       Expire, Call, Evict, serverVars

(* The steps after which a flight holds a token, the steps that store one, *)
(* and the login that brings one.                                          *)
LEMMA FlightHolds ==
  ASSUME SessionTypes, Next, Holding'
  PROVE  \/ Read /\ priv.token # NoToken /\ UNCHANGED priv
            /\ flight'.token = priv.token /\ flight'.attempt = priv.attempt /\ flight'.pc = "keep"
         \/ KeepAttempt /\ flight.attempt = 0 /\ flight'.token = flight.token /\ flight'.attempt = count.attempts + 1
         \/ /\ Holding /\ flight'.token = flight.token /\ flight'.attempt = flight.attempt
            /\ flight'.pc = flight.pc \/ (flight.pc = "keep" => flight.attempt # 0)
  <1>0. flight \in [pc : Pcs, epoch : Nat, token : Seq(Nat), attempt : Nat]
    BY DEF SessionTypes, TaskTypes
  <1>1. CASE flight' = flight
    BY <1>1 DEF Holding
  <1>2. flight' \notin {NoFlight, [NoFlight EXCEPT !.pc = "read", !.epoch = epoch]}
    <2>1. NoFlight.pc = "none" /\ [NoFlight EXCEPT !.pc = "read", !.epoch = epoch].pc = "read"
      BY DEF NoFlight
    <2>2. flight'.pc \notin {"none", "read"}
      BY DEF Holding
    <2> QED
      BY <2>1, <2>2
  <1>3. CASE Read
    <2>1. priv.token # NoToken /\ flight' = [flight EXCEPT !.pc = "keep", !.token = priv.token, !.attempt = priv.attempt]
      BY <1>0, <1>3 DEF Read, Holding
    <2> QED
      BY <1>0, <1>3, <2>1 DEF Read
  <1>4. CASE KeepAttempt
    BY <1>0, <1>4 DEF KeepAttempt, Holding
  <1>5. CASE Send \/ \E m \in net : ServeRefresh(m)
    BY <1>0, <1>1, <1>5 DEF Send, ServeRefresh, Awaits, Holding
  <1>6. CASE Granted \/ Stored \/ Refused
    BY <1>0, <1>2, <1>6 DEF Granted, Stored, Refused, Holding, Land
  <1> QED
    BY <1>1, <1>2, <1>3, <1>4, <1>5, <1>6 DEF Next, Worker, Environment,
       Renewed, Paused, RefreshUnavailable, Answered, Unauthorized, Replay, SaveToken, SaveAccess,
       SignedIn, ClearToken, ClearSession, SignedOut, RestoreAccess, Restore, RestorePaused, Login, Logout,
       ServeLogin, ServeLogout, Lost, WindowCloses, Expire, Call, Evict, Land, Flying, taskVars

LEMMA TokenStored ==
  ASSUME SessionTypes, Next, priv'.token # NoToken
  PROVE  \/ UNCHANGED priv
         \/ KeepAttempt /\ flight.attempt = 0 /\ priv' = Kept(flight.token, count.attempts + 1)
         \/ Granted /\ priv' = Kept(Child(flight.token, flight.attempt), 0) /\ flight'.pc = "stored"
         \/ SaveToken /\ priv' = Kept(login.token, 0)
  <1>1. priv' # Kept(NoToken, 0)
    BY DEF Kept
  <1>2. CASE Granted
    <2>1. flight \in [pc : Pcs, epoch : Nat, token : Seq(Nat), attempt : Nat]
      BY DEF SessionTypes, TaskTypes
    <2> QED
      BY <1>2, <2>1 DEF Granted
  <1> QED
    BY <1>1, <1>2 DEF Next, Worker, Environment, Read, KeepAttempt, Send, Stored, Renewed, Refused, Paused,
       RefreshUnavailable, Answered, Unauthorized, Replay, SaveToken, SaveAccess, SignedIn, ClearToken,
       ClearSession, SignedOut, RestoreAccess, Restore, RestorePaused, Login, Logout, ServeLogin, Expire, Call,
       ServeRefresh, ServeLogout, Lost, WindowCloses, Evict, Forget, storageVars

LEMMA LoginGranted ==
  ASSUME SessionTypes, Next, login'.pc = "granted"
  PROVE  \/ UNCHANGED login
         \/ /\ login'.token = <<families.made + 1>> /\ families'.made = families.made + 1
            /\ UNCHANGED <<priv, flight, net, retired>>
  <1>1. login \in [pc : {"none", "posted", "granted", "stored", "mirrored"}, token : Seq(Nat)]
    BY DEF SessionTypes, TaskTypes
  <1> QED
    BY <1>1 DEF Next, Worker, Environment, Read, KeepAttempt, Send, Granted, Stored, Renewed, Refused, Paused,
       RefreshUnavailable, Answered, Unauthorized, Replay, SaveToken, SaveAccess, SignedIn, ClearToken,
       ClearSession, SignedOut, RestoreAccess, Restore, RestorePaused, Login, Logout, ServeLogin, Expire, Call,
       ServeRefresh, ServeLogout, Lost, WindowCloses, Evict, NoTask, taskVars, storageVars

LEMMA TokensKnownNext == ASSUME SessionTypes, TokensKnown, Next PROVE TokensKnown'
  <1>0. /\ families.made \in Nat /\ count.attempts \in Nat /\ priv.token \in Seq(Nat)
        /\ flight.token \in Seq(Nat) /\ flight.attempt \in Nat /\ login.token \in Seq(Nat)
        /\ \A m \in net : m.token \in Seq(Nat)
        /\ DOMAIN retired \subseteq Seq(Nat)
    BY DEF SessionTypes, ServerTypes, ClientTypes, TaskTypes
  <1>1. \A t \in Seq(Nat) : Known(t) => Known(t)'
    BY KnownStays
  <1>2. \A p \in Pairs : p[1] \in Seq(Nat) /\ Known(p[1]) /\ p[2] # 0
    BY <1>0 DEF Pairs, Refreshes, TokensKnown
  <1>3. \A p \in Pairs' : Known(p[1])' /\ p[2] # 0
    <2> SUFFICES ASSUME NEW p \in Pairs' PROVE Known(p[1])' /\ p[2] # 0
      OBVIOUS
    <2>1. CASE p \in Pairs
      BY <1>1, <1>2, <2>1
    <2>2. CASE Send /\ p = <<flight.token, flight.attempt>>
      <3>1. PICK t \in Seq(Nat) : t = flight.token
        BY <1>0
      <3>2. Known(t) /\ flight.attempt # 0
        BY <2>2, <3>1 DEF Send, TokensKnown, Holding
      <3>3. Known(t)' /\ p[1] = t /\ p[2] = flight.attempt
        BY <1>1, <2>2, <3>1, <3>2
      <3> QED
        BY <3>2, <3>3 DEF Known
    <2> QED
      BY <2>1, <2>2, PairsGrow
  <1>4. \A t \in DOMAIN retired' : Known(t)' /\ retired'[t].attempt # 0
    <2> SUFFICES ASSUME NEW t \in DOMAIN retired' PROVE Known(t)' /\ retired'[t].attempt # 0
      OBVIOUS
    <2>1. <<t, retired'[t].attempt>> \in Pairs'
      BY DEF Pairs
    <2> QED
      BY <1>3, <2>1 DEF Known
  <1>5. (\A m \in Refreshes : Known(m.token) /\ m.attempt # 0)'
    <2> SUFFICES ASSUME NEW m \in Refreshes' PROVE Known(m.token)' /\ m.attempt # 0
      OBVIOUS
    <2>1. <<m.token, m.attempt>> \in Pairs'
      BY DEF Pairs
    <2> QED
      BY <1>3, <2>1 DEF Known
  <1>6. ASSUME priv'.token # NoToken
        PROVE  Known(priv.token)'
    <2>1. \E t \in Seq(Nat) : Known(t) /\ Head(priv'.token) = Head(t)
      <3>1. CASE UNCHANGED priv
        BY <1>0, <1>6, <3>1 DEF TokensKnown
      <3>2. CASE KeepAttempt /\ priv' = Kept(flight.token, count.attempts + 1)
        BY <1>0, <3>2 DEF TokensKnown, KeepAttempt, Holding, Kept
      <3>3. CASE Granted /\ priv' = Kept(Child(flight.token, flight.attempt), 0)
        <4>1. Known(flight.token)
          BY <3>3 DEF TokensKnown, Granted, Holding
        <4>2. Head(Append(flight.token, flight.attempt)) = Head(flight.token)
          BY <1>0, <4>1 DEF Known, NoToken
        <4> QED
          BY <1>0, <3>3, <4>1, <4>2 DEF Kept, Child
      <3>4. CASE SaveToken /\ priv' = Kept(login.token, 0)
        <4>1. PICK n \in 1 .. families.made : login.token = <<n>>
          BY <3>4 DEF TokensKnown, SaveToken
        <4>2. <<n>> \in Seq(Nat) /\ <<n>> # <<>> /\ Head(<<n>>) = n
          BY <1>0
        <4>3. Known(<<n>>) /\ priv'.token = <<n>>
          BY <3>4, <4>1, <4>2 DEF Kept, Known, NoToken
        <4> QED
          BY <4>2, <4>3
      <3> QED
        BY <1>6, <3>1, <3>2, <3>3, <3>4, TokenStored
    <2> QED
      BY <1>1, <1>6, <2>1 DEF Known, NoToken
  <1>7. ASSUME Holding'
        PROVE  Known(flight.token)'
    <2>1. PICK t \in Seq(Nat) : Known(t) /\ t = flight'.token
      BY <1>0, <1>7, FlightHolds DEF TokensKnown, KeepAttempt, Holding
    <2>2. Known(t)'
      BY <1>1, <2>1
    <2> QED
      BY <2>1, <2>2 DEF Known
  <1>8. ASSUME flight'.pc \in {"send", "waiting", "granted"}
        PROVE  flight'.attempt # 0
    <2>1. Holding'
      BY <1>8 DEF Holding
    <2>2. CASE KeepAttempt /\ flight'.attempt = count.attempts + 1
      BY <1>0, <2>2
    <2>3. CASE /\ Holding /\ flight'.attempt = flight.attempt
               /\ flight'.pc = flight.pc \/ (flight.pc = "keep" => flight.attempt # 0)
      BY <1>8, <2>3 DEF TokensKnown, Holding
    <2> QED
      BY <1>8, <2>1, <2>2, <2>3, FlightHolds
  <1>9. ASSUME login'.pc = "granted"
        PROVE  \E n \in 1 .. families'.made : login'.token = <<n>>
    <2>1. CASE UNCHANGED login
      <3>1. PICK n \in 1 .. families.made : login.token = <<n>>
        BY <1>9, <2>1 DEF TokensKnown
      <3>2. n \in 1 .. families'.made
        BY KnownStays
      <3> QED
        BY <2>1, <3>1, <3>2
    <2>2. CASE login'.token = <<families.made + 1>> /\ families'.made = families.made + 1
      <3>1. families.made + 1 \in 1 .. families'.made
        BY <1>0, <2>2
      <3> QED
        BY <2>2, <3>1
    <2> QED
      BY <1>9, <2>1, <2>2, LoginGranted
  <1> QED
    BY <1>4, <1>5, <1>6, <1>7, <1>8, <1>9 DEF TokensKnown, Refreshes

(* Who descends from a child descends from its parent, and has its family. *)
LEMMA Descends ==
  ASSUME NEW t \in Seq(Nat), t # NoToken
  PROVE  /\ \A a \in Nat : /\ Longer(Append(t, a), t) /\ Append(t, a) \in Seq(Nat) /\ Append(t, a) # NoToken
                           /\ Head(Append(t, a)) = Head(t)
                           /\ \A u \in Seq(Nat) : Longer(u, Append(t, a)) => Longer(u, t)
         /\ \A u \in Seq(Nat) : Longer(u, t) => Head(u) = Head(t)
         /\ ~ Longer(t, t)
  <1>0. Len(t) \in Nat /\ Len(t) >= 1
    BY DEF NoToken
  <1>1. ASSUME NEW a \in Nat
        PROVE  /\ Longer(Append(t, a), t) /\ Append(t, a) \in Seq(Nat) /\ Append(t, a) # NoToken
               /\ Head(Append(t, a)) = Head(t)
               /\ \A u \in Seq(Nat) : Longer(u, Append(t, a)) => Longer(u, t)
    <2>1. /\ Append(t, a) \in Seq(Nat) /\ Len(Append(t, a)) = Len(t) + 1
          /\ \A i \in 1 .. Len(t) : Append(t, a)[i] = t[i]
      OBVIOUS
    <2>2. ASSUME NEW u \in Seq(Nat), Longer(u, Append(t, a)) PROVE Longer(u, t)
      <3>1. Len(u) > Len(t) + 1 /\ \A i \in 1 .. Len(t) + 1 : u[i] = Append(t, a)[i]
        BY <2>1, <2>2 DEF Longer
      <3>2. Len(u) \in Nat /\ \A i \in 1 .. Len(t) : i \in 1 .. Len(t) + 1
        BY <1>0
      <3>3. Len(u) > Len(t)
        BY <1>0, <3>1, <3>2
      <3>4. \A i \in 1 .. Len(t) : u[i] = t[i]
        BY <2>1, <3>1, <3>2
      <3> QED
        BY <3>3, <3>4 DEF Longer
    <2>3. Longer(Append(t, a), t)
      BY <1>0, <2>1 DEF Longer
    <2>4. Append(t, a) # NoToken /\ Head(Append(t, a)) = Head(t)
      BY <1>0, <2>1 DEF NoToken
    <2> QED
      BY <2>1, <2>2, <2>3, <2>4
  <1>2. \A u \in Seq(Nat) : Longer(u, t) => Head(u) = Head(t)
    BY <1>0 DEF Longer
  <1>3. ~ Longer(t, t)
    BY <1>0 DEF Longer
  <1> QED
    BY <1>1, <1>2, <1>3

LEMMA TokenInvNext == ASSUME SessionTypes, TokensKnown, TokenInv, Next PROVE TokenInv'
  <1>0. /\ families.made \in Nat /\ count.attempts \in Nat /\ priv.token \in Seq(Nat) /\ priv.attempt \in Nat
        /\ flight.token \in Seq(Nat) /\ flight.attempt \in Nat /\ login.token \in Seq(Nat)
    BY DEF SessionTypes, ServerTypes, ClientTypes, TaskTypes
  <1>1. \A p \in Pairs : p[1] \in Seq(Nat) /\ p[1] # NoToken /\ Head(p[1]) \in 1 .. families.made /\ p[2] # 0
    BY DEF Pairs, Refreshes, TokensKnown, SessionTypes, ServerTypes, Known
  <1>2. /\ Holding => flight.token # NoToken /\ Head(flight.token) \in 1 .. families.made
        /\ priv.token # NoToken => Head(priv.token) \in 1 .. families.made
    BY DEF TokensKnown, Known
  <1>3. OneEach'
    <2>1. CASE Pairs' \subseteq Pairs
      BY <2>1 DEF TokenInv, OneEach
    <2>2. CASE Send /\ Pairs' \subseteq Pairs \cup {<<flight.token, flight.attempt>>}
      <3>1. Held(flight.token, flight.attempt)
        BY <2>2 DEF Send, TokenInv, Holding
      <3> QED
        BY <2>2, <3>1 DEF TokenInv, OneEach, Held
    <2> QED
      BY <2>1, <2>2, PairsGrow
  <1>4. ASSUME Holding'
        PROVE  /\ Held(flight.token, flight.attempt)'
               /\ priv'.token # NoToken =>
                    /\ ~ Longer(priv'.token, flight'.token) /\ ~ Longer(flight'.token, priv'.token)
                    /\ priv'.token = flight'.token => priv'.attempt = flight'.attempt
    <2>1. CASE /\ Read /\ priv.token # NoToken /\ UNCHANGED priv
               /\ flight'.token = priv.token /\ flight'.attempt = priv.attempt
      <3>1. Pairs' \subseteq Pairs
        BY <2>1, PairsGrow DEF Read, Send
      <3>2. Held(priv.token, priv.attempt) /\ ~ Longer(priv.token, priv.token)
        BY <1>0, <2>1, Descends DEF TokenInv
      <3> QED
        BY <2>1, <3>1, <3>2 DEF Held
    <2>2. CASE /\ KeepAttempt /\ flight.attempt = 0 /\ flight'.token = flight.token
               /\ flight'.attempt = count.attempts + 1
      <3>1. Pairs' \subseteq Pairs
        BY <2>2, PairsGrow DEF KeepAttempt, Send
      <3>2. Holding /\ Held(flight.token, 0) /\ ~ Longer(flight.token, flight.token)
        BY <1>0, <1>2, <2>2, Descends DEF TokenInv, Holding, KeepAttempt
      <3>3. \A p \in Pairs : p[1] # flight.token /\ ~ Longer(p[1], flight.token)
        BY <1>1, <3>2 DEF Held
      <3>4. priv'.token = flight.token /\ priv'.attempt = count.attempts + 1
        BY <2>2 DEF KeepAttempt, Kept
      <3> QED
        BY <2>2, <3>1, <3>2, <3>3, <3>4 DEF Held
    <2>3. CASE Holding /\ flight'.token = flight.token /\ flight'.attempt = flight.attempt
      <3>1. Held(flight.token, flight.attempt) /\ BothHeld /\ ~ Longer(flight.token, flight.token)
        BY <1>0, <1>2, <2>3, Descends DEF TokenInv
      <3>2. Held(flight.token, flight.attempt)'
        BY <2>3, <3>1, PairsGrow DEF Held
      <3>3. CASE UNCHANGED priv
        BY <2>3, <3>1, <3>2, <3>3 DEF BothHeld
      <3>4. CASE KeepAttempt /\ flight.attempt = 0 /\ priv' = Kept(flight.token, count.attempts + 1)
        <4>1. flight'.attempt = count.attempts + 1
          <5>1. flight \in [pc : Pcs, epoch : Nat, token : Seq(Nat), attempt : Nat]
            BY DEF SessionTypes, TaskTypes
          <5> QED
            BY <3>4, <5>1 DEF KeepAttempt
        <4> QED
          BY <1>0, <2>3, <3>4, <4>1
      <3>5. CASE SaveToken /\ priv' = Kept(login.token, 0)
        <4>1. login.pc = "granted" /\ Head(flight.token) # Head(login.token)
          BY <2>3, <3>5 DEF SaveToken, TokenInv, Unborn
        <4>2. login.token # NoToken
          BY <4>1 DEF TokensKnown, NoToken
        <4>3. ~ Longer(login.token, flight.token) /\ ~ Longer(flight.token, login.token) /\ login.token # flight.token
          BY <1>0, <1>2, <2>3, <4>1, <4>2, Descends
        <4>4. priv'.token = login.token
          BY <3>5 DEF Kept
        <4> QED
          BY <2>3, <3>2, <4>3, <4>4
      <3>6. CASE flight'.pc = "stored"
        BY <1>4, <3>6 DEF Holding
      <3> QED
        BY <2>3, <3>2, <3>3, <3>4, <3>5, <3>6, TokenStored
    <2> QED
      BY <1>4, <2>1, <2>2, <2>3, FlightHolds
  <1>5. ASSUME priv'.token # NoToken
        PROVE  Held(priv.token, priv.attempt)'
    <2>1. CASE UNCHANGED priv
      <3>1. Held(priv.token, priv.attempt)
        BY <1>5, <2>1 DEF TokenInv
      <3>2. CASE Pairs' \subseteq Pairs
        BY <2>1, <3>1, <3>2 DEF Held
      <3>3. CASE Send /\ Pairs' \subseteq Pairs \cup {<<flight.token, flight.attempt>>}
        <4>1. Holding
          BY <3>3 DEF Send, Holding
        <4>2. /\ ~ Longer(flight.token, priv.token)
              /\ priv.token = flight.token => priv.attempt = flight.attempt
          BY <1>5, <2>1, <4>1 DEF TokenInv, BothHeld
        <4> QED
          BY <2>1, <3>1, <3>3, <4>2 DEF Held
      <3> QED
        BY <3>2, <3>3, PairsGrow
    <2>2. CASE KeepAttempt /\ flight.attempt = 0 /\ priv' = Kept(flight.token, count.attempts + 1)
      <3>1. Pairs' \subseteq Pairs
        BY <2>2, PairsGrow DEF KeepAttempt, Send
      <3>2. Held(flight.token, 0)
        BY <2>2 DEF TokenInv, Holding, KeepAttempt
      <3>3. \A p \in Pairs : p[1] # flight.token /\ ~ Longer(p[1], flight.token)
        BY <1>1, <3>2 DEF Held
      <3> QED
        BY <2>2, <3>1, <3>3 DEF Held, Kept
    <2>3. CASE Granted /\ priv' = Kept(Child(flight.token, flight.attempt), 0)
      <3>1. Pairs' \subseteq Pairs
        BY <2>3, PairsGrow DEF Granted, Send
      <3>2. Holding /\ flight.token # NoToken
        BY <1>2, <2>3 DEF Granted, Holding
      <3>3. \A p \in Pairs : ~ Longer(p[1], flight.token)
        BY <3>2 DEF TokenInv, Held
      <3>4. PICK u \in Seq(Nat) : /\ u = Append(flight.token, flight.attempt)
                                  /\ Longer(u, flight.token)
                                  /\ \A v \in Seq(Nat) : Longer(v, u) => Longer(v, flight.token)
        BY <1>0, <3>2, Descends
      <3>5. \A p \in Pairs : p[1] # u /\ ~ Longer(p[1], u)
        BY <1>1, <3>3, <3>4
      <3>6. priv'.token = u
        BY <2>3, <3>4 DEF Kept, Child
      <3> QED
        BY <3>1, <3>5, <3>6 DEF Held
    <2>4. CASE SaveToken /\ priv' = Kept(login.token, 0)
      <3>1. Pairs' \subseteq Pairs
        BY <2>4 DEF SaveToken, serverVars, Pairs, Refreshes
      <3>2. \A p \in Pairs : Head(p[1]) # Head(login.token)
        BY <2>4 DEF SaveToken, TokenInv, Unborn
      <3>3. login.token # NoToken
        BY <2>4 DEF SaveToken, TokensKnown, NoToken
      <3>4. \A p \in Pairs : p[1] # login.token /\ ~ Longer(p[1], login.token)
        BY <1>0, <1>1, <3>2, <3>3, Descends
      <3> QED
        BY <2>4, <3>1, <3>4 DEF Held, Kept
    <2> QED
      BY <1>5, <2>1, <2>2, <2>3, <2>4, TokenStored
  <1>6. ASSUME login'.pc = "granted"
        PROVE  /\ \A p \in Pairs' : Head(p[1]) # Head(login'.token)
               /\ priv'.token # NoToken => Head(priv'.token) # Head(login'.token)
               /\ Holding' => Head(flight'.token) # Head(login'.token)
    <2>1. CASE UNCHANGED login
      <3>1. /\ \A p \in Pairs : Head(p[1]) # Head(login.token)
            /\ priv.token # NoToken => Head(priv.token) # Head(login.token)
            /\ Holding => Head(flight.token) # Head(login.token)
        BY <1>6, <2>1 DEF TokenInv, Unborn
      <3>2. \A p \in Pairs' : Head(p[1]) # Head(login.token)
        BY <3>1, PairsGrow DEF Send, Holding
      <3>3. Holding' => Head(flight'.token) # Head(login.token)
        BY <3>1, FlightHolds DEF KeepAttempt, Holding
      <3>4. ASSUME priv'.token # NoToken
            PROVE  Head(priv'.token) # Head(login.token)
        <4>1. CASE Granted /\ priv' = Kept(Child(flight.token, flight.attempt), 0)
          <5>1. Holding /\ flight.token # NoToken
            BY <1>2, <4>1 DEF Granted, Holding
          <5>2. Head(Append(flight.token, flight.attempt)) = Head(flight.token)
            BY <1>0, <5>1, Descends
          <5> QED
            BY <3>1, <4>1, <5>1, <5>2 DEF Kept, Child
        <4>2. CASE SaveToken
          <5>1. login \in [pc : {"none", "posted", "granted", "stored", "mirrored"}, token : Seq(Nat)]
            BY DEF SessionTypes, TaskTypes
          <5> QED
            BY <1>6, <4>2, <5>1 DEF SaveToken
        <4> QED
          BY <3>1, <3>4, <4>1, <4>2, TokenStored DEF KeepAttempt, Kept, Holding
      <3> QED
        BY <2>1, <3>2, <3>3, <3>4
    <2>2. CASE /\ login'.token = <<families.made + 1>>
               /\ UNCHANGED <<priv, flight, net, retired>>
      <3>1. Head(login'.token) = families.made + 1 /\ Pairs' = Pairs
        BY <2>2 DEF Pairs, Refreshes
      <3>2. (Holding' => Holding) /\ families.made + 1 \notin 1 .. families.made
        BY <1>0, <2>2 DEF Holding
      <3> QED
        BY <1>1, <1>2, <2>2, <3>1, <3>2
    <2> QED
      BY <1>6, <2>1, <2>2, LoginGranted
  <1> QED
    BY <1>3, <1>4, <1>5, <1>6 DEF TokenInv, BothHeld, Unborn

(***************************************************************************)
(* What asks for the login.                                                *)
(***************************************************************************)
LEMMA CauseStays == ASSUME SessionTypes, Next, Cause PROVE Cause'
  <1>0. families.revoked \subseteq 1 .. families.made /\ families.made \in Nat /\ families \in [made : Nat, revoked : SUBSET Nat]
    BY DEF SessionTypes, ServerTypes
  <1>1. count \in [attempts : Nat, worker : Nat, events : Nat, cleared : BOOLEAN]
    BY DEF SessionTypes, ClientTypes
  <1>2. ASSUME count.cleared PROVE count'.cleared
    BY <1>1, <1>2, ClientWrites
  <1>3. ASSUME families.revoked # {} PROVE families'.revoked # {}
    <2>1. CASE families' = families
      BY <1>3, <2>1
    <2>2. CASE \E m \in net : ServeRefresh(m) \/ ServeLogout(m)
      <3>1. PICK m \in net : ServeRefresh(m) \/ ServeLogout(m)
        BY <2>2
      <3>2. \/ families' = families
            \/ families' = [families EXCEPT !.revoked = @ \union {Head(m.token)}]
            \/ families' = [families EXCEPT !.revoked = IF Valid(m.token) THEN 1 .. families.made ELSE @]
        BY <3>1 DEF ServeRefresh, Rotate, ServeLogout, serverVars
      <3>3. 1 .. families.made # {}
        BY <1>0, <1>3
      <3> QED
        BY <1>0, <1>3, <3>2, <3>3
    <2>3. CASE ServeLogin
      <3>1. families' = families \/ families'.revoked = 1 .. families.made
        BY <2>3 DEF ServeLogin
      <3>2. 1 .. families.made # {}
        BY <1>0, <1>3
      <3> QED
        BY <1>3, <3>1, <3>2
    <2> QED
      BY <2>1, <2>2, <2>3 DEF Next, Worker, Environment, Read, KeepAttempt, Send, Granted, Stored, Renewed, Refused,
         Paused, RefreshUnavailable, Answered, Unauthorized, Replay, SaveToken, SaveAccess, SignedIn, ClearToken,
         ClearSession, SignedOut, RestoreAccess, Restore, RestorePaused, Login, Logout, Expire, Call,
         Lost, WindowCloses, Evict, serverVars
  <1> QED
    BY <1>2, <1>3 DEF Cause

LEMMA CauseInvNext == ASSUME SessionTypes, TokensKnown, CauseInv, Next PROVE CauseInv'
  <1>0. /\ flight \in [pc : Pcs, epoch : Nat, token : Seq(Nat), attempt : Nat]
        /\ restore \in [pc : {"none", "read", "check", "pausing"}, token : Seq(Nat)]
        /\ login \in [pc : {"none", "posted", "granted", "stored", "mirrored"}, token : Seq(Nat)]
        /\ shown \in [session : BOOLEAN, auth : {"unset", "authenticated", "loginRequired"}]
        /\ count \in [attempts : Nat, worker : Nat, events : Nat, cleared : BOOLEAN]
        /\ DOMAIN request = Requests
    BY DEF SessionTypes, ClientTypes, TaskTypes
  <1>1. Cause \/ priv.token # NoToken \/ Quiet
    BY DEF CauseInv, Quiet
  <1>2. ASSUME flight'.pc \in {"refused", "pausing"}
        PROVE  Cause'
    <2>1. CASE flight' = flight
      BY <1>2, <2>1, CauseStays DEF CauseInv
    <2>2. CASE Read
      <3>1. priv.token = NoToken /\ flight.pc = "read"
        BY <1>0, <1>2, <2>2 DEF Read
      <3> QED
        BY <1>1, <3>1, CauseStays DEF Quiet
    <2>3. CASE Refused
      BY <2>3, CauseStays DEF Refused, CauseInv
    <2>4. ASSUME NEW m \in net, ServeRefresh(m), flight' # flight
          PROVE  Cause'
      <3>1. ~ Grants(m.token, m.attempt)
        BY <1>0, <1>2, <2>4 DEF ServeRefresh
      <3>2. m.token # NoToken
        BY <2>4 DEF ServeRefresh, TokensKnown, Refreshes, Known
      <3>3. CASE ~ Valid(m.token)
        BY <3>2, <3>3, CauseStays DEF Valid, Cause
      <3>4. CASE Valid(m.token)
        <4>1. m.token \in DOMAIN retired
          BY <3>1, <3>4 DEF Grants
        <4>2. families' = [families EXCEPT !.revoked = @ \union {Head(m.token)}]
          BY <2>4, <3>1, <3>4, <4>1 DEF ServeRefresh, Rotate
        <4> QED
          BY <4>2 DEF Cause, SessionTypes, ServerTypes
      <3> QED
        BY <3>3, <3>4
    <2>5. flight' \notin {NoFlight, [NoFlight EXCEPT !.pc = "read", !.epoch = epoch]}
      <3>1. NoFlight.pc = "none" /\ [NoFlight EXCEPT !.pc = "read", !.epoch = epoch].pc = "read"
        BY DEF NoFlight
      <3> QED
        BY <1>2, <3>1
    <2>6. CASE KeepAttempt \/ Send \/ Stored
      BY <1>0, <1>2, <2>6 DEF KeepAttempt, Send, Stored
    <2>7. CASE Granted
      BY <1>0, <1>2, <2>5, <2>7 DEF Granted, Land
    <2> QED
      BY <2>1, <2>2, <2>3, <2>4, <2>5, <2>6, <2>7 DEF Next, Worker, Environment, Renewed, Paused, RefreshUnavailable,
         Answered, Unauthorized, Replay, SaveToken, SaveAccess, SignedIn, ClearToken,
         ClearSession, SignedOut, RestoreAccess, Restore, RestorePaused, Login, Logout, ServeLogin, Expire, Call,
         ServeLogout, Lost, WindowCloses, Evict, Land, Flying, taskVars
  <1>3. ASSUME restore'.pc = "pausing"
        PROVE  Cause'
    <2>1. CASE restore' = restore
      BY <1>3, <2>1, CauseStays DEF CauseInv
    <2>2. CASE Restore
      <3>1. priv.token = NoToken /\ shown.session
        BY <1>3, <2>2 DEF Restore, NoTask
      <3> QED
        BY <1>1, <3>1, CauseStays DEF Quiet
    <2>3. CASE RestoreAccess \/ RestorePaused \/ \E mirror \in {"none", access.stored} : Evict(mirror)
      BY <1>0, <1>3, <2>3 DEF RestoreAccess, RestorePaused, Evict, NoTask
    <2> QED
      BY <2>1, <2>2, <2>3 DEF Next, Worker, Environment, Read, KeepAttempt, Send, Granted, Stored, Renewed, Refused,
         Paused, RefreshUnavailable, Answered, Unauthorized, Replay, SaveToken, SaveAccess, SignedIn, ClearToken,
         ClearSession, SignedOut, Login, Logout, ServeLogin, Expire, Call,
         ServeRefresh, ServeLogout, Lost, WindowCloses, taskVars
  <1>4. Cause' \/ priv'.token # NoToken \/ Quiet'
    <2>1. CASE Cause
      BY <2>1, CauseStays
    <2>2. CASE ~ Cause /\ priv.token # NoToken
      <3>1. CASE UNCHANGED priv
        BY <2>2, <3>1
      <3>2. CASE KeepAttempt \/ Granted
        <4>1. flight.token # NoToken
          BY <3>2 DEF KeepAttempt, Granted, TokensKnown, Holding, Known
        <4>2. Append(flight.token, flight.attempt) # NoToken
          BY <1>0, <4>1, Descends
        <4> QED
          BY <2>2, <3>2, <4>1, <4>2 DEF KeepAttempt, Granted, Kept, Child
      <3>3. CASE SaveToken
        <4>1. login.token # NoToken
          BY <3>3 DEF SaveToken, TokensKnown, NoToken
        <4> QED
          BY <3>3, <4>1 DEF SaveToken, Kept
      <3>4. CASE Refused
        BY <2>2, <3>4 DEF Refused, CauseInv
      <3>5. CASE ClearToken
        BY <1>0, <3>5 DEF ClearToken, Cause
      <3>6. CASE Read \/ Restore
        BY <2>2, <3>6 DEF Read, Restore
      <3> QED
        BY <3>1, <3>2, <3>3, <3>4, <3>5, <3>6 DEF Next, Worker, Environment, Send, Stored, Renewed,
           Paused, RefreshUnavailable, Answered, Unauthorized, Replay, SaveAccess, SignedIn,
           ClearSession, SignedOut, RestoreAccess, RestorePaused, Login, Logout, ServeLogin, Expire, Call,
           ServeRefresh, ServeLogout, Lost, WindowCloses, Evict, storageVars
    <2>3. CASE Quiet /\ priv.token = NoToken
      <3>1. CASE UNCHANGED <<shown, flight, login, request>>
        BY <2>3, <3>1 DEF Quiet
      <3>2. CASE SaveToken
        <4>1. login.token # NoToken
          BY <3>2 DEF SaveToken, TokensKnown, NoToken
        <4> QED
          BY <3>2, <4>1 DEF SaveToken, Kept
      <3>3. CASE Login \/ ServeLogin
        BY <1>0, <2>3, <3>3 DEF Login, ServeLogin, NoTask, Quiet, storageVars
      <3>4. CASE ClearSession \/ SignedOut \/ RestorePaused
        BY <1>0, <2>3, <3>4 DEF ClearSession, SignedOut, RestorePaused, LoginRequired, Quiet
      <3>5. ASSUME NEW mirror, Evict(mirror)
            PROVE  Quiet'
        <4>1. NoFlight.pc = "none" /\ NoTask.pc = "none"
          BY DEF NoFlight, NoTask
        <4> QED
          BY <2>3, <3>5, <4>1 DEF Evict, Quiet
      <3>6. ASSUME NEW m \in net, ServeRefresh(m)
            PROVE  UNCHANGED <<shown, flight, login, request>>
        BY <2>3, <3>6 DEF ServeRefresh, Awaits, Quiet, storageVars
      <3>7. ASSUME NEW m \in net, ServeLogout(m) \/ Lost(m)
            PROVE  UNCHANGED <<shown, flight, login, request>>
        BY <3>7 DEF ServeLogout, Lost, taskVars, storageVars
      <3>8. ASSUME NEW t \in DOMAIN retired, WindowCloses(t)
            PROVE  UNCHANGED <<shown, flight, login, request>>
        BY <3>8 DEF WindowCloses, taskVars, storageVars
      <3>9. CASE Logout \/ ClearToken \/ RestoreAccess \/ Expire
        BY <3>1, <3>9 DEF Logout, ClearToken, RestoreAccess, Expire, taskVars, storageVars
      <3>10. CASE Restore
        BY <2>3, <3>1, <3>10 DEF Restore, Quiet
      <3> QED
        BY <2>3, <3>1, <3>2, <3>3, <3>4, <3>5, <3>6, <3>7, <3>8, <3>9, <3>10 DEF Next, Worker, Environment,
           Read, KeepAttempt, Send, Granted, Stored, Renewed, Refused,
           Paused, RefreshUnavailable, Answered, Unauthorized, Replay, SaveAccess, SignedIn, Call, Quiet
    <2> QED
      BY <1>1, <2>1, <2>2, <2>3
  <1> QED
    BY <1>2, <1>3, <1>4 DEF CauseInv, Quiet

LEMMA InitSession == Init => SessionInv /\ NeverForeign
  <1> SUFFICES ASSUME Init PROVE SessionInv /\ NeverForeign
    OBVIOUS
  <1>1. ServerTypes
    BY DEF Init, ServerTypes
  <1>2. ClientTypes
    BY DEF Init, ClientTypes, Kept, Tokens, NoToken, AccessWords
  <1>3. TaskTypes
    BY DEF Init, TaskTypes, NoFlight, NoTask, NoToken, Pcs, AccessWords
  <1>4. Pairs = {} /\ ~ Holding /\ priv.token = NoToken /\ login.pc = "none"
    BY DEF Init, Pairs, Refreshes, Holding, NoFlight, NoTask, Kept
  <1>5. TokensKnown
    BY <1>4 DEF Init, TokensKnown, Refreshes, NoFlight
  <1>6. TokenInv
    BY <1>4 DEF TokenInv, OneEach, BothHeld, Unborn
  <1>7. CauseInv
    BY DEF Init, CauseInv, Quiet, NoFlight, NoTask
  <1> QED
    BY <1>1, <1>2, <1>3, <1>5, <1>6, <1>7 DEF Init, SessionInv, SessionTypes, NeverForeign

LEMMA SessionStutters == SessionInv /\ UNCHANGED vars => SessionInv'
  <1> SUFFICES ASSUME SessionInv, UNCHANGED vars PROVE SessionInv'
    OBVIOUS
  <1> USE DEF SessionInv, vars, serverVars, storageVars, taskVars
  <1>1. SessionTypes'
    <2>1. ServerTypes'
      BY DEF SessionTypes, ServerTypes
    <2>2. ClientTypes'
      BY DEF SessionTypes, ClientTypes
    <2>3. TaskTypes'
      BY DEF SessionTypes, TaskTypes
    <2> QED
      BY <2>1, <2>2, <2>3 DEF SessionTypes
  <1>2. TokensKnown'
    BY DEF TokensKnown, Refreshes, Holding, Known
  <1>3. OneEach' /\ Unborn' /\ BothHeld'
    BY DEF TokenInv, OneEach, BothHeld, Unborn, Pairs, Refreshes, Holding
  <1>4. \A t, a : Held(t, a)' <=> Held(t, a)
    BY DEF Held, Pairs, Refreshes
  <1>5. TokenInv'
    BY <1>3, <1>4 DEF TokenInv, Holding
  <1>6. CauseInv'
    BY DEF CauseInv, Cause, Quiet
  <1> QED
    BY <1>1, <1>2, <1>5, <1>6

LEMMA SessionNext == SessionInv /\ Next => SessionInv'
  BY ServerTypesNext, ClientTypesNext, TaskTypesNext, TokensKnownNext, TokenInvNext, CauseInvNext
     DEF SessionInv, SessionTypes

(* A token that is presented once more comes with the attempt that retired *)
(* it, so the reuse the server sees is a late one and never a theft.       *)
LEMMA NeverForeignNext ==
  ASSUME SessionInv, NeverForeign, Next
  PROVE  NeverForeign'
  <1>1. CASE reused' = reused
    BY <1>1 DEF NeverForeign
  <1>2. ASSUME NEW m \in net, ServeRefresh(m), reused' # reused
        PROVE  NeverForeign'
    <2>1. m.token \in DOMAIN retired /\ reused' = IF retired[m.token].attempt = m.attempt THEN "late" ELSE "foreign"
      BY <1>2 DEF ServeRefresh, Rotate, serverVars
    <2>2. <<m.token, m.attempt>> \in Pairs /\ <<m.token, retired[m.token].attempt>> \in Pairs
      BY <1>2, <2>1 DEF Pairs, Refreshes, ServeRefresh
    <2>3. retired[m.token].attempt = m.attempt
      BY <2>2 DEF SessionInv, TokenInv, OneEach
    <2> QED
      BY <2>1, <2>3 DEF NeverForeign
  <1> QED
    BY <1>1, <1>2 DEF Next, Worker, Environment, Read, KeepAttempt, Send, Granted, Stored, Renewed, Refused,
       Paused, RefreshUnavailable, Answered, Unauthorized, Replay, SaveToken, SaveAccess, SignedIn, ClearToken,
       ClearSession, SignedOut, RestoreAccess, Restore, RestorePaused, Login, Logout, ServeLogin, Expire, Call,
       ServeLogout, Lost, WindowCloses, Evict, serverVars

LEMMA RecoverableHolds == SessionInv => Recoverable
  <1> SUFFICES ASSUME SessionInv, Valid(priv.token), priv.token \in DOMAIN retired
               PROVE  priv.attempt = retired[priv.token].attempt
    BY DEF Recoverable
  <1>1. <<priv.token, retired[priv.token].attempt>> \in Pairs /\ priv.token # NoToken
    BY DEF Pairs, Valid
  <1> QED
    BY <1>1 DEF SessionInv, TokenInv, Held

LEMMA EndsForCauseStep ==
  ASSUME SessionInv, Next, shown'.auth = "loginRequired", shown.auth # "loginRequired"
  PROVE  families.revoked # {} \/ count.cleared
  <1>1. shown \in [session : BOOLEAN, auth : {"unset", "authenticated", "loginRequired"}]
    BY DEF SessionInv, SessionTypes, ClientTypes
  <1>2. CASE Paused \/ RestorePaused
    BY <1>2 DEF Paused, RestorePaused, SessionInv, CauseInv, Cause
  <1>3. shown' # shown /\ shown' # [shown EXCEPT !.session = FALSE]
    BY <1>1
  <1> QED
    BY <1>2, <1>3 DEF Next, Worker, Environment, Read, KeepAttempt, Send, Granted, Stored, Renewed, Refused,
       RefreshUnavailable, Answered, Unauthorized, Replay, SaveToken, SaveAccess, SignedIn, ClearToken,
       ClearSession, SignedOut, RestoreAccess, Restore, Login, Logout, ServeLogin, Expire, Call,
       ServeRefresh, ServeLogout, Lost, WindowCloses, Evict, storageVars

(* The parts do not touch each other's variables.                          *)
Step == [SessionsNext]_<<part, vars, socketVars, panelVars>>

(* The invariant of the session is inductive.                              *)
THEOREM SessionInductive == SessionsSpec => [](SessionInv /\ NeverForeign)
  <1>1. SessionsInit => SessionInv /\ NeverForeign
    BY InitSession DEF SessionsInit
  <1>2. (SessionInv /\ NeverForeign) /\ Step => (SessionInv /\ NeverForeign)'
    <2> SUFFICES ASSUME SessionInv, NeverForeign, Step PROVE (SessionInv /\ NeverForeign)'
      OBVIOUS
    <2>1. CASE Next
      BY <2>1, SessionNext, NeverForeignNext
    <2>2. CASE UNCHANGED vars
      <3>1. reused' = reused
        BY <2>2 DEF vars, serverVars
      <3> QED
        BY <2>2, <3>1, SessionStutters DEF NeverForeign
    <2> QED
      BY <2>1, <2>2 DEF Step, SessionsNext
  <1> QED
    BY <1>1, <1>2, PTL DEF SessionsSpec, Step

(* Whatever is evicted, lost, late or answered twice, the stored token can *)
(* be renewed with the attempt stored beside it, and no renewal looks like *)
(* the reuse of a stolen token.                                            *)
THEOREM TokensRenew == SessionsSpec => []TokenRenews
  <1>1. SessionInv /\ NeverForeign => TokenRenews
    BY RecoverableHolds DEF TokenRenews
  <1> QED
    BY <1>1, SessionInductive, PTL

(* The login is asked for only after a family was revoked or a logout has  *)
(* removed the token.                                                      *)
THEOREM LoginsHaveCause == SessionsSpec => EndsForCause
  <1>1. SessionInv /\ Step => [shown'.auth = "loginRequired" /\ shown.auth # "loginRequired"
                                 => families.revoked # {} \/ count.cleared]_vars
    BY EndsForCauseStep DEF Step, SessionsNext
  <1> QED
    BY <1>1, SessionInductive, PTL DEF SessionsSpec, EndsForCause, Step

(***************************************************************************)
(* The sockets of the worker.  A connection in flight has a token of its   *)
(* own; a wanted workspace that is neither adrift nor degraded is supplied *)
(* or a task is about to see to it; an unwanted one has no socket up, or a *)
(* task is about to close it.                                              *)
(***************************************************************************)
Words == {"connecting", "open", "closing", "closed"}
Endpoints == [ready : Words, timer : BOOLEAN]
TaskRecords == [kind : {"none", "start", "select", "login", "logout", "pause"},
                pc : {"done", "leave", "store", "sync", "connecting", "reset", "close"}, want : BOOLEAN]

SocketTypes ==
  /\ {session, selected, projected, connected, degraded, adrift} \subseteq BOOLEAN
  /\ token \in Nat /\ closer \in Nat /\ retries \in Nat /\ closing \in Nat
  /\ connecting \in [pc : {"none", "begin", "ticket"}, token : Nat]
  /\ acks \subseteq Nat /\ IsFiniteSet(acks)
  /\ DOMAIN sockets \subseteq Nat \ {0} /\ IsFiniteSet(DOMAIN sockets)
  /\ sockets \in [DOMAIN sockets -> Endpoints]
  /\ task \in [Tasks -> TaskRecords]
  /\ \A t \in Tasks : /\ task[t].kind = "none" => task[t].pc = "done"
                      /\ task[t].pc = "leave" => task[t].kind \in {"select", "logout"} /\ ~ task[t].want
FlightInv == connecting.pc = "ticket" => connecting.token # 0 /\ connecting.token \notin DOMAIN sockets
Down(f) == \A s \in DOMAIN f : f[s].ready \notin {"connecting", "open"}
Caring == \E t \in Tasks : task[t].pc \in {"leave", "reset", "sync"}
Ending == \E t \in Tasks : task[t].pc \in {"reset", "close"}
SupplyInv == ~ adrift /\ S!Wanted /\ ~ degraded => S!Supplied \/ Caring
GoneInv == ~ adrift /\ ~ S!Wanted => Down(sockets) \/ Ending
SocketsInv == SocketTypes /\ FlightInv /\ S!OneSocket /\ S!TimerLivesWithSocket /\ SupplyInv /\ GoneInv

(* There is always a token that is not in use.                             *)
LEMMA FreshIsUnused == SocketTypes => S!Fresh \notin S!InUse /\ S!Fresh \in Nat \ {0}
  <1> SUFFICES ASSUME SocketTypes PROVE S!Fresh \notin S!InUse /\ S!Fresh \in Nat \ {0}
    OBVIOUS
  <1> DEFINE n == Cardinality(S!InUse)
  <1>1. IsFiniteSet(S!InUse)
    <2>1. IsFiniteSet({token, closer, connecting.token})
      <3>1. IsFiniteSet({}) /\ IsFiniteSet({token}) /\ IsFiniteSet({closer}) /\ IsFiniteSet({connecting.token})
        BY FS_Singleton, FS_EmptySet
      <3>2. IsFiniteSet({token} \cup {closer}) /\ IsFiniteSet(({token} \cup {closer}) \cup {connecting.token})
        BY <3>1, FS_Union
      <3>3. {token, closer, connecting.token} = ({token} \cup {closer}) \cup {connecting.token}
        OBVIOUS
      <3> QED
        BY <3>2, <3>3
    <2>2. IsFiniteSet(DOMAIN sockets \cup acks)
      BY FS_Union DEF SocketTypes
    <2>3. S!InUse = (DOMAIN sockets \cup acks) \cup {token, closer, connecting.token}
      BY DEF S!InUse, S!Ids
    <2> QED
      BY <2>1, <2>2, <2>3, FS_Union
  <1>2. n \in Nat
    BY <1>1, FS_CardinalityType
  <1>3. ~ (1 .. n + 1 \subseteq S!InUse)
    <2> SUFFICES ASSUME 1 .. n + 1 \subseteq S!InUse PROVE FALSE
      OBVIOUS
    <2>1. Cardinality(1 .. n + 1) <= n
      BY <1>1, FS_Subset
    <2>2. Cardinality(1 .. n + 1) = n + 1
      <3> HIDE DEF n
      <3> QED
        BY <1>2, FS_Interval
    <2> HIDE DEF n
    <2> QED
      BY <1>2, <2>1, <2>2
  <1>4. \E i \in 1 .. n + 1 : i \notin S!InUse
    BY <1>3
  <1>5. S!Fresh \in 1 .. n + 1 /\ S!Fresh \notin S!InUse
    <2>1. S!Fresh = CHOOSE i \in 1 .. n + 1 : i \notin S!InUse
      BY DEF S!Fresh, S!Cardinality, Cardinality
    <2> HIDE DEF n
    <2> QED
      BY <1>4, <2>1, Zenon
  <1> HIDE DEF n
  <1> QED
    BY <1>2, <1>5

(* Closing the held socket leaves none up.                                 *)
LEMMA HeldIsClosed ==
  ASSUME SocketTypes, S!OneSocket, S!TimerLivesWithSocket
  PROVE  /\ S!CloseHeld \in [DOMAIN sockets -> Endpoints] /\ Down(S!CloseHeld)
         /\ \A s \in DOMAIN sockets : S!CloseHeld[s].timer <=> S!CloseHeld[s].ready = "open"
  <1>1. CASE closer \in DOMAIN sockets
    <2>1. S!CloseHeld = [sockets EXCEPT ![closer] = [ready |-> "closing", timer |-> FALSE]]
      BY <1>1 DEF S!CloseHeld, S!Ids, S!Closed, S!Set
    <2> QED
      BY <1>1, <2>1 DEF SocketTypes, S!OneSocket, S!TimerLivesWithSocket, S!Up, S!Ids, Down, Endpoints, Words
  <1>2. CASE closer \notin DOMAIN sockets
    <2>1. S!CloseHeld = sockets
      BY <1>2 DEF S!CloseHeld, S!Ids
    <2> QED
      BY <1>2, <2>1 DEF SocketTypes, S!OneSocket, S!TimerLivesWithSocket, S!Up, S!Ids, Down
  <1> QED
    BY <1>1, <1>2

(* What a step of the browser or of a connection does to the sockets.      *)
LEMMA SocketWrites ==
  ASSUME SocketTypes, S!OneSocket, S!TimerLivesWithSocket, S!Next
  PROVE  \/ UNCHANGED <<sockets, token, closer>>
         \/ /\ UNCHANGED <<token, closer>>
            /\ \E s \in DOMAIN sockets, e \in Endpoints :
                 /\ sockets' = [sockets EXCEPT ![s] = e] /\ sockets[s].ready \in {"connecting", "open"}
                 /\ e.timer <=> e.ready = "open"
         \/ \E s \in DOMAIN sockets : /\ sockets' = [n \in DOMAIN sockets \ {s} |-> sockets[n]] /\ closer' = closer
                                      /\ token' = IF token = s THEN 0 ELSE token
         \/ token' \in Nat /\ closer' = 0 /\ sockets' \in {S!CloseHeld, <<>>}
         \/ /\ S!Opens /\ S!IsCurrent
            /\ sockets' = [s \in DOMAIN sockets \union {connecting.token} |->
                             IF s = connecting.token THEN [ready |-> "connecting", timer |-> FALSE] ELSE sockets[s]]
            /\ closer' = connecting.token /\ token' = token /\ token = connecting.token
  <1>1. ASSUME NEW s \in DOMAIN sockets, S!Browser(s)
        PROVE  \/ /\ UNCHANGED <<token, closer>>
                  /\ \E e \in Endpoints : /\ sockets' = [sockets EXCEPT ![s] = e]
                                          /\ sockets[s].ready \in {"connecting", "open"}
                                          /\ e.timer <=> e.ready = "open"
               \/ /\ sockets' = [n \in DOMAIN sockets \ {s} |-> sockets[n]] /\ closer' = closer
                  /\ token' = IF token = s THEN 0 ELSE token
    <2>0. /\ [ready |-> "open", timer |-> TRUE] \in Endpoints /\ [ready |-> "closing", timer |-> FALSE] \in Endpoints
      BY DEF Endpoints, Words
    <2>1. CASE S!SocketOpens(s)
      BY <2>0, <2>1 DEF S!SocketOpens, S!mapVars, S!Set
    <2>2. CASE S!KeepaliveFails(s)
      BY <2>0, <2>2 DEF S!KeepaliveFails, S!mapVars, S!Set
    <2>3. CASE S!SocketErrors(s)
      BY <2>0, <2>3 DEF S!SocketErrors, S!mapVars, S!Set
    <2>4. CASE S!Frame(s)
      BY <2>0, <2>4 DEF S!Frame, S!mapVars, S!Set
    <2>5. CASE S!SocketCloses(s)
      <3>1. ~ (sockets[s].timer /\ sockets[s].ready = "closing")
        BY DEF S!TimerLivesWithSocket, S!Ids
      <3> QED
        BY <2>5, <3>1 DEF S!SocketCloses, S!NoToken, S!Ids
    <2> QED
      BY <1>1, <2>1, <2>2, <2>3, <2>4, <2>5 DEF S!Browser
  <1>2. CASE S!FlightBegins
    BY <1>2, FreshIsUnused DEF S!FlightBegins, S!NoToken
  <1>3. CASE S!Opens
    <2>1. CASE S!IsCurrent
      BY <1>3, <2>1 DEF S!Opens, S!IsCurrent, S!Ids
    <2>2. CASE ~ S!IsCurrent
      BY <1>3, <2>2 DEF S!Opens
    <2> QED
      BY <2>1, <2>2
  <1>4. ASSUME NEW t \in Tasks, S!Worker(t) \/ S!Messages(t)
        PROVE  UNCHANGED <<sockets, token, closer>> \/ (token' = 0 /\ closer' = 0 /\ sockets' = S!CloseHeld)
    BY <1>4 DEF S!Worker, S!Messages, S!StoreSelection, S!Sync, S!Connected, S!ClearSession, S!Reset, S!Paused,
       S!Select, S!Login, S!Logout, S!SessionLost, S!CloseAll, S!NoToken, S!mapVars, S!runVars
  <1>5. CASE S!NoTicket \/ S!RetryFires \/ S!Recover \/ (\E s \in acks : S!AckLands(s)) \/ S!Replayed \/ S!Rebuilt
    BY <1>5 DEF S!NoTicket, S!RetryFires, S!Recover, S!AckLands, S!Replayed, S!Rebuilt, S!mapVars, S!runVars
  <1>6. CASE S!Evict
    BY <1>6 DEF S!Evict, S!NoToken
  <1> QED
    <2>1. CASE \E s \in DOMAIN sockets : S!Browser(s)
      BY <1>1, <2>1
    <2>2. CASE \E t \in Tasks : S!Worker(t) \/ S!Messages(t)
      BY <1>4, <2>2
    <2>3. CASE S!Runs \/ S!Replayed \/ S!Rebuilt \/ S!Evict
      BY <1>2, <1>3, <1>5, <1>6, <2>3 DEF S!Runs
    <2> QED
      BY <2>1, <2>2, <2>3 DEF S!Next, S!Ids

(* The maps keep naming the one socket that is up, its keepalive timer     *)
(* goes with it, and a connection in flight never reuses a token.          *)
LEMMA SocketsKept ==
  ASSUME SocketTypes, FlightInv, S!OneSocket, S!TimerLivesWithSocket, S!Next
  PROVE  /\ S!OneSocket' /\ S!TimerLivesWithSocket'
         /\ DOMAIN sockets' \subseteq Nat \ {0} /\ IsFiniteSet(DOMAIN sockets')
         /\ sockets' \in [DOMAIN sockets' -> Endpoints] /\ token' \in Nat /\ closer' \in Nat
  <1> USE DEF S!OneSocket, S!TimerLivesWithSocket, S!Up, S!Ids
  <1>0. /\ DOMAIN sockets \subseteq Nat \ {0} /\ IsFiniteSet(DOMAIN sockets)
        /\ sockets \in [DOMAIN sockets -> Endpoints] /\ token \in Nat /\ closer \in Nat /\ connecting.token \in Nat
    BY DEF SocketTypes
  <1>1. CASE UNCHANGED <<sockets, token, closer>>
    BY <1>0, <1>1
  <1>2. ASSUME UNCHANGED <<token, closer>>, NEW s \in DOMAIN sockets, NEW e \in Endpoints,
               sockets' = [sockets EXCEPT ![s] = e], sockets[s].ready \in {"connecting", "open"},
               e.timer <=> e.ready = "open"
        PROVE  /\ S!OneSocket' /\ S!TimerLivesWithSocket' /\ DOMAIN sockets' = DOMAIN sockets
               /\ sockets' \in [DOMAIN sockets -> Endpoints]
    BY <1>0, <1>2
  <1>3. ASSUME NEW s \in DOMAIN sockets, sockets' = [n \in DOMAIN sockets \ {s} |-> sockets[n]],
               closer' = closer, token' = IF token = s THEN 0 ELSE token
        PROVE  /\ S!OneSocket' /\ S!TimerLivesWithSocket' /\ DOMAIN sockets' = DOMAIN sockets \ {s}
               /\ sockets' \in [DOMAIN sockets \ {s} -> Endpoints] /\ IsFiniteSet(DOMAIN sockets \ {s})
    <2>1. IsFiniteSet(DOMAIN sockets \ {s})
      BY <1>0, FS_Subset
    <2> QED
      BY <1>0, <1>3, <2>1
  <1>4. CASE token' \in Nat /\ closer' = 0 /\ sockets' = S!CloseHeld
    <2>1. /\ sockets' \in [DOMAIN sockets -> Endpoints] /\ Down(sockets')
          /\ \A s \in DOMAIN sockets : sockets'[s].timer <=> sockets'[s].ready = "open"
      BY <1>4, HeldIsClosed
    <2>2. DOMAIN sockets' = DOMAIN sockets
      BY <2>1
    <2> QED
      BY <1>0, <1>4, <2>1, <2>2 DEF Down
  <1>5. CASE token' \in Nat /\ closer' = 0 /\ sockets' = <<>>
    <2>1. DOMAIN sockets' = {} /\ sockets' \in [{} -> Endpoints]
      BY <1>5
    <2> QED
      BY <1>5, <2>1, FS_EmptySet
  <1>6. CASE /\ S!Opens /\ S!IsCurrent
             /\ sockets' = [s \in DOMAIN sockets \union {connecting.token} |->
                              IF s = connecting.token THEN [ready |-> "connecting", timer |-> FALSE] ELSE sockets[s]]
             /\ closer' = connecting.token /\ token' = token /\ token = connecting.token
    <2>1. connecting.token # 0 /\ connecting.token \notin DOMAIN sockets
      BY <1>6 DEF S!Opens, FlightInv
    <2>2. IsFiniteSet(DOMAIN sockets \union {connecting.token})
      BY <1>0, FS_Singleton, FS_Union
    <2>3. \A s \in DOMAIN sockets : sockets[s].ready \notin {"connecting", "open"}
      BY <1>6, <2>1
    <2>4. [ready |-> "connecting", timer |-> FALSE] \in Endpoints
      BY DEF Endpoints, Words
    <2>5. DOMAIN sockets' = DOMAIN sockets \union {connecting.token} /\ sockets' \in [DOMAIN sockets' -> Endpoints]
      BY <1>0, <1>6, <2>4
    <2>6. \A s \in DOMAIN sockets' : IF s = connecting.token THEN sockets'[s] = [ready |-> "connecting", timer |-> FALSE]
                                     ELSE s \in DOMAIN sockets /\ sockets'[s] = sockets[s]
      BY <1>6, <2>5
    <2>7. S!OneSocket'
      BY <1>6, <2>3, <2>6
    <2>8. S!TimerLivesWithSocket'
      BY <2>6
    <2> QED
      BY <1>0, <1>6, <2>1, <2>2, <2>5, <2>7, <2>8
  <1> QED
    <2>1. CASE /\ UNCHANGED <<token, closer>>
               /\ \E s \in DOMAIN sockets, e \in Endpoints :
                    /\ sockets' = [sockets EXCEPT ![s] = e] /\ sockets[s].ready \in {"connecting", "open"}
                    /\ e.timer <=> e.ready = "open"
      BY <1>0, <1>2, <2>1
    <2>2. CASE \E s \in DOMAIN sockets : /\ sockets' = [n \in DOMAIN sockets \ {s} |-> sockets[n]] /\ closer' = closer
                                         /\ token' = IF token = s THEN 0 ELSE token
      BY <1>0, <1>3, <2>2
    <2>3. CASE token' \in Nat /\ closer' = 0 /\ sockets' \in {S!CloseHeld, <<>>}
      BY <1>4, <1>5, <2>3
    <2> QED
      BY <1>1, <1>6, <2>1, <2>2, <2>3, SocketWrites

LEMMA FlightKept ==
  ASSUME SocketTypes, FlightInv, S!OneSocket, S!TimerLivesWithSocket, S!Next
  PROVE  FlightInv' /\ connecting' \in [pc : {"none", "begin", "ticket"}, token : Nat]
  <1>0. connecting \in [pc : {"none", "begin", "ticket"}, token : Nat]
    BY DEF SocketTypes
  <1>1. CASE S!FlightBegins
    <2>1. CASE connecting' = [pc |-> "ticket", token |-> S!Fresh] /\ sockets' = S!CloseHeld
      <3>1. S!Fresh \in Nat \ {0} /\ S!Fresh \notin DOMAIN sockets
        BY FreshIsUnused DEF S!InUse, S!Ids
      <3>2. DOMAIN sockets' = DOMAIN sockets
        BY <2>1, HeldIsClosed
      <3> QED
        BY <2>1, <3>1, <3>2 DEF FlightInv
    <2>2. CASE connecting' = S!NoFlight
      BY <2>2 DEF FlightInv, S!NoFlight, S!NoToken
    <2> QED
      BY <1>1, <2>1, <2>2 DEF S!FlightBegins
  <1>2. CASE S!Opens \/ S!NoTicket \/ S!Evict
    BY <1>2 DEF S!Opens, S!NoTicket, S!Evict, FlightInv, S!NoFlight, S!NoToken
  <1>3. ASSUME S!Connect, DOMAIN sockets' = DOMAIN sockets
        PROVE  FlightInv' /\ connecting' \in [pc : {"none", "begin", "ticket"}, token : Nat]
    BY <1>0, <1>3 DEF S!Connect, FlightInv, S!NoToken
  <1>4. CASE S!RetryFires \/ S!Recover \/ S!Rebuilt \/ \E t \in Tasks : S!Sync(t)
    BY <1>0, <1>3, <1>4 DEF S!RetryFires, S!Recover, S!Rebuilt, S!Sync, S!runVars, FlightInv
  <1>5. ASSUME connecting' = connecting, DOMAIN sockets' \subseteq DOMAIN sockets
        PROVE  FlightInv' /\ connecting' \in [pc : {"none", "begin", "ticket"}, token : Nat]
    BY <1>0, <1>5 DEF FlightInv
  <1>6. ASSUME NEW s \in DOMAIN sockets, S!Browser(s)
        PROVE  connecting' = connecting /\ DOMAIN sockets' \subseteq DOMAIN sockets
    <2>1. ~ (sockets[s].timer /\ sockets[s].ready = "closing")
      BY DEF S!TimerLivesWithSocket, S!Ids
    <2> QED
      BY <1>6, <2>1 DEF S!Browser, S!SocketOpens, S!KeepaliveFails, S!SocketErrors, S!SocketCloses, S!Frame, S!Set,
         S!mapVars, S!Ids
  <1>7. ASSUME NEW t \in Tasks, S!Worker(t) \/ S!Messages(t), ~ S!Sync(t)
        PROVE  connecting' = connecting /\ DOMAIN sockets' \subseteq DOMAIN sockets
    <2>1. sockets' \in {sockets, S!CloseHeld} /\ connecting' = connecting
      BY <1>7 DEF S!Worker, S!Messages, S!StoreSelection, S!Connected, S!ClearSession, S!Reset, S!Paused,
         S!Select, S!Login, S!Logout, S!SessionLost, S!CloseAll, S!mapVars, S!runVars
    <2>2. DOMAIN S!CloseHeld = DOMAIN sockets
      BY HeldIsClosed
    <2> QED
      BY <2>1, <2>2
  <1>8. CASE S!Replayed \/ \E s \in acks : S!AckLands(s)
    BY <1>0, <1>8 DEF S!Replayed, S!AckLands, S!mapVars, S!runVars, FlightInv
  <1> QED
    <2>1. CASE \E s \in DOMAIN sockets : S!Browser(s)
      BY <1>5, <1>6, <2>1
    <2>2. CASE \E t \in Tasks : S!Worker(t) \/ S!Messages(t)
      BY <1>4, <1>5, <1>7, <2>2
    <2>3. CASE S!Runs \/ S!Replayed \/ S!Rebuilt \/ S!Evict
      BY <1>1, <1>2, <1>4, <1>8, <2>3 DEF S!Runs
    <2> QED
      BY <2>1, <2>2, <2>3 DEF S!Next, S!Ids

(* The records of the tasks.                                               *)
LEMMA TasksKept ==
  ASSUME SocketTypes, S!Next
  PROVE  /\ task' \in [Tasks -> TaskRecords]
         /\ \A t \in Tasks : /\ task'[t].kind = "none" => task'[t].pc = "done"
                             /\ task'[t].pc = "leave" => task'[t].kind \in {"select", "logout"} /\ ~ task'[t].want
  <1> DEFINE Fine(f) == \A t \in Tasks : /\ f[t].kind = "none" => f[t].pc = "done"
                                         /\ f[t].pc = "leave" => f[t].kind \in {"select", "logout"} /\ ~ f[t].want
  <1>0. task \in [Tasks -> TaskRecords] /\ Fine(task)
    BY DEF SocketTypes
  <1>a. S!NoTask \in TaskRecords /\ S!NoTask.kind = "none" /\ S!NoTask.pc = "done"
    BY DEF S!NoTask, TaskRecords
  <1>1. CASE task' = task
    BY <1>0, <1>1
  <1>2. CASE S!Evict
    <2>1. PICK t \in Tasks : task' = [u \in Tasks |-> IF u = t THEN [S!NoTask EXCEPT !.kind = "start", !.pc = "sync"] ELSE S!NoTask]
      BY <1>2 DEF S!Evict, S!Starts
    <2>2. PICK r : r = [S!NoTask EXCEPT !.kind = "start", !.pc = "sync"]
      OBVIOUS
    <2>3. r \in TaskRecords /\ r.kind = "start" /\ r.pc = "sync"
      BY <2>2 DEF S!NoTask, TaskRecords
    <2>4. \A u \in Tasks : task'[u] \in {r, S!NoTask}
      BY <2>1, <2>2
    <2> QED
      BY <1>a, <2>1, <2>3, <2>4
  <1>3. ASSUME NEW t \in Tasks, S!Worker(t) \/ S!Messages(t)
        PROVE  task' \in [Tasks -> TaskRecords] /\ Fine(task')
    <2>1. PICK r \in TaskRecords : /\ task' = [task EXCEPT ![t] = r] /\ (r.kind = "none" => r.pc = "done")
                                   /\ r.pc = "leave" => r.kind \in {"select", "logout"} /\ ~ r.want
      <3>0. task[t] \in TaskRecords
        BY <1>0
      <3>1. ASSUME NEW pc \in {"sync", "connecting", "reset"}, task' = [task EXCEPT ![t].pc = pc], task[t].kind # "none"
            PROVE  \E r \in TaskRecords : /\ task' = [task EXCEPT ![t] = r] /\ (r.kind = "none" => r.pc = "done")
                                          /\ r.pc = "leave" => r.kind \in {"select", "logout"} /\ ~ r.want
        <4> DEFINE r == [task[t] EXCEPT !.pc = pc]
        <4>1. task' = [task EXCEPT ![t] = r] /\ r.kind = task[t].kind /\ r.pc = pc /\ r \in TaskRecords
          BY <1>0, <3>0, <3>1 DEF TaskRecords
        <4> QED
          BY <3>1, <4>1
      <3>2. CASE S!StoreSelection(t) \/ S!ClearSession(t)
        BY <3>1, <3>2 DEF S!StoreSelection, S!ClearSession, S!Goes, S!At
      <3>3. CASE S!Ends(t)
        BY <1>a, <3>3 DEF S!Ends
      <3>4. CASE S!Sync(t)
        <4>1. task[t].kind # "none"
          BY <1>0, <3>4 DEF S!Sync
        <4>2. CASE S!Goes(t, "connecting")
          BY <3>1, <4>1, <4>2 DEF S!Goes
        <4> QED
          BY <3>3, <3>4, <4>2 DEF S!Sync
      <3>5. CASE S!Connected(t) \/ S!Reset(t) \/ S!Paused(t)
        BY <3>3, <3>5 DEF S!Connected, S!Reset, S!Paused
      <3>6. ASSUME NEW kind \in {"select", "login", "logout", "pause"}, NEW pc \in {"leave", "store", "sync", "close"},
                   NEW want \in BOOLEAN, S!Becomes(t, kind, pc, want), pc = "leave" => kind \in {"select", "logout"} /\ ~ want
            PROVE  \E r \in TaskRecords : /\ task' = [task EXCEPT ![t] = r] /\ (r.kind = "none" => r.pc = "done")
                                          /\ r.pc = "leave" => r.kind \in {"select", "logout"} /\ ~ r.want
        <4> DEFINE r == [kind |-> kind, pc |-> pc, want |-> want]
        <4>1. task' = [task EXCEPT ![t] = r] /\ r \in TaskRecords /\ r.kind = kind /\ r.pc = pc /\ r.want = want
          BY <3>6 DEF S!Becomes, TaskRecords
        <4> HIDE DEF r
        <4> QED
          BY <3>6, <4>1
      <3>7. CASE \E want \in BOOLEAN : S!Select(t, want)
        BY <3>6, <3>7 DEF S!Select
      <3>8. CASE S!Login(t) \/ S!Logout(t) \/ S!SessionLost(t)
        BY <3>6, <3>8 DEF S!Login, S!Logout, S!SessionLost
      <3> QED
        BY <1>3, <3>2, <3>4, <3>5, <3>7, <3>8 DEF S!Worker, S!Messages
    <2>2. \A u \in Tasks : task'[u] = IF u = t THEN r ELSE task[u]
      BY <1>0, <2>1
    <2> QED
      BY <1>0, <2>1, <2>2
  <1>4. ASSUME NEW s \in DOMAIN sockets, S!Browser(s)
        PROVE  task' = task
    BY <1>4 DEF S!Browser, S!SocketOpens, S!KeepaliveFails, S!SocketErrors, S!SocketCloses, S!Frame
  <1>5. CASE S!Runs \/ S!Replayed \/ S!Rebuilt
    BY <1>1, <1>5 DEF S!Runs, S!FlightBegins, S!Opens, S!NoTicket, S!RetryFires, S!Recover, S!AckLands, S!Replayed, S!Rebuilt
  <1> QED
    BY <1>1, <1>2, <1>3, <1>4, <1>5 DEF S!Next, S!Ids

LEMMA SocketTypesNext ==
  ASSUME SocketTypes, FlightInv, S!OneSocket, S!TimerLivesWithSocket, S!Next
  PROVE  SocketTypes'
  <1>0. /\ {session, selected, projected, connected, degraded, adrift} \subseteq BOOLEAN
        /\ retries \in Nat /\ closing \in Nat /\ acks \subseteq Nat /\ IsFiniteSet(acks) /\ DOMAIN sockets \subseteq Nat
        /\ task \in [Tasks -> TaskRecords]
    BY DEF SocketTypes
  <1>1. retries' \in Nat /\ closing' \in Nat
    <2>1. \/ retries' \in {retries, retries + 1, 0} \/ (retries > 0 /\ retries' = retries - 1)
      BY DEF S!Next, S!Worker, S!Messages, S!Runs, S!Browser, S!StoreSelection, S!Sync, S!Connected, S!ClearSession,
         S!Reset, S!Paused, S!FlightBegins, S!Opens, S!NoTicket, S!RetryFires, S!Recover, S!AckLands, S!Select, S!Login,
         S!Logout, S!SessionLost, S!SocketOpens, S!KeepaliveFails, S!SocketErrors, S!SocketCloses, S!Frame,
         S!Replayed, S!Rebuilt, S!Evict, S!runVars
    <2>2. \/ closing' \in {closing, closing + 1, 0} \/ (closing > 0 /\ closing' = closing - 1)
      BY DEF S!Next, S!Worker, S!Messages, S!Runs, S!Browser, S!StoreSelection, S!Sync, S!Connected, S!ClearSession,
         S!Reset, S!Paused, S!FlightBegins, S!Opens, S!NoTicket, S!RetryFires, S!Recover, S!AckLands, S!Select, S!Login,
         S!Logout, S!SessionLost, S!SocketOpens, S!KeepaliveFails, S!SocketErrors, S!SocketCloses, S!Frame,
         S!Replayed, S!Rebuilt, S!Evict, S!runVars
    <2> QED
      BY <1>0, <2>1, <2>2
  <1>2. acks' \subseteq Nat /\ IsFiniteSet(acks')
    <2>1. \/ acks' \subseteq acks \/ \E s \in DOMAIN sockets : acks' = acks \cup {s}
      BY DEF S!Next, S!Worker, S!Messages, S!Runs, S!Browser, S!StoreSelection, S!Sync, S!Connected, S!ClearSession,
         S!Reset, S!Paused, S!FlightBegins, S!Opens, S!NoTicket, S!RetryFires, S!Recover, S!AckLands, S!Select, S!Login,
         S!Logout, S!SessionLost, S!SocketOpens, S!KeepaliveFails, S!SocketErrors, S!SocketCloses, S!Frame,
         S!Replayed, S!Rebuilt, S!Evict, S!runVars, S!Ids
    <2>2. CASE acks' \subseteq acks
      BY <1>0, <2>2, FS_Subset
    <2>3. ASSUME NEW s \in DOMAIN sockets, acks' = acks \cup {s}
          PROVE  acks' \subseteq Nat /\ IsFiniteSet(acks')
      BY <1>0, <2>3, FS_Singleton, FS_Union
    <2> QED
      BY <2>1, <2>2, <2>3
  <1>3. {session', selected', projected', connected', degraded', adrift'} \subseteq BOOLEAN
    <2>1. \A t \in Tasks : task[t].want \in BOOLEAN
      BY <1>0 DEF TaskRecords
    <2>2. S!Wanted \in BOOLEAN /\ S!Leaving \in BOOLEAN /\ S!JoinsTheDead \in BOOLEAN /\ S!Exhausted \in BOOLEAN /\ S!Supplied \in BOOLEAN
      BY DEF S!Wanted, S!Leaving, S!JoinsTheDead, S!Exhausted, S!Supplied
    <2>3. ASSUME NEW t \in Tasks, S!Worker(t) \/ S!Messages(t)
          PROVE  {session', selected', projected', connected', degraded', adrift'} \subseteq BOOLEAN
      BY <1>0, <2>1, <2>2, <2>3 DEF S!Worker, S!Messages, S!StoreSelection, S!Sync, S!Connected, S!ClearSession,
         S!Reset, S!Paused, S!Select, S!Login, S!Logout, S!SessionLost, S!stateVars
    <2>4. ASSUME NEW s \in DOMAIN sockets, S!Browser(s)
          PROVE  {session', selected', projected', connected', degraded', adrift'} \subseteq BOOLEAN
      BY <1>0, <2>4 DEF S!Browser, S!SocketOpens, S!KeepaliveFails, S!SocketErrors, S!SocketCloses, S!Frame, S!stateVars
    <2>5. CASE S!FlightBegins \/ S!Opens \/ S!RetryFires \/ S!Evict
      BY <1>0, <2>2, <2>5 DEF S!FlightBegins, S!Opens, S!RetryFires, S!Evict, S!stateVars
    <2>6. CASE S!NoTicket \/ S!Recover
      BY <1>0, <2>2, <2>6 DEF S!NoTicket, S!Recover, S!EnterRecovery
    <2>7. CASE (\E s \in acks : S!AckLands(s)) \/ S!Replayed \/ S!Rebuilt
      BY <1>0, <2>2, <2>7 DEF S!AckLands, S!Replayed, S!Rebuilt, S!Live
    <2> QED
      BY <2>3, <2>4, <2>5, <2>6, <2>7 DEF S!Next, S!Runs, S!Ids
  <1> QED
    BY <1>1, <1>2, <1>3, SocketsKept, FlightKept, TasksKept DEF SocketTypes

(* Whoever joins a connection in flight supplies the workspace, unless it  *)
(* joins one whose token was dropped.                                      *)
LEMMA ConnectSupplies ==
  ASSUME S!Connect, ~ S!JoinsTheDead, token' = token, connecting \in [pc : {"none", "begin", "ticket"}, token : Nat]
  PROVE  S!Supplied'
  <1>1. CASE connecting.pc = "none"
    <2>1. connecting'.pc = "begin"
      BY <1>1 DEF S!Connect
    <2> QED
      BY <2>1 DEF S!Supplied
  <1>2. CASE connecting.pc = "begin" \/ connecting.pc = "ticket"
    <2>1. connecting' = connecting
      BY <1>2 DEF S!Connect
    <2> QED
      BY <1>2, <2>1 DEF S!Supplied, S!JoinsTheDead
  <1> QED
    BY <1>1, <1>2

(* No step leaves a wanted workspace without a socket, or one on its way,  *)
(* but to a task that is about to see to it or with an operation adrift.   *)
LEMMA SupplyNext ==
  ASSUME SocketsInv, S!Next
  PROVE  SupplyInv'
  <1> SUFFICES ASSUME ~ adrift', S!Wanted', ~ degraded'
               PROVE  S!Supplied' \/ Caring'
    BY DEF SupplyInv
  <1>0. /\ task \in [Tasks -> TaskRecords] /\ retries \in Nat /\ closing \in Nat
        /\ connecting \in [pc : {"none", "begin", "ticket"}, token : Nat]
        /\ \A t \in Tasks : task[t].kind = "none" => task[t].pc = "done"
        /\ adrift \in BOOLEAN /\ adrift' \in BOOLEAN /\ degraded \in BOOLEAN
    <2>1. SocketTypes'
      BY SocketTypesNext DEF SocketsInv
    <2> QED
      BY <2>1 DEF SocketsInv, SocketTypes
  <1>s. ~ adrift /\ S!Wanted /\ ~ degraded => S!Supplied \/ Caring
    BY DEF SocketsInv, SupplyInv
  <1>a. ASSUME NEW t \in Tasks, task'[t].pc \in {"leave", "reset", "sync"}
        PROVE  Caring'
    BY <1>a DEF Caring
  <1>b. ASSUME NEW t \in Tasks, task[t].pc \notin {"leave", "reset", "sync"}, NEW r, task' = [task EXCEPT ![t] = r]
        PROVE  Caring => Caring'
    BY <1>0, <1>b DEF Caring
  <1>c. ASSUME UNCHANGED <<token, connecting, closing, retries>>, DOMAIN sockets' = DOMAIN sockets
        PROVE  S!Supplied => S!Supplied'
    BY <1>c DEF S!Supplied, S!Ids
  <1>1. ASSUME NEW s \in DOMAIN sockets, S!Browser(s)
        PROVE  S!Supplied' \/ Caring'
    <2>0. UNCHANGED <<session, selected, projected, degraded, connecting, retries, task, adrift>>
      BY <1>1 DEF S!Browser, S!SocketOpens, S!KeepaliveFails, S!SocketErrors, S!SocketCloses, S!Frame, S!stateVars,
         S!mapVars
    <2>1. S!Supplied \/ Caring
      BY <1>s, <2>0 DEF S!Wanted
    <2>2. Caring => Caring'
      BY <2>0 DEF Caring
    <2>3. CASE S!SocketOpens(s) \/ S!KeepaliveFails(s) \/ S!SocketErrors(s) \/ S!Frame(s)
      <3>1. UNCHANGED <<token, closing>> /\ DOMAIN sockets' = DOMAIN sockets
        BY <2>3 DEF S!SocketOpens, S!KeepaliveFails, S!SocketErrors, S!Frame, S!Set, S!mapVars
      <3> QED
        BY <1>c, <2>0, <2>1, <2>2, <3>1
    <2>4. CASE S!SocketCloses(s)
      <3>1. CASE token = s
        BY <1>0, <2>4, <3>1 DEF S!SocketCloses, S!Supplied
      <3>2. CASE token # s
        <4>1. UNCHANGED <<token, closing>> /\ (token \in DOMAIN sockets => token \in DOMAIN sockets')
          BY <2>4, <3>2 DEF S!SocketCloses, S!Set, S!Ids
        <4> QED
          BY <2>0, <2>1, <2>2, <4>1 DEF S!Supplied, S!Ids
      <3> QED
        BY <3>1, <3>2
    <2> QED
      BY <1>1, <2>3, <2>4 DEF S!Browser
  <1>2. ASSUME NEW t \in Tasks, S!Worker(t)
        PROVE  S!Supplied' \/ Caring'
    <2>1. CASE S!StoreSelection(t)
      BY <1>0, <1>a, <2>1 DEF S!StoreSelection, S!Goes, TaskRecords
    <2>2. CASE S!Sync(t)
      <3>1. CASE S!Connect /\ adrift' = (adrift \/ S!JoinsTheDead)
        BY <1>0, <2>2, <3>1, ConnectSupplies DEF S!Sync
      <3>2. CASE adrift' = (adrift \/ S!Wanted) /\ projected' = projected
        BY <2>2, <3>2 DEF S!Sync, S!Wanted
      <3> QED
        BY <2>2, <3>1, <3>2 DEF S!Sync
    <2>3. CASE S!Connected(t)
      <3>1. S!Supplied \/ Caring
        BY <1>s, <2>3 DEF S!Connected, S!stateVars, S!Wanted
      <3>2. Caring => Caring'
        BY <1>b, <2>3 DEF S!Connected, S!Ends
      <3>3. S!Supplied => S!Supplied'
        BY <2>3 DEF S!Connected, S!mapVars, S!runVars, S!Supplied, S!Ids
      <3> QED
        BY <3>1, <3>2, <3>3
    <2>4. CASE S!ClearSession(t) \/ S!Reset(t)
      BY <2>4 DEF S!ClearSession, S!Reset, S!Wanted
    <2>5. CASE S!Paused(t)
      BY <2>5 DEF S!Paused, S!stateVars, S!Wanted
    <2> QED
      BY <1>2, <2>1, <2>2, <2>3, <2>4, <2>5 DEF S!Worker
  <1>3. ASSUME NEW t \in Tasks, S!Messages(t)
        PROVE  S!Supplied' \/ Caring'
    <2>1. ASSUME NEW kind, NEW want, NEW pc \in {"leave", "sync"}, S!Becomes(t, kind, pc, want)
          PROVE  Caring'
      BY <1>0, <1>a, <2>1 DEF S!Becomes
    <2>2. CASE S!Login(t) \/ S!Logout(t)
      BY <2>1, <2>2 DEF S!Login, S!Logout
    <2>3. CASE S!SessionLost(t)
      BY <2>3 DEF S!SessionLost, S!Wanted
    <2>4. ASSUME NEW want \in BOOLEAN, S!Select(t, want)
          PROVE  S!Supplied' \/ Caring'
      <3>1. CASE S!Becomes(t, "select", "leave", want)
        BY <2>1, <3>1
      <3>2. CASE UNCHANGED <<token, closer, sockets>> /\ S!Becomes(t, "select", "store", want)
        <4>1. S!Supplied \/ Caring
          BY <1>s, <2>4 DEF S!Select, S!stateVars, S!Wanted
        <4>2. task[t].pc = "done"
          BY <1>0, <2>4 DEF S!Select, S!Free
        <4>3. Caring => Caring'
          BY <1>b, <3>2, <4>2 DEF S!Becomes
        <4>4. S!Supplied => S!Supplied'
          BY <2>4, <3>2 DEF S!Select, S!Supplied, S!Ids
        <4> QED
          BY <4>1, <4>3, <4>4
      <3> QED
        BY <2>4, <3>1, <3>2 DEF S!Select
    <2> QED
      BY <1>3, <2>2, <2>3, <2>4 DEF S!Messages
  <1>4. CASE S!FlightBegins
    <2>1. S!Wanted
      BY <1>4 DEF S!FlightBegins, S!stateVars, S!Wanted
    <2> QED
      BY <1>4, <2>1 DEF S!FlightBegins, S!Supplied
  <1>5. CASE S!Opens
    <2>0. UNCHANGED <<token, retries, closing, task>> /\ S!Wanted /\ ~ adrift /\ ~ degraded
      BY <1>5 DEF S!Opens, S!stateVars, S!Wanted
    <2>1. CASE S!IsCurrent
      BY <1>5, <2>0, <2>1 DEF S!Opens, S!IsCurrent, S!Supplied, S!Ids
    <2>2. CASE ~ S!IsCurrent
      <3>1. (S!Supplied \/ Caring) /\ sockets' = sockets /\ token # connecting.token /\ connecting.pc = "ticket"
        BY <1>5, <1>s, <2>0, <2>2 DEF S!Opens, S!IsCurrent
      <3> QED
        BY <2>0, <3>1 DEF S!Supplied, S!Ids, Caring
    <2> QED
      BY <2>1, <2>2
  <1>6. CASE S!NoTicket
    <2>0. UNCHANGED <<token, closing, task, sockets>> /\ S!Wanted /\ ~ adrift /\ projected
      BY <1>6 DEF S!NoTicket, S!Wanted
    <2>1. CASE S!IsCurrent
      <3>1. ~ S!Exhausted
        BY <1>6, <2>0, <2>1 DEF S!NoTicket, S!EnterRecovery
      <3>2. retries' = retries + 1
        BY <1>6, <2>1, <3>1 DEF S!NoTicket
      <3> QED
        BY <1>0, <3>2 DEF S!Supplied
    <2>2. CASE ~ S!IsCurrent
      <3>1. UNCHANGED <<retries, degraded>> /\ connecting.pc = "ticket" /\ token # connecting.token
        BY <1>6, <2>0, <2>2 DEF S!NoTicket, S!IsCurrent
      <3>2. S!Supplied \/ Caring
        BY <1>s, <2>0, <3>1
      <3> QED
        BY <2>0, <3>1, <3>2 DEF S!Supplied, S!Ids, Caring
    <2> QED
      BY <2>1, <2>2
  <1>7. CASE S!RetryFires \/ S!Rebuilt
    BY <1>0, <1>7, ConnectSupplies DEF S!RetryFires, S!Rebuilt
  <1>8. CASE S!Recover
    <2>1. ~ S!Exhausted
      BY <1>8 DEF S!Recover, S!EnterRecovery, S!Exhausted, S!Wanted
    <2> QED
      BY <1>0, <1>8, <2>1, ConnectSupplies DEF S!Recover
  <1>9. CASE S!Replayed \/ \E s \in acks : S!AckLands(s)
    <2>1. S!Supplied
      BY <1>9 DEF S!Replayed, S!AckLands, S!Wanted
    <2>2. UNCHANGED <<token, connecting, retries, closing, sockets>>
      BY <1>9 DEF S!Replayed, S!AckLands, S!mapVars, S!runVars
    <2> QED
      BY <1>c, <2>1, <2>2
  <1>10. CASE S!Evict
    <2>1. PICK t \in Tasks : task' = [u \in Tasks |-> IF u = t THEN [S!NoTask EXCEPT !.kind = "start", !.pc = "sync"] ELSE S!NoTask]
      BY <1>10 DEF S!Evict, S!Starts
    <2>2. task'[t].pc = "sync"
      BY <2>1 DEF S!NoTask
    <2> QED
      BY <1>a, <2>2
  <1> QED
    <2>1. CASE \E s \in DOMAIN sockets : S!Browser(s)
      BY <1>1, <2>1
    <2>2. CASE \E t \in Tasks : S!Worker(t) \/ S!Messages(t)
      BY <1>2, <1>3, <2>2
    <2>3. CASE S!Runs \/ S!Replayed \/ S!Rebuilt \/ S!Evict
      BY <1>4, <1>5, <1>6, <1>7, <1>8, <1>9, <1>10, <2>3 DEF S!Runs
    <2> QED
      BY <2>1, <2>2, <2>3 DEF S!Next, S!Ids

(* No step leaves a socket up for a workspace that is not wanted, but to a *)
(* task that is about to close it or with an operation adrift.             *)
LEMMA GoneNext ==
  ASSUME SocketsInv, S!Next
  PROVE  GoneInv'
  <1> SUFFICES ASSUME ~ adrift', ~ S!Wanted'
               PROVE  Down(sockets') \/ Ending'
    BY DEF GoneInv, Down
  <1>0. /\ task \in [Tasks -> TaskRecords] /\ DOMAIN sockets \subseteq Nat \ {0}
        /\ \A t \in Tasks : task[t].kind = "none" => task[t].pc = "done"
        /\ adrift \in BOOLEAN /\ adrift' \in BOOLEAN
    <2>1. SocketTypes'
      BY SocketTypesNext DEF SocketsInv
    <2> QED
      BY <2>1 DEF SocketsInv, SocketTypes
  <1>g. ~ adrift /\ ~ S!Wanted => Down(sockets) \/ Ending
    BY DEF SocketsInv, GoneInv
  <1>t. token = 0 => Down(sockets)
    BY <1>0 DEF SocketsInv, S!OneSocket, S!Up, S!Ids, Down
  <1>h. Down(S!CloseHeld)
    BY HeldIsClosed DEF SocketsInv
  <1>a. ASSUME NEW t \in Tasks, task'[t].pc \in {"reset", "close"}
        PROVE  Ending'
    BY <1>a DEF Ending
  <1>b. ASSUME NEW t \in Tasks, task[t].pc \notin {"reset", "close"}, NEW r, task' = [task EXCEPT ![t] = r]
        PROVE  Ending => Ending'
    BY <1>0, <1>b DEF Ending
  <1>1. ASSUME NEW s \in DOMAIN sockets, S!Browser(s)
        PROVE  Down(sockets') \/ Ending'
    <2>0. UNCHANGED <<session, selected, projected, task, adrift>>
      BY <1>1 DEF S!Browser, S!SocketOpens, S!KeepaliveFails, S!SocketErrors, S!SocketCloses, S!Frame, S!stateVars
    <2>1. Down(sockets) \/ Ending
      BY <1>g, <2>0 DEF S!Wanted
    <2>2. Ending => Ending'
      BY <2>0 DEF Ending
    <2>3. CASE S!SocketOpens(s) \/ S!KeepaliveFails(s) \/ S!SocketErrors(s) \/ S!Frame(s)
      <3>1. ~ Down(sockets)
        BY <2>3 DEF S!SocketOpens, S!KeepaliveFails, S!SocketErrors, S!Frame, Down
      <3> QED
        BY <2>1, <2>2, <3>1
    <2>4. CASE S!SocketCloses(s)
      <3>1. ~ (sockets[s].timer /\ sockets[s].ready = "closing")
        BY DEF SocketsInv, S!TimerLivesWithSocket, S!Ids
      <3>2. sockets' = [n \in DOMAIN sockets \ {s} |-> sockets[n]]
        BY <2>4, <3>1 DEF S!SocketCloses, S!Ids
      <3> QED
        BY <2>1, <2>2, <3>2 DEF Down
    <2> QED
      BY <1>1, <2>3, <2>4 DEF S!Browser
  <1>2. ASSUME NEW t \in Tasks, S!Worker(t)
        PROVE  Down(sockets') \/ Ending'
    <2>1. CASE S!StoreSelection(t)
      <3>0. sockets' = sockets /\ session' = session
        BY <2>1 DEF S!StoreSelection, S!runVars
      <3>1. CASE task[t].want
        <4>1. selected' = task[t].want /\ projected' = (projected /\ task[t].want) /\ ~ adrift
          BY <1>0, <2>1 DEF S!StoreSelection
        <4>2. Down(sockets) \/ Ending
          BY <1>g, <3>0, <3>1, <4>1, Zenon DEF S!Wanted
        <4>3. Ending => Ending'
          BY <1>0, <2>1 DEF S!StoreSelection, S!Goes, Ending
        <4> QED
          BY <3>0, <4>2, <4>3
      <3>2. CASE ~ task[t].want
        <4>1. token = 0
          BY <2>1, <3>2 DEF S!StoreSelection, S!NoToken
        <4> QED
          BY <1>t, <3>0, <4>1
      <3> QED
        BY <3>1, <3>2
    <2>2. CASE S!Sync(t)
      <3>1. CASE session /\ selected /\ projected' = TRUE
        BY <2>2, <3>1 DEF S!Sync, S!Wanted
      <3>2. CASE projected' = projected /\ adrift' = (adrift \/ S!Wanted) /\ S!Ends(t)
        <4>1. Ending => Ending'
          BY <1>b, <2>2, <3>2 DEF S!Sync, S!Ends
        <4>2. ~ S!Wanted /\ ~ adrift /\ sockets' = sockets
          BY <2>2, <3>2 DEF S!Sync, S!Wanted, S!runVars
        <4> QED
          BY <1>g, <4>1, <4>2
      <3> QED
        BY <2>2, <3>1, <3>2 DEF S!Sync
    <2>3. CASE S!Connected(t)
      <3>1. ~ S!Wanted /\ ~ adrift /\ sockets' = sockets
        BY <2>3 DEF S!Connected, S!stateVars, S!runVars, S!Wanted
      <3>2. Ending => Ending'
        BY <1>b, <2>3 DEF S!Connected, S!Ends
      <3> QED
        BY <1>g, <3>1, <3>2
    <2>4. CASE S!ClearSession(t)
      BY <1>0, <1>a, <2>4 DEF S!ClearSession, S!Goes, TaskRecords
    <2>5. CASE S!Reset(t)
      BY <1>t, <2>5 DEF S!Reset, S!runVars, S!NoToken
    <2>6. CASE S!Paused(t)
      BY <1>h, <2>6 DEF S!Paused, S!CloseAll
    <2> QED
      BY <1>2, <2>1, <2>2, <2>3, <2>4, <2>5, <2>6 DEF S!Worker
  <1>3. ASSUME NEW t \in Tasks, S!Messages(t)
        PROVE  Down(sockets') \/ Ending'
    <2>1. ASSUME NEW kind, NEW pc, NEW want, S!Becomes(t, kind, pc, want), S!Free(t)
          PROVE  Ending => Ending'
      <3>1. task[t].pc = "done"
        BY <1>0, <2>1 DEF S!Free
      <3> QED
        BY <1>b, <2>1, <3>1 DEF S!Becomes
    <2>2. CASE S!Login(t)
      <3>1. ~ S!Wanted /\ ~ adrift /\ sockets' = sockets
        BY <2>2 DEF S!Login, S!Wanted, S!runVars
      <3>2. Ending => Ending'
        BY <2>1, <2>2 DEF S!Login
      <3> QED
        BY <1>g, <3>1, <3>2
    <2>3. CASE S!Logout(t)
      BY <1>h, <2>3 DEF S!Logout, S!CloseAll
    <2>4. CASE S!SessionLost(t)
      BY <1>0, <1>a, <2>4 DEF S!SessionLost, S!Becomes
    <2>5. ASSUME NEW want \in BOOLEAN, S!Select(t, want)
          PROVE  Down(sockets') \/ Ending'
      <3>1. CASE S!CloseAll
        BY <1>h, <3>1 DEF S!CloseAll
      <3>2. CASE UNCHANGED <<token, closer, sockets>> /\ S!Becomes(t, "select", "store", want)
        <4>1. ~ S!Wanted /\ ~ adrift /\ S!Free(t)
          BY <2>5 DEF S!Select, S!stateVars, S!Wanted
        <4>2. Ending => Ending'
          BY <2>1, <3>2, <4>1
        <4> QED
          BY <1>g, <3>2, <4>1, <4>2
      <3> QED
        BY <2>5, <3>1, <3>2 DEF S!Select
    <2> QED
      BY <1>3, <2>2, <2>3, <2>4, <2>5 DEF S!Messages
  <1>4. CASE S!FlightBegins
    <2>1. ~ S!Wanted /\ task' = task
      BY <1>4 DEF S!FlightBegins, S!stateVars, S!Wanted
    <2>2. ~ adrift /\ sockets' = sockets
      BY <1>4, <2>1 DEF S!FlightBegins
    <2> QED
      BY <1>g, <2>1, <2>2 DEF Ending
  <1>5. CASE S!Opens
    <2>1. ~ S!Wanted /\ task' = task /\ ~ adrift
      BY <1>5 DEF S!Opens, S!stateVars, S!Wanted
    <2>2. sockets' = sockets
      BY <1>5, <2>1 DEF S!Opens, S!IsCurrent
    <2> QED
      BY <1>g, <2>1, <2>2 DEF Ending
  <1>6. CASE S!NoTicket \/ S!RetryFires \/ S!Recover \/ \E s \in acks : S!AckLands(s)
    <2>1. ~ S!Wanted /\ task' = task /\ sockets' = sockets /\ ~ adrift
      BY <1>0, <1>6 DEF S!NoTicket, S!RetryFires, S!Recover, S!AckLands, S!stateVars, S!Wanted
    <2> QED
      BY <1>g, <2>1 DEF Ending
  <1>7. CASE S!Replayed \/ S!Rebuilt
    BY <1>7 DEF S!Replayed, S!Rebuilt, S!Wanted
  <1>8. CASE S!Evict
    BY <1>8 DEF S!Evict, Down
  <1> QED
    <2>1. CASE \E s \in DOMAIN sockets : S!Browser(s)
      BY <1>1, <2>1
    <2>2. CASE \E t \in Tasks : S!Worker(t) \/ S!Messages(t)
      BY <1>2, <1>3, <2>2
    <2>3. CASE S!Runs \/ S!Replayed \/ S!Rebuilt \/ S!Evict
      BY <1>4, <1>5, <1>6, <1>7, <1>8, <2>3 DEF S!Runs
    <2> QED
      BY <2>1, <2>2, <2>3 DEF S!Next, S!Ids

LEMMA InitSockets == SessionsInit => SocketsInv
  <1> SUFFICES ASSUME SessionsInit PROVE SocketsInv
    OBVIOUS
  <1>0. S!Init
    BY DEF SessionsInit
  <1>1. /\ session = TRUE /\ selected \in BOOLEAN /\ projected = selected /\ degraded = FALSE /\ connected = FALSE
        /\ token = 0 /\ closer = 0 /\ connecting = [pc |-> "none", token |-> 0] /\ retries = 0 /\ closing = 0 /\ acks = {}
        /\ sockets = <<>> /\ adrift = FALSE
    BY <1>0 DEF S!Init, S!NoToken, S!NoFlight
  <1>2. DOMAIN sockets = {} /\ sockets \in [{} -> Endpoints]
    BY <1>1
  <1>3. PICK t \in Tasks : task = [u \in Tasks |-> IF u = t THEN [S!NoTask EXCEPT !.kind = "start", !.pc = "sync"] ELSE S!NoTask]
    BY <1>0 DEF S!Init, S!Starts
  <1>4. PICK r : r = [S!NoTask EXCEPT !.kind = "start", !.pc = "sync"]
    OBVIOUS
  <1>5. /\ r \in TaskRecords /\ r.kind = "start" /\ r.pc = "sync"
        /\ S!NoTask \in TaskRecords /\ S!NoTask.pc = "done"
    BY <1>4 DEF S!NoTask, TaskRecords
  <1>6. \A u \in Tasks : task[u] \in {r, S!NoTask}
    BY <1>3, <1>4
  <1>7. task[t] = r /\ task \in [Tasks -> TaskRecords]
    BY <1>3, <1>4, <1>5
  <1>8. SocketTypes
    <2>1. \A u \in Tasks : /\ task[u].kind = "none" => task[u].pc = "done"
                           /\ task[u].pc = "leave" => task[u].kind \in {"select", "logout"} /\ ~ task[u].want
      BY <1>5, <1>6
    <2> QED
      BY <1>1, <1>2, <1>7, <2>1, FS_EmptySet DEF SocketTypes
  <1>9. FlightInv /\ S!OneSocket /\ S!TimerLivesWithSocket /\ Down(sockets)
    BY <1>1, <1>2 DEF FlightInv, S!OneSocket, S!TimerLivesWithSocket, S!Ids, Down
  <1>10. Caring
    BY <1>5, <1>7 DEF Caring
  <1> QED
    BY <1>8, <1>9, <1>10 DEF SocketsInv, SupplyInv, GoneInv

LEMMA SocketsStutter == SocketsInv /\ UNCHANGED socketVars => SocketsInv'
  <1> SUFFICES ASSUME SocketsInv, UNCHANGED socketVars PROVE SocketsInv'
    OBVIOUS
  <1>1. UNCHANGED <<session, selected, projected, degraded, connected, task, token, closer, connecting, retries,
                    closing, acks, sockets, adrift>>
    BY DEF socketVars
  <1> QED
    BY <1>1 DEF SocketsInv, SocketTypes, FlightInv, SupplyInv, GoneInv, Caring, Ending, Down, S!Wanted, S!Supplied, S!OneSocket,
       S!TimerLivesWithSocket, S!Up, S!Ids

(* When nothing is going on nobody is about to see to the workspace, so it *)
(* is as it should be already.                                             *)
LEMMA RestIsRight == SocketsInv => S!Reconnects
  <1> SUFFICES ASSUME SocketsInv, S!AtRest, ~ adrift
               PROVE  /\ S!Wanted /\ ~ degraded => token \in DOMAIN sockets
                      /\ ~ S!Wanted => Down(sockets)
    BY DEF S!Reconnects, Down, S!Up, S!Ids
  <1>1. \A t \in Tasks : task[t].pc = "done"
    BY DEF SocketsInv, SocketTypes, S!AtRest, S!Free
  <1>2. ~ Caring /\ ~ Ending
    BY <1>1 DEF Caring, Ending
  <1> QED
    BY <1>2 DEF SocketsInv, SupplyInv, GoneInv, S!AtRest, S!Supplied, S!Ids

THEOREM SocketsInductive == SessionsSpec => []SocketsInv
  <1>1. SessionsInit => SocketsInv
    BY InitSockets
  <1>2. SocketsInv /\ Step => SocketsInv'
    <2> SUFFICES ASSUME SocketsInv, Step PROVE SocketsInv'
      OBVIOUS
    <2>1. CASE S!Next
      BY <2>1, SocketTypesNext, FlightKept, SocketsKept, SupplyNext, GoneNext DEF SocketsInv
    <2>2. CASE UNCHANGED socketVars
      BY <2>2, SocketsStutter
    <2> QED
      BY <2>1, <2>2 DEF Step, SessionsNext
  <1> QED
    BY <1>1, <1>2, PTL DEF SessionsSpec, Step

(* However messages, closed sockets, retry timers, rebuilds and evictions  *)
(* meet between their awaits, at most one socket is up and it is the one   *)
(* the worker's maps name, its keepalive timer ends with it, and a worker  *)
(* at rest with nothing adrift has a socket exactly for what is wanted.    *)
THEOREM SocketIsOne == SessionsSpec => []OneSocket
  <1>1. SocketsInv => OneSocket
    BY RestIsRight DEF OneSocket, SocketsInv
  <1> QED
    BY <1>1, SocketsInductive, PTL

(***************************************************************************)
(* The admin panel.  A call keeps the session of the page that asked, and  *)
(* what it brings back belongs to the account of that session; a page that *)
(* is mounted is one of a signed-in panel; an invitation has at most one   *)
(* acceptance under way in the page that shows it.                         *)
(***************************************************************************)
Mutations == {"create", "delete", "leave", "undelete", "deactivate", "accept"}
Entries == {"login", "register"}
Roles == {None, "owner", "admin"}
SessionsOf == [user : Users, client : ClientIds]
CallRecords == [kind : Mutations \cup Entries \cup {None, "setup", "restore"},
                pc : {"idle", "sent", "answered", "bound", "listing", "listed", "failed"},
                who : Users \cup {None}, org : Orgs \cup {None, FirstOrg}, client : ClientIds \cup {None},
                base : A!Snapshots, list : [Orgs -> Roles], mounted : BOOLEAN]
Belongs(user, orgs, known) == \A o \in Orgs : orgs[o] # None => <<user, o>> \in known
Shown(snapshot, known) ==
  /\ snapshot \in A!Snapshots /\ (snapshot = A!Blank \/ snapshot.session \in SessionsOf)
  /\ Belongs(snapshot.session.user, snapshot.orgs, known)
Sound(call, known) ==
  /\ call \in CallRecords
  /\ Belongs(call.base.session.user, call.base.orgs, known)
  /\ call.kind \in Mutations => call.base.session \in SessionsOf /\ call.who \in Users
  /\ call.kind \in Entries => call.who \in Users /\ call.client \in ClientIds
  /\ call.kind = "create" => call.who = call.base.session.user
  /\ call.kind = "create" /\ call.pc = "answered" => call.org \in Orgs /\ <<call.who, call.org>> \in known
  /\ call.pc \in {"listing", "listed"} => call.base.session \in SessionsOf
  /\ call.pc = "listed" => Belongs(call.base.session.user, call.list, known)

RolesInv == role \in [Users -> [Orgs -> Roles]] /\ \A u \in Users : Belongs(u, role[u], ever)
ShownInv ==
  /\ Shown(mem, ever) /\ Shown(stored, ever) /\ clientId \in ClientIds \cup {None}
  /\ status = "authenticated" => mem.session \in SessionsOf
CallsInv == calls \in [Slots -> CallRecords] /\ \A c \in Slots : Sound(calls[c], ever)
Accepting(c) == calls[c].kind = "accept" /\ calls[c].mounted
Settles(c) ==
  /\ visit.attempted /\ visit.shown \in {"waiting", "joined"}
  /\ calls[c].pc \in {"sent", "answered"} => visit.shown = "waiting"
  /\ calls[c].pc \in {"listing", "listed"} => visit.shown = "joined"
  /\ calls[c].pc # "bound"
  /\ \A d \in Slots : Accepting(d) => d = c
VisitInv ==
  /\ visit \in [attempted : BOOLEAN, shown : {"waiting", "joined", "failed"}] /\ (~ visit.attempted => visit.shown = "waiting")
  /\ \A c \in Slots : /\ calls[c].kind \in Mutations /\ calls[c].mounted => status = "authenticated"
                      /\ Accepting(c) => Settles(c)
PanelInv == RolesInv /\ ShownInv /\ CallsInv /\ VisitInv /\ A!StoredIsShown /\ A!ActiveSettled

LEMMA BlankIsShown ==
  ASSUME NEW known
  PROVE  /\ Shown(A!Blank, known) /\ A!Blank.session = A!NoOne /\ A!Blank.orgs = A!NoOrgs
         /\ A!Blank \in A!Snapshots
  BY DEF Shown, A!Blank, A!NoOne, A!NoOrgs, A!Snapshots, Belongs

LEMMA IdleIsSound ==
  ASSUME NEW known
  PROVE  Sound(A!Idle, known) /\ A!Idle.kind = None /\ A!Idle.pc = "idle" /\ ~ A!Idle.mounted
  <1>1. /\ A!Idle.kind = None /\ A!Idle.pc = "idle" /\ A!Idle.who = None /\ A!Idle.org = None /\ A!Idle.client = None
        /\ A!Idle.base = A!Blank /\ A!Idle.list = A!NoOrgs /\ A!Idle.mounted = FALSE
    BY DEF A!Idle
  <1>2. A!Idle \in CallRecords
    BY BlankIsShown DEF A!Idle, CallRecords, A!NoOrgs, Roles
  <1>3. None \notin Mutations /\ None \notin Entries /\ None # "create"
    BY SessionsAssumption DEF Mutations, Entries
  <1>4. Belongs(A!Blank.session.user, A!Blank.orgs, known)
    BY BlankIsShown DEF Shown
  <1> QED
    BY <1>1, <1>2, <1>3, <1>4 DEF Sound

LEMMA SoundStays ==
  ASSUME NEW known, NEW more, known \subseteq more, NEW call, Sound(call, known)
  PROVE  Sound(call, more)
  BY DEF Sound, Belongs

(* A call whose page is gone, and one that lists the organizations.        *)
LEMMA UnmountedFields ==
  ASSUME NEW call \in CallRecords
  PROVE  \E r \in CallRecords :
           /\ r = [call EXCEPT !.mounted = FALSE] /\ r.pc = call.pc /\ r.kind = call.kind /\ r.who = call.who
           /\ r.org = call.org /\ r.client = call.client /\ r.base = call.base /\ r.list = call.list /\ ~ r.mounted
  <1> DEFINE r == [call EXCEPT !.mounted = FALSE]
  <1>1. /\ r \in CallRecords /\ r.pc = call.pc /\ r.kind = call.kind /\ r.who = call.who /\ r.org = call.org
        /\ r.client = call.client /\ r.base = call.base /\ r.list = call.list /\ ~ r.mounted
    BY DEF CallRecords
  <1> QED
    BY <1>1

LEMMA ListingFields ==
  ASSUME NEW call \in CallRecords, NEW base \in A!Snapshots, NEW client \in ClientIds \cup {None},
         NEW s \in [user : Users \cup {None}, client : ClientIds \cup {None}]
  PROVE  \E r \in CallRecords :
           /\ r = A!Listing(call, s, base, client) /\ r.pc = "listing" /\ r.kind = call.kind /\ r.who = call.who
           /\ r.org = call.org /\ r.client = client /\ r.base.session = s /\ r.base.orgs = base.orgs
           /\ r.list = call.list /\ r.mounted = call.mounted
  <1> DEFINE b == [base EXCEPT !.session = s]
  <1>1. b \in A!Snapshots /\ b.session = s /\ b.orgs = base.orgs
    BY DEF A!Snapshots
  <1>2. A!Listing(call, s, base, client) = [call EXCEPT !.pc = "listing", !.base = b, !.client = client]
    BY DEF A!Listing
  <1> HIDE DEF b
  <1> DEFINE r == [call EXCEPT !.pc = "listing", !.base = b, !.client = client]
  <1>3. /\ r \in CallRecords /\ r.pc = "listing" /\ r.kind = call.kind /\ r.who = call.who /\ r.org = call.org
        /\ r.client = client /\ r.base = b /\ r.list = call.list /\ r.mounted = call.mounted
    BY <1>1 DEF CallRecords
  <1> QED
    BY <1>1, <1>2, <1>3

LEMMA EverGrows == A!Next => ever \subseteq ever'
  <1>1. ASSUME NEW c \in Slots, A!Answers(c)
        PROVE  ever \subseteq ever'
    BY <1>1 DEF A!Answers, A!SetupStatus, A!SetupUnknown, A!ServeLogin, A!ServeRegister, A!regenerateStoredClientId,
       A!loadSessionSnapshot, A!Lost, A!ServeList, A!Loaded, A!restoreFails, A!Dropped, A!ServeCreate, A!Created,
       A!SettleCreation, A!ServeMutation, A!refreshOrganizations, A!Refreshed, A!Deactivated, A!ServeAccept, A!acceptFails, A!service
  <1>2. ASSUME NEW c \in Slots
        PROVE  /\ (\E to \in {"app", "invitation"} : A!Reload(c, to)) => ever' = ever
               /\ (\E u \in Users, i \in ClientIds : A!signIn(c, u, i) \/ A!signUp(c, u, i)) => ever' = ever
               /\ A!createOwnerOrganization(c) \/ A!acceptInvitation(c) => ever' = ever
               /\ \A kind, o : A!Mutate(c, kind, o) => ever' = ever
    BY DEF A!Reload, A!signIn, A!signUp, A!createOwnerOrganization, A!acceptInvitation, A!Mutate, A!service
  <1>3. A!signOut \/ A!retry \/ (\E o \in Orgs : A!setActiveOrganizationId(o)) => ever' = ever
    BY DEF A!signOut, A!retry, A!setActiveOrganizationId, A!service
  <1> QED
    BY <1>1, <1>2, <1>3 DEF A!Next

(* Whoever has a role has been a member.                                   *)
LEMMA RolesNext ==
  ASSUME PanelInv, A!Next
  PROVE  RolesInv'
  <1>0. role \in [Users -> [Orgs -> Roles]] /\ \A u \in Users, o \in Orgs : role[u][o] # None => <<u, o>> \in ever
    BY DEF PanelInv, RolesInv, Belongs
  <1>1. ASSUME NEW u, NEW o, NEW r \in Roles, role' = [role EXCEPT ![u][o] = r], r # None => ever' = ever \cup {<<u, o>>},
               ever \subseteq ever'
        PROVE  RolesInv'
    <2>1. role' \in [Users -> [Orgs -> Roles]]
      BY <1>0, <1>1
    <2>2. ASSUME NEW v \in Users, NEW p \in Orgs, role'[v][p] # None
          PROVE  <<v, p>> \in ever'
      BY <1>0, <1>1, <2>2
    <2> QED
      BY <2>1, <2>2 DEF RolesInv, Belongs
  <1>2. CASE role' = role
    BY <1>0, <1>2, EverGrows DEF RolesInv, Belongs
  <1>3. ASSUME NEW c \in Slots, A!ServeMutation(c)
        PROVE  RolesInv'
    BY <1>1, <1>2, <1>3, EverGrows DEF A!ServeMutation, Roles
  <1>4. ASSUME NEW c \in Slots, A!ServeAccept(c)
        PROVE  RolesInv'
    BY <1>1, <1>2, <1>4, EverGrows DEF A!ServeAccept, Roles
  <1>5. ASSUME NEW c \in Slots, NEW o \in Orgs, A!ServeCreate(c, o)
        PROVE  RolesInv'
    BY <1>1, <1>5, EverGrows DEF A!ServeCreate, Roles
  <1>6. ASSUME NEW c \in Slots, A!Answers(c)
        PROVE  RolesInv'
    BY <1>2, <1>3, <1>4, <1>5, <1>6 DEF A!Answers, A!SetupStatus, A!SetupUnknown, A!ServeLogin, A!ServeRegister,
       A!regenerateStoredClientId, A!loadSessionSnapshot, A!Lost, A!ServeList, A!Loaded, A!restoreFails, A!Dropped, A!Created,
       A!SettleCreation, A!refreshOrganizations, A!Refreshed, A!Deactivated, A!acceptFails, A!service
  <1>7. ASSUME NEW c \in Slots
        PROVE  /\ (\E to \in {"app", "invitation"} : A!Reload(c, to)) => role' = role
               /\ (\E u \in Users, i \in ClientIds : A!signIn(c, u, i) \/ A!signUp(c, u, i)) => role' = role
               /\ A!createOwnerOrganization(c) \/ A!acceptInvitation(c) => role' = role
               /\ \A kind, o : A!Mutate(c, kind, o) => role' = role
    BY DEF A!Reload, A!signIn, A!signUp, A!createOwnerOrganization, A!acceptInvitation, A!Mutate, A!service
  <1>8. A!signOut \/ A!retry \/ (\E o \in Orgs : A!setActiveOrganizationId(o)) => role' = role
    BY DEF A!signOut, A!retry, A!setActiveOrganizationId, A!service
  <1> QED
    BY <1>2, <1>6, <1>7, <1>8 DEF A!Next

(* A request that leaves with the client id and the snapshot of its page.  *)
LEMMA Begun ==
  ASSUME CallsInv, NEW c \in Slots, NEW kind \in Mutations \cup Entries \cup {"setup"}, NEW who \in Users \cup {None},
         NEW org \in Orgs \cup {None, FirstOrg}, NEW client \in ClientIds \cup {None}, NEW base, Shown(base, ever),
         kind \in Mutations => base.session \in SessionsOf /\ who = base.session.user,
         kind \in Entries => who \in Users /\ client \in ClientIds, ever \subseteq ever',
         NEW others \in [Slots -> CallRecords], \A d \in Slots : Sound(others[d], ever),
         A!Begin(c, kind, who, org, client, base, others)
  PROVE  CallsInv'
  <1> DEFINE r == [kind |-> kind, pc |-> "sent", who |-> who, org |-> org, client |-> client,
                   base |-> base, list |-> A!NoOrgs, mounted |-> TRUE]
  <1>1. calls' = [others EXCEPT ![c] = r]
    BY DEF A!Begin
  <1>2. /\ r \in CallRecords /\ r.kind = kind /\ r.pc = "sent" /\ r.who = who /\ r.client = client /\ r.base = base
    BY DEF CallRecords, Shown, A!NoOrgs, Roles
  <1> HIDE DEF r
  <1>3. kind \in Mutations => who \in Users
    BY DEF SessionsOf
  <1>4. Sound(r, ever)
    BY <1>2, <1>3 DEF Sound, Shown, Mutations
  <1>5. Sound(r, ever')
    BY <1>4, SoundStays
  <1>6. \A d \in Slots : Sound(others[d], ever')
    BY SoundStays
  <1> QED
    BY <1>1, <1>2, <1>5, <1>6 DEF CallsInv

LEMMA CallsNext ==
  ASSUME PanelInv, A!Next
  PROVE  CallsInv'
  <1>0. /\ calls \in [Slots -> CallRecords] /\ (\A c \in Slots : Sound(calls[c], ever)) /\ ever \subseteq ever'
        /\ CallsInv
    BY EverGrows DEF PanelInv, CallsInv
  <1>m. /\ Shown(mem, ever) /\ Shown(stored, ever) /\ clientId \in ClientIds \cup {None}
        /\ status = "authenticated" => mem.session \in SessionsOf
    BY DEF PanelInv, ShownInv
  <1>s. \A c \in Slots : Sound(calls[c], ever')
    BY <1>0, SoundStays
  <1>w. ASSUME NEW c \in Slots, NEW r, Sound(r, ever'), calls' = [calls EXCEPT ![c] = r]
        PROVE  CallsInv'
    <2>1. r \in CallRecords
      BY <1>w DEF Sound
    <2> QED
      BY <1>0, <1>s, <1>w, <2>1 DEF CallsInv
  <1>i. ASSUME NEW c \in Slots, calls' = [calls EXCEPT ![c] = A!Idle]
        PROVE  CallsInv'
    BY <1>i, <1>w, IdleIsSound
  <1>n. A!Unmounted \in [Slots -> CallRecords] /\ \A c \in Slots : Sound(A!Unmounted[c], ever')
    <2>1. ASSUME NEW c \in Slots
          PROVE  A!Unmounted[c] \in CallRecords /\ Sound(A!Unmounted[c], ever')
      <3>1. PICK r \in CallRecords :
              /\ r = [calls[c] EXCEPT !.mounted = FALSE] /\ r.pc = calls[c].pc /\ r.kind = calls[c].kind /\ r.who = calls[c].who
              /\ r.org = calls[c].org /\ r.client = calls[c].client /\ r.base = calls[c].base /\ r.list = calls[c].list
        BY <1>0, UnmountedFields
      <3>2. A!Unmounted[c] = r
        BY <3>1 DEF A!Unmounted
      <3> QED
        BY <1>s, <3>1, <3>2 DEF Sound
    <2> QED
      BY <2>1 DEF A!Unmounted
  <1>u. ASSUME NEW c \in Slots, calls' = [A!Unmounted EXCEPT ![c] = A!Idle]
        PROVE  CallsInv'
    <2>1. Sound(A!Idle, ever') /\ A!Idle \in CallRecords
      BY IdleIsSound DEF Sound
    <2> QED
      BY <1>n, <1>u, <2>1 DEF CallsInv
  <1>c. ASSUME calls' = calls
        PROVE  CallsInv'
    BY <1>0, <1>s, <1>c DEF CallsInv
  <1>p. ASSUME NEW c \in Slots, NEW pc \in {"answered", "bound", "failed"}, calls' = [calls EXCEPT ![c].pc = pc],
               ~ (calls[c].kind = "create" /\ pc = "answered")
        PROVE  CallsInv'
    <2> DEFINE r == [calls[c] EXCEPT !.pc = pc]
    <2>0. calls[c] \in CallRecords
      BY <1>0
    <2>1. /\ r \in CallRecords /\ r.pc = pc /\ r.kind = calls[c].kind /\ r.who = calls[c].who
          /\ r.org = calls[c].org /\ r.client = calls[c].client /\ r.base = calls[c].base /\ r.list = calls[c].list
      BY <2>0 DEF CallRecords
    <2>2. calls' = [calls EXCEPT ![c] = r]
      BY <1>p
    <2> HIDE DEF r
    <2>3. Sound(r, ever')
      BY <1>p, <1>s, <2>1 DEF Sound
    <2> QED
      BY <1>w, <2>2, <2>3
  <1>l. ASSUME NEW c \in Slots, NEW call \in CallRecords, NEW s \in SessionsOf, NEW base \in A!Snapshots,
               NEW client \in ClientIds \cup {None}, call.kind \in Mutations => call.who \in Users, call.kind # "create",
               call.kind \in Entries => call.who \in Users /\ client \in ClientIds,
               Belongs(s.user, base.orgs, ever')
        PROVE  Sound(A!Listing(call, s, base, client), ever')
    <2>0. s \in [user : Users \cup {None}, client : ClientIds \cup {None}]
      BY DEF SessionsOf
    <2>1. PICK r \in CallRecords :
            /\ r = A!Listing(call, s, base, client) /\ r.pc = "listing" /\ r.kind = call.kind /\ r.who = call.who
            /\ r.client = client /\ r.base.session = s /\ r.base.orgs = base.orgs
      BY <2>0, ListingFields
    <2> QED
      BY <1>l, <2>1 DEF Sound
  <1>1. ASSUME NEW c \in Slots, NEW to \in {"app", "invitation"}, A!Reload(c, to)
        PROVE  CallsInv'
    <2>1. CASE stored = A!Blank
      <3> DEFINE idle == [d \in Slots |-> A!Idle]
      <3>1. A!Begin(c, "setup", None, None, None, A!Blank, idle)
        BY <1>1, <2>1 DEF A!Reload
      <3>2. idle \in [Slots -> CallRecords] /\ \A d \in Slots : Sound(idle[d], ever)
        BY IdleIsSound DEF Sound
      <3>3. Shown(A!Blank, ever) /\ "setup" \notin Mutations /\ "setup" \notin Entries
        BY BlankIsShown DEF Mutations, Entries
      <3> HIDE DEF idle
      <3> QED
        BY <1>0, <3>1, <3>2, <3>3, Begun
    <2>2. CASE stored # A!Blank
      <3> DEFINE opening == [A!Idle EXCEPT !.kind = "restore", !.mounted = TRUE]
      <3>1. opening \in CallRecords /\ opening.kind = "restore"
        BY IdleIsSound DEF Sound, CallRecords
      <3>2. stored.session \in SessionsOf /\ stored.session.client \in ClientIds \cup {None}
        BY <1>m, <2>2 DEF Shown, SessionsOf
      <3>3. calls' = [[d \in Slots |-> A!Idle] EXCEPT ![c] = A!Listing(opening, stored.session, A!Blank, stored.session.client)]
        BY <1>1, <2>2 DEF A!Reload
      <3>4. Belongs(stored.session.user, A!Blank.orgs, ever')
        BY BlankIsShown DEF Belongs, A!NoOrgs
      <3>5. "restore" \notin Mutations /\ "restore" \notin Entries /\ "restore" # "create"
        BY DEF Mutations, Entries
      <3> HIDE DEF opening
      <3>6. Sound(A!Listing(opening, stored.session, A!Blank, stored.session.client), ever')
        BY <1>l, <3>1, <3>2, <3>4, <3>5, BlankIsShown
      <3>7. Sound(A!Idle, ever')
        BY IdleIsSound
      <3> QED
        <4> DEFINE r == A!Listing(opening, stored.session, A!Blank, stored.session.client)
                   idle == [d \in Slots |-> A!Idle]
        <4>1. calls' = [idle EXCEPT ![c] = r]
          BY <3>3
        <4>2. Sound(r, ever') /\ r \in CallRecords /\ A!Idle \in CallRecords
          BY <3>6, <3>7 DEF Sound
        <4> HIDE DEF r
        <4>3. DOMAIN idle = Slots /\ \A d \in Slots : idle[d] = A!Idle
          OBVIOUS
        <4>4. idle \in [Slots -> CallRecords]
          BY <4>2
        <4> HIDE DEF idle
        <4>5. calls' \in [Slots -> CallRecords] /\ \A d \in Slots : calls'[d] = r \/ calls'[d] = A!Idle
          BY <4>1, <4>2, <4>3, <4>4
        <4> QED
          BY <3>7, <4>2, <4>5 DEF CallsInv
    <2> QED
      BY <2>1, <2>2
  <1>2. ASSUME NEW c \in Slots, NEW u \in Users, NEW i \in ClientIds, A!signIn(c, u, i) \/ A!signUp(c, u, i)
        PROVE  CallsInv'
    <2>1. A!Begin(c, "login", u, None, i, A!Blank, calls) \/ A!Begin(c, "register", u, None, i, A!Blank, calls)
      BY <1>2 DEF A!signIn, A!signUp
    <2>2. "login" \in Entries /\ "register" \in Entries /\ "login" \notin Mutations /\ "register" \notin Mutations
      BY DEF Mutations, Entries
    <2> QED
      BY <1>0, <2>1, <2>2, Begun, BlankIsShown
  <1>3. ASSUME NEW c \in Slots, NEW kind \in Mutations, NEW org \in Orgs \cup {None, FirstOrg}, status = "authenticated",
               A!Begin(c, kind, mem.session.user, org, clientId, mem, calls)
        PROVE  CallsInv'
    <2>1. mem.session \in SessionsOf /\ mem.session.user \in Users \cup {None} /\ kind \notin Entries
      BY <1>3, <1>m DEF SessionsOf, Mutations, Entries
    <2> QED
      BY <1>0, <1>3, <1>m, <2>1, Begun
  <1>4. ASSUME NEW c \in Slots,
               \/ A!createOwnerOrganization(c) \/ A!acceptInvitation(c) \/ A!Mutate(c, "deactivate", None)
               \/ \E kind \in {"delete", "leave", "undelete"}, o \in Orgs : A!Mutate(c, kind, o)
        PROVE  CallsInv'
    <2>1. {"create", "accept", "delete", "leave", "undelete", "deactivate"} \subseteq Mutations
      BY DEF Mutations
    <2>2. CASE A!createOwnerOrganization(c)
      BY <1>3, <2>1, <2>2 DEF A!createOwnerOrganization, A!Signed
    <2>3. CASE A!acceptInvitation(c)
      <3>1. A!Begin(c, "accept", mem.session.user, FirstOrg, clientId, mem, calls) /\ status = "authenticated"
        BY <2>3 DEF A!acceptInvitation, A!Signed
      <3> QED
        BY <1>3, <2>1, <3>1
    <2>4. ASSUME NEW kind \in {"delete", "leave", "undelete", "deactivate"}, NEW o \in Orgs \cup {None}, A!Mutate(c, kind, o)
          PROVE  CallsInv'
      BY <1>3, <2>1, <2>4 DEF A!Mutate, A!Signed
    <2> QED
      BY <1>4, <2>2, <2>3, <2>4
  <1>5. ASSUME NEW c \in Slots, A!Answers(c)
        PROVE  CallsInv'
    <2>0. /\ calls[c] \in CallRecords /\ Sound(calls[c], ever) /\ Sound(calls[c], ever')
      BY <1>0, <1>s
    <2>1. CASE A!SetupStatus(c) \/ A!SetupUnknown(c) \/ A!restoreFails(c) \/ A!Deactivated(c)
      BY <1>u, <2>1 DEF A!SetupStatus, A!SetupUnknown, A!restoreFails, A!Deactivated
    <2>2. CASE A!Loaded(c) \/ A!Dropped(c) \/ A!Created(c) \/ A!acceptFails(c)
      BY <1>i, <2>2 DEF A!Loaded, A!Dropped, A!Created, A!SettleCreation, A!acceptFails
    <2>3. CASE A!ServeLogin(c) \/ A!ServeRegister(c)
      <3>1. /\ calls[c].kind # "create"
            /\ \/ calls' = [calls EXCEPT ![c] = A!Idle]
               \/ \E pc \in {"answered", "bound"} : calls' = [calls EXCEPT ![c].pc = pc]
        BY <2>3 DEF A!ServeLogin, A!ServeRegister
      <3> QED
        BY <1>i, <1>p, <3>1
    <2>4. CASE \E i \in ClientIds : A!regenerateStoredClientId(c, i)
      <3>1. PICK i \in ClientIds : calls' = [calls EXCEPT ![c] = [calls[c] EXCEPT !.pc = "sent", !.client = i]]
        BY <1>0, <2>4 DEF A!regenerateStoredClientId
      <3> DEFINE r == [calls[c] EXCEPT !.pc = "sent", !.client = i]
      <3>2. /\ r \in CallRecords /\ r.pc = "sent" /\ r.kind = calls[c].kind /\ r.who = calls[c].who
            /\ r.client = i /\ r.base = calls[c].base
        BY <2>0 DEF CallRecords
      <3> HIDE DEF r
      <3>3. Sound(r, ever')
        BY <2>0, <3>2 DEF Sound
      <3> QED
        BY <1>w, <3>1, <3>3 DEF r
    <2>5. CASE A!loadSessionSnapshot(c)
      <3> DEFINE s == [user |-> calls[c].who, client |-> calls[c].client]
      <3>1. calls[c].kind \in Entries /\ calls' = [calls EXCEPT ![c] = A!Listing(calls[c], s, A!Blank, calls[c].client)]
        BY <2>5 DEF A!loadSessionSnapshot, Entries
      <3>2. calls[c].who \in Users /\ calls[c].client \in ClientIds /\ s \in SessionsOf /\ calls[c].kind \notin Mutations
            /\ calls[c].kind # "create"
        BY <2>0, <3>1 DEF Sound, SessionsOf, Mutations, Entries
      <3>3. Belongs(s.user, A!Blank.orgs, ever')
        BY BlankIsShown DEF Belongs, A!NoOrgs
      <3> HIDE DEF s
      <3> QED
        BY <1>l, <1>w, <2>0, <3>1, <3>2, <3>3, BlankIsShown
    <2>6. CASE A!Lost(c)
      <3>1. \/ calls' = [calls EXCEPT ![c] = A!Idle] \/ calls' = [calls EXCEPT ![c].pc = "failed"]
        BY <2>6 DEF A!Lost
      <3> QED
        BY <1>i, <1>p, <3>1
    <2>7. CASE A!ServeList(c)
      <3>1. CASE calls' = [calls EXCEPT ![c].pc = "failed"]
        BY <1>p, <3>1
      <3>2. CASE calls' = [calls EXCEPT ![c] = [calls[c] EXCEPT !.pc = "listed",
                                                  !.list = A!ListMemberships(calls[c].base.session.user)]]
        <4> DEFINE u == calls[c].base.session.user
                   r == [calls[c] EXCEPT !.pc = "listed", !.list = A!ListMemberships(u)]
        <4>1. calls[c].base.session \in SessionsOf
          BY <2>0, <2>7 DEF Sound, A!ServeList
        <4>2. u \in Users
          BY <4>1 DEF SessionsOf
        <4>3. role[u] \in [Orgs -> Roles] /\ \A o \in Orgs : role[u][o] # None => <<u, o>> \in ever'
          BY <1>0, <4>2 DEF PanelInv, RolesInv, Belongs
        <4>4. A!ListMemberships(u) \in [Orgs -> Roles] /\ Belongs(u, A!ListMemberships(u), ever')
          BY <4>3 DEF A!ListMemberships, Belongs, Roles
        <4>5. /\ r \in CallRecords /\ r.pc = "listed" /\ r.kind = calls[c].kind /\ r.who = calls[c].who
              /\ r.client = calls[c].client /\ r.base = calls[c].base /\ r.list = A!ListMemberships(u)
          BY <2>0, <4>4 DEF CallRecords
        <4>6. calls' = [calls EXCEPT ![c] = r]
          BY <3>2
        <4> HIDE DEF r
        <4>7. Sound(r, ever')
          BY <2>0, <4>1, <4>4, <4>5 DEF Sound
        <4> QED
          BY <1>w, <4>6, <4>7
      <3> QED
        BY <2>7, <3>1, <3>2 DEF A!ServeList
    <2>8. CASE \E o \in Orgs : A!ServeCreate(c, o)
      <3>1. PICK o \in Orgs : /\ calls' = [calls EXCEPT ![c] = [calls[c] EXCEPT !.pc = "answered", !.org = o]]
                              /\ ever' = ever \cup {<<calls[c].who, o>>}
        BY <1>0, <2>8 DEF A!ServeCreate
      <3> DEFINE r == [calls[c] EXCEPT !.pc = "answered", !.org = o]
      <3>2. /\ r \in CallRecords /\ r.pc = "answered" /\ r.kind = calls[c].kind /\ r.who = calls[c].who
            /\ r.client = calls[c].client /\ r.base = calls[c].base /\ r.org = o
        BY <2>0 DEF CallRecords
      <3> HIDE DEF r
      <3>3. Sound(r, ever')
        BY <2>0, <3>1, <3>2 DEF Sound
      <3> QED
        BY <1>w, <3>1, <3>3 DEF r
    <2>9. CASE A!ServeMutation(c)
      <3>1. /\ calls[c].kind # "create"
            /\ calls' = [calls EXCEPT ![c] = A!Idle] \/ calls' = [calls EXCEPT ![c].pc = "answered"]
        BY <2>9 DEF A!ServeMutation
      <3> QED
        BY <1>i, <1>p, <3>1
    <2>10. CASE A!refreshOrganizations(c)
      <3> DEFINE base == IF calls[c].mounted THEN mem ELSE calls[c].base
      <3>1. /\ calls[c].kind \in Mutations /\ calls[c].kind \notin Entries /\ calls[c].kind # "create"
            /\ calls' = [calls EXCEPT ![c] = A!Listing(calls[c], base.session, base, clientId)]
        BY <2>10 DEF A!refreshOrganizations, Mutations, Entries
      <3>2. calls[c].mounted => status = "authenticated"
        BY <3>1 DEF PanelInv, VisitInv
      <3>3. base \in A!Snapshots /\ base.session \in SessionsOf /\ Belongs(base.session.user, base.orgs, ever)
        <4>1. calls[c].base \in A!Snapshots
          BY <2>0 DEF CallRecords
        <4> QED
          BY <1>m, <2>0, <3>1, <3>2, <4>1 DEF Shown, Sound
      <3> HIDE DEF base
      <3>4. Belongs(base.session.user, base.orgs, ever') /\ calls[c].who \in Users
        BY <1>0, <2>0, <3>1, <3>3 DEF Belongs, Sound
      <3> QED
        BY <1>l, <1>m, <1>w, <2>0, <3>1, <3>3, <3>4
    <2>11. CASE A!Refreshed(c)
      BY <1>i, <1>u, <2>11 DEF A!Refreshed
    <2>12. CASE A!ServeAccept(c)
      <3>1. /\ calls[c].kind # "create"
            /\ \E pc \in {"answered", "failed"} : calls' = [calls EXCEPT ![c].pc = pc]
        BY <2>12 DEF A!ServeAccept
      <3> QED
        BY <1>p, <3>1
    <2> QED
      BY <1>5, <2>1, <2>2, <2>3, <2>4, <2>5, <2>6, <2>7, <2>8, <2>9, <2>10, <2>11, <2>12 DEF A!Answers
  <1>6. CASE A!retry \/ \E o \in Orgs : A!setActiveOrganizationId(o)
    BY <1>c, <1>6 DEF A!retry, A!setActiveOrganizationId
  <1>7. CASE A!signOut
    <2>1. calls' = A!Unmounted
      BY <1>7 DEF A!signOut
    <2> QED
      BY <1>n, <2>1 DEF CallsInv
  <1> QED
    BY <1>1, <1>2, <1>4, <1>5, <1>6, <1>7 DEF A!Next

(* An account that administers something gets one of what it administers.  *)
LEMMA ResolveSettles ==
  ASSUME NEW orgs, A!adminOrganizations(orgs) # {}
  PROVE  A!resolveActive(orgs) \in A!adminOrganizations(orgs)
  <1> DEFINE admin == A!adminOrganizations(orgs)
  <1>1. A!resolveActive(orgs) = IF storedActive \in admin THEN storedActive
                                ELSE IF admin # {} THEN CHOOSE o \in admin : TRUE ELSE None
    BY DEF A!resolveActive
  <1> HIDE DEF admin
  <1>2. admin # {}
    BY DEF admin
  <1> QED
    BY <1>1, <1>2, Zenon DEF admin

(* What is shown and what is kept for the next load stay the same snapshot *)
(* of one account.                                                         *)
LEMMA ShownNext ==
  ASSUME PanelInv, A!Next
  PROVE  ShownInv' /\ A!StoredIsShown' /\ A!ActiveSettled'
  <1>0. /\ Shown(mem, ever) /\ Shown(stored, ever) /\ clientId \in ClientIds \cup {None} /\ ever \subseteq ever'
        /\ status = "authenticated" => mem.session \in SessionsOf
        /\ status = "authenticated" => stored = mem
        /\ A!adminOrganizations(mem.orgs) # {} => active \in A!adminOrganizations(mem.orgs)
    BY EverGrows DEF PanelInv, ShownInv, A!StoredIsShown, A!ActiveSettled
  <1>s. Shown(mem, ever') /\ Shown(stored, ever')
    BY <1>0 DEF Shown, Belongs
  <1>k. ASSUME mem' = mem, stored' = stored, clientId' \in ClientIds \cup {None}, active' = active,
               status' = status \/ status' # "authenticated"
        PROVE  ShownInv' /\ A!StoredIsShown' /\ A!ActiveSettled'
    <2>1. A!adminOrganizations(mem.orgs)' = A!adminOrganizations(mem.orgs)
      BY <1>k DEF A!adminOrganizations
    <2>2. A!ActiveSettled'
      BY <1>0, <1>k, <2>1 DEF A!ActiveSettled
    <2> QED
      BY <1>0, <1>s, <1>k, <2>2 DEF ShownInv, A!StoredIsShown
  <1>w. ASSUME NEW s, Shown(s, ever'), mem' = s, stored' = s, clientId' \in ClientIds \cup {None},
               A!adminOrganizations(s.orgs) # {} => active' \in A!adminOrganizations(s.orgs),
               status' = "authenticated" => s.session \in SessionsOf
        PROVE  ShownInv' /\ A!StoredIsShown' /\ A!ActiveSettled'
    <2>1. A!adminOrganizations(mem.orgs)' = A!adminOrganizations(s.orgs)
      BY <1>w DEF A!adminOrganizations
    <2> QED
      BY <1>w, <2>1 DEF ShownInv, A!StoredIsShown, A!ActiveSettled
  <1>b. ASSUME A!setSnapshot(A!Blank), A!persistSnapshot(A!Blank), status' # "authenticated", clientId' = clientId
        PROVE  ShownInv' /\ A!StoredIsShown' /\ A!ActiveSettled'
    <2>1. Shown(A!Blank, ever')
      BY BlankIsShown
    <2> QED
      BY <1>0, <1>b, <1>w, <2>1, ResolveSettles DEF A!setSnapshot, A!persistSnapshot
  <1>1. ASSUME NEW c \in Slots, NEW to \in {"app", "invitation"}, A!Reload(c, to)
        PROVE  ShownInv' /\ A!StoredIsShown' /\ A!ActiveSettled'
    <2>1. mem' = A!Blank /\ stored' = stored /\ status' = "loading"
      BY <1>1 DEF A!Reload
    <2>2. clientId' \in ClientIds \cup {None}
      BY <1>0, <1>1 DEF A!Reload, Shown, SessionsOf
    <2>3. A!adminOrganizations(mem.orgs)' = {}
      <3>1. None \notin {"owner", "admin"}
        BY SessionsAssumption
      <3>2. mem'.orgs = [o \in Orgs |-> None]
        BY <2>1, BlankIsShown DEF A!NoOrgs
      <3> QED
        BY <3>1, <3>2 DEF A!adminOrganizations, A!AdminRoles
    <2>4. Shown(A!Blank, ever')
      BY BlankIsShown
    <2> QED
      BY <1>s, <2>1, <2>2, <2>3, <2>4 DEF ShownInv, A!StoredIsShown, A!ActiveSettled
  <1>2. ASSUME NEW c \in Slots, NEW u \in Users, NEW i \in ClientIds, A!signIn(c, u, i) \/ A!signUp(c, u, i)
        PROVE  ShownInv' /\ A!StoredIsShown' /\ A!ActiveSettled'
    BY <1>k, <1>2 DEF A!signIn, A!signUp, A!memory
  <1>3. ASSUME NEW c \in Slots,
               \/ A!createOwnerOrganization(c) \/ A!acceptInvitation(c) \/ A!Mutate(c, "deactivate", None)
               \/ \E kind \in {"delete", "leave", "undelete"}, o \in Orgs : A!Mutate(c, kind, o)
        PROVE  ShownInv' /\ A!StoredIsShown' /\ A!ActiveSettled'
    BY <1>0, <1>k, <1>3 DEF A!createOwnerOrganization, A!acceptInvitation, A!Mutate, A!memory, A!storage
  <1>4. ASSUME NEW c \in Slots, A!Answers(c)
        PROVE  ShownInv' /\ A!StoredIsShown' /\ A!ActiveSettled'
    <2>0. calls[c] \in CallRecords /\ Sound(calls[c], ever')
      BY <1>0, SoundStays DEF PanelInv, CallsInv
    <2>1. CASE A!SetupStatus(c) \/ A!SetupUnknown(c)
      BY <1>0, <1>k, <2>1 DEF A!SetupStatus, A!SetupUnknown, A!storage
    <2>2. CASE \/ A!ServeLogin(c) \/ A!ServeRegister(c) \/ A!Lost(c) \/ A!ServeList(c) \/ A!Dropped(c) \/ A!ServeMutation(c)
               \/ A!refreshOrganizations(c) \/ A!ServeAccept(c) \/ A!acceptFails(c) \/ \E o \in Orgs : A!ServeCreate(c, o)
      BY <1>0, <1>k, <2>2 DEF A!ServeLogin, A!ServeRegister, A!Lost, A!ServeList, A!Dropped, A!ServeMutation,
         A!refreshOrganizations, A!ServeAccept, A!acceptFails, A!ServeCreate, A!storage, A!memory
    <2>3. CASE A!loadSessionSnapshot(c) \/ \E i \in ClientIds : A!regenerateStoredClientId(c, i)
      <3>1. clientId' \in ClientIds \cup {None}
        BY <2>0, <2>3 DEF A!loadSessionSnapshot, A!regenerateStoredClientId, CallRecords
      <3> QED
        BY <1>k, <2>3, <3>1 DEF A!loadSessionSnapshot, A!regenerateStoredClientId, A!memory
    <2>4. CASE A!Loaded(c)
      <3> DEFINE s == [session |-> calls[c].base.session, orgs |-> calls[c].list]
      <3>1. calls[c].pc = "listed" /\ mem' = s /\ stored' = s /\ active' = A!resolveActive(s.orgs) /\ clientId' = clientId
        BY <2>4 DEF A!Loaded, A!setSnapshot, A!persistSnapshot
      <3>2. s.session = calls[c].base.session /\ s.orgs = calls[c].list /\ s.session \in SessionsOf
        BY <2>0, <3>1 DEF Sound
      <3>3. s \in A!Snapshots
        BY <2>0 DEF CallRecords, A!Snapshots, Roles
      <3> HIDE DEF s
      <3>4. Shown(s, ever')
        BY <2>0, <3>1, <3>2, <3>3 DEF Shown, Sound
      <3> QED
        BY <1>0, <1>w, <3>1, <3>2, <3>4, ResolveSettles
    <2>5. CASE A!restoreFails(c) \/ A!Deactivated(c)
      BY <1>b, <2>5 DEF A!restoreFails, A!Deactivated, A!SignedOut
    <2>6. CASE A!Created(c)
      <3> DEFINE s == [calls[c].base EXCEPT !.orgs[calls[c].org] = "owner"]
      <3>1. /\ calls[c].kind = "create" /\ calls[c].pc = "answered" /\ mem' = s /\ stored' = s /\ clientId' = clientId
            /\ active' \in {calls[c].org, A!resolveActive(s.orgs)} /\ status' = status
        BY <2>6 DEF A!Created, A!SettleCreation, A!persistSnapshot
      <3>2. /\ calls[c].base \in A!Snapshots /\ calls[c].org \in Orgs /\ calls[c].base.session \in SessionsOf
            /\ <<calls[c].base.session.user, calls[c].org>> \in ever'
            /\ Belongs(calls[c].base.session.user, calls[c].base.orgs, ever')
        BY <2>0, <3>1 DEF Sound, CallRecords, Mutations
      <3>3. /\ s \in A!Snapshots /\ s.session = calls[c].base.session
            /\ s.orgs = [calls[c].base.orgs EXCEPT ![calls[c].org] = "owner"] /\ calls[c].base.orgs \in [Orgs -> Roles]
        BY <3>2 DEF A!Snapshots, Roles
      <3> HIDE DEF s
      <3>4. Shown(s, ever')
        BY <3>2, <3>3 DEF Shown, Belongs
      <3>5. calls[c].org \in A!adminOrganizations(s.orgs)
        BY <3>2, <3>3 DEF A!adminOrganizations, A!AdminRoles
      <3> QED
        BY <1>0, <1>w, <3>1, <3>2, <3>3, <3>4, <3>5, ResolveSettles
    <2>7. CASE A!Refreshed(c)
      <3>1. CASE A!SignedOut /\ clientId' = clientId
        BY <1>b, <3>1 DEF A!SignedOut
      <3>2. CASE /\ A!setSnapshot([calls[c].base EXCEPT !.orgs = calls[c].list])
                 /\ A!persistSnapshot([calls[c].base EXCEPT !.orgs = calls[c].list]) /\ clientId' = clientId /\ status' = status
        <4> DEFINE s == [calls[c].base EXCEPT !.orgs = calls[c].list]
        <4>1. calls[c].pc = "listed" /\ mem' = s /\ stored' = s /\ active' = A!resolveActive(s.orgs)
          BY <2>7, <3>2 DEF A!Refreshed, A!setSnapshot, A!persistSnapshot
        <4>2. calls[c].base \in A!Snapshots /\ calls[c].list \in [Orgs -> Roles]
          BY <2>0 DEF CallRecords
        <4>3. s \in A!Snapshots /\ s.session = calls[c].base.session /\ s.orgs = calls[c].list
          BY <4>2 DEF A!Snapshots, Roles
        <4> HIDE DEF s
        <4>4. Shown(s, ever') /\ s.session \in SessionsOf
          BY <2>0, <4>1, <4>3 DEF Shown, Sound
        <4> QED
          BY <1>0, <1>w, <3>2, <4>1, <4>4, ResolveSettles
      <3> QED
        BY <2>7, <3>1, <3>2 DEF A!Refreshed
    <2> QED
      BY <1>4, <2>1, <2>2, <2>3, <2>4, <2>5, <2>6, <2>7 DEF A!Answers
  <1>5. ASSUME NEW o \in Orgs, A!setActiveOrganizationId(o)
        PROVE  ShownInv' /\ A!StoredIsShown' /\ A!ActiveSettled'
    <2>1. mem' = mem /\ stored' = stored /\ clientId' = clientId /\ status' = status /\ active' = o
      BY <1>5 DEF A!setActiveOrganizationId
    <2>2. A!adminOrganizations(mem.orgs)' = A!adminOrganizations(mem.orgs) /\ o \in A!adminOrganizations(mem.orgs)
      BY <1>5, <2>1 DEF A!adminOrganizations, A!setActiveOrganizationId
    <2>3. A!ActiveSettled'
      BY <2>1, <2>2 DEF A!ActiveSettled
    <2> QED
      BY <1>0, <1>s, <2>1, <2>3 DEF ShownInv, A!StoredIsShown
  <1>6. CASE A!signOut
    BY <1>b, <1>6 DEF A!signOut, A!SignedOut
  <1>7. CASE A!retry
    BY <1>0, <1>k, <1>7 DEF A!retry, A!storage, A!memory
  <1> QED
    BY <1>1, <1>2, <1>3, <1>4, <1>5, <1>6, <1>7 DEF A!Next

(* The page of an invitation has one acceptance under way at most, and     *)
(* what it shows fits how far that one has come.                           *)
LEMMA VisitNext ==
  ASSUME PanelInv, A!Next
  PROVE  VisitInv'
  <1>0. /\ calls \in [Slots -> CallRecords]
        /\ visit \in [attempted : BOOLEAN, shown : {"waiting", "joined", "failed"}] /\ (~ visit.attempted => visit.shown = "waiting")
        /\ \A c \in Slots :
             /\ calls[c].kind \in Mutations /\ calls[c].mounted => status = "authenticated"
             /\ Accepting(c) => Settles(c)
    BY DEF PanelInv, CallsInv, VisitInv
  <1>t. "accept" \in Mutations /\ {None, "setup", "restore", "login", "register"} \cap Mutations = {}
    BY SessionsAssumption DEF Mutations
  <1>d. A!Idle.kind = None /\ ~ A!Idle.mounted
    BY IdleIsSound
  <1>v. A!NoVisit \in [attempted : BOOLEAN, shown : {"waiting", "joined", "failed"}] /\ A!NoVisit.shown = "waiting"
    BY DEF A!NoVisit
  <1>i. ASSUME NEW c \in Slots, calls' = [calls EXCEPT ![c] = A!Idle], visit' = visit, status' = status
        PROVE  VisitInv'
    <2>1. \A d \in Slots : d # c => calls'[d] = calls[d]
      BY <1>0, <1>i
    <2>2. calls'[c] = A!Idle
      BY <1>0, <1>i
    <2> QED
      BY <1>0, <1>d, <1>i, <2>1, <2>2 DEF VisitInv, Accepting, Settles
  <1>n. ASSUME NEW c \in Slots, NEW r, calls' = [calls EXCEPT ![c] = r], r.kind \in {"setup", "restore", "login", "register", "create",
               "delete", "leave", "undelete", "deactivate"}, r.kind \in Mutations => status = "authenticated",
               visit' = visit, status' = status
        PROVE  VisitInv'
    <2>1. \A d \in Slots : d # c => calls'[d] = calls[d]
      BY <1>0, <1>n
    <2>2. calls'[c] = r
      BY <1>0, <1>n
    <2> QED
      BY <1>0, <1>n, <2>1, <2>2 DEF VisitInv, Accepting, Settles
  <1>r. ASSUME NEW c \in Slots, NEW r, calls' = [calls EXCEPT ![c] = r], r.kind = calls[c].kind, r.mounted = calls[c].mounted,
               \/ calls[c].kind # "accept" \/ r.pc = "failed" \/ (calls[c].pc = "sent" /\ r.pc = "answered")
               \/ (calls[c].pc = "listing" /\ r.pc = "listed"),
               visit' = visit, status' = status
        PROVE  VisitInv'
    <2>1. \A d \in Slots : d # c => calls'[d] = calls[d]
      BY <1>0, <1>r
    <2>2. calls'[c] = r
      BY <1>0, <1>r
    <2>3. \A d \in Slots : Accepting(d)' <=> Accepting(d)
      BY <1>r, <2>1, <2>2 DEF Accepting
    <2>4. \A d \in Slots : Accepting(d) => Settles(d)'
      BY <1>0, <1>r, <2>1, <2>2, <2>3 DEF Settles, Accepting
    <2>5. \A d \in Slots : calls'[d].kind \in Mutations /\ calls'[d].mounted => status' = "authenticated"
      BY <1>0, <1>r, <2>1, <2>2
    <2> QED
      BY <1>0, <1>r, <2>3, <2>4, <2>5 DEF VisitInv
  <1>p. ASSUME NEW c \in Slots, NEW pc, calls' = [calls EXCEPT ![c].pc = pc],
               \/ calls[c].kind # "accept" \/ pc = "failed" \/ (calls[c].pc = "sent" /\ pc = "answered"),
               visit' = visit, status' = status
        PROVE  VisitInv'
    <2> DEFINE r == [calls[c] EXCEPT !.pc = pc]
    <2>0. calls[c] \in CallRecords
      BY <1>0
    <2>1. r.pc = pc /\ r.kind = calls[c].kind /\ r.mounted = calls[c].mounted
      BY <2>0 DEF CallRecords
    <2>2. calls' = [calls EXCEPT ![c] = r]
      BY <1>p
    <2> HIDE DEF r
    <2> QED
      BY <1>p, <1>r, <2>1, <2>2
  <1>u. ASSUME \A d \in Slots : ~ calls'[d].mounted \/ calls'[d].kind \notin Mutations, visit' \in {visit, A!NoVisit}
        PROVE  VisitInv'
    BY <1>0, <1>t, <1>u, <1>v DEF VisitInv, Accepting
  <1>a. ASSUME NEW c \in Slots, calls' = [A!Unmounted EXCEPT ![c] = A!Idle] \/ calls' = A!Unmounted, visit' \in {visit, A!NoVisit}
        PROVE  VisitInv'
    <2>1. \A d \in Slots : ~ A!Unmounted[d].mounted
      <3>1. ASSUME NEW d \in Slots
            PROVE  ~ A!Unmounted[d].mounted
        <4>1. calls[d] \in CallRecords
          BY <1>0
        <4>2. PICK r \in CallRecords : r = [calls[d] EXCEPT !.mounted = FALSE] /\ ~ r.mounted
          BY <4>1, UnmountedFields
        <4> QED
          BY <4>2 DEF A!Unmounted
      <3> QED
        BY <3>1
    <2>2. DOMAIN A!Unmounted = Slots
      BY DEF A!Unmounted
    <2>3. \A d \in Slots : ~ calls'[d].mounted
      BY <1>a, <1>d, <2>1, <2>2
    <2> QED
      BY <1>a, <1>u, <2>3
  <1>l. ASSUME NEW c \in Slots, NEW base \in A!Snapshots, NEW s \in [user : Users \cup {None}, client : ClientIds \cup {None}],
               NEW client \in ClientIds \cup {None}, calls' = [calls EXCEPT ![c] = A!Listing(calls[c], s, base, client)]
        PROVE  /\ \A d \in Slots : d # c => calls'[d] = calls[d]
               /\ calls'[c].kind = calls[c].kind /\ calls'[c].mounted = calls[c].mounted /\ calls'[c].pc = "listing"
    <2>0. calls[c] \in CallRecords
      BY <1>0
    <2>1. PICK r \in CallRecords :
            /\ r = A!Listing(calls[c], s, base, client) /\ r.pc = "listing" /\ r.kind = calls[c].kind
            /\ r.mounted = calls[c].mounted
      BY <2>0, ListingFields
    <2> QED
      BY <1>0, <1>l, <2>1
  <1>1. ASSUME NEW c \in Slots, NEW to \in {"app", "invitation"}, A!Reload(c, to)
        PROVE  VisitInv'
    <2>1. PICK r : calls' = [[d \in Slots |-> A!Idle] EXCEPT ![c] = r] /\ r.kind \in {"setup", "restore"}
      <3>1. CASE stored = A!Blank
        BY <1>1, <3>1 DEF A!Reload, A!Begin
      <3>2. CASE stored # A!Blank
        <4> DEFINE opening == [A!Idle EXCEPT !.kind = "restore", !.mounted = TRUE]
        <4>1. calls' = [[d \in Slots |-> A!Idle] EXCEPT ![c] = A!Listing(opening, stored.session, A!Blank, stored.session.client)]
          BY <1>1, <3>2 DEF A!Reload
        <4>2. A!Listing(opening, stored.session, A!Blank, stored.session.client).kind = "restore"
          BY DEF A!Listing, A!Idle
        <4> QED
          BY <4>1, <4>2
      <3> QED
        BY <3>1, <3>2
    <2>2. \A d \in Slots : calls'[d] = r \/ calls'[d] = A!Idle
      BY <2>1
    <2>3. \A d \in Slots : ~ calls'[d].mounted \/ calls'[d].kind \notin Mutations
      BY <1>d, <1>t, <2>1, <2>2
    <2> QED
      BY <1>1, <1>u, <2>3 DEF A!Reload
  <1>2. ASSUME NEW c \in Slots, NEW kind \in {"login", "register", "create", "delete", "leave", "undelete", "deactivate"},
               NEW who, NEW org, NEW client, NEW base, A!Begin(c, kind, who, org, client, base, calls),
               kind \in Mutations => status = "authenticated", visit' = visit, status' = status
        PROVE  VisitInv'
    <2> DEFINE r == [kind |-> kind, pc |-> "sent", who |-> who, org |-> org, client |-> client,
                     base |-> base, list |-> A!NoOrgs, mounted |-> TRUE]
    <2>1. calls' = [calls EXCEPT ![c] = r] /\ r.kind = kind
      BY <1>2 DEF A!Begin
    <2> HIDE DEF r
    <2> QED
      BY <1>2, <1>n, <2>1
  <1>3. ASSUME NEW c \in Slots, NEW u \in Users, NEW i \in ClientIds, A!signIn(c, u, i) \/ A!signUp(c, u, i)
        PROVE  VisitInv'
    BY <1>2, <1>3, <1>t DEF A!signIn, A!signUp, A!memory
  <1>4. ASSUME NEW c \in Slots,
               \/ A!createOwnerOrganization(c) \/ A!Mutate(c, "deactivate", None)
               \/ \E kind \in {"delete", "leave", "undelete"}, o \in Orgs : A!Mutate(c, kind, o)
        PROVE  VisitInv'
    <2>1. CASE A!createOwnerOrganization(c)
      BY <1>2, <2>1 DEF A!createOwnerOrganization, A!memory, A!Signed
    <2>2. ASSUME NEW kind \in {"delete", "leave", "undelete", "deactivate"}, NEW o \in Orgs \cup {None}, A!Mutate(c, kind, o)
          PROVE  VisitInv'
      BY <1>2, <2>2 DEF A!Mutate, A!memory, A!Signed
    <2> QED
      BY <1>4, <2>1, <2>2
  <1>5. ASSUME NEW c \in Slots, A!acceptInvitation(c)
        PROVE  VisitInv'
    <2> DEFINE r == [kind |-> "accept", pc |-> "sent", who |-> mem.session.user, org |-> FirstOrg, client |-> clientId,
                     base |-> mem, list |-> A!NoOrgs, mounted |-> TRUE]
    <2>1. calls' = [calls EXCEPT ![c] = r] /\ r.kind = "accept" /\ r.pc = "sent" /\ r.mounted = TRUE
      BY <1>5 DEF A!acceptInvitation, A!Begin
    <2> HIDE DEF r
    <2>2. calls'[c] = r /\ \A d \in Slots : d # c => calls'[d] = calls[d]
      BY <1>0, <2>1
    <2>3. status = "authenticated" /\ ~ visit.attempted /\ visit' = [visit EXCEPT !.attempted = TRUE] /\ status' = status
      BY <1>5 DEF A!acceptInvitation, A!Signed, A!memory
    <2>4. visit' \in [attempted : BOOLEAN, shown : {"waiting", "joined", "failed"}] /\ visit'.attempted /\ visit'.shown = "waiting"
      BY <1>0, <2>3
    <2>5. \A d \in Slots : ~ Accepting(d)
      BY <1>0, <2>3 DEF Settles
    <2>6. \A d \in Slots : Accepting(d)' <=> d = c
      BY <2>1, <2>2, <2>5 DEF Accepting
    <2>7. Settles(c)'
      BY <2>1, <2>2, <2>4, <2>6 DEF Settles
    <2>8. \A d \in Slots : calls'[d].kind \in Mutations /\ calls'[d].mounted => status' = "authenticated"
      BY <1>0, <2>2, <2>3
    <2> QED
      BY <2>4, <2>6, <2>7, <2>8 DEF VisitInv
  <1>6. ASSUME NEW c \in Slots, A!Answers(c)
        PROVE  VisitInv'
    <2>0. calls[c] \in CallRecords
      BY <1>0
    <2>1. CASE A!SetupStatus(c) \/ A!SetupUnknown(c) \/ A!restoreFails(c) \/ A!Deactivated(c)
      BY <1>a, <2>1 DEF A!SetupStatus, A!SetupUnknown, A!restoreFails, A!Deactivated, A!SignedOut
    <2>2. CASE A!Dropped(c) \/ A!Created(c)
      BY <1>i, <2>2 DEF A!Dropped, A!Created, A!SettleCreation, A!memory
    <2>3. CASE A!ServeLogin(c) \/ A!ServeRegister(c) \/ A!ServeMutation(c)
      <3>1. /\ calls[c].kind # "accept" /\ visit' = visit /\ status' = status
            /\ calls' = [calls EXCEPT ![c] = A!Idle] \/ \E pc : calls' = [calls EXCEPT ![c].pc = pc]
        BY <2>3 DEF A!ServeLogin, A!ServeRegister, A!ServeMutation, A!memory
      <3> QED
        BY <1>i, <1>p, <3>1
    <2>4. CASE \E i \in ClientIds : A!regenerateStoredClientId(c, i)
      <3>1. PICK i \in ClientIds : calls' = [calls EXCEPT ![c] = [calls[c] EXCEPT !.pc = "sent", !.client = i]]
        BY <1>0, <2>4 DEF A!regenerateStoredClientId
      <3> DEFINE r == [calls[c] EXCEPT !.pc = "sent", !.client = i]
      <3>2. r.pc = "sent" /\ r.kind = calls[c].kind /\ r.mounted = calls[c].mounted
        BY <2>0 DEF CallRecords
      <3>3. /\ calls' = [calls EXCEPT ![c] = r] /\ visit' = visit /\ status' = status /\ calls[c].pc = "bound"
        BY <2>4, <3>1 DEF A!regenerateStoredClientId, A!memory
      <3> HIDE DEF r
      <3>4. ~ Accepting(c)
        BY <1>0, <3>3 DEF Settles
      <3>5. CASE calls[c].kind # "accept"
        BY <1>r, <3>2, <3>3, <3>5
      <3>6. CASE ~ calls[c].mounted
        <4>1. calls'[c] = r /\ \A d \in Slots : d # c => calls'[d] = calls[d]
          BY <1>0, <3>3
        <4>2. \A d \in Slots : Accepting(d)' <=> Accepting(d)
          BY <3>2, <4>1 DEF Accepting
        <4>3. \A d \in Slots : Accepting(d) => Settles(d)'
          BY <1>0, <3>3, <3>4, <4>1, <4>2 DEF Settles
        <4>4. \A d \in Slots : calls'[d].kind \in Mutations /\ calls'[d].mounted => status' = "authenticated"
          BY <1>0, <3>2, <3>3, <4>1
        <4> QED
          BY <1>0, <3>3, <4>2, <4>3, <4>4 DEF VisitInv
      <3> QED
        BY <3>4, <3>5, <3>6 DEF Accepting
    <2>5. CASE A!loadSessionSnapshot(c)
      <3>1. /\ calls' = [calls EXCEPT ![c] = A!Listing(calls[c], [user |-> calls[c].who, client |-> calls[c].client],
                                                        A!Blank, calls[c].client)]
            /\ calls[c].kind \in {"login", "register"} /\ visit' = visit /\ status' = status
        BY <2>5 DEF A!loadSessionSnapshot, A!memory
      <3>2. /\ [user |-> calls[c].who, client |-> calls[c].client] \in [user : Users \cup {None}, client : ClientIds \cup {None}]
            /\ calls[c].client \in ClientIds \cup {None}
        BY <2>0 DEF CallRecords
      <3>3. /\ \A d \in Slots : d # c => calls'[d] = calls[d]
            /\ calls'[c].kind = calls[c].kind
        BY <1>l, <3>1, <3>2, BlankIsShown
      <3> QED
        BY <1>0, <1>t, <3>1, <3>3 DEF VisitInv, Accepting, Settles
    <2>6. CASE A!Lost(c)
      <3>1. /\ visit' = visit /\ status' = status
            /\ calls' = [calls EXCEPT ![c] = A!Idle] \/ calls' = [calls EXCEPT ![c].pc = "failed"]
        BY <2>6 DEF A!Lost, A!memory
      <3> QED
        BY <1>i, <1>p, <3>1
    <2>7. CASE A!ServeList(c)
      <3>0. visit' = visit /\ status' = status /\ calls[c].pc = "listing"
        BY <2>7 DEF A!ServeList, A!memory
      <3>1. CASE calls' = [calls EXCEPT ![c].pc = "failed"]
        BY <1>p, <3>0, <3>1
      <3>2. CASE calls' = [calls EXCEPT ![c] = [calls[c] EXCEPT !.pc = "listed",
                                                  !.list = A!ListMemberships(calls[c].base.session.user)]]
        <4> DEFINE r == [calls[c] EXCEPT !.pc = "listed", !.list = A!ListMemberships(calls[c].base.session.user)]
        <4>1. r.pc = "listed" /\ r.kind = calls[c].kind /\ r.mounted = calls[c].mounted
          BY <2>0 DEF CallRecords
        <4>2. calls' = [calls EXCEPT ![c] = r]
          BY <3>2
        <4> HIDE DEF r
        <4> QED
          BY <1>r, <3>0, <4>1, <4>2
      <3> QED
        BY <2>7, <3>1, <3>2 DEF A!ServeList
    <2>8. CASE A!Loaded(c)
      <3>1. calls' = [calls EXCEPT ![c] = A!Idle] /\ status' = "authenticated"
        BY <2>8 DEF A!Loaded
      <3>2. CASE status = "authenticated"
        BY <1>i, <2>8, <3>1, <3>2 DEF A!Loaded
      <3>3. CASE status # "authenticated"
        <4>1. visit' = A!NoVisit
          BY <2>8, <3>3 DEF A!Loaded
        <4>2. \A d \in Slots : calls'[d] = calls[d] \/ calls'[d] = A!Idle
          BY <1>0, <3>1
        <4> QED
          BY <1>0, <1>d, <1>u, <3>3, <4>1, <4>2
      <3> QED
        BY <3>2, <3>3
    <2>9. CASE \E o \in Orgs : A!ServeCreate(c, o)
      <3>1. PICK o \in Orgs : calls' = [calls EXCEPT ![c] = [calls[c] EXCEPT !.pc = "answered", !.org = o]]
        BY <1>0, <2>9 DEF A!ServeCreate
      <3> DEFINE r == [calls[c] EXCEPT !.pc = "answered", !.org = o]
      <3>2. r.kind = calls[c].kind /\ r.mounted = calls[c].mounted
        BY <2>0 DEF CallRecords
      <3>3. calls' = [calls EXCEPT ![c] = r] /\ visit' = visit /\ status' = status /\ calls[c].kind = "create"
        BY <2>9, <3>1 DEF A!ServeCreate, A!memory
      <3> HIDE DEF r
      <3> QED
        BY <1>r, <3>2, <3>3
    <2>10. CASE A!refreshOrganizations(c)
      <3> DEFINE base == IF calls[c].mounted THEN mem ELSE calls[c].base
      <3>1. /\ calls' = [calls EXCEPT ![c] = A!Listing(calls[c], base.session, base, clientId)]
            /\ status' = status /\ calls[c].pc = "answered"
            /\ visit' = IF calls[c].kind = "accept" /\ calls[c].mounted THEN [visit EXCEPT !.shown = "joined"] ELSE visit
        BY <2>10 DEF A!refreshOrganizations, A!memory
      <3>2. base \in A!Snapshots /\ base.session \in [user : Users \cup {None}, client : ClientIds \cup {None}]
        <4>1. mem \in A!Snapshots /\ calls[c].base \in A!Snapshots
          BY <2>0 DEF PanelInv, ShownInv, Shown, CallRecords
        <4> QED
          BY <4>1 DEF A!Snapshots
      <3>3. clientId \in ClientIds \cup {None}
        BY DEF PanelInv, ShownInv
      <3> HIDE DEF base
      <3>4. /\ \A d \in Slots : d # c => calls'[d] = calls[d]
            /\ calls'[c].kind = calls[c].kind /\ calls'[c].mounted = calls[c].mounted /\ calls'[c].pc = "listing"
        BY <1>l, <3>1, <3>2, <3>3
      <3>5. \A d \in Slots : Accepting(d)' <=> Accepting(d)
        BY <3>4 DEF Accepting
      <3>6. \A d \in Slots : calls'[d].kind \in Mutations /\ calls'[d].mounted => status' = "authenticated"
        BY <1>0, <3>1, <3>4
      <3>7. CASE Accepting(c)
        <4>1. visit' = [visit EXCEPT !.shown = "joined"] /\ Settles(c)
          BY <1>0, <3>1, <3>7 DEF Accepting
        <4>2. visit' \in [attempted : BOOLEAN, shown : {"waiting", "joined", "failed"}] /\ visit'.attempted /\ visit'.shown = "joined"
          BY <1>0, <4>1 DEF Settles
        <4>3. \A d \in Slots : Accepting(d) => d = c
          BY <4>1 DEF Settles
        <4>4. Settles(c)'
          BY <3>4, <3>5, <4>2, <4>3 DEF Settles
        <4> QED
          BY <3>5, <3>6, <4>2, <4>3, <4>4 DEF VisitInv
      <3>8. CASE ~ Accepting(c)
        <4>1. visit' = visit
          BY <3>1, <3>8 DEF Accepting
        <4>2. \A d \in Slots : Accepting(d) => Settles(d)'
          BY <1>0, <3>4, <3>5, <3>8, <4>1 DEF Settles
        <4> QED
          BY <1>0, <3>5, <3>6, <4>1, <4>2 DEF VisitInv
      <3> QED
        BY <3>7, <3>8
    <2>11. CASE A!Refreshed(c)
      <3>1. CASE A!SignedOut /\ calls' = [A!Unmounted EXCEPT ![c] = A!Idle]
        BY <1>a, <3>1 DEF A!SignedOut
      <3>2. CASE calls' = [calls EXCEPT ![c] = A!Idle] /\ status' = status /\ visit' = visit
        BY <1>i, <3>2
      <3> QED
        BY <2>11, <3>1, <3>2 DEF A!Refreshed
    <2>12. CASE A!ServeAccept(c)
      <3>1. /\ calls[c].pc = "sent" /\ visit' = visit /\ status' = status
            /\ \E pc \in {"answered", "failed"} : calls' = [calls EXCEPT ![c].pc = pc]
        BY <2>12 DEF A!ServeAccept, A!memory
      <3> QED
        BY <1>p, <3>1
    <2>13. CASE A!acceptFails(c)
      <3>1. calls' = [calls EXCEPT ![c] = A!Idle] /\ status' = status
        BY <2>13 DEF A!acceptFails, A!memory
      <3>2. CASE visit' = visit
        BY <1>i, <3>1, <3>2
      <3>3. CASE visit' = [visit EXCEPT !.shown = "failed"] /\ Accepting(c)
        <4>1. Settles(c)
          BY <1>0, <3>3
        <4>2. visit' \in [attempted : BOOLEAN, shown : {"waiting", "joined", "failed"}] /\ visit'.attempted
          BY <1>0, <3>3, <4>1 DEF Settles
        <4>3. calls'[c] = A!Idle /\ \A d \in Slots : d # c => calls'[d] = calls[d]
          BY <1>0, <3>1
        <4>4. \A d \in Slots : ~ Accepting(d)'
          BY <1>d, <4>1, <4>3 DEF Accepting, Settles
        <4>5. \A d \in Slots : calls'[d].kind \in Mutations /\ calls'[d].mounted => status' = "authenticated"
          BY <1>0, <1>d, <3>1, <4>3
        <4> QED
          BY <4>2, <4>4, <4>5 DEF VisitInv
      <3> QED
        BY <2>13, <3>2, <3>3 DEF A!acceptFails, Accepting
    <2> QED
      BY <1>6, <2>1, <2>2, <2>3, <2>4, <2>5, <2>6, <2>7, <2>8, <2>9, <2>10, <2>11, <2>12, <2>13 DEF A!Answers
  <1>7. ASSUME NEW o \in Orgs, A!setActiveOrganizationId(o)
        PROVE  VisitInv'
    BY <1>0, <1>7 DEF A!setActiveOrganizationId, VisitInv, Accepting, Settles
  <1>8. CASE A!signOut
    <2>1. calls' = A!Unmounted /\ visit' = A!NoVisit
      BY <1>8 DEF A!signOut, A!SignedOut
    <2>2. CASE Slots = {}
      BY <1>0, <1>u, <2>1, <2>2
    <2>3. CASE Slots # {}
      BY <1>a, <2>1, <2>3
    <2> QED
      BY <2>2, <2>3
  <1>9. CASE A!retry
    <2>1. visit.shown = "failed" /\ visit' = A!NoVisit /\ calls' = calls /\ status' = status
      BY <1>9 DEF A!retry, A!memory
    <2>2. \A d \in Slots : ~ Accepting(d)
      BY <1>0, <2>1 DEF Settles
    <2> QED
      BY <1>0, <1>v, <2>1, <2>2 DEF VisitInv, Accepting
  <1> QED
    BY <1>1, <1>3, <1>4, <1>5, <1>6, <1>7, <1>8, <1>9 DEF A!Next

LEMMA InitPanel == SessionsInit => PanelInv
  <1> SUFFICES ASSUME SessionsInit PROVE PanelInv
    OBVIOUS
  <1>0. A!Init
    BY DEF SessionsInit
  <1>1. /\ stored = A!Blank /\ clientId = None /\ status = "closed" /\ mem = A!Blank /\ active = None
        /\ visit = A!NoVisit /\ calls = [c \in Slots |-> A!Idle]
    BY <1>0 DEF A!Init
  <1>2. RolesInv
    <2>1. PICK fresh \in BOOLEAN :
            /\ ever = IF fresh THEN {} ELSE {<<First, FirstOrg>>}
            /\ role = [u \in Users |-> [o \in Orgs |-> IF ~fresh /\ u = First /\ o = FirstOrg THEN "owner" ELSE None]]
      BY <1>0 DEF A!Init
    <2>2. role \in [Users -> [Orgs -> Roles]]
      BY <2>1 DEF Roles
    <2>3. ASSUME NEW u \in Users, NEW o \in Orgs, role[u][o] # None
          PROVE  <<u, o>> \in ever
      BY <2>1, <2>3
    <2> QED
      BY <2>2, <2>3 DEF RolesInv, Belongs
  <1>3. ShownInv /\ A!StoredIsShown
    BY <1>1, BlankIsShown DEF ShownInv, A!StoredIsShown
  <1>4. A!ActiveSettled
    <2>1. None \notin {"owner", "admin"}
      BY SessionsAssumption
    <2>2. mem.orgs = [o \in Orgs |-> None]
      BY <1>1, BlankIsShown DEF A!NoOrgs
    <2> QED
      BY <2>1, <2>2 DEF A!ActiveSettled, A!adminOrganizations, A!AdminRoles
  <1>5. CallsInv
    BY <1>1, IdleIsSound DEF CallsInv, Sound
  <1>6. VisitInv
    <2>1. \A c \in Slots : ~ calls[c].mounted
      BY <1>1, IdleIsSound
    <2> QED
      BY <1>1, <2>1 DEF VisitInv, Accepting, A!NoVisit
  <1> QED
    BY <1>2, <1>3, <1>4, <1>5, <1>6 DEF PanelInv

LEMMA PanelStutters == PanelInv /\ UNCHANGED panelVars => PanelInv'
  <1> SUFFICES ASSUME PanelInv, UNCHANGED panelVars PROVE PanelInv'
    OBVIOUS
  <1>1. UNCHANGED <<role, ever, stored, clientId, status, mem, active, visit, calls>>
    BY DEF panelVars
  <1>2. RolesInv' /\ ShownInv' /\ CallsInv'
    BY <1>1 DEF PanelInv, RolesInv, ShownInv, CallsInv
  <1>3. VisitInv'
    BY <1>1 DEF PanelInv, VisitInv, Accepting, Settles
  <1>4. A!StoredIsShown' /\ A!ActiveSettled'
    BY <1>1 DEF PanelInv, A!StoredIsShown, A!ActiveSettled, A!adminOrganizations
  <1> QED
    BY <1>2, <1>3, <1>4 DEF PanelInv

THEOREM PanelInductive == SessionsSpec => []PanelInv
  <1>1. SessionsInit => PanelInv
    BY InitPanel
  <1>2. PanelInv /\ Step => PanelInv'
    <2> SUFFICES ASSUME PanelInv, Step PROVE PanelInv'
      OBVIOUS
    <2>1. CASE A!Next
      BY <2>1, RolesNext, ShownNext, CallsNext, VisitNext DEF PanelInv
    <2>2. CASE UNCHANGED panelVars
      BY <2>2, PanelStutters
    <2> QED
      BY <2>1, <2>2 DEF Step, SessionsNext
  <1> QED
    BY <1>1, <1>2, PTL DEF SessionsSpec, Step

(* Whatever answers come after a sign-out, a reload or another sign-in,    *)
(* the panel shows the organizations of one account, the ones it keeps for *)
(* the next load, with an active one among those the account administers,  *)
(* and an acceptance that is shown as joined is not sent again.            *)
THEOREM OneAccountIsShown == SessionsSpec => []OneAccountShown
  <1>1. PanelInv => OneAccountShown
    <2> SUFFICES ASSUME PanelInv PROVE OneAccountShown
      OBVIOUS
    <2>1. A!OwnOrganizations
      BY DEF PanelInv, ShownInv, Shown, Belongs, A!OwnOrganizations
    <2>2. A!AcceptedOnce
      BY DEF PanelInv, VisitInv, Settles, Accepting, A!AcceptedOnce
    <2> QED
      BY <2>1, <2>2 DEF PanelInv, OneAccountShown
  <1> QED
    BY <1>1, PanelInductive, PTL
================================================================================
