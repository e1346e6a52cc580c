----------------------------- MODULE AdminSession -----------------------------
(***************************************************************************)
(* The session of the admin panel (admin-web/src/app): who is signed in,   *)
(* the organizations shown, what is kept in localStorage for the next      *)
(* load, and the client id every request is bound to.                      *)
(*                                                                         *)
(* Each asynchronous operation is a call: a request on its way, an answer  *)
(* on its way back, and a continuation that writes the snapshot.  Calls    *)
(* overlap, answers may be lost or refused, and the page may be reloaded   *)
(* or the user may sign out while they are under way.  A mutation carries  *)
(* the snapshot its page last rendered: the current one while the page is  *)
(* mounted, the last one it saw after that.                                *)
(*                                                                         *)
(* Abstracted: passwords, names, the principal (it follows the session),   *)
(* the views and their queries.  The organizations' own rules are those of *)
(* the service, reduced to what the panel observes (module Organizations   *)
(* has them in full).                                                      *)
(***************************************************************************)
EXTENDS Naturals, FiniteSets

CONSTANTS
  Users, Orgs,
  First,        \* the user and the organization of an installation in use
  FirstOrg,
  Ids,          \* bound: the client ids this browser mints
  Calls,        \* bound: requests under way at once
  MaxSteps,     \* bound: what the user does
  None

VARIABLES
  account,      \* the service: users,
  bound,        \* devices: the user each client id is bound to,
  role,         \* organization_members,
  live,         \* organizations that exist and are not deleted,
  invited,      \* the user with a pending invitation to FirstOrg
  ever,         \* history: who has been a member of what
  stored,       \* localStorage: admin-web/session,
  clientId,     \* admin-web/client-id,
  storedActive, \* admin-web/active-organization-id
  status, mem, active,   \* AuthProvider and OrganizationProvider
  steps,        \* what the user did
  page,         \* "app", or the invitation link
  visit,        \* state of InvitationAcceptPage
  calls

service == <<account, bound, role, live, invited, ever>>
storage == <<stored, clientId, storedActive>>
memory == <<status, mem, active>>
vars == <<service, storage, memory, steps, page, visit, calls>>

-----------------------------------------------------------------------------
NoOne == [user |-> None, client |-> None]
NoOrgs == [o \in Orgs |-> None]
Blank == [session |-> NoOne, orgs |-> NoOrgs]
Idle == [kind |-> None, pc |-> "idle", who |-> None, org |-> None, client |-> None, base |-> Blank,
         list |-> NoOrgs, mounted |-> FALSE]
NoVisit == [attempted |-> FALSE, shown |-> "waiting"]

AdminRoles == {"owner", "admin"}
adminOrganizations(orgs) == {o \in Orgs : orgs[o] \in AdminRoles}
ListMemberships(u) == [o \in Orgs |-> IF o \in live THEN role[u][o] ELSE None]

\* An effect that trusts the stored choice.
trustStoredActive(orgs) ==
  IF storedActive # None THEN storedActive
  ELSE IF adminOrganizations(orgs) # {} THEN CHOOSE o \in adminOrganizations(orgs) : TRUE ELSE None

\* The effect of OrganizationProvider, run whenever the organizations change.
resolveActive(orgs) ==
  LET admin == adminOrganizations(orgs)
  IN  IF storedActive \in admin THEN storedActive
      ELSE IF admin # {} THEN CHOOSE o \in admin : TRUE ELSE None

AuthenticateToken(session, client) ==
  session.client = client /\ bound[client] = session.user /\ account[session.user] = "active"

Acts == steps < MaxSteps /\ steps' = steps + 1

Init ==
  /\ \E fresh \in BOOLEAN :
       /\ account = [u \in Users |-> IF ~fresh /\ u = First THEN "active" ELSE None]
       /\ ever = IF fresh THEN {} ELSE {<<First, FirstOrg>>}
       /\ role = [u \in Users |-> [o \in Orgs |-> IF ~fresh /\ u = First /\ o = FirstOrg THEN "owner" ELSE None]]
       /\ live = IF fresh THEN {} ELSE {FirstOrg}
       /\ \E u \in (Users \ {First}) \cup {None} : invited = (IF fresh THEN None ELSE u)
  /\ bound = [i \in Ids |-> None]
  /\ stored = Blank /\ clientId = None /\ storedActive = None
  /\ status = "closed" /\ mem = Blank /\ active = None
  /\ page = "app" /\ visit = NoVisit /\ steps = 0
  /\ calls = [c \in Calls |-> Idle]

-----------------------------------------------------------------------------
(* Writing the snapshot                                                    *)

setSnapshot(snapshot) == mem' = snapshot /\ active' = resolveActive(snapshot.orgs)
persistSnapshot(snapshot) == stored' = snapshot

Begin(c, kind, who, org, client, base, others) ==
  /\ others[c].pc = "idle"
  /\ calls' = [others EXCEPT ![c] = [kind |-> kind, pc |-> "sent", who |-> who, org |-> org, client |-> client,
                                     base |-> base, list |-> NoOrgs, mounted |-> TRUE]]

\* Every page of the signed-in panel goes when the status changes.
Unmounted == [c \in Calls |-> [calls[c] EXCEPT !.mounted = FALSE]]

\* The load and the refresh of the organizations, with the header of that moment.
Listing(call, session, base, client) ==
  [call EXCEPT !.pc = "listing", !.base = [base EXCEPT !.session = session], !.client = client]

-----------------------------------------------------------------------------
(* Opening the panel                                                       *)

Reload(c, to) ==
  /\ Acts
  /\ page' = to /\ visit' = NoVisit
  /\ status' = "loading" /\ mem' = Blank /\ active' = None
  /\ IF stored = Blank
     THEN /\ Begin(c, "setup", None, None, None, Blank, [d \in Calls |-> Idle])
          /\ UNCHANGED clientId
     ELSE /\ clientId' = stored.session.client
          /\ calls' = [[d \in Calls |-> Idle] EXCEPT ![c] =
                         Listing([Idle EXCEPT !.kind = "restore", !.mounted = TRUE], stored.session, Blank, stored.session.client)]
  /\ UNCHANGED <<service, stored, storedActive>>

SetupStatus(c) ==
  /\ calls[c].kind = "setup"
  /\ status' = IF live = {} THEN "setupRequired" ELSE "anonymous"
  /\ visit' = NoVisit /\ calls' = [Unmounted EXCEPT ![c] = Idle]
  /\ UNCHANGED <<service, storage, mem, active, steps, page>>

SetupUnknown(c) ==
  /\ calls[c].kind = "setup"
  /\ status' = "anonymous"
  /\ visit' = NoVisit /\ calls' = [Unmounted EXCEPT ![c] = Idle]
  /\ UNCHANGED <<service, storage, mem, active, steps, page>>

getStoredClientId(i) ==
  IF clientId # None THEN i = clientId
  ELSE bound[i] = None /\ \A c \in Calls : calls[c].client # i

\* The login form is not held back while the session is restored.
signIn(c, u, i) ==
  /\ Acts
  /\ status \in {"loading", "anonymous", "setupRequired"}
  /\ \A d \in Calls : calls[d].kind # "login"
  /\ getStoredClientId(i) /\ clientId' = i
  /\ Begin(c, "login", u, None, i, Blank, calls)
  /\ UNCHANGED <<service, stored, storedActive, memory, page, visit>>

signUp(c, u, i) ==
  /\ Acts
  /\ status = "setupRequired" \/ (status = "anonymous" /\ page = "invitation")
  /\ \A d \in Calls : calls[d].kind # "register"
  /\ getStoredClientId(i) /\ clientId' = i
  /\ Begin(c, "register", u, None, i, Blank, calls)
  /\ UNCHANGED <<service, stored, storedActive, memory, page, visit>>

bindClient(i, u) == bound[i] \in {None, u}

ServeLogin(c) ==
  LET call == calls[c]
  IN  /\ call.kind = "login" /\ call.pc = "sent"
      /\ IF account[call.who] = "active" /\ bindClient(call.client, call.who)
         THEN /\ bound' = [bound EXCEPT ![call.client] = call.who]
              /\ calls' = [calls EXCEPT ![c].pc = "answered"]
         ELSE /\ calls' = [calls EXCEPT ![c] = Idle]
              /\ UNCHANGED bound
      /\ UNCHANGED <<account, role, live, invited, ever, storage, memory, steps, page, visit>>

ServeRegister(c) ==
  LET call == calls[c]
  IN  /\ call.kind = "register" /\ call.pc = "sent"
      /\ IF account[call.who] = None /\ (live = {} \/ call.who = invited)
         THEN IF bindClient(call.client, call.who)
              THEN /\ account' = [account EXCEPT ![call.who] = "active"]
                   /\ bound' = [bound EXCEPT ![call.client] = call.who]
                   /\ calls' = [calls EXCEPT ![c].pc = "answered"]
              ELSE calls' = [calls EXCEPT ![c].pc = "bound"] /\ UNCHANGED <<account, bound>>
         ELSE calls' = [calls EXCEPT ![c] = Idle] /\ UNCHANGED <<account, bound>>
      /\ UNCHANGED <<role, live, invited, ever, storage, memory, steps, page, visit>>

\* 409: a fresh client id and one retry.
regenerateStoredClientId(c, i) ==
  /\ calls[c].pc = "bound"
  /\ bound[i] = None /\ i # clientId /\ \A d \in Calls : calls[d].client # i
  /\ clientId' = i
  /\ calls' = [calls EXCEPT ![c].pc = "sent", ![c].client = i]
  /\ UNCHANGED <<service, stored, storedActive, memory, steps, page, visit>>

\* loadSessionSnapshot: the client id is set before the requests leave.
loadSessionSnapshot(c) ==
  LET call == calls[c]
  IN  /\ call.kind \in {"login", "register"} /\ call.pc = "answered"
      /\ clientId' = call.client
      /\ calls' = [calls EXCEPT ![c] = Listing(call, [user |-> call.who, client |-> call.client], Blank, call.client)]
      /\ UNCHANGED <<service, stored, storedActive, memory, steps, page, visit>>

Lost(c) ==
  /\ calls[c].pc \in {"sent", "answered", "listing"} /\ calls[c].kind # "setup"
  /\ calls' = [calls EXCEPT ![c] = IF calls[c].pc = "listing" \/ calls[c].kind = "accept"
                                   THEN [calls[c] EXCEPT !.pc = "failed"] ELSE Idle]
  /\ UNCHANGED <<service, storage, memory, steps, page, visit>>

ServeList(c) ==
  LET call == calls[c]
  IN  /\ call.pc = "listing"
      /\ calls' = [calls EXCEPT ![c] =
                     IF AuthenticateToken(call.base.session, call.client)
                     THEN [call EXCEPT !.pc = "listed", !.list = ListMemberships(call.base.session.user)]
                     ELSE [call EXCEPT !.pc = "failed"]]
      /\ UNCHANGED <<service, storage, memory, steps, page, visit>>

\* The end of restore, signIn and signUp.
Loaded(c) ==
  LET call == calls[c]
      snapshot == [session |-> call.base.session, orgs |-> call.list]
  IN  /\ call.kind \in {"restore", "login", "register"} /\ call.pc = "listed"
      /\ setSnapshot(snapshot) /\ persistSnapshot(snapshot)
      /\ status' = "authenticated"
      /\ visit' = IF status = "authenticated" THEN visit ELSE NoVisit
      /\ calls' = [calls EXCEPT ![c] = Idle]
      /\ UNCHANGED <<service, clientId, storedActive, steps, page>>

\* A catch that only says so in memory.
restoreFailsInMemory(c) ==
  /\ calls[c].kind = "restore" /\ calls[c].pc = "failed"
  /\ setSnapshot(Blank)
  /\ calls' = [Unmounted EXCEPT ![c] = Idle]
  /\ UNCHANGED <<service, storage, status, visit, steps, page>>

restoreFails(c) ==
  /\ calls[c].kind = "restore" /\ calls[c].pc = "failed"
  /\ setSnapshot(Blank) /\ persistSnapshot(Blank)
  /\ status' = "anonymous" /\ visit' = NoVisit
  /\ calls' = [Unmounted EXCEPT ![c] = Idle]
  /\ UNCHANGED <<service, clientId, storedActive, steps, page>>

\* Anything else that fails leaves the snapshot alone.
Dropped(c) ==
  /\ calls[c].kind \notin {"restore", "accept"} /\ calls[c].pc = "failed"
  /\ calls' = [calls EXCEPT ![c] = Idle]
  /\ UNCHANGED <<service, storage, memory, steps, page, visit>>

-----------------------------------------------------------------------------
(* Changing the organizations                                              *)

Signed == status = "authenticated" /\ mem.session # NoOne

SoleOwner(u, o) == role[u][o] = "owner" /\ \A v \in Users \ {u} : role[v][o] # "owner"

createOwnerOrganization(c) ==
  /\ Acts
  /\ Signed /\ page = "app" /\ \A d \in Calls : calls[d].kind # "create"
  /\ Begin(c, "create", mem.session.user, None, clientId, mem, calls)
  /\ UNCHANGED <<service, storage, memory, page, visit>>

ServeCreate(c, o) ==
  LET call == calls[c]
  IN  /\ call.kind = "create" /\ call.pc = "sent"
      /\ AuthenticateToken(call.base.session, call.client)
      /\ \A u \in Users : role[u][o] = None
      /\ role' = [role EXCEPT ![call.who][o] = "owner"]
      /\ live' = live \cup {o} /\ ever' = ever \cup {<<call.who, o>>}
      /\ calls' = [calls EXCEPT ![c].pc = "answered", ![c].org = o]
      /\ UNCHANGED <<account, bound, invited, storage, memory, steps, page, visit>>

\* The snapshot of the page that asked, with the new organization added to it.
\* Only the page of a further organization makes it the active one.
SettleCreation(c, snapshot) ==
  LET further == adminOrganizations(calls[c].base.orgs) # {}
  IN  /\ calls[c].kind = "create" /\ calls[c].pc = "answered"
      /\ persistSnapshot(snapshot) /\ mem' = snapshot
      /\ storedActive' = IF further THEN calls[c].org ELSE storedActive
      /\ active' = IF further THEN calls[c].org ELSE resolveActive(snapshot.orgs)
      /\ calls' = [calls EXCEPT ![c] = Idle]
      /\ UNCHANGED <<service, clientId, status, steps, page, visit>>

\* A functional update of whatever snapshot is there by then.
CreatedOnCurrent(c) == SettleCreation(c, [mem EXCEPT !.orgs[calls[c].org] = "owner"])

Created(c) == SettleCreation(c, [calls[c].base EXCEPT !.orgs[calls[c].org] = "owner"])

\* Deleting, leaving and restoring an organization, and deactivating oneself.
Mutate(c, kind, o) ==
  /\ Acts
  /\ Signed /\ page = "app"
  /\ kind \in {"delete", "leave"} => o = active
  /\ Begin(c, kind, mem.session.user, o, clientId, mem, calls)
  /\ UNCHANGED <<service, storage, memory, page, visit>>

Allowed(call) ==
  CASE call.kind = "delete"     -> call.org \in live /\ role[call.who][call.org] \in AdminRoles
    [] call.kind = "leave"      -> call.org \in live /\ role[call.who][call.org] \in AdminRoles
                                   /\ ~SoleOwner(call.who, call.org)
    [] call.kind = "undelete"   -> call.org \notin live /\ role[call.who][call.org] \in AdminRoles
    [] call.kind = "deactivate" -> \A o \in Orgs : ~SoleOwner(call.who, o)

ServeMutation(c) ==
  LET call == calls[c]
  IN  /\ call.kind \in {"delete", "leave", "undelete", "deactivate"} /\ call.pc = "sent"
      /\ IF AuthenticateToken(call.base.session, call.client) /\ Allowed(call)
         THEN /\ calls' = [calls EXCEPT ![c].pc = "answered"]
              /\ live' = IF call.kind = "delete" THEN live \ {call.org}
                         ELSE IF call.kind = "undelete" THEN live \cup {call.org} ELSE live
              /\ role' = IF call.kind = "leave" THEN [role EXCEPT ![call.who][call.org] = None] ELSE role
              /\ account' = IF call.kind = "deactivate" THEN [account EXCEPT ![call.who] = "disabled"] ELSE account
         ELSE calls' = [calls EXCEPT ![c] = Idle] /\ UNCHANGED <<live, role, account>>
      /\ UNCHANGED <<bound, invited, ever, storage, memory, steps, page, visit>>

\* onSuccess: refreshOrganizations of the last render of the page.
refreshOrganizations(c) ==
  LET call == calls[c]
      base == IF call.mounted THEN mem ELSE call.base
  IN  /\ call.kind \in {"delete", "leave", "undelete", "accept"} /\ call.pc = "answered"
      /\ visit' = IF call.kind = "accept" /\ call.mounted THEN [visit EXCEPT !.shown = "joined"] ELSE visit
      /\ calls' = [calls EXCEPT ![c] = Listing(call, base.session, base, clientId)]
      /\ UNCHANGED <<service, storage, memory, steps, page>>

SignedOut ==
  /\ setSnapshot(Blank) /\ persistSnapshot(Blank)
  /\ status' = "anonymous" /\ visit' = NoVisit

\* A refresh that only shows what it found.
RefreshedInMemory(c) ==
  /\ calls[c].kind \in {"delete", "leave", "undelete", "accept"} /\ calls[c].pc = "listed"
  /\ setSnapshot([calls[c].base EXCEPT !.orgs = calls[c].list])
  /\ calls' = [calls EXCEPT ![c] = Idle]
  /\ UNCHANGED <<service, storage, status, steps, page, visit>>

Refreshed(c) ==
  LET call == calls[c]
      snapshot == [call.base EXCEPT !.orgs = call.list]
  IN  /\ call.kind \in {"delete", "leave", "undelete", "accept"} /\ call.pc = "listed"
      /\ IF call.list = NoOrgs /\ call.kind \in {"delete", "leave"}
         THEN SignedOut /\ calls' = [Unmounted EXCEPT ![c] = Idle]
         ELSE /\ setSnapshot(snapshot) /\ persistSnapshot(snapshot)
              /\ calls' = [calls EXCEPT ![c] = Idle]
              /\ UNCHANGED <<status, visit>>
      /\ UNCHANGED <<service, clientId, storedActive, steps, page>>

Deactivated(c) ==
  /\ calls[c].kind = "deactivate" /\ calls[c].pc = "answered"
  /\ SignedOut /\ calls' = [Unmounted EXCEPT ![c] = Idle]
  /\ UNCHANGED <<service, clientId, storedActive, steps, page>>

signOut ==
  /\ Acts
  /\ Signed /\ SignedOut /\ calls' = Unmounted
  /\ UNCHANGED <<service, clientId, storedActive, page>>

setActiveOrganizationId(o) ==
  /\ Acts
  /\ Signed /\ page = "app" /\ o \in adminOrganizations(mem.orgs) /\ o # active
  /\ active' = o /\ storedActive' = o
  /\ UNCHANGED <<service, stored, clientId, status, mem, page, visit, calls>>

-----------------------------------------------------------------------------
(* The invitation link                                                     *)

\* An effect that runs again whenever its dependencies change.
acceptOnEveryRender(c) ==
  /\ Signed /\ page = "invitation" /\ \A d \in Calls : calls[d].kind # "accept"
  /\ Begin(c, "accept", mem.session.user, FirstOrg, clientId, mem, calls)
  /\ visit' = [visit EXCEPT !.attempted = TRUE]
  /\ UNCHANGED <<service, storage, memory, steps, page>>

acceptInvitation(c) ==
  /\ Signed /\ page = "invitation" /\ ~visit.attempted
  /\ Begin(c, "accept", mem.session.user, FirstOrg, clientId, mem, calls)
  /\ visit' = [visit EXCEPT !.attempted = TRUE]
  /\ UNCHANGED <<service, storage, memory, steps, page>>

ServeAccept(c) ==
  LET call == calls[c]
  IN  /\ call.kind = "accept" /\ call.pc = "sent"
      /\ IF AuthenticateToken(call.base.session, call.client) /\ invited = call.who
            /\ FirstOrg \in live /\ role[call.who][FirstOrg] = None
         THEN /\ role' = [role EXCEPT ![call.who][FirstOrg] = "admin"] /\ invited' = None
              /\ ever' = ever \cup {<<call.who, FirstOrg>>}
              /\ calls' = [calls EXCEPT ![c].pc = "answered"]
         ELSE calls' = [calls EXCEPT ![c].pc = "failed"] /\ UNCHANGED <<role, invited, ever>>
      /\ UNCHANGED <<account, bound, live, storage, memory, steps, page, visit>>

acceptFails(c) ==
  /\ calls[c].kind = "accept" /\ calls[c].pc = "failed"
  /\ visit' = IF calls[c].mounted /\ visit.shown # "joined" THEN [visit EXCEPT !.shown = "failed"] ELSE visit
  /\ calls' = [calls EXCEPT ![c] = Idle]
  /\ UNCHANGED <<service, storage, memory, steps, page>>

retry ==
  /\ Acts
  /\ Signed /\ page = "invitation" /\ visit.shown = "failed"
  /\ visit' = NoVisit
  /\ UNCHANGED <<service, storage, memory, page, calls>>

-----------------------------------------------------------------------------
Answers(c) ==
  \/ SetupStatus(c) \/ SetupUnknown(c) \/ ServeLogin(c) \/ ServeRegister(c)
  \/ \E i \in Ids : regenerateStoredClientId(c, i)
  \/ loadSessionSnapshot(c) \/ Lost(c) \/ ServeList(c) \/ Loaded(c) \/ restoreFails(c) \/ Dropped(c)
  \/ \E o \in Orgs : ServeCreate(c, o)
  \/ Created(c) \/ ServeMutation(c) \/ refreshOrganizations(c) \/ Refreshed(c) \/ Deactivated(c)
  \/ ServeAccept(c) \/ acceptFails(c)

Next ==
  \/ \E c \in Calls :
       \/ \E to \in {"app", "invitation"} : Reload(c, to)
       \/ \E u \in Users, i \in Ids : signIn(c, u, i) \/ signUp(c, u, i)
       \/ createOwnerOrganization(c)
       \/ \E kind \in {"delete", "leave", "undelete"}, o \in Orgs : Mutate(c, kind, o)
       \/ Mutate(c, "deactivate", None)
       \/ acceptInvitation(c)
       \/ Answers(c)
  \/ \E o \in Orgs : setActiveOrganizationId(o)
  \/ signOut \/ retry

Spec == Init /\ [][Next]_vars
\* Every request is answered or refused, and every continuation runs.
FairSpec == Spec /\ \A c \in Calls : WF_vars(Answers(c))

-----------------------------------------------------------------------------
Snapshots == [session : [user : Users \cup {None}, client : Ids \cup {None}],
              orgs : [Orgs -> {None, "owner", "admin"}]]

TypeOK ==
  /\ account \in [Users -> {None, "active", "disabled"}] /\ live \subseteq Orgs
  /\ bound \in [Ids -> Users \cup {None}]
  /\ role \in [Users -> [Orgs -> {None, "owner", "admin"}]]
  /\ mem \in Snapshots /\ stored \in Snapshots
  /\ clientId \in Ids \cup {None} /\ active \in Orgs \cup {None}

\* Nobody is shown, now or at the next load, an organization of an account other
\* than the one of the snapshot, whatever answers arrive after a sign-out or a
\* sign-in (AuthProvider.tsx:141-167).
OwnOrganizations ==
  \A snapshot \in {mem, stored} :
    \A o \in Orgs : snapshot.orgs[o] # None => <<snapshot.session.user, o>> \in ever

\* What is shown to a signed-in user is what the next load starts from
\* (AuthProvider.tsx:91-158).
StoredIsShown == status = "authenticated" => stored = mem

\* A user who administers an organization is never left on the loading screen for
\* want of an active one (OrganizationProvider.tsx:33-37, router.tsx:62-64).
ActiveSettled == adminOrganizations(mem.orgs) # {} => active \in adminOrganizations(mem.orgs)

\* Once the page of an invitation shows that the user has joined, it has no request
\* under way that could still show a failure instead (InvitationAcceptPage.tsx:64-80).
\* Of an acceptance whose answer was lost it shows a failure, and says nothing here.
AcceptedOnce ==
  visit.shown = "joined" => \A c \in Calls : ~(calls[c].kind = "accept" /\ calls[c].mounted /\ calls[c].pc = "sent")

\* The screen that restores the session goes away (AuthProvider.tsx:80-101).
LoadingEnds == status = "loading" ~> status # "loading"

-----------------------------------------------------------------------------
\* What a sign-out removed from the storage only comes back with a sign-in: an
\* answer that arrives after it does not write its page's session again
\* (AuthProvider.tsx:141-167).
SignedOutStays == [][stored = Blank /\ stored' # Blank => status' = "authenticated"]_vars

\* An organization that is shown stays while the user belongs to it
\* (AuthProvider.tsx:144, 163).
NothingLost ==
  [][\A o \in Orgs : mem.orgs[o] # None /\ mem'.session = mem.session /\ mem'.orgs[o] = None
       => role[mem.session.user][o] = None \/ o \notin live]_vars
================================================================================
