----------------------------- MODULE Organizations -----------------------------
(***************************************************************************)
(* Organizations, their members and invitations                            *)
(* (backend/internal/organizations), the deactivation of an account        *)
(* (backend/internal/auth) and the purge of what was deleted               *)
(* (backend/internal/purge), as concurrent transactions of the database.   *)
(*                                                                         *)
(* A transaction reads, under READ COMMITTED, what others committed before *)
(* each of its statements; it waits for the row locks it asks for, keeps   *)
(* them to its end, and writes at its commit.  The row of an organization  *)
(* is locked FOR UPDATE by orgLock, and shared, for the length of one      *)
(* statement, by every row inserted that refers to it (FOR KEY SHARE).     *)
(* The rows of organization_members are locked by HoldsRow, all those of a *)
(* statement at once (the database takes them one by one, in an order it   *)
(* chooses, and rolls back one of the transactions that wait in a circle). *)
(*                                                                         *)
(* Abstracted: names, e-mails (an invitation names the user it is for),    *)
(* the activity log (module Activity is not modelled), workspaces.         *)
(***************************************************************************)
EXTENDS Naturals, FiniteSets

CONSTANTS
  Users, Orgs,
  Invitations,  \* bound: ids of invitations
  Txs,          \* bound: transactions under way at once
  MaxSteps,     \* bound: requests, expirations and rollbacks
  None

ASSUME OrganizationsAssumption ==
  /\ None \notin Users \cup Orgs \cup Invitations \cup Txs \cup {"owner", "admin", "member"}
  /\ MaxSteps \in Nat

VARIABLES
  org,       \* organizations: "none", "live" or "deleted" (deleted_at)
  role,      \* organization_members
  disabled,  \* users.disabled_at
  inv,       \* invitations
  orgLock, invLock,  \* the transaction that holds each row
  tx,        \* each transaction: the request it serves, and where it is
  steps

vars == <<org, role, disabled, inv, orgLock, invLock, tx, steps>>

Roles == {"owner", "admin", "member"}
AdminRoles == {"owner", "admin"}
Statuses == {"unused", "pending", "accepted", "cancelled", "expired"}
NoInvitation == [org |-> None, user |-> None, role |-> None, status |-> "unused", lapsed |-> FALSE]
Idle == [op |-> None, pc |-> "idle", by |-> None, org |-> None, who |-> None, as |-> None, inv |-> None]

Owners(o) == {u \in Users : role[o][u] = "owner"}
LegalRoles == {r \in [Users -> Roles \cup {None}] : \E u \in Users : r[u] = "owner"}

Ops == {"PatchMember", "DeleteOrganization", "RestoreOrganization", "CreateInvitation",
        "ResendInvitation", "CancelInvitation", "AcceptInvitation", "DeactivateSelf"}
Pcs == {"idle", "begin", "authorise", "memberships", "decide", "members", "lock", "probe", "write"}

(* The requests the handlers parse, with the fields each of them uses.      *)
Request(op, by, o, who, as, i) ==
  [op |-> op, pc |-> "begin", by |-> by, org |-> o, who |-> who, as |-> as, inv |-> i]
Requests ==
       {Request("PatchMember", u, o, v, r, None) : u \in Users, o \in Orgs, v \in Users, r \in Roles \cup {None}}
  \cup {Request("DeleteOrganization", u, o, None, None, None) : u \in Users, o \in Orgs}
  \cup {Request("RestoreOrganization", u, o, None, None, None) : u \in Users, o \in Orgs}
  \cup {Request("CreateInvitation", u, o, v, r, None) : u \in Users, o \in Orgs, v \in Users, r \in Roles}
  \cup {Request(op, u, None, None, None, i) : op \in {"ResendInvitation", "CancelInvitation", "AcceptInvitation"}, u \in Users, i \in Invitations}
  \cup {Request("DeactivateSelf", u, None, None, None, None) : u \in Users}

Acts == steps < MaxSteps /\ steps' = steps + 1

\* Does transaction t hold u's row of the members of o?
HoldsRow(t, o, u) ==
  /\ role[o][u] # None
  /\ \/ tx[t].op \in {"PatchMember", "DeleteOrganization"} /\ tx[t].pc \in {"decide", "write"} /\ tx[t].org = o
     \/ tx[t].op = "DeactivateSelf" /\ tx[t].pc \in {"probe", "write"} /\ tx[t].by = u
RowFree(t, o, u) == \A other \in Txs \ {t} : ~HoldsRow(other, o, u)

-----------------------------------------------------------------------------
Init ==
  /\ org \in [Orgs -> {"none", "live", "deleted"}]
  /\ role \in [Orgs -> LegalRoles \cup {[u \in Users |-> None]}]
  /\ \A o \in Orgs : (org[o] = "none") = (role[o] = [u \in Users |-> None])
  /\ disabled = [u \in Users |-> FALSE]
  /\ inv = [i \in Invitations |-> NoInvitation]
  /\ orgLock = [o \in Orgs |-> None] /\ invLock = [i \in Invitations |-> None]
  /\ tx = [t \in Txs |-> Idle] /\ steps = 0

Goto(t, pc) == tx' = [tx EXCEPT ![t].pc = pc]

\* A transaction left open keeps the row of its invitation.
EndLeaks(t) ==
  /\ tx' = [tx EXCEPT ![t] = Idle] /\ UNCHANGED invLock
  /\ orgLock' = [o \in Orgs |-> IF orgLock[o] = t THEN None ELSE orgLock[o]]

\* Commit or rollback: the locks go with the transaction.
End(t) ==
  /\ tx' = [tx EXCEPT ![t] = Idle]
  /\ orgLock' = [o \in Orgs |-> IF orgLock[o] = t THEN None ELSE orgLock[o]]
  /\ invLock' = [i \in Invitations |-> IF invLock[i] = t THEN None ELSE invLock[i]]

Refuse(t) == End(t) /\ UNCHANGED <<org, role, disabled, inv, steps>>
Proceed(t, pc) == Goto(t, pc) /\ UNCHANGED <<org, role, disabled, inv, orgLock, invLock, steps>>
Lock(t, o, pc) ==
  /\ Goto(t, pc) /\ orgLock' = [orgLock EXCEPT ![o] = t]
  /\ UNCHANGED <<org, role, disabled, inv, invLock, steps>>

At(t, op, pc) == tx[t].op = op /\ tx[t].pc = pc

IsOrganizationAdmin(u, o) == org[o] = "live" /\ role[o][u] \in AdminRoles

\* A request of an account that is not disabled.
begin(t) ==
  /\ Acts /\ tx[t] = Idle
  /\ \E q \in Requests : ~disabled[q.by] /\ tx' = [tx EXCEPT ![t] = q]
  /\ UNCHANGED <<org, role, disabled, inv, orgLock, invLock>>

\* The connection is lost, or the client gone: nothing is written.
rollback(t) ==
  /\ Acts /\ tx[t] # Idle /\ End(t)
  /\ UNCHANGED <<org, role, disabled, inv>>

CreateOrganization(u, o) ==
  /\ Acts /\ ~disabled[u] /\ org[o] = "none" /\ org' = [org EXCEPT ![o] = "live"]
  /\ role' = [role EXCEPT ![o] = [v \in Users |-> IF v = u THEN "owner" ELSE None]]
  /\ UNCHANGED <<disabled, inv, orgLock, invLock, tx>>

-----------------------------------------------------------------------------
(* PatchMember and DeleteOrganization.                                      *)

lockOrganization(t) ==
  LET o == tx[t].org
  IN  /\ tx[t].op \in {"PatchMember", "DeleteOrganization"} /\ tx[t].pc = "begin" /\ orgLock[o] = None
      /\ IF org[o] = "live" THEN Lock(t, o, "authorise") ELSE Refuse(t)

requireOrganizationAdmin(t) ==
  /\ tx[t].op \in {"PatchMember", "DeleteOrganization"} /\ tx[t].pc = "authorise"
  /\ IF IsOrganizationAdmin(tx[t].by, tx[t].org) THEN Proceed(t, "memberships") ELSE Refuse(t)

lockOrganizationMemberships(t) ==
  /\ tx[t].op \in {"PatchMember", "DeleteOrganization"} /\ tx[t].pc = "memberships"
  /\ \A u \in Users : RowFree(t, tx[t].org, u)
  /\ Proceed(t, "decide")

\* The last owner may not leave.
PatchRefusedLeaving(p) ==
  \/ role[p.org][p.who] = None \/ org[p.org] # "live"
  \/ p.as = "owner" /\ role[p.org][p.by] # "owner"
  \/ role[p.org][p.who] = "owner" /\ Cardinality(Owners(p.org)) = 1 /\ p.as = None

\* The last owner may not leave, nor be anything but an owner; only an owner makes another.
PatchRefused(p) ==
  \/ role[p.org][p.who] = None \/ org[p.org] # "live"
  \/ p.as = "owner" /\ role[p.org][p.by] # "owner"
  \/ role[p.org][p.who] = "owner" /\ Cardinality(Owners(p.org)) = 1 /\ p.as # "owner"

decidePatch(t) ==
  /\ At(t, "PatchMember", "decide")
  /\ IF PatchRefused(tx[t]) THEN Refuse(t) ELSE Proceed(t, "write")

PatchMember(t) ==
  /\ At(t, "PatchMember", "write")
  /\ role' = [role EXCEPT ![tx[t].org][tx[t].who] = tx[t].as] /\ End(t)
  /\ UNCHANGED <<org, disabled, inv, steps>>

\* A member other than the requester would be left in no other live organization.
organizationDeleteWouldOrphanMember(p) ==
  \E u \in Users \ {p.by} :
    /\ role[p.org][u] # None
    /\ ~\E o \in Orgs \ {p.org} : role[o][u] # None /\ org[o] = "live"

probeDelete(t) ==
  /\ At(t, "DeleteOrganization", "decide")
  /\ IF organizationDeleteWouldOrphanMember(tx[t]) THEN Refuse(t) ELSE Proceed(t, "write")

DeleteOrganization(t) ==
  /\ At(t, "DeleteOrganization", "write")
  /\ org' = [org EXCEPT ![tx[t].org] = IF @ = "live" THEN "deleted" ELSE @] /\ End(t)
  /\ UNCHANGED <<role, disabled, inv, steps>>

-----------------------------------------------------------------------------
lockDeletedOrganization(t) ==
  LET o == tx[t].org
  IN  /\ At(t, "RestoreOrganization", "begin") /\ orgLock[o] = None
      /\ IF org[o] = "deleted" THEN Lock(t, o, "write") ELSE Refuse(t)

\* The role held when it was deleted decides.
RestoreOrganization(t) ==
  LET o == tx[t].org
  IN  /\ At(t, "RestoreOrganization", "write")
      /\ IF role[o][tx[t].by] \in AdminRoles /\ org[o] = "deleted"
         THEN org' = [org EXCEPT ![o] = "live"] /\ End(t) /\ UNCHANGED <<role, disabled, inv, steps>>
         ELSE Refuse(t)

(* The purge deletes what has been deleted for long; rows go by cascade.    *)
Sweep(o) ==
  /\ Acts /\ org[o] = "deleted" /\ orgLock[o] = None
  /\ \A i \in Invitations : inv[i].org = o => invLock[i] = None
  /\ \A t \in Txs, u \in Users : ~HoldsRow(t, o, u)
  /\ org' = [org EXCEPT ![o] = "none"] /\ role' = [role EXCEPT ![o] = [u \in Users |-> None]]
  /\ inv' = [i \in Invitations |-> IF inv[i].org = o THEN NoInvitation ELSE inv[i]]
  /\ UNCHANGED <<disabled, orgLock, invLock, tx>>

-----------------------------------------------------------------------------
(* Invitations.                                                             *)
lapse(i) ==
  /\ Acts /\ inv[i].status = "pending" /\ ~inv[i].lapsed /\ inv' = [inv EXCEPT ![i].lapsed = TRUE]
  /\ UNCHANGED <<org, role, disabled, orgLock, invLock, tx>>

Lapsed(o) == {i \in Invitations : inv[i].org = o /\ inv[i].status = "pending" /\ inv[i].lapsed}

authoriseCreation(t) ==
  /\ At(t, "CreateInvitation", "begin")
  /\ IF IsOrganizationAdmin(tx[t].by, tx[t].org) THEN Proceed(t, "members") ELSE Refuse(t)

checkMembers(t) ==
  /\ At(t, "CreateInvitation", "members")
  /\ IF role[tx[t].org][tx[t].who] # None THEN Refuse(t) ELSE Proceed(t, "write")

\* One pending invitation for an address (a unique index); the key share keeps the organization live.
CreateInvitation(t) ==
  LET o == tx[t].org
      pendingExists == \E i \in Invitations \ Lapsed(o) :
                         inv[i].org = o /\ inv[i].user = tx[t].who /\ inv[i].status = "pending"
      noIdLeft == \A i \in Invitations : inv[i].status # "unused"  \* bound
  IN  /\ At(t, "CreateInvitation", "write") /\ orgLock[o] = None /\ \A i \in Lapsed(o) : invLock[i] = None
      /\ IF pendingExists \/ noIdLeft \/ org[o] # "live" THEN Refuse(t)
         ELSE /\ \E i \in Invitations :
                   /\ inv[i].status = "unused"
                   /\ inv' = [j \in Invitations |->
                        IF j = i THEN [org |-> o, user |-> tx[t].who, role |-> tx[t].as, status |-> "pending", lapsed |-> FALSE]
                        ELSE IF j \in Lapsed(o) THEN [inv[j] EXCEPT !.status = "expired"] ELSE inv[j]]
              /\ End(t) /\ UNCHANGED <<org, role, disabled, steps>>

(* ResendInvitation and CancelInvitation are authorised for the             *)
(* organization of the invitation, and lock its row.                        *)
authoriseInvitation(t) ==
  LET o == inv[tx[t].inv].org
  IN  /\ tx[t].op \in {"ResendInvitation", "CancelInvitation"} /\ tx[t].pc = "begin"
      /\ IF o # None /\ IsOrganizationAdmin(tx[t].by, o) THEN Proceed(t, "lock") ELSE Refuse(t)

lockAnyInvitation(t) ==
  LET i == tx[t].inv
  IN  /\ tx[t].op \in {"ResendInvitation", "CancelInvitation"} /\ tx[t].pc = "lock" /\ invLock[i] = None
      /\ Goto(t, "write") /\ invLock' = [invLock EXCEPT ![i] = t]
      /\ UNCHANGED <<org, role, disabled, inv, orgLock, steps>>

lockInvitation(t) ==
  LET i == tx[t].inv
  IN  /\ tx[t].op \in {"ResendInvitation", "CancelInvitation"} /\ tx[t].pc = "lock" /\ invLock[i] = None
      /\ IF inv[i].status # "pending" THEN Refuse(t)
         ELSE /\ Goto(t, "write") /\ invLock' = [invLock EXCEPT ![i] = t]
              /\ UNCHANGED <<org, role, disabled, inv, orgLock, steps>>

ResendInvitation(t) ==
  LET i == tx[t].inv
  IN  /\ At(t, "ResendInvitation", "write") /\ orgLock[inv[i].org] = None
      /\ IF org[inv[i].org] # "live" THEN Refuse(t)
         ELSE inv' = [inv EXCEPT ![i].lapsed = FALSE] /\ End(t) /\ UNCHANGED <<org, role, disabled, steps>>

CancelInvitation(t) ==
  LET i == tx[t].inv
  IN  /\ At(t, "CancelInvitation", "write") /\ orgLock[inv[i].org] = None
      /\ inv' = [inv EXCEPT ![i].status = "cancelled"] /\ End(t)
      /\ UNCHANGED <<org, role, disabled, steps>>

\* loadInvitationForUpdate joins the organization, and locks both rows, the invitation's first.
loadInvitationForUpdate(t) ==
  LET i == tx[t].inv
  IN  /\ At(t, "AcceptInvitation", "begin") /\ invLock[i] = None
      /\ IF inv[i].org = None \/ org[inv[i].org] # "live" THEN Refuse(t)
         ELSE /\ Goto(t, "lock") /\ invLock' = [invLock EXCEPT ![i] = t]
              /\ UNCHANGED <<org, role, disabled, inv, orgLock, steps>>

\* FOR UPDATE OF the invitation alone.
lockNoOrganization(t) ==
  /\ At(t, "AcceptInvitation", "lock") /\ orgLock[inv[tx[t].inv].org] = None
  /\ Proceed(t, "write")

\* The predicate of the organization is evaluated again on the row as locked.
lockInvitedOrganization(t) ==
  LET o == inv[tx[t].inv].org
  IN  /\ At(t, "AcceptInvitation", "lock") /\ orgLock[o] = None
      /\ IF org[o] = "live" THEN Lock(t, o, "write") ELSE Refuse(t)

AcceptRefused(i, u) ==
  inv[i].status # "pending" \/ inv[i].lapsed \/ inv[i].user # u \/ role[inv[i].org][u] # None

AcceptInvitation(t) ==
  LET i == tx[t].inv
      u == tx[t].by
  IN  /\ At(t, "AcceptInvitation", "write")
      /\ IF AcceptRefused(i, u) THEN Refuse(t)
         ELSE /\ role' = [role EXCEPT ![inv[i].org][u] = inv[i].role]
              /\ inv' = [inv EXCEPT ![i].status = "accepted"] /\ End(t)
              /\ UNCHANGED <<org, disabled, steps>>

-----------------------------------------------------------------------------
(* DeactivateSelf.                                                          *)
lockOwnOrganizationMemberships(t) ==
  /\ At(t, "DeactivateSelf", "begin") /\ \A o \in Orgs : RowFree(t, o, tx[t].by)
  /\ Proceed(t, "probe")

isSoleOwnerOfAnyOrganization(u) == \E o \in Orgs : Owners(o) = {u}

probeDeactivation(t) ==
  /\ At(t, "DeactivateSelf", "probe")
  /\ IF isSoleOwnerOfAnyOrganization(tx[t].by) THEN Refuse(t) ELSE Proceed(t, "write")

DeactivateSelf(t) ==
  /\ At(t, "DeactivateSelf", "write") /\ disabled' = [disabled EXCEPT ![tx[t].by] = TRUE] /\ End(t)
  /\ UNCHANGED <<org, role, inv, steps>>

-----------------------------------------------------------------------------
Step(t) ==
  \/ lockOrganization(t) \/ requireOrganizationAdmin(t) \/ lockOrganizationMemberships(t)
  \/ decidePatch(t) \/ PatchMember(t) \/ probeDelete(t) \/ DeleteOrganization(t)
  \/ lockDeletedOrganization(t) \/ RestoreOrganization(t)
  \/ authoriseCreation(t) \/ checkMembers(t) \/ CreateInvitation(t)
  \/ authoriseInvitation(t) \/ lockInvitation(t) \/ ResendInvitation(t) \/ CancelInvitation(t)
  \/ loadInvitationForUpdate(t) \/ lockInvitedOrganization(t) \/ AcceptInvitation(t)
  \/ lockOwnOrganizationMemberships(t) \/ probeDeactivation(t) \/ DeactivateSelf(t)

Next ==
  \/ \E t \in Txs : begin(t)
  \/ \E t \in Txs : rollback(t)
  \/ \E t \in Txs : Step(t)
  \/ \E u \in Users, o \in Orgs : CreateOrganization(u, o)
  \/ \E o \in Orgs : Sweep(o)
  \/ \E i \in Invitations : lapse(i)

Spec == Init /\ [][Next]_vars

-----------------------------------------------------------------------------
TypeOK ==
  /\ org \in [Orgs -> {"none", "live", "deleted"}]
  /\ role \in [Orgs -> [Users -> Roles \cup {None}]]
  /\ disabled \in [Users -> BOOLEAN]
  /\ inv \in [Invitations -> [org : Orgs \cup {None}, user : Users \cup {None}, role : Roles \cup {None},
                              status : Statuses, lapsed : BOOLEAN]]
  /\ orgLock \in [Orgs -> Txs \cup {None}] /\ invLock \in [Invitations -> Txs \cup {None}]
  /\ tx \in [Txs -> [op : Ops \cup {None}, pc : Pcs, by : Users \cup {None}, org : Orgs \cup {None},
                    who : Users \cup {None}, as : Roles \cup {None}, inv : Invitations \cup {None}]]

(* An organization has an owner as long as it exists, though owners demote  *)
(* and remove one another, leave, are invited and deactivate themselves at  *)
(* the same time (organizations/service.go:342-390).                        *)
OwnerKept == \A o \in Orgs : org[o] # "none" => Owners(o) # {}

(* Nobody joins, and nobody is invited to, an organization that is deleted, *)
(* though it is deleted while the invitation is being accepted or written   *)
(* (organizations/service.go:538-553, 1317-1326).                           *)
JoinsAreLive ==
  [][\A o \in Orgs : (\/ \E u \in Users : role[o][u] = None /\ role'[o][u] # None
                      \/ \E i \in Invitations : inv[i].org # o /\ inv'[i].org = o) => org'[o] = "live"]_vars

(* An invitation is settled once: accepted, cancelled or expired, never two *)
(* of them, until it goes with its organization.                            *)
SettledOnce ==
  [][\A i \in Invitations :
       inv[i].status \in {"accepted", "cancelled", "expired"} => inv'[i].status \in {inv[i].status, "unused"}]_vars

(* Transactions never wait for one another in a circle, nor for one that   *)
(* is gone: the statements of a deletion, a patch, an invitation and an     *)
(* acceptance take the rows of organizations, memberships and invitations   *)
(* in orders that agree.                                                    *)
SomeoneMoves == (\E t \in Txs : tx[t] # Idle) => \E t \in Txs : ENABLED Step(t)

(* An organization has an owner who can sign in (the sole-owner guard,      *)
(* auth/service.go:155-163).                                                *)
EnabledOwner == \A o \in Orgs : org[o] = "live" => \E u \in Owners(o) : ~disabled[u]

(* A deletion leaves no other member without an organization                *)
(* (lifecycle-management/spec.md:106).                                      *)
NobodyOrphaned ==
  [][\A o \in Orgs : \A t \in Txs :
       (At(t, "DeleteOrganization", "write") /\ tx[t].org = o /\ org[o] = "live" /\ org'[o] = "deleted") =>
         \A u \in Users \ {tx[t].by} : role[o][u] # None => \E p \in Orgs : role'[p][u] # None /\ org'[p] = "live"]_vars
================================================================================
