----------------------------- MODULE BackendProofs -----------------------------
(***************************************************************************)
(* An organization keeps an owner, nobody joins a deleted one, and an      *)
(* invitation is settled once, for any number of users, organizations,     *)
(* invitations and transactions; and what is proved about the hub, beside  *)
(* which they run.                                                         *)
(*                                                                         *)
(* The argument is by rely and guarantee: a transaction knows something of *)
(* the rows it has locked (TxInv), every step of another one keeps what it *)
(* relies on (Others), and what it knows makes its own write safe.         *)
(***************************************************************************)
EXTENDS MCBackend, Integers, Sequences, FiniteSetTheorems, TLAPS

Locking == {"PatchMember", "DeleteOrganization"}
Answering == {"ResendInvitation", "CancelInvitation"}

(* The request names rows.                                                  *)
Aims(t) ==
  tx[t].pc # "idle" =>
    /\ tx[t].op \in Locking \cup {"RestoreOrganization"} => tx[t].org \in Orgs
    /\ tx[t].op = "PatchMember" => tx[t].who \in Users
    /\ tx[t].op \in Answering \cup {"AcceptInvitation"} => tx[t].inv \in Invitations

HoldsOrganization(t) ==
  /\ tx[t].op \in Locking /\ tx[t].pc \in {"authorise", "memberships", "decide", "write"} => orgLock[tx[t].org] = t
  /\ At(t, "RestoreOrganization", "write") => orgLock[tx[t].org] = t

(* What an answer to an invitation knows of it.                             *)
HoldsInvitation(t) ==
  LET i == tx[t].inv
  IN  /\ tx[t].op \in Answering /\ tx[t].pc = "write" => invLock[i] = t /\ inv[i].status = "pending"
      /\ tx[t].op = "AcceptInvitation" /\ tx[t].pc \in {"lock", "write"} => invLock[i] = t /\ inv[i].org \in Orgs
      /\ At(t, "AcceptInvitation", "write") => orgLock[inv[i].org] = t /\ org[inv[i].org] = "live"

(* What a change of a member knows of the organization.                     *)
LeavesAnOwner(t) ==
  At(t, "PatchMember", "write") =>
    /\ org[tx[t].org] = "live" /\ role[tx[t].org][tx[t].who] # None
    /\ tx[t].as = "owner" \/ \E v \in Owners(tx[t].org) : v # tx[t].who

TxInv(t) == Aims(t) /\ HoldsOrganization(t) /\ HoldsInvitation(t) /\ LeavesAnOwner(t)

Named == \A i \in Invitations : inv[i].status = "unused" => inv[i].org = None

(* The inductive invariant.                                                 *)
IInv == TypeOK /\ OwnerKept /\ Named /\ \A t \in Txs : TxInv(t)

(* What transaction s relies on in a step of another.                       *)
Others(s) ==
  /\ tx'[s] = tx[s]
  /\ \A o \in Orgs : orgLock[o] = s =>
       /\ orgLock'[o] = s /\ org'[o] = org[o]
       /\ \A u \in Users : role[o][u] # None => role'[o][u] = role[o][u]
  /\ \A i \in Invitations : invLock[i] = s =>
       invLock'[i] = s /\ inv'[i].org = inv[i].org /\ inv'[i].status = inv[i].status

(* A transaction whose reliance is kept knows what it knew.                 *)
LEMMA Reliance ==
  ASSUME IInv, NEW s \in Txs, Others(s)
  PROVE  TxInv(s)'
<1> DEFINE i == tx[s].inv
           o == tx[s].org
<1>0. None \notin Roles
  BY OrganizationsAssumption DEF Roles
<1>1. Aims(s)'
  BY DEF IInv, TxInv, Aims, Others
<1>2. HoldsOrganization(s)'
  BY DEF IInv, TxInv, Aims, HoldsOrganization, Others, At, Locking
<1>3. HoldsInvitation(s)'
  BY DEF IInv, TxInv, Aims, HoldsInvitation, Others, At, Answering
<1>4. LeavesAnOwner(s)'
  <2> SUFFICES ASSUME At(s, "PatchMember", "write")
               PROVE  LeavesAnOwner(s)'
    BY DEF LeavesAnOwner, Others, At
  <2>1. o \in Orgs /\ tx[s].who \in Users /\ orgLock[o] = s
    BY DEF IInv, TxInv, Aims, HoldsOrganization, At, Locking
  <2>2. org'[o] = org[o] /\ \A u \in Users : role[o][u] # None => role'[o][u] = role[o][u]
    BY <2>1 DEF Others
  <2>3. /\ org[o] = "live" /\ role[o][tx[s].who] # None
        /\ tx[s].as = "owner" \/ \E v \in Users : role[o][v] = "owner" /\ v # tx[s].who
    BY DEF IInv, TxInv, LeavesAnOwner, Owners
  <2>4. "owner" # None
    BY <1>0 DEF Roles
  <2> QED BY <2>1, <2>2, <2>3, <2>4 DEF LeavesAnOwner, Owners, Others, At
<1> QED BY <1>1, <1>2, <1>3, <1>4 DEF TxInv

(* The end of a transaction frees its own locks and no others.              *)
LEMMA EndFrees ==
  ASSUME TypeOK, NEW t \in Txs, End(t)
  PROVE  /\ tx' \in [Txs -> [op : Ops \cup {None}, pc : Pcs, by : Users \cup {None}, org : Orgs \cup {None},
                             who : Users \cup {None}, as : Roles \cup {None}, inv : Invitations \cup {None}]]
         /\ orgLock' \in [Orgs -> Txs \cup {None}] /\ invLock' \in [Invitations -> Txs \cup {None}]
         /\ tx'[t].pc = "idle" /\ \A s \in Txs \ {t} : tx'[s] = tx[s]
         /\ \A s \in Txs \ {t} : /\ \A o \in Orgs : orgLock[o] = s => orgLock'[o] = s
                                 /\ \A i \in Invitations : invLock[i] = s => invLock'[i] = s
<1>1. Idle \in [op : Ops \cup {None}, pc : Pcs, by : Users \cup {None}, org : Orgs \cup {None},
                who : Users \cup {None}, as : Roles \cup {None}, inv : Invitations \cup {None}]
  BY DEF Idle, Pcs
<1> QED BY <1>1 DEF End, TypeOK, Idle

(* A transaction that is over knows nothing.                                *)
LEMMA IdleKnowsNothing ==
  ASSUME NEW t, tx'[t].pc = "idle"
  PROVE  TxInv(t)'
BY DEF TxInv, Aims, HoldsOrganization, HoldsInvitation, LeavesAnOwner, At

(* A step of a transaction to its next statement.                           *)
LEMMA GotoGoes ==
  ASSUME TypeOK, NEW t \in Txs, NEW pc \in Pcs, Goto(t, pc)
  PROVE  /\ tx' \in [Txs -> [op : Ops \cup {None}, pc : Pcs, by : Users \cup {None}, org : Orgs \cup {None},
                             who : Users \cup {None}, as : Roles \cup {None}, inv : Invitations \cup {None}]]
         /\ \A s \in Txs \ {t} : tx'[s] = tx[s]
         /\ tx'[t].pc = pc /\ tx'[t].op = tx[t].op /\ tx'[t].org = tx[t].org /\ tx'[t].who = tx[t].who
         /\ tx'[t].as = tx[t].as /\ tx'[t].inv = tx[t].inv
<1>1. /\ tx[t] \in [op : Ops \cup {None}, pc : Pcs, by : Users \cup {None}, org : Orgs \cup {None},
                    who : Users \cup {None}, as : Roles \cup {None}, inv : Invitations \cup {None}]
      /\ [tx[t] EXCEPT !.pc = pc] \in [op : Ops \cup {None}, pc : Pcs, by : Users \cup {None}, org : Orgs \cup {None},
                    who : Users \cup {None}, as : Roles \cup {None}, inv : Invitations \cup {None}]
  BY ZenonT(60) DEF TypeOK
<1> QED BY <1>1 DEF Goto, TypeOK

(* A refusal writes nothing.                                                *)
LEMMA RefuseKeeps ==
  ASSUME IInv, NEW t \in Txs, Refuse(t)
  PROVE  IInv'
<1>1. End(t) /\ UNCHANGED <<org, role, disabled, inv>>
  BY DEF Refuse
<1>2. TypeOK'
  BY <1>1, EndFrees DEF IInv, TypeOK
<1>3. OwnerKept' /\ Named'
  BY <1>1 DEF IInv, OwnerKept, Named, Owners
<1>4. ASSUME NEW s \in Txs \ {t} PROVE TxInv(s)'
  <2>1. Others(s)
    BY <1>1, EndFrees DEF IInv, Others
  <2> QED BY <2>1, Reliance
<1>5. TxInv(t)'
  BY <1>1, EndFrees, IdleKnowsNothing DEF IInv
<1> QED BY <1>2, <1>3, <1>4, <1>5 DEF IInv

(* A step that only reads, to a statement at which nothing new is known.    *)
LEMMA ProceedKeeps ==
  ASSUME IInv, NEW t \in Txs, NEW pc \in Pcs, Proceed(t, pc), TxInv(t)'
  PROVE  IInv'
<1>1. Goto(t, pc) /\ UNCHANGED <<org, role, disabled, inv, orgLock, invLock>>
  BY DEF Proceed
<1>2. TypeOK'
  BY <1>1, GotoGoes DEF IInv, TypeOK
<1>3. OwnerKept' /\ Named'
  BY <1>1 DEF IInv, OwnerKept, Named, Owners
<1>4. ASSUME NEW s \in Txs \ {t} PROVE TxInv(s)'
  <2>1. Others(s)
    BY <1>1, GotoGoes DEF IInv, Others
  <2> QED BY <2>1, Reliance
<1> QED BY <1>2, <1>3, <1>4 DEF IInv

(* A free row of an organization is locked.                                 *)
LEMMA LockKeeps ==
  ASSUME IInv, NEW t \in Txs, NEW pc \in Pcs, NEW o \in Orgs, orgLock[o] = None, Lock(t, o, pc), TxInv(t)'
  PROVE  IInv'
<1>1. /\ Goto(t, pc) /\ orgLock' = [orgLock EXCEPT ![o] = t]
      /\ UNCHANGED <<org, role, disabled, inv, invLock>>
  BY DEF Lock
<1>2. TypeOK'
  BY <1>1, GotoGoes DEF IInv, TypeOK
<1>3. OwnerKept' /\ Named'
  BY <1>1 DEF IInv, OwnerKept, Named, Owners
<1>4. ASSUME NEW s \in Txs \ {t} PROVE TxInv(s)'
  <2>1. s # None
    BY OrganizationsAssumption
  <2>2. Others(s)
    BY <1>1, <2>1, GotoGoes DEF IInv, Others, TypeOK
  <2> QED BY <2>2, Reliance
<1> QED BY <1>2, <1>3, <1>4 DEF IInv

(* A free row of an invitation is locked.                                   *)
LEMMA InvLockKeeps ==
  ASSUME IInv, NEW t \in Txs, NEW pc \in Pcs, NEW i \in Invitations, invLock[i] = None, Goto(t, pc),
         invLock' = [invLock EXCEPT ![i] = t], UNCHANGED <<org, role, disabled, inv, orgLock>>, TxInv(t)'
  PROVE  IInv'
<1>2. TypeOK'
  BY GotoGoes DEF IInv, TypeOK
<1>3. OwnerKept' /\ Named'
  BY DEF IInv, OwnerKept, Named, Owners
<1>4. ASSUME NEW s \in Txs \ {t} PROVE TxInv(s)'
  <2>1. s # None
    BY OrganizationsAssumption
  <2>2. Others(s)
    BY <2>1, GotoGoes DEF IInv, Others, TypeOK
  <2> QED BY <2>2, Reliance
<1> QED BY <1>2, <1>3, <1>4 DEF IInv

(* Every transaction knows something of the rows it has locked.             *)
LEMMA InitKnows == Init => IInv
<1> SUFFICES ASSUME Init PROVE IInv
  OBVIOUS
<1>1. TypeOK
  BY DEF Init, TypeOK, LegalRoles, Idle, NoInvitation, Statuses, Pcs
<1>2. OwnerKept
  <2> SUFFICES ASSUME NEW o \in Orgs, org[o] # "none" PROVE Owners(o) # {}
    BY DEF OwnerKept
  <2>1. role[o] \in LegalRoles
    BY DEF Init
  <2> QED BY <2>1 DEF LegalRoles, Owners
<1>3. Named
  BY DEF Init, Named, NoInvitation
<1>4. \A t \in Txs : TxInv(t)
  BY DEF Init, Idle, TxInv, Aims, HoldsOrganization, HoldsInvitation, LeavesAnOwner, At
<1> QED BY <1>1, <1>2, <1>3, <1>4 DEF IInv

(* The steps of PatchMember and DeleteOrganization, of RestoreOrganization. *)
LEMMA MemberStepsKeep ==
  ASSUME IInv, NEW t \in Txs,
         \/ lockOrganization(t) \/ requireOrganizationAdmin(t) \/ lockOrganizationMemberships(t)
         \/ decidePatch(t) \/ probeDelete(t) \/ lockDeletedOrganization(t)
  PROVE  IInv'
<1> USE DEF Pcs
<1>0. TypeOK /\ TxInv(t) /\ OwnerKept
  BY DEF IInv
<1>1. CASE lockOrganization(t)
  <2> DEFINE o == tx[t].org
  <2>1. tx[t].op \in Locking /\ tx[t].pc = "begin" /\ orgLock[o] = None /\ o \in Orgs
    BY <1>0, <1>1 DEF lockOrganization, TxInv, Aims, Locking
  <2>2. CASE Refuse(t)
    BY <2>2, RefuseKeeps
  <2>3. CASE Lock(t, o, "authorise")
    <3>1. TxInv(t)'
      BY <1>0, <2>1, <2>3, GotoGoes
      DEF Lock, TypeOK, TxInv, Aims, HoldsOrganization, HoldsInvitation, LeavesAnOwner, At, Locking, Answering
    <3> QED BY <2>1, <2>3, <3>1, LockKeeps
  <2> QED BY <1>1, <2>2, <2>3 DEF lockOrganization
<1>2. CASE requireOrganizationAdmin(t)
  <2>1. CASE Refuse(t)
    BY <2>1, RefuseKeeps
  <2>2. CASE Proceed(t, "memberships")
    <3>1. TxInv(t)'
      BY <1>0, <1>2, <2>2, GotoGoes
      DEF requireOrganizationAdmin, Proceed, TxInv, Aims, HoldsOrganization, HoldsInvitation, LeavesAnOwner, At, Locking, Answering
    <3> QED BY <2>2, <3>1, ProceedKeeps
  <2> QED BY <1>2, <2>1, <2>2 DEF requireOrganizationAdmin
<1>3. CASE lockOrganizationMemberships(t)
  <2>1. Proceed(t, "decide")
    BY <1>3 DEF lockOrganizationMemberships
  <2>2. TxInv(t)'
    BY <1>0, <1>3, <2>1, GotoGoes
    DEF lockOrganizationMemberships, Proceed, TxInv, Aims, HoldsOrganization, HoldsInvitation, LeavesAnOwner, At, Locking, Answering
  <2> QED BY <2>1, <2>2, ProceedKeeps
<1>4. CASE decidePatch(t)
  <2> DEFINE o == tx[t].org
             u == tx[t].who
  <2>1. CASE Refuse(t)
    BY <2>1, RefuseKeeps
  <2>2. CASE ~PatchRefused(tx[t]) /\ Proceed(t, "write")
    <3>1. tx[t].op = "PatchMember" /\ tx[t].pc = "decide" /\ o \in Orgs /\ u \in Users
      BY <1>0, <1>4 DEF decidePatch, At, TxInv, Aims, Locking
    <3>2. role[o][u] # None /\ org[o] = "live"
      BY <2>2 DEF PatchRefused
    <3>3. tx[t].as = "owner" \/ \E v \in Owners(o) : v # u
      <4> SUFFICES ASSUME tx[t].as # "owner" PROVE \E v \in Owners(o) : v # u
        OBVIOUS
      <4>1. Owners(o) # {}
        BY <1>0, <3>1, <3>2 DEF OwnerKept
      <4>2. role[o][u] # "owner" \/ Cardinality(Owners(o)) # 1
        BY <2>2 DEF PatchRefused
      <4>3. CASE role[o][u] # "owner"
        BY <4>1, <4>3 DEF Owners
      <4>4. CASE Cardinality(Owners(o)) # 1
        <5>1. Cardinality({u}) = 1
          BY FS_Singleton
        <5>2. Owners(o) # {u}
          BY <4>4, <5>1
        <5> QED BY <4>1, <5>2
      <4> QED BY <4>2, <4>3, <4>4
    <3>4. TxInv(t)'
      BY <1>0, <2>2, <3>1, <3>2, <3>3, GotoGoes
      DEF Proceed, Owners, TxInv, Aims, HoldsOrganization, HoldsInvitation, LeavesAnOwner, At, Locking, Answering
    <3> QED BY <2>2, <3>4, ProceedKeeps
  <2> QED BY <1>4, <2>1, <2>2 DEF decidePatch
<1>5. CASE probeDelete(t)
  <2>1. CASE Refuse(t)
    BY <2>1, RefuseKeeps
  <2>2. CASE Proceed(t, "write")
    <3>1. TxInv(t)'
      BY <1>0, <1>5, <2>2, GotoGoes
      DEF probeDelete, Proceed, TxInv, Aims, HoldsOrganization, HoldsInvitation, LeavesAnOwner, At, Locking, Answering
    <3> QED BY <2>2, <3>1, ProceedKeeps
  <2> QED BY <1>5, <2>1, <2>2 DEF probeDelete
<1>6. CASE lockDeletedOrganization(t)
  <2> DEFINE o == tx[t].org
  <2>1. tx[t].op = "RestoreOrganization" /\ tx[t].pc = "begin" /\ orgLock[o] = None /\ o \in Orgs
    BY <1>0, <1>6 DEF lockDeletedOrganization, At, TxInv, Aims
  <2>2. CASE Refuse(t)
    BY <2>2, RefuseKeeps
  <2>3. CASE Lock(t, o, "write")
    <3>1. TxInv(t)'
      BY <1>0, <2>1, <2>3, GotoGoes
      DEF Lock, TypeOK, TxInv, Aims, HoldsOrganization, HoldsInvitation, LeavesAnOwner, At, Locking, Answering
    <3> QED BY <2>1, <2>3, <3>1, LockKeeps
  <2> QED BY <1>6, <2>2, <2>3 DEF lockDeletedOrganization
<1> QED BY <1>1, <1>2, <1>3, <1>4, <1>5, <1>6

(* The reads of the invitations' requests and of DeactivateSelf.            *)
LEMMA InvitationStepsKeep ==
  ASSUME IInv, NEW t \in Txs,
         \/ authoriseCreation(t) \/ checkMembers(t) \/ authoriseInvitation(t) \/ lockInvitation(t)
         \/ loadInvitationForUpdate(t) \/ lockInvitedOrganization(t)
         \/ lockOwnOrganizationMemberships(t) \/ probeDeactivation(t)
  PROVE  IInv'
<1> USE DEF Pcs
<1>0. TypeOK /\ TxInv(t) /\ OwnerKept
  BY DEF IInv
<1>1. CASE authoriseCreation(t)
  <2>1. CASE Refuse(t)
    BY <2>1, RefuseKeeps
  <2>2. CASE Proceed(t, "members")
    <3>1. TxInv(t)'
      BY <1>0, <1>1, <2>2, GotoGoes
      DEF authoriseCreation, Proceed, TxInv, Aims, HoldsOrganization, HoldsInvitation, LeavesAnOwner, At, Locking, Answering
    <3> QED BY <2>2, <3>1, ProceedKeeps
  <2> QED BY <1>1, <2>1, <2>2 DEF authoriseCreation
<1>2. CASE checkMembers(t)
  <2>1. CASE Refuse(t)
    BY <2>1, RefuseKeeps
  <2>2. CASE Proceed(t, "write")
    <3>1. TxInv(t)'
      BY <1>0, <1>2, <2>2, GotoGoes
      DEF checkMembers, Proceed, TxInv, Aims, HoldsOrganization, HoldsInvitation, LeavesAnOwner, At, Locking, Answering
    <3> QED BY <2>2, <3>1, ProceedKeeps
  <2> QED BY <1>2, <2>1, <2>2 DEF checkMembers
<1>3. CASE authoriseInvitation(t)
  <2>1. CASE Refuse(t)
    BY <2>1, RefuseKeeps
  <2>2. CASE Proceed(t, "lock")
    <3>1. TxInv(t)'
      BY <1>0, <1>3, <2>2, GotoGoes
      DEF authoriseInvitation, Proceed, TxInv, Aims, HoldsOrganization, HoldsInvitation, LeavesAnOwner, At, Locking, Answering
    <3> QED BY <2>2, <3>1, ProceedKeeps
  <2> QED BY <1>3, <2>1, <2>2 DEF authoriseInvitation
<1>4. CASE lockInvitation(t)
  <2> DEFINE i == tx[t].inv
  <2>1. tx[t].op \in Answering /\ tx[t].pc = "lock" /\ invLock[i] = None /\ i \in Invitations
    BY <1>0, <1>4 DEF lockInvitation, TxInv, Aims, Answering
  <2>2. CASE Refuse(t)
    BY <2>2, RefuseKeeps
  <2>3. CASE /\ inv[i].status = "pending" /\ Goto(t, "write") /\ invLock' = [invLock EXCEPT ![i] = t]
             /\ UNCHANGED <<org, role, disabled, inv, orgLock, steps>>
    <3>1. TxInv(t)'
      BY <1>0, <2>1, <2>3, GotoGoes
      DEF TypeOK, TxInv, Aims, HoldsOrganization, HoldsInvitation, LeavesAnOwner, At, Locking, Answering
    <3> QED BY <2>1, <2>3, <3>1, InvLockKeeps
  <2> QED BY <1>4, <2>2, <2>3 DEF lockInvitation
<1>5. CASE loadInvitationForUpdate(t)
  <2> DEFINE i == tx[t].inv
  <2>1. tx[t].op = "AcceptInvitation" /\ tx[t].pc = "begin" /\ invLock[i] = None /\ i \in Invitations
    BY <1>0, <1>5 DEF loadInvitationForUpdate, At, TxInv, Aims, Answering
  <2>2. CASE Refuse(t)
    BY <2>2, RefuseKeeps
  <2>3. CASE /\ inv[i].org # None /\ Goto(t, "lock") /\ invLock' = [invLock EXCEPT ![i] = t]
             /\ UNCHANGED <<org, role, disabled, inv, orgLock, steps>>
    <3>0. inv[i].org \in Orgs
      BY <1>0, <2>1, <2>3 DEF TypeOK
    <3>1. TxInv(t)'
      BY <1>0, <2>1, <2>3, <3>0, GotoGoes
      DEF TypeOK, TxInv, Aims, HoldsOrganization, HoldsInvitation, LeavesAnOwner, At, Locking, Answering
    <3> QED BY <2>1, <2>3, <3>1, InvLockKeeps
  <2> QED BY <1>5, <2>2, <2>3 DEF loadInvitationForUpdate
<1>6. CASE lockInvitedOrganization(t)
  <2> DEFINE o == inv[tx[t].inv].org
  <2>1. tx[t].op = "AcceptInvitation" /\ tx[t].pc = "lock" /\ orgLock[o] = None /\ o \in Orgs
    BY <1>0, <1>6 DEF lockInvitedOrganization, At, TxInv, HoldsInvitation
  <2>2. CASE Refuse(t)
    BY <2>2, RefuseKeeps
  <2>3. CASE org[o] = "live" /\ Lock(t, o, "write")
    <3>1. TxInv(t)'
      BY <1>0, <2>1, <2>3, GotoGoes
      DEF Lock, TypeOK, TxInv, Aims, HoldsOrganization, HoldsInvitation, LeavesAnOwner, At, Locking, Answering
    <3> QED BY <2>1, <2>3, <3>1, LockKeeps
  <2> QED BY <1>6, <2>2, <2>3 DEF lockInvitedOrganization
<1>7. CASE lockOwnOrganizationMemberships(t)
  <2>1. Proceed(t, "probe")
    BY <1>7 DEF lockOwnOrganizationMemberships
  <2>2. TxInv(t)'
    BY <1>0, <1>7, <2>1, GotoGoes
    DEF lockOwnOrganizationMemberships, Proceed, TxInv, Aims, HoldsOrganization, HoldsInvitation, LeavesAnOwner, At, Locking, Answering
  <2> QED BY <2>1, <2>2, ProceedKeeps
<1>8. CASE probeDeactivation(t)
  <2>1. CASE Refuse(t)
    BY <2>1, RefuseKeeps
  <2>2. CASE Proceed(t, "write")
    <3>1. TxInv(t)'
      BY <1>0, <1>8, <2>2, GotoGoes
      DEF probeDeactivation, Proceed, TxInv, Aims, HoldsOrganization, HoldsInvitation, LeavesAnOwner, At, Locking, Answering
    <3> QED BY <2>2, <3>1, ProceedKeeps
  <2> QED BY <1>8, <2>1, <2>2 DEF probeDeactivation
<1> QED BY <1>1, <1>2, <1>3, <1>4, <1>5, <1>6, <1>7, <1>8

(* The writes: each one is safe for what its own transaction knows, and     *)
(* touches nothing another one has locked.                                  *)
LEMMA WriteKeeps ==
  ASSUME IInv, NEW t \in Txs, End(t), TypeOK', OwnerKept', Named',
         \A s \in Txs \ {t} :
           /\ \A o \in Orgs : orgLock[o] = s =>
                org'[o] = org[o] /\ \A u \in Users : role[o][u] # None => role'[o][u] = role[o][u]
           /\ \A i \in Invitations : invLock[i] = s => inv'[i].org = inv[i].org /\ inv'[i].status = inv[i].status
  PROVE  IInv'
<1>1. ASSUME NEW s \in Txs \ {t} PROVE TxInv(s)'
  <2>1. Others(s)
    BY EndFrees DEF IInv, Others
  <2> QED BY <2>1, Reliance
<1>2. TxInv(t)'
  BY EndFrees, IdleKnowsNothing DEF IInv
<1> QED BY <1>1, <1>2 DEF IInv

LEMMA WritesKeep ==
  ASSUME IInv, NEW t \in Txs,
         \/ PatchMember(t) \/ DeleteOrganization(t) \/ RestoreOrganization(t) \/ DeactivateSelf(t)
  PROVE  IInv'
<1>0. TypeOK /\ TxInv(t) /\ OwnerKept /\ Named
  BY DEF IInv
<1>1. CASE PatchMember(t)
  <2> DEFINE o == tx[t].org
             u == tx[t].who
  <2>1. /\ o \in Orgs /\ u \in Users /\ orgLock[o] = t /\ org[o] = "live" /\ role[o][u] # None
        /\ tx[t].as = "owner" \/ \E v \in Owners(o) : v # u
    BY <1>0, <1>1 DEF PatchMember, TxInv, Aims, HoldsOrganization, LeavesAnOwner, At, Locking
  <2>2. role' = [role EXCEPT ![o][u] = tx[t].as] /\ End(t) /\ UNCHANGED <<org, disabled, inv>>
    BY <1>1 DEF PatchMember
  <2>3. TypeOK'
    BY <1>0, <2>1, <2>2, EndFrees DEF TypeOK
  <2>4. OwnerKept'
    <3> SUFFICES ASSUME NEW p \in Orgs, org'[p] # "none" PROVE Owners(p)' # {}
      BY DEF OwnerKept
    <3>1. CASE p = o
      BY <1>0, <2>1, <2>2, <3>1 DEF Owners, TypeOK
    <3>2. CASE p # o
      BY <1>0, <2>2, <3>2 DEF Owners, TypeOK, OwnerKept
    <3> QED BY <3>1, <3>2
  <2>5. Named'
    BY <1>0, <2>2 DEF Named
  <2>6. \A p \in Orgs \ {o} : role'[p] = role[p]
    BY <1>0, <2>2 DEF TypeOK
  <2>7. \A s \in Txs \ {t} : \A p \in Orgs : orgLock[p] = s => p # o
    BY <2>1
  <2> QED BY <2>2, <2>3, <2>4, <2>5, <2>6, <2>7, WriteKeeps
<1>2. CASE DeleteOrganization(t)
  <2> DEFINE o == tx[t].org
  <2>1. o \in Orgs /\ orgLock[o] = t
    BY <1>0, <1>2 DEF DeleteOrganization, TxInv, Aims, HoldsOrganization, At, Locking
  <2>2. /\ org' = [org EXCEPT ![o] = IF @ = "live" THEN "deleted" ELSE @]
        /\ End(t) /\ UNCHANGED <<role, disabled, inv>>
    BY <1>2 DEF DeleteOrganization
  <2>3. TypeOK'
    BY <1>0, <2>1, <2>2, EndFrees DEF TypeOK
  <2>4. OwnerKept' /\ Named'
    BY <1>0, <2>1, <2>2 DEF Owners, TypeOK, OwnerKept, Named
  <2>5. \A s \in Txs \ {t} : \A p \in Orgs : orgLock[p] = s => org'[p] = org[p]
    BY <1>0, <2>1, <2>2 DEF TypeOK
  <2> QED BY <2>2, <2>3, <2>4, <2>5, WriteKeeps
<1>3. CASE RestoreOrganization(t)
  <2> DEFINE o == tx[t].org
  <2>1. o \in Orgs /\ orgLock[o] = t
    BY <1>0, <1>3 DEF RestoreOrganization, TxInv, Aims, HoldsOrganization, At
  <2>2. CASE Refuse(t)
    BY <2>2, RefuseKeeps
  <2>3. CASE org[o] = "deleted" /\ org' = [org EXCEPT ![o] = "live"] /\ End(t) /\ UNCHANGED <<role, disabled, inv, steps>>
    <3>1. TypeOK'
      BY <1>0, <2>1, <2>3, EndFrees DEF TypeOK
    <3>2. OwnerKept' /\ Named'
      BY <1>0, <2>1, <2>3 DEF Owners, TypeOK, OwnerKept, Named
    <3>3. \A s \in Txs \ {t} : \A p \in Orgs : orgLock[p] = s => org'[p] = org[p]
      BY <1>0, <2>1, <2>3 DEF TypeOK
    <3> QED BY <2>3, <3>1, <3>2, <3>3, WriteKeeps
  <2> QED BY <1>3, <2>2, <2>3 DEF RestoreOrganization
<1>4. CASE DeactivateSelf(t)
  <2>1. disabled' = [disabled EXCEPT ![tx[t].by] = TRUE] /\ End(t) /\ UNCHANGED <<org, role, inv>>
    BY <1>4 DEF DeactivateSelf
  <2>2. TypeOK'
    BY <1>0, <2>1, EndFrees DEF TypeOK
  <2>3. OwnerKept' /\ Named'
    BY <1>0, <2>1 DEF Owners, OwnerKept, Named
  <2> QED BY <2>1, <2>2, <2>3, WriteKeeps
<1> QED BY <1>1, <1>2, <1>3, <1>4

(* The type of an invitation, and of one with a field changed.              *)
Invitation == [org : Orgs \cup {None}, user : Users \cup {None}, role : Roles \cup {None}, status : Statuses, lapsed : BOOLEAN]

LEMMA InvitationFields ==
  ASSUME NEW r \in Invitation
  PROVE  /\ \A x \in Statuses : [r EXCEPT !.status = x] \in Invitation
         /\ \A y \in BOOLEAN : [r EXCEPT !.lapsed = y] \in Invitation
BY DEF Invitation

(* The writes to the invitations.                                           *)
LEMMA InvitationWritesKeep ==
  ASSUME IInv, NEW t \in Txs,
         \/ CreateInvitation(t) \/ ResendInvitation(t) \/ CancelInvitation(t) \/ AcceptInvitation(t)
  PROVE  IInv'
<1>0. TypeOK /\ TxInv(t) /\ OwnerKept /\ Named
  BY DEF IInv
<1>1. None \notin Txs /\ None \notin Orgs /\ None \notin Roles
  BY OrganizationsAssumption DEF Roles
<1>2. CASE CreateInvitation(t)
  <2> DEFINE o == tx[t].org
  <2>1. CASE Refuse(t)
    BY <2>1, RefuseKeeps
  <2>2. CASE ~Refuse(t)
    <3>1. PICK i \in Invitations :
            /\ inv[i].status = "unused"
            /\ inv' = [j \in Invitations |->
                 IF j = i THEN [org |-> o, user |-> tx[t].who, role |-> tx[t].as, status |-> "pending", lapsed |-> FALSE]
                 ELSE IF j \in Lapsed(o) THEN [inv[j] EXCEPT !.status = "expired"] ELSE inv[j]]
      BY <1>2, <2>2 DEF CreateInvitation
    <3>2. End(t) /\ UNCHANGED <<org, role, disabled>> /\ \A j \in Lapsed(o) : invLock[j] = None
      BY <1>2, <2>2 DEF CreateInvitation
    <3>3. TypeOK'
      <4>1. inv \in [Invitations -> Invitation] /\ tx[t].as \in Roles \cup {None}
            /\ tx[t].org \in Orgs \cup {None} /\ tx[t].who \in Users \cup {None}
        BY <1>0 DEF TypeOK, Invitation
      <4>2. "pending" \in Statuses /\ "expired" \in Statuses
        BY DEF Statuses
      <4>3. [org |-> o, user |-> tx[t].who, role |-> tx[t].as, status |-> "pending", lapsed |-> FALSE] \in Invitation
        BY <4>1, <4>2 DEF Invitation
      <4>4. \A j \in Invitations : [inv[j] EXCEPT !.status = "expired"] \in Invitation
        BY <4>1, <4>2, InvitationFields
      <4>5. inv' \in [Invitations -> Invitation]
        BY <3>1, <4>1, <4>3, <4>4
      <4> QED BY <1>0, <3>2, <4>5, EndFrees DEF TypeOK, Invitation
    <3>4. OwnerKept' /\ Named'
      BY <1>0, <3>1, <3>2 DEF TypeOK, Owners, OwnerKept, Named, Lapsed
    <3>5. \A s \in Txs \ {t} : \A j \in Invitations : invLock[j] = s => j \notin Lapsed(o)
      BY <1>1, <3>2
    <3>6. ASSUME NEW s \in Txs \ {t} PROVE TxInv(s)'
      <4> DEFINE k == tx[s].inv
      <4>1. tx'[s] = tx[s] /\ TxInv(s)
        BY <1>0, <3>2, EndFrees DEF IInv
      <4>2. Aims(s)' /\ HoldsOrganization(s)'
        BY <4>1, <3>2, <1>0, EndFrees
        DEF TxInv, Aims, HoldsOrganization, At, Locking, Answering
      <4>3. LeavesAnOwner(s)'
        BY <4>1, <3>2 DEF TxInv, LeavesAnOwner, At, Owners
      <4>4. ASSUME k \in Invitations, invLock[k] = s, inv[k].status = "pending" \/ inv[k].org \in Orgs
            PROVE  inv'[k] = inv[k] /\ invLock'[k] = s
        <5>1. k # i
          BY <1>0, <1>1, <3>1, <4>4 DEF Named
        <5>2. k \notin Lapsed(o)
          BY <3>5, <4>4
        <5> QED BY <1>0, <3>1, <3>2, <4>4, <5>1, <5>2, EndFrees
      <4>5. HoldsInvitation(s)'
        <5>1. \A p \in Orgs : orgLock[p] = s => orgLock'[p] = s
          BY <1>0, <3>2, EndFrees
        <5> QED BY <3>2, <4>1, <4>4, <5>1 DEF TxInv, HoldsInvitation, Aims, At, Answering
      <4> QED BY <4>2, <4>3, <4>5 DEF TxInv
    <3>7. TxInv(t)'
      BY <1>0, <3>2, EndFrees, IdleKnowsNothing
    <3> QED BY <3>3, <3>4, <3>6, <3>7 DEF IInv
  <2> QED BY <2>1, <2>2
<1>3. CASE ResendInvitation(t)
  <2> DEFINE i == tx[t].inv
  <2>1. CASE Refuse(t)
    BY <2>1, RefuseKeeps
  <2>2. CASE inv' = [inv EXCEPT ![i].lapsed = FALSE] /\ End(t) /\ UNCHANGED <<org, role, disabled, steps>>
    <3>1. TypeOK'
      <4>1. inv \in [Invitations -> Invitation]
        BY <1>0 DEF TypeOK, Invitation
      <4>2. \A j \in Invitations : [inv[j] EXCEPT !.lapsed = FALSE] \in Invitation
        BY <4>1, InvitationFields
      <4>3. inv' \in [Invitations -> Invitation]
        BY <2>2, <4>1, <4>2
      <4> QED BY <1>0, <2>2, <4>3, EndFrees DEF TypeOK, Invitation
    <3>2. \A j \in Invitations : inv'[j].org = inv[j].org /\ inv'[j].status = inv[j].status
      BY <1>0, <2>2 DEF TypeOK
    <3>3. OwnerKept' /\ Named'
      BY <1>0, <2>2, <3>2 DEF Owners, OwnerKept, Named
    <3> QED BY <2>2, <3>1, <3>2, <3>3, WriteKeeps
  <2> QED BY <1>3, <2>1, <2>2 DEF ResendInvitation
<1>4. CASE CancelInvitation(t)
  <2> DEFINE i == tx[t].inv
  <2>1. i \in Invitations /\ invLock[i] = t /\ inv[i].status = "pending"
    BY <1>0, <1>4 DEF CancelInvitation, TxInv, Aims, HoldsInvitation, At, Answering
  <2>2. inv' = [inv EXCEPT ![i].status = "cancelled"] /\ End(t) /\ UNCHANGED <<org, role, disabled>>
    BY <1>4 DEF CancelInvitation
  <2>3. TypeOK'
    <3>1. inv \in [Invitations -> Invitation]
      BY <1>0 DEF TypeOK, Invitation
    <3>2. \A j \in Invitations : [inv[j] EXCEPT !.status = "cancelled"] \in Invitation
      BY <3>1, InvitationFields DEF Statuses
    <3>3. inv' \in [Invitations -> Invitation]
      BY <2>2, <3>1, <3>2
    <3> QED BY <1>0, <2>2, <3>3, EndFrees DEF TypeOK, Invitation
  <2>4. /\ \A j \in Invitations : inv'[j].org = inv[j].org
        /\ \A j \in Invitations \ {i} : inv'[j].status = inv[j].status
    BY <1>0, <2>2 DEF TypeOK
  <2>5. OwnerKept' /\ Named'
    BY <1>0, <2>1, <2>2, <2>4 DEF TypeOK, Owners, OwnerKept, Named
  <2>6. \A s \in Txs \ {t} : \A j \in Invitations : invLock[j] = s => j # i
    BY <2>1
  <2> QED BY <2>2, <2>3, <2>4, <2>5, <2>6, WriteKeeps
<1>5. CASE AcceptInvitation(t)
  <2> DEFINE i == tx[t].inv
             u == tx[t].by
             o == inv[i].org
  <2>1. CASE Refuse(t)
    BY <2>1, RefuseKeeps
  <2>2. CASE /\ ~AcceptRefused(i, u) /\ role' = [role EXCEPT ![o][u] = inv[i].role]
             /\ inv' = [inv EXCEPT ![i].status = "accepted"] /\ End(t) /\ UNCHANGED <<org, disabled, steps>>
    <3>1. i \in Invitations /\ invLock[i] = t /\ o \in Orgs /\ role[o][u] = None
      BY <1>0, <1>5, <2>2 DEF AcceptInvitation, AcceptRefused, TxInv, Aims, HoldsInvitation, At, Answering
    <3>2. TypeOK'
      <4>1. inv \in [Invitations -> Invitation]
        BY <1>0 DEF TypeOK, Invitation
      <4>2. \A j \in Invitations : [inv[j] EXCEPT !.status = "accepted"] \in Invitation
        BY <4>1, InvitationFields DEF Statuses
      <4>3. inv' \in [Invitations -> Invitation]
        BY <2>2, <4>1, <4>2
      <4>4. role' \in [Orgs -> [Users -> Roles \cup {None}]]
        BY <1>0, <2>2, <3>1, <4>1 DEF TypeOK, Invitation
      <4> QED BY <1>0, <2>2, <4>3, <4>4, EndFrees DEF TypeOK, Invitation
    <3>3. \A p \in Orgs : \A v \in Users : role[p][v] # None => role'[p][v] = role[p][v]
      BY <1>0, <2>2, <3>1 DEF TypeOK
    <3>4. OwnerKept'
      <4> SUFFICES ASSUME NEW p \in Orgs, org'[p] # "none" PROVE Owners(p)' # {}
        BY DEF OwnerKept
      <4>1. PICK v \in Users : role[p][v] = "owner"
        BY <1>0, <2>2 DEF OwnerKept, Owners
      <4>2. "owner" # None
        BY <1>1 DEF Roles
      <4> QED BY <3>3, <4>1, <4>2 DEF Owners
    <3>5. /\ \A j \in Invitations : inv'[j].org = inv[j].org
          /\ \A j \in Invitations \ {i} : inv'[j].status = inv[j].status
      BY <1>0, <2>2 DEF TypeOK
    <3>6. Named'
      BY <1>0, <2>2, <3>1, <3>5 DEF TypeOK, Named
    <3>7. \A s \in Txs \ {t} : \A j \in Invitations : invLock[j] = s => j # i
      BY <3>1
    <3> QED BY <2>2, <3>2, <3>3, <3>4, <3>5, <3>6, <3>7, WriteKeeps
  <2> QED BY <1>5, <2>1, <2>2 DEF AcceptInvitation
<1> QED BY <1>2, <1>3, <1>4, <1>5

(* Requests, rollbacks, new organizations, the purge and the passing time.  *)
LEMMA OtherStepsKeep ==
  ASSUME IInv,
         \/ \E t \in Txs : begin(t) \/ rollback(t)
         \/ \E u \in Users, o \in Orgs : CreateOrganization(u, o)
         \/ \E o \in Orgs : Sweep(o)
         \/ \E i \in Invitations : lapse(i)
  PROVE  IInv'
<1>0. TypeOK /\ OwnerKept /\ Named /\ \A t \in Txs : TxInv(t)
  BY DEF IInv
<1>6. None \notin Txs /\ None \notin Roles
  BY OrganizationsAssumption DEF Roles
<1>1. ASSUME NEW t \in Txs, begin(t) PROVE IInv'
  <2>1. PICK q \in Requests : tx' = [tx EXCEPT ![t] = q]
    BY <1>1 DEF begin
  <2>2. UNCHANGED <<org, role, disabled, inv, orgLock, invLock>>
    BY <1>1 DEF begin
  <2>3. /\ q \in [op : Ops \cup {None}, pc : Pcs, by : Users \cup {None}, org : Orgs \cup {None},
                  who : Users \cup {None}, as : Roles \cup {None}, inv : Invitations \cup {None}]
        /\ q.pc = "begin"
        /\ q.op \in Locking \cup {"RestoreOrganization"} => q.org \in Orgs
        /\ q.op = "PatchMember" => q.who \in Users
        /\ q.op \in Answering \cup {"AcceptInvitation"} => q.inv \in Invitations
    BY DEF Requests, Request, Ops, Pcs, Locking, Answering
  <2>4. TypeOK'
    BY <1>0, <2>1, <2>2, <2>3 DEF TypeOK
  <2>5. OwnerKept' /\ Named'
    BY <1>0, <2>2 DEF Owners, OwnerKept, Named
  <2>6. tx'[t] = q /\ \A s \in Txs \ {t} : tx'[s] = tx[s]
    BY <1>0, <2>1 DEF TypeOK
  <2>7. TxInv(t)'
    BY <2>3, <2>6 DEF TxInv, Aims, HoldsOrganization, HoldsInvitation, LeavesAnOwner, At
  <2>8. ASSUME NEW s \in Txs \ {t} PROVE TxInv(s)'
    <3>1. Others(s)
      BY <2>2, <2>6 DEF Others
    <3> QED BY <3>1, Reliance
  <2> QED BY <2>4, <2>5, <2>7, <2>8 DEF IInv
<1>2. ASSUME NEW t \in Txs, rollback(t) PROVE IInv'
  <2>1. End(t) /\ UNCHANGED <<org, role, disabled, inv>>
    BY <1>2 DEF rollback
  <2>2. TypeOK' /\ OwnerKept' /\ Named'
    BY <1>0, <2>1, EndFrees DEF TypeOK, Owners, OwnerKept, Named
  <2> QED BY <2>1, <2>2, WriteKeeps
<1>3. ASSUME NEW u \in Users, NEW o \in Orgs, CreateOrganization(u, o) PROVE IInv'
  <2>1. /\ org[o] = "none" /\ org' = [org EXCEPT ![o] = "live"]
        /\ role' = [role EXCEPT ![o] = [v \in Users |-> IF v = u THEN "owner" ELSE None]]
        /\ UNCHANGED <<disabled, inv, orgLock, invLock, tx>>
    BY <1>3 DEF CreateOrganization
  <2>2. TypeOK'
    BY <1>0, <2>1 DEF TypeOK, Roles
  <2>3. OwnerKept' /\ Named'
    BY <1>0, <2>1 DEF TypeOK, Owners, OwnerKept, Named
  <2>4. ASSUME NEW s \in Txs PROVE TxInv(s)'
    <3>1. TxInv(s) /\ tx'[s] = tx[s] /\ \A p \in Orgs \ {o} : org'[p] = org[p] /\ role'[p] = role[p]
      BY <1>0, <2>1 DEF TypeOK
    <3>2. Aims(s)' /\ HoldsOrganization(s)'
      BY <2>1, <3>1 DEF TxInv, Aims, HoldsOrganization, At
    <3>3. HoldsInvitation(s)'
      BY <2>1, <3>1 DEF TxInv, HoldsInvitation, At
    <3>4. LeavesAnOwner(s)'
      BY <2>1, <3>1 DEF TxInv, Aims, LeavesAnOwner, At, Owners, Locking
    <3> QED BY <3>2, <3>3, <3>4 DEF TxInv
  <2> QED BY <2>2, <2>3, <2>4 DEF IInv
<1>4. ASSUME NEW o \in Orgs, Sweep(o) PROVE IInv'
  <2>1. /\ org[o] = "deleted" /\ orgLock[o] = None /\ \A i \in Invitations : inv[i].org = o => invLock[i] = None
        /\ org' = [org EXCEPT ![o] = "none"] /\ role' = [role EXCEPT ![o] = [u \in Users |-> None]]
        /\ inv' = [i \in Invitations |-> IF inv[i].org = o THEN NoInvitation ELSE inv[i]]
        /\ UNCHANGED <<disabled, orgLock, invLock, tx>>
    BY <1>4 DEF Sweep
  <2>2. TypeOK'
    BY <1>0, <2>1 DEF TypeOK, NoInvitation, Statuses
  <2>3. OwnerKept' /\ Named'
    BY <1>0, <2>1 DEF TypeOK, Owners, OwnerKept, Named, NoInvitation
  <2>4. ASSUME NEW s \in Txs PROVE TxInv(s)'
    <3>1. s # None
      BY <1>6
    <3>2. Others(s)
      BY <1>0, <2>1, <3>1 DEF Others, TypeOK
    <3> QED BY <3>2, Reliance
  <2> QED BY <2>2, <2>3, <2>4 DEF IInv
<1>5. ASSUME NEW i \in Invitations, lapse(i) PROVE IInv'
  <2>1. inv' = [inv EXCEPT ![i].lapsed = TRUE] /\ UNCHANGED <<org, role, disabled, orgLock, invLock, tx>>
    BY <1>5 DEF lapse
  <2>2. TypeOK'
    BY <1>0, <2>1, ZenonT(60) DEF TypeOK
  <2>3. \A j \in Invitations : inv'[j].org = inv[j].org /\ inv'[j].status = inv[j].status
    BY <1>0, <2>1 DEF TypeOK
  <2>4. OwnerKept' /\ Named'
    BY <1>0, <2>1, <2>3 DEF Owners, OwnerKept, Named
  <2>5. ASSUME NEW s \in Txs PROVE TxInv(s)'
    <3>1. Others(s)
      BY <2>1, <2>3 DEF Others
    <3> QED BY <3>1, Reliance
  <2> QED BY <2>2, <2>4, <2>5 DEF IInv
<1> QED BY <1>1, <1>2, <1>3, <1>4, <1>5

LEMMA StepKeeps ==
  ASSUME IInv, [Next]_vars
  PROVE  IInv'
<1>1. CASE UNCHANGED vars
  <2>1. TypeOK' /\ OwnerKept' /\ Named'
    BY <1>1 DEF vars, IInv, TypeOK, OwnerKept, Owners, Named
  <2>2. ASSUME NEW s \in Txs PROVE TxInv(s)'
    <3>1. Others(s)
      BY <1>1 DEF vars, Others
    <3> QED BY <3>1, Reliance
  <2> QED BY <2>1, <2>2 DEF IInv
<1>2. ASSUME NEW t \in Txs, Step(t) PROVE IInv'
  BY <1>2, MemberStepsKeep, InvitationStepsKeep, WritesKeep, InvitationWritesKeep DEF Step
<1>3. CASE \/ \E t \in Txs : begin(t) \/ rollback(t)
           \/ \E u \in Users, o \in Orgs : CreateOrganization(u, o)
           \/ \E o \in Orgs : Sweep(o)
           \/ \E i \in Invitations : lapse(i)
  BY <1>3, OtherStepsKeep
<1> QED BY <1>1, <1>2, <1>3 DEF Next

(* Every transaction knows, in every state, what its locks protect.         *)
THEOREM LocksProtect == Spec => []IInv
<1>1. IInv /\ [Next]_vars => IInv'
  BY StepKeeps
<1> QED BY InitKnows, <1>1, PTL DEF Spec

(* An organization keeps an owner.                                          *)
THEOREM OrganizationsKeepOwners == Spec => []OwnerKept
<1>1. IInv => OwnerKept
  BY DEF IInv
<1> QED BY LocksProtect, <1>1, PTL

Joined(o) ==
  \/ \E u \in Users : role[o][u] = None /\ role'[o][u] # None
  \/ \E i \in Invitations : inv[i].org # o /\ inv'[i].org = o

(* Reading and locking change neither members nor invitations.              *)
LEMMA ReadsWriteNothing ==
  ASSUME NEW t,
         \/ lockOrganization(t) \/ requireOrganizationAdmin(t) \/ lockOrganizationMemberships(t)
         \/ decidePatch(t) \/ probeDelete(t) \/ lockDeletedOrganization(t)
         \/ authoriseCreation(t) \/ checkMembers(t) \/ authoriseInvitation(t) \/ lockInvitation(t)
         \/ loadInvitationForUpdate(t) \/ lockInvitedOrganization(t)
         \/ lockOwnOrganizationMemberships(t) \/ probeDeactivation(t)
         \/ DeleteOrganization(t) \/ RestoreOrganization(t) \/ DeactivateSelf(t)
  PROVE  UNCHANGED <<role, inv>>
<1> USE DEF Refuse, Proceed, Lock
<1>1. CASE lockOrganization(t) \/ requireOrganizationAdmin(t) \/ lockOrganizationMemberships(t)
           \/ decidePatch(t) \/ probeDelete(t) \/ lockDeletedOrganization(t)
  BY <1>1 DEF lockOrganization, requireOrganizationAdmin, lockOrganizationMemberships, decidePatch, probeDelete,
              lockDeletedOrganization
<1>2. CASE authoriseCreation(t) \/ checkMembers(t) \/ authoriseInvitation(t) \/ lockInvitation(t)
           \/ loadInvitationForUpdate(t) \/ lockInvitedOrganization(t)
  BY <1>2 DEF authoriseCreation, checkMembers, authoriseInvitation, lockInvitation, loadInvitationForUpdate,
              lockInvitedOrganization
<1>3. CASE lockOwnOrganizationMemberships(t) \/ probeDeactivation(t)
           \/ DeleteOrganization(t) \/ RestoreOrganization(t) \/ DeactivateSelf(t)
  BY <1>3 DEF lockOwnOrganizationMemberships, probeDeactivation, DeleteOrganization, RestoreOrganization, DeactivateSelf
<1> QED BY <1>1, <1>2, <1>3

(* Whoever joins, or is invited, joins or is invited to a live organization.*)
LEMMA JoinIsLive ==
  ASSUME IInv, Next, NEW o \in Orgs, Joined(o)
  PROVE  org'[o] = "live"
<1>0. TypeOK
  BY DEF IInv
<1>1. ~UNCHANGED <<role, inv>>
  BY DEF Joined
<1>6. None \notin Orgs
  BY OrganizationsAssumption
<1>2. ASSUME NEW t \in Txs, Step(t) PROVE org'[o] = "live"
  <2>1. PatchMember(t) \/ CreateInvitation(t) \/ ResendInvitation(t) \/ CancelInvitation(t) \/ AcceptInvitation(t)
    BY <1>1, <1>2, ReadsWriteNothing DEF Step
  <2>2. TxInv(t)
    BY DEF IInv
  <2>3. CASE PatchMember(t)
    <3>1. role[tx[t].org][tx[t].who] # None
      BY <2>2, <2>3 DEF PatchMember, TxInv, LeavesAnOwner
    <3>2. role' = [role EXCEPT ![tx[t].org][tx[t].who] = tx[t].as] /\ UNCHANGED inv
      BY <2>3 DEF PatchMember
    <3> QED BY <1>0, <3>1, <3>2 DEF Joined, TypeOK
  <2>4. CASE CreateInvitation(t)
    <3>1. org[tx[t].org] = "live" /\ UNCHANGED <<role, org>>
      BY <1>1, <2>4 DEF CreateInvitation, Refuse
    <3>2. PICK k \in Invitations :
            inv' = [j \in Invitations |->
                 IF j = k THEN [org |-> tx[t].org, user |-> tx[t].who, role |-> tx[t].as, status |-> "pending", lapsed |-> FALSE]
                 ELSE IF j \in Lapsed(tx[t].org) THEN [inv[j] EXCEPT !.status = "expired"] ELSE inv[j]]
      BY <1>1, <2>4 DEF CreateInvitation, Refuse
    <3>3. ASSUME NEW i \in Invitations PROVE inv'[i].org = inv[i].org \/ inv'[i].org = tx[t].org
      <4>1. inv[i] \in Invitation
        BY <1>0 DEF TypeOK, Invitation
      <4>2. [inv[i] EXCEPT !.status = "expired"].org = inv[i].org
        BY <4>1 DEF Invitation
      <4> QED BY <3>2, <4>2
    <3> QED BY <3>1, <3>3 DEF Joined
  <2>5. CASE ResendInvitation(t)
    <3>1. inv' = [inv EXCEPT ![tx[t].inv].lapsed = FALSE] /\ UNCHANGED role
      BY <1>1, <2>5 DEF ResendInvitation, Refuse
    <3> QED BY <1>0, <3>1 DEF Joined, TypeOK
  <2>6. CASE CancelInvitation(t)
    <3>1. inv' = [inv EXCEPT ![tx[t].inv].status = "cancelled"] /\ UNCHANGED role
      BY <2>6 DEF CancelInvitation
    <3> QED BY <1>0, <3>1 DEF Joined, TypeOK
  <2>7. CASE AcceptInvitation(t)
    <3> DEFINE i == tx[t].inv
    <3>1. /\ inv' = [inv EXCEPT ![i].status = "accepted"]
          /\ role' = [role EXCEPT ![inv[i].org][tx[t].by] = inv[i].role] /\ UNCHANGED org
      BY <1>1, <2>7 DEF AcceptInvitation, Refuse
    <3>2. org[inv[i].org] = "live"
      BY <2>2, <2>7 DEF AcceptInvitation, TxInv, HoldsInvitation
    <3>5. inv' = [inv EXCEPT ![i].status = "accepted"]
      BY <3>1
    <3>3. ASSUME NEW j \in Invitations PROVE inv'[j].org = inv[j].org
      <4>1. inv \in [Invitations -> Invitation]
        BY <1>0 DEF TypeOK, Invitation
      <4>2. PICK x : x = [inv[i] EXCEPT !.status = "accepted"]
        OBVIOUS
      <4>3. inv' = [inv EXCEPT ![i] = x]
        BY <3>5, <4>2
      <4>4. j = i => x.org = inv[j].org
        BY <4>1, <4>2 DEF Invitation
      <4> HIDE DEF i
      <4> QED BY <4>1, <4>3, <4>4
    <3>4. o = inv[i].org
      BY <1>0, <3>1, <3>3 DEF Joined, TypeOK
    <3> QED BY <3>1, <3>2, <3>4
  <2> QED BY <2>1, <2>3, <2>4, <2>5, <2>6, <2>7
<1>3. ASSUME NEW u \in Users, NEW p \in Orgs, CreateOrganization(u, p) PROVE org'[o] = "live"
  BY <1>0, <1>3 DEF CreateOrganization, Joined, TypeOK
<1>4. ASSUME NEW p \in Orgs, Sweep(p) PROVE FALSE
  BY <1>0, <1>4, <1>6 DEF Sweep, Joined, TypeOK, NoInvitation
<1>5. ASSUME NEW i \in Invitations, lapse(i) PROVE FALSE
  BY <1>0, <1>5 DEF lapse, Joined, TypeOK
<1>7. ASSUME NEW t \in Txs, begin(t) \/ rollback(t) PROVE FALSE
  BY <1>1, <1>7 DEF begin, rollback
<1> QED BY <1>2, <1>3, <1>4, <1>5, <1>7 DEF Next

(* Nobody joins, and nobody is invited to, a deleted organization.          *)
THEOREM NobodyJoinsTheDeleted == Spec => JoinsAreLive
<1>1. IInv /\ [Next]_vars =>
        [\A o \in Orgs : (\/ \E u \in Users : role[o][u] = None /\ role'[o][u] # None
                          \/ \E i \in Invitations : inv[i].org # o /\ inv'[i].org = o) => org'[o] = "live"]_vars
  BY JoinIsLive DEF Joined
<1> QED BY LocksProtect, <1>1, PTL DEF Spec, JoinsAreLive

Settled == {"accepted", "cancelled", "expired"}

(* A settled invitation stays as it is, or goes with its organization.      *)
LEMMA SettledStays ==
  ASSUME IInv, Next, NEW i \in Invitations, inv[i].status \in Settled
  PROVE  inv'[i].status \in {inv[i].status, "unused"}
<1>0. TypeOK
  BY DEF IInv
<1>1. CASE UNCHANGED inv
  BY <1>1
<1>2. ASSUME NEW t \in Txs, Step(t), inv' # inv PROVE inv'[i].status = inv[i].status
  <2>1. CreateInvitation(t) \/ ResendInvitation(t) \/ CancelInvitation(t) \/ AcceptInvitation(t)
    BY <1>2, ReadsWriteNothing DEF Step, PatchMember
  <2>2. TxInv(t)
    BY DEF IInv
  <2>3. CASE CreateInvitation(t)
    <3>1. PICK k \in Invitations :
            /\ inv[k].status = "unused"
            /\ inv' = [j \in Invitations |->
                 IF j = k THEN [org |-> tx[t].org, user |-> tx[t].who, role |-> tx[t].as, status |-> "pending", lapsed |-> FALSE]
                 ELSE IF j \in Lapsed(tx[t].org) THEN [inv[j] EXCEPT !.status = "expired"] ELSE inv[j]]
      BY <1>2, <2>3 DEF CreateInvitation, Refuse
    <3> QED BY <3>1 DEF Settled, Lapsed
  <2>4. CASE ResendInvitation(t)
    <3>1. inv' = [inv EXCEPT ![tx[t].inv].lapsed = FALSE]
      BY <1>2, <2>4 DEF ResendInvitation, Refuse
    <3> QED BY <1>0, <3>1 DEF TypeOK
  <2>5. CASE CancelInvitation(t)
    <3>1. inv' = [inv EXCEPT ![tx[t].inv].status = "cancelled"]
      BY <2>5 DEF CancelInvitation
    <3>2. inv[tx[t].inv].status = "pending"
      BY <2>2, <2>5 DEF CancelInvitation, TxInv, HoldsInvitation, At, Answering
    <3> QED BY <1>0, <3>1, <3>2 DEF TypeOK, Settled
  <2>6. CASE AcceptInvitation(t)
    <3>1. inv' = [inv EXCEPT ![tx[t].inv].status = "accepted"] /\ inv[tx[t].inv].status = "pending"
      BY <1>2, <2>6 DEF AcceptInvitation, AcceptRefused, Refuse
    <3> QED BY <1>0, <3>1 DEF TypeOK, Settled
  <2> QED BY <2>1, <2>3, <2>4, <2>5, <2>6
<1>3. ASSUME NEW p \in Orgs, Sweep(p) PROVE inv'[i].status \in {inv[i].status, "unused"}
  BY <1>3 DEF Sweep, NoInvitation
<1>4. ASSUME NEW k \in Invitations, lapse(k) PROVE inv'[i].status = inv[i].status
  BY <1>0, <1>4 DEF lapse, TypeOK
<1>5. ASSUME \/ \E t \in Txs : begin(t) \/ rollback(t)
             \/ \E u \in Users, o \in Orgs : CreateOrganization(u, o)
      PROVE  UNCHANGED inv
  BY <1>5 DEF begin, rollback, CreateOrganization
<1> QED BY <1>1, <1>2, <1>3, <1>4, <1>5 DEF Next

(* An invitation is settled once.                                           *)
THEOREM InvitationsSettleOnce == Spec => SettledOnce
<1>1. IInv /\ [Next]_vars =>
        [\A i \in Invitations :
           inv[i].status \in {"accepted", "cancelled", "expired"} => inv'[i].status \in {inv[i].status, "unused"}]_vars
  BY SettledStays DEF Settled
<1> QED BY LocksProtect, <1>1, PTL DEF Spec, SettledOnce

(***************************************************************************)
(* The hub, for any number of clients and sockets, any capacity of the     *)
(* channels and any length of the log.  An event is in one place of its    *)
(* way to a connection: to be published, to be offered, in the channel, or *)
(* written.  It is offered only to connections that are registered, and    *)
(* those are the ones whose handler is past Subscribe; a connection that   *)
(* is not has nothing.                                                     *)
(***************************************************************************)
Cursors == 1 .. Len(log)

HubTypes ==
  /\ log \in Seq(Clients)
  /\ pending \subseteq Cursors
  /\ walk \subseteq Cursors \X Connections
  /\ subs \subseteq Connections
  /\ stage \in [Connections -> H!Stages]
  /\ ack \in [Connections -> Nat]
  /\ queue \in [Connections -> Seq(Cursors)]
  /\ sent \in [Connections -> SUBSET Cursors]
  /\ overflow \in [Connections -> SUBSET Cursors]

Registered == subs = {c \in Connections : stage[c] \in {"subscribed", "read", "live", "ended"}}

OnePlace ==
  \A c \in Connections :
    /\ \A i \in pending : <<i, c>> \notin walk /\ i \notin H!InQueue(c) /\ i \notin sent[c]
    /\ \A i \in Cursors : <<i, c>> \in walk => c \in subs /\ i \notin H!InQueue(c) /\ i \notin sent[c]
    /\ c \notin subs => queue[c] = <<>> /\ sent[c] = {}

HubInv == HubTypes /\ Registered /\ OnePlace /\ H!OthersOnce /\ H!NoWindow

LEMMA HubInit == H!Init => HubInv
  BY DEF H!Init, HubInv, HubTypes, Registered, OnePlace, H!OthersOnce, H!NoWindow, H!InQueue, H!Stages, Cursors

(* A commit takes a cursor that was nobody's, and is to be published.      *)
LEMMA CommitHolds == ASSUME HubInv, NEW client \in Clients, H!Commit(client) PROVE HubInv'
  <1> DEFINE n == Len(log) + 1
  <1> USE DEF HubInv
  <1>1. /\ log' = Append(log, client) /\ n \in Nat /\ n \notin Cursors
        /\ Len(log') = n /\ log' \in Seq(Clients)
        /\ \A i \in Cursors : log'[i] = log[i]
    BY DEF H!Commit, HubTypes, Cursors
  <1>2. Cursors' = Cursors \cup {n}
    BY <1>1 DEF Cursors, HubTypes
  <1>3. /\ UNCHANGED <<walk, subs, stage, ack, queue, sent, overflow>>
        /\ \/ pending' = pending \cup {n} /\ unpublished' = unpublished
           \/ unpublished' = unpublished \cup {n} /\ pending' = pending
    BY DEF H!Commit, H!connVars
  <1> HIDE DEF n
  <1>4. \A c \in Connections : queue[c] \in Seq(Cursors) /\ H!InQueue(c) \subseteq Cursors /\ H!InQueue(c)' = H!InQueue(c)
    BY <1>3 DEF HubTypes, H!InQueue
  <1>5. HubTypes'
    <2>1. \A c \in Connections : queue[c] \in Seq(Cursors')
      BY <1>2, <1>4
    <2> QED
      BY <1>1, <1>2, <1>3, <2>1 DEF HubTypes
  <1>6. Registered'
    BY <1>3 DEF Registered
  <1>7. OnePlace'
    BY <1>1, <1>2, <1>3, <1>4 DEF OnePlace, HubTypes
  <1>8. H!OthersOnce'
    BY <1>1, <1>3, <1>4 DEF H!OthersOnce
  <1>9. H!NoWindow'
    <2> SUFFICES ASSUME NEW c \in Connections, stage'[c] \in {"read", "live"},
                        NEW i \in ack'[c] + 1 .. Len(log')
                 PROVE  (H!Coming(i, c) \/ log[i] = ClientOf[c] \/ i \in overflow[c] \/ i \in unpublished)'
      BY DEF H!NoWindow
    <2>1. i = n \/ i \in ack[c] + 1 .. Len(log)
      BY <1>1, <1>3 DEF HubTypes, n
    <2>2. CASE i = n
      BY <1>3, <2>2 DEF H!Coming
    <2>3. CASE i \in ack[c] + 1 .. Len(log)
      <3>1. i \in Cursors
        BY <2>3 DEF HubTypes, Cursors
      <3>2. H!Coming(i, c) \/ log[i] = ClientOf[c] \/ i \in overflow[c] \/ i \in unpublished
        BY <1>3, <2>3 DEF H!NoWindow
      <3> QED
        BY <1>1, <1>3, <1>4, <3>1, <3>2 DEF H!Coming
    <2> QED
      BY <2>1, <2>2, <2>3
  <1> QED
    BY <1>5, <1>6, <1>7, <1>8, <1>9

(* A publication offers its event to whoever is registered, before it was  *)
(* anywhere else.                                                          *)
LEMMA BeginHolds == ASSUME HubInv, NEW i, H!BeginPublish(i) PROVE HubInv'
  <1> USE DEF HubInv
  <1>1. /\ i \in pending /\ pending' = pending \ {i} /\ walk' = walk \cup ({i} \X subs)
        /\ UNCHANGED <<log, subs, stage, ack, queue, sent, overflow, unpublished>>
    BY DEF H!BeginPublish, H!connVars
  <1>2. Cursors' = Cursors /\ \A c \in Connections : H!InQueue(c)' = H!InQueue(c)
    BY <1>1 DEF Cursors, H!InQueue
  <1>3. \A c, j : <<j, c>> \in walk' <=> <<j, c>> \in walk \/ (j = i /\ c \in subs)
    BY <1>1
  <1>4. HubTypes'
    BY <1>1, <1>2 DEF HubTypes
  <1>5. Registered'
    BY <1>1 DEF Registered
  <1>6. OnePlace'
    BY <1>1, <1>2, <1>3 DEF OnePlace
  <1>7. H!OthersOnce'
    BY <1>1, <1>2 DEF H!OthersOnce
  <1>8. H!NoWindow'
    <2> SUFFICES ASSUME NEW c \in Connections, stage'[c] \in {"read", "live"},
                        NEW j \in ack'[c] + 1 .. Len(log')
                 PROVE  (H!Coming(j, c) \/ log[j] = ClientOf[c] \/ j \in overflow[c] \/ j \in unpublished)'
      BY DEF H!NoWindow
    <2>1. H!Coming(j, c) \/ log[j] = ClientOf[c] \/ j \in overflow[c] \/ j \in unpublished
      BY <1>1 DEF H!NoWindow
    <2>2. c \in subs
      BY <1>1 DEF Registered
    <2> QED
      BY <1>1, <1>2, <1>3, <2>1, <2>2 DEF H!Coming
  <1> QED
    BY <1>4, <1>5, <1>6, <1>7, <1>8

(* What an event at the end of a channel, and its removal from the front,  *)
(* do to the channel.                                                      *)
LEMMA AppendEvent ==
  ASSUME NEW S, NEW q \in Seq(S), NEW e \in S
  PROVE  /\ Append(q, e) \in Seq(S) /\ Len(Append(q, e)) = Len(q) + 1 /\ Len(q) \in Nat
         /\ \A k \in 1 .. Len(q) : Append(q, e)[k] = q[k]
         /\ Append(q, e)[Len(q) + 1] = e
  OBVIOUS

LEMMA TailEvent ==
  ASSUME NEW S, NEW q \in Seq(S), q # <<>>
  PROVE  /\ Tail(q) \in Seq(S) /\ Len(Tail(q)) = Len(q) - 1 /\ Len(q) \in Nat \ {0}
         /\ \A k \in 1 .. Len(q) - 1 : Tail(q)[k] = q[k + 1]
         /\ Head(q) = q[1]
  OBVIOUS

(* An offer ends in the channel, in an overflow, or at the origin.         *)
LEMMA OfferHolds == ASSUME HubInv, NEW i, NEW c \in Connections, H!Offer(i, c) PROVE HubInv'
  <1> USE DEF HubInv
  <1>1. /\ <<i, c>> \in walk /\ walk' = walk \ {<<i, c>>}
        /\ UNCHANGED <<log, pending, subs, stage, ack, sent, unpublished>>
    BY DEF H!Offer
  <1>2. Cursors' = Cursors /\ i \in Cursors
    BY <1>1 DEF Cursors, HubTypes
  <1>3. c \in subs /\ i \notin pending /\ i \notin H!InQueue(c) /\ i \notin sent[c]
    BY <1>1, <1>2 DEF OnePlace
  <1>4. \A d, j : <<j, d>> \in walk' <=> <<j, d>> \in walk /\ ~(j = i /\ d = c)
    BY <1>1
  <1>5. CASE UNCHANGED queue
    <2>1. \A d \in Connections : H!InQueue(d)' = H!InQueue(d)
      BY <1>5 DEF H!InQueue
    <2>2. \/ overflow' = overflow /\ log[i] = ClientOf[c]
          \/ overflow' = [overflow EXCEPT ![c] = @ \cup {i}]
          \/ queue' = [queue EXCEPT ![c] = Append(@, i)]
      BY DEF H!Offer
    <2>3. queue' # [queue EXCEPT ![c] = Append(@, i)]
      <3>1. queue[c] \in Seq(Cursors)
        BY DEF HubTypes
      <3>2. Append(queue[c], i) # queue[c]
        BY <1>2, <3>1, AppendEvent
      <3> QED
        BY <1>5, <3>2 DEF HubTypes
    <2>4. overflow' \in [Connections -> SUBSET Cursors] /\ \A d \in Connections : overflow[d] \subseteq overflow'[d]
      BY <1>2, <2>2, <2>3, ZenonT(60) DEF HubTypes
    <2>5. log[i] = ClientOf[c] \/ i \in overflow'[c]
      BY <2>2, <2>3 DEF HubTypes
    <2>6. HubTypes'
      BY <1>1, <1>2, <1>5, <2>4 DEF HubTypes
    <2>7. Registered'
      BY <1>1 DEF Registered
    <2>8. OnePlace'
      BY <1>1, <1>2, <1>4, <1>5, <2>1 DEF OnePlace
    <2>9. H!OthersOnce'
      BY <1>1, <1>5, <2>1 DEF H!OthersOnce
    <2>10. H!NoWindow'
      BY <1>1, <1>4, <2>1, <2>4, <2>5 DEF H!NoWindow, H!Coming
    <2> QED
      BY <2>6, <2>7, <2>8, <2>9, <2>10
  <1>6. CASE ClientOf[c] # log[i] /\ queue' = [queue EXCEPT ![c] = Append(@, i)] /\ UNCHANGED overflow
    <2>q. /\ queue[c] \in Seq(Cursors) /\ queue'[c] = Append(queue[c], i)
          /\ \A d \in Connections \ {c} : queue'[d] = queue[d]
      BY <1>6 DEF HubTypes
    <2>a. /\ queue'[c] \in Seq(Cursors) /\ Len(queue'[c]) = Len(queue[c]) + 1 /\ Len(queue[c]) \in Nat
          /\ \A k \in 1 .. Len(queue[c]) : queue'[c][k] = queue[c][k]
          /\ queue'[c][Len(queue[c]) + 1] = i
      BY <1>2, <2>q, AppendEvent
    <2>1. /\ H!InQueue(c)' = H!InQueue(c) \cup {i}
          /\ \A d \in Connections \ {c} : H!InQueue(d)' = H!InQueue(d)
      <3>1. ASSUME NEW x \in H!InQueue(c)' PROVE x \in H!InQueue(c) \cup {i}
        <4>1. PICK k \in 1 .. Len(queue'[c]) : x = queue'[c][k]
          BY <3>1 DEF H!InQueue
        <4>2. k \in 1 .. Len(queue[c]) \/ k = Len(queue[c]) + 1
          BY <2>a
        <4> QED
          BY <2>a, <4>1, <4>2 DEF H!InQueue
      <3>2. ASSUME NEW x \in H!InQueue(c) PROVE x \in H!InQueue(c)'
        <4>1. PICK k \in 1 .. Len(queue[c]) : x = queue[c][k]
          BY <3>2 DEF H!InQueue
        <4>2. k \in 1 .. Len(queue'[c]) /\ x = queue'[c][k]
          BY <2>a, <4>1
        <4> QED
          BY <4>2 DEF H!InQueue
      <3>3. i \in H!InQueue(c)'
        <4>1. Len(queue[c]) + 1 \in 1 .. Len(queue'[c])
          BY <2>a
        <4> QED
          BY <2>a, <4>1 DEF H!InQueue
      <3>4. \A d \in Connections \ {c} : H!InQueue(d)' = H!InQueue(d)
        BY <2>q DEF H!InQueue
      <3> QED
        BY <3>1, <3>2, <3>3, <3>4
    <2>6. HubTypes'
      BY <1>1, <1>2, <1>6, <2>q, <2>a DEF HubTypes
    <2>7. Registered'
      BY <1>1 DEF Registered
    <2>8. OnePlace'
      BY <1>1, <1>2, <1>3, <1>4, <2>q, <2>1 DEF OnePlace
    <2>9. H!OthersOnce'
      <3> SUFFICES ASSUME NEW d \in Connections
                   PROVE  /\ \A j, k \in 1 .. Len(queue'[d]) : queue'[d][j] = queue'[d][k] => j = k
                          /\ \A j \in H!InQueue(d)' : j \notin sent'[d] /\ log'[j] # ClientOf[d]
        BY DEF H!OthersOnce
      <3>1. CASE d # c
        BY <1>1, <2>q, <2>1, <3>1 DEF H!OthersOnce
      <3>2. CASE d = c
        <4>1. \A j \in H!InQueue(d)' : j \notin sent'[d] /\ log'[j] # ClientOf[d]
          BY <1>1, <1>3, <1>6, <2>1, <3>2 DEF H!OthersOnce
        <4>2. ASSUME NEW j \in 1 .. Len(queue'[c]), NEW k \in 1 .. Len(queue'[c]), queue'[c][j] = queue'[c][k]
              PROVE  j = k
          <5>1. \A m \in 1 .. Len(queue[c]) : queue'[c][m] # i
            BY <1>3, <2>a DEF H!InQueue
          <5>2. /\ j \in 1 .. Len(queue[c]) \/ j = Len(queue[c]) + 1
                /\ k \in 1 .. Len(queue[c]) \/ k = Len(queue[c]) + 1
            BY <2>a
          <5>3. CASE j \in 1 .. Len(queue[c]) /\ k \in 1 .. Len(queue[c])
            BY <2>a, <4>2, <5>3 DEF H!OthersOnce
          <5> QED
            BY <2>a, <4>2, <5>1, <5>2, <5>3
        <4> QED
          BY <3>2, <4>1, <4>2
      <3> QED
        BY <3>1, <3>2
    <2>10. H!NoWindow'
      <3> SUFFICES ASSUME NEW d \in Connections, stage'[d] \in {"read", "live"},
                          NEW j \in ack'[d] + 1 .. Len(log')
                   PROVE  (H!Coming(j, d) \/ log[j] = ClientOf[d] \/ j \in overflow[d] \/ j \in unpublished)'
        BY DEF H!NoWindow
      <3>1. H!Coming(j, d) \/ log[j] = ClientOf[d] \/ j \in overflow[d] \/ j \in unpublished
        BY <1>1 DEF H!NoWindow
      <3> QED
        BY <1>1, <1>4, <1>6, <2>1, <3>1 DEF H!Coming
    <2> QED
      BY <2>6, <2>7, <2>8, <2>9, <2>10
  <1> QED
    BY <1>5, <1>6 DEF H!Offer

(* What is written leaves the channel.                                     *)
LEMMA ForwardHolds == ASSUME HubInv, NEW c \in Connections, H!ForwardEvent(c) PROVE HubInv'
  <1> USE DEF HubInv
  <1>1. /\ queue[c] # <<>> /\ stage[c] = "live"
        /\ queue' = [queue EXCEPT ![c] = Tail(@)]
        /\ sent' = [sent EXCEPT ![c] = @ \cup {Head(queue[c])}]
        /\ UNCHANGED <<log, pending, walk, subs, stage, ack, overflow, unpublished>>
    BY DEF H!ForwardEvent
  <1>2. Cursors' = Cursors
    BY <1>1 DEF Cursors
  <1>q. /\ queue[c] \in Seq(Cursors) /\ queue'[c] = Tail(queue[c])
        /\ sent'[c] = sent[c] \cup {Head(queue[c])}
        /\ \A d \in Connections \ {c} : queue'[d] = queue[d] /\ sent'[d] = sent[d]
    BY <1>1 DEF HubTypes
  <1>a. /\ queue'[c] \in Seq(Cursors) /\ Len(queue'[c]) = Len(queue[c]) - 1 /\ Len(queue[c]) \in Nat \ {0}
        /\ \A k \in 1 .. Len(queue[c]) - 1 : queue'[c][k] = queue[c][k + 1]
        /\ Head(queue[c]) = queue[c][1]
    <2>1. queue[c] \in Seq(Cursors) /\ queue[c] # <<>> /\ queue'[c] = Tail(queue[c])
      BY <1>1, <1>q
    <2>2. /\ Tail(queue[c]) \in Seq(Cursors) /\ Len(Tail(queue[c])) = Len(queue[c]) - 1
          /\ Len(queue[c]) \in Nat \ {0}
          /\ \A k \in 1 .. Len(queue[c]) - 1 : Tail(queue[c])[k] = queue[c][k + 1]
          /\ Head(queue[c]) = queue[c][1]
      BY <2>1, TailEvent
    <2> QED
      BY <2>1, <2>2
  <1>b. \A k \in 1 .. Len(queue'[c]) : k + 1 \in 1 .. Len(queue[c]) /\ queue'[c][k] = queue[c][k + 1]
    <2>1. Len(queue[c]) \in Nat /\ Len(queue'[c]) = Len(queue[c]) - 1
      BY <1>a
    <2>2. \A k \in 1 .. Len(queue'[c]) : k \in 1 .. Len(queue[c]) - 1 /\ k + 1 \in 1 .. Len(queue[c])
      BY <2>1
    <2> QED
      BY <1>a, <2>2
  <1> DEFINE e == Head(queue[c])
  <1>e. e \in H!InQueue(c) /\ e \in Cursors /\ e = queue[c][1]
    BY <1>q, <1>a DEF H!InQueue
  <1>s. sent'[c] = sent[c] \cup {e}
    BY <1>q
  <1> HIDE DEF e
  <1>3. H!InQueue(c) = H!InQueue(c)' \cup {e} /\ e \notin H!InQueue(c)'
    <2>2. ASSUME NEW m \in 1 .. Len(queue[c])
          PROVE  m = 1 \/ (m - 1 \in 1 .. Len(queue'[c]) /\ queue[c][m] = queue'[c][m - 1])
      <3> SUFFICES ASSUME m # 1 PROVE m - 1 \in 1 .. Len(queue'[c]) /\ queue[c][m] = queue'[c][m - 1]
        OBVIOUS
      <3>1. m \in Nat /\ m - 1 \in 1 .. Len(queue'[c]) /\ (m - 1) + 1 = m
        BY <1>a
      <3>2. queue'[c][m - 1] = queue[c][(m - 1) + 1]
        BY <1>a, <3>1
      <3> QED
        BY <3>1, <3>2
    <2>3. H!InQueue(c)' \subseteq H!InQueue(c)
      <3> SUFFICES ASSUME NEW x \in H!InQueue(c)' PROVE x \in H!InQueue(c)
        OBVIOUS
      <3>1. PICK k \in 1 .. Len(queue'[c]) : x = queue'[c][k]
        BY DEF H!InQueue
      <3>2. k + 1 \in 1 .. Len(queue[c]) /\ x = queue[c][k + 1]
        BY <1>b, <3>1
      <3> QED
        BY <3>2 DEF H!InQueue
    <2>4. H!InQueue(c) \subseteq H!InQueue(c)' \cup {e}
      <3> SUFFICES ASSUME NEW x \in H!InQueue(c), x # e PROVE x \in H!InQueue(c)'
        OBVIOUS
      <3>1. PICK m \in 1 .. Len(queue[c]) : x = queue[c][m]
        BY DEF H!InQueue
      <3>2. m - 1 \in 1 .. Len(queue'[c]) /\ x = queue'[c][m - 1]
        BY <1>e, <2>2, <3>1
      <3> QED
        BY <3>2 DEF H!InQueue
    <2>5. e \notin H!InQueue(c)'
      <3>1. ASSUME NEW k \in 1 .. Len(queue'[c]), queue'[c][k] = e PROVE FALSE
        <4>1. queue[c][k + 1] = queue[c][1] /\ k + 1 \in 1 .. Len(queue[c]) /\ 1 \in 1 .. Len(queue[c])
          BY <1>a, <1>e, <1>b, <3>1
        <4>2. k + 1 = 1
          BY <4>1 DEF H!OthersOnce
        <4> QED
          BY <4>2
      <3> QED
        BY <3>1 DEF H!InQueue
    <2> QED
      BY <1>e, <2>3, <2>4, <2>5
  <1>4. \A d \in Connections \ {c} : H!InQueue(d)' = H!InQueue(d)
    BY <1>q DEF H!InQueue
  <1>5. HubTypes'
    <2>1. queue' \in [Connections -> Seq(Cursors)] /\ sent' \in [Connections -> SUBSET Cursors]
      BY <1>1, <1>q, <1>a, <1>e, <1>s DEF HubTypes
    <2> QED
      BY <1>1, <1>2, <2>1 DEF HubTypes
  <1>6. Registered'
    BY <1>1 DEF Registered
  <1>7. OnePlace'
    <2>1. c \in subs
      BY <1>1 DEF Registered
    <2> QED
      BY <1>1, <1>2, <1>q, <1>e, <1>s, <1>3, <1>4, <2>1 DEF OnePlace, HubTypes
  <1>8. H!OthersOnce'
    <2> SUFFICES ASSUME NEW d \in Connections
                 PROVE  /\ \A j, k \in 1 .. Len(queue'[d]) : queue'[d][j] = queue'[d][k] => j = k
                        /\ \A j \in H!InQueue(d)' : j \notin sent'[d] /\ log'[j] # ClientOf[d]
      BY DEF H!OthersOnce
    <2>1. CASE d # c
      BY <1>1, <1>q, <1>4, <2>1 DEF H!OthersOnce
    <2>2. CASE d = c
      <3>1. \A j \in H!InQueue(c)' : j \notin sent'[c] /\ log'[j] # ClientOf[c]
        BY <1>1, <1>s, <1>3 DEF H!OthersOnce
      <3>2. ASSUME NEW j \in 1 .. Len(queue'[c]), NEW k \in 1 .. Len(queue'[c]), queue'[c][j] = queue'[c][k]
            PROVE  j = k
        <4>1. /\ j + 1 \in 1 .. Len(queue[c]) /\ queue'[c][j] = queue[c][j + 1]
              /\ k + 1 \in 1 .. Len(queue[c]) /\ queue'[c][k] = queue[c][k + 1]
          BY <1>b, <3>2
        <4>2. queue[c][j + 1] = queue[c][k + 1]
          BY <3>2, <4>1
        <4>3. j + 1 = k + 1
          BY <4>1, <4>2 DEF H!OthersOnce
        <4>4. j \in Nat /\ k \in Nat
          BY <3>2
        <4> QED
          BY <4>3, <4>4
      <3> QED
        BY <2>2, <3>1, <3>2
    <2> QED
      BY <2>1, <2>2
  <1>9. H!NoWindow'
    <2> SUFFICES ASSUME NEW d \in Connections, stage'[d] \in {"read", "live"},
                        NEW j \in ack'[d] + 1 .. Len(log')
                 PROVE  (H!Coming(j, d) \/ log[j] = ClientOf[d] \/ j \in overflow[d] \/ j \in unpublished)'
      BY DEF H!NoWindow
    <2>1. H!Coming(j, d) \/ log[j] = ClientOf[d] \/ j \in overflow[d] \/ j \in unpublished
      BY <1>1 DEF H!NoWindow
    <2>2. d = c \/ d \in Connections \ {c}
      OBVIOUS
    <2> QED
      BY <1>1, <1>q, <1>s, <1>3, <1>4, <2>1, <2>2 DEF H!Coming
  <1> QED
    BY <1>5, <1>6, <1>7, <1>8, <1>9

(* The other steps of a connection move its handler along: what is on its  *)
(* way to it stays, or the handler starts or ends with nothing on its way. *)
LEMMA ConnectionHolds == ASSUME HubInv, NEW c \in Connections, H!Connection(c) PROVE HubInv'
  <1> USE DEF HubInv
  <1>1. CASE H!ForwardEvent(c)
    BY <1>1, ForwardHolds
  <1>2. CASE H!Upgrade(c) \/ H!Subscribe(c) \/ H!ReadCursor(c) \/ H!WriteAck(c) \/ H!ForwardNote(c) \/ H!End(c)
    <2>1. UNCHANGED <<log, pending, walk, queue, sent, overflow, unpublished>>
      BY <1>2 DEF H!Upgrade, H!Subscribe, H!ReadCursor, H!WriteAck, H!ForwardNote, H!End
    <2>2. Cursors' = Cursors /\ \A d \in Connections : H!InQueue(d)' = H!InQueue(d)
      BY <2>1 DEF Cursors, H!InQueue
    <2>3. Len(log) \in Nat
      BY DEF HubTypes
    <2>4. /\ stage' \in [Connections -> H!Stages] /\ ack' \in [Connections -> Nat]
          /\ subs' \subseteq Connections /\ subs \subseteq subs'
      BY <1>2, <2>3 DEF H!Upgrade, H!Subscribe, H!ReadCursor, H!WriteAck, H!ForwardNote, H!End, HubTypes, H!Stages
    <2>5. HubTypes'
      BY <2>1, <2>2, <2>4 DEF HubTypes
    <2>6. Registered'
      BY <1>2 DEF H!Upgrade, H!Subscribe, H!ReadCursor, H!WriteAck, H!ForwardNote, H!End, HubTypes, Registered
    <2>7. OnePlace'
      BY <2>1, <2>2, <2>4 DEF OnePlace
    <2>8. H!OthersOnce'
      BY <2>1, <2>2 DEF H!OthersOnce
    <2>9. ASSUME NEW d \in Connections, stage'[d] \in {"read", "live"}
          PROVE  \/ ack'[d] = Len(log)
                 \/ stage[d] \in {"read", "live"} /\ ack'[d] = ack[d]
      BY <1>2, <2>9 DEF H!Upgrade, H!Subscribe, H!ReadCursor, H!WriteAck, H!ForwardNote, H!End, HubTypes
    <2>10. H!NoWindow'
      <3> SUFFICES ASSUME NEW d \in Connections, stage'[d] \in {"read", "live"},
                          NEW j \in ack'[d] + 1 .. Len(log')
                   PROVE  (H!Coming(j, d) \/ log[j] = ClientOf[d] \/ j \in overflow[d] \/ j \in unpublished)'
        BY DEF H!NoWindow
      <3>1. CASE ack'[d] = Len(log)
        BY <2>1, <2>3, <3>1
      <3>2. CASE stage[d] \in {"read", "live"} /\ ack'[d] = ack[d]
        BY <2>1, <2>2, <3>2 DEF H!NoWindow, H!Coming
      <3> QED
        BY <2>9, <3>1, <3>2
    <2> QED
      BY <2>5, <2>6, <2>7, <2>8, <2>10
  <1>3. CASE H!Close(c)
    <2>1. /\ walk = {} /\ subs' = subs \ {c} /\ UNCHANGED <<log, pending, walk, unpublished>>
          /\ stage' = [stage EXCEPT ![c] = "none"] /\ ack' = [ack EXCEPT ![c] = 0]
          /\ queue' = [queue EXCEPT ![c] = <<>>] /\ sent' = [sent EXCEPT ![c] = {}]
          /\ overflow' = [overflow EXCEPT ![c] = {}]
      BY <1>3 DEF H!Close, H!Unlocked, H!Forget
    <2>2. /\ Cursors' = Cursors /\ H!InQueue(c)' = {}
          /\ \A d \in Connections \ {c} : H!InQueue(d)' = H!InQueue(d)
      BY <2>1 DEF Cursors, H!InQueue, HubTypes
    <2>3. HubTypes'
      BY <2>1, <2>2 DEF HubTypes, H!Stages
    <2>4. Registered'
      BY <2>1 DEF Registered, HubTypes
    <2>5. OnePlace'
      BY <2>1, <2>2 DEF OnePlace, HubTypes
    <2>6. H!OthersOnce'
      BY <2>1, <2>2 DEF H!OthersOnce, HubTypes
    <2>7. H!NoWindow'
      BY <2>1, <2>2 DEF H!NoWindow, H!Coming, HubTypes
    <2> QED
      BY <2>3, <2>4, <2>5, <2>6, <2>7
  <1> QED
    BY <1>1, <1>2, <1>3 DEF H!Connection

THEOREM HubInductive == H!Spec => []HubInv
  <1>1. HubInv /\ [H!Next]_H!vars => HubInv'
    <2> SUFFICES ASSUME HubInv, [H!Next]_H!vars PROVE HubInv'
      OBVIOUS
    <2>1. CASE \E client \in Clients : H!Commit(client)
      BY <2>1, CommitHolds
    <2>2. CASE \E i \in 1 .. Len(log) : H!BeginPublish(i) \/ \E c \in Connections : H!Offer(i, c)
      BY <2>2, BeginHolds, OfferHolds
    <2>3. CASE (\E user \in {UserOf[c] : c \in Connections} : H!Notify(user)) \/ UNCHANGED H!vars
      <3>1. UNCHANGED <<log, pending, walk, subs, stage, ack, queue, sent, overflow, unpublished>>
        BY <2>3 DEF H!Notify, H!vars
      <3>2. Cursors' = Cursors /\ \A c \in Connections : H!InQueue(c)' = H!InQueue(c)
        BY <3>1 DEF Cursors, H!InQueue
      <3>3. HubTypes' /\ Registered'
        BY <3>1, <3>2 DEF HubInv, HubTypes, Registered
      <3>4. OnePlace' /\ H!OthersOnce'
        BY <3>1, <3>2 DEF HubInv, OnePlace, H!OthersOnce
      <3>5. H!NoWindow'
        BY <3>1, <3>2 DEF HubInv, H!NoWindow, H!Coming
      <3> QED
        BY <3>3, <3>4, <3>5 DEF HubInv
    <2>4. CASE \E c \in Connections : H!Connection(c)
      BY <2>4, ConnectionHolds
    <2>5. CASE H!Crash
      BY <2>5 DEF H!Crash, HubInv, HubTypes, Registered, OnePlace, H!OthersOnce, H!NoWindow, H!InQueue, Cursors, H!Stages
    <2> QED
      BY <2>1, <2>2, <2>3, <2>4, <2>5 DEF H!Next
  <1> QED
    BY HubInit, <1>1, PTL DEF H!Spec

(* Whatever another client commits after the cursor of a connection's ack  *)
(* is on its way to it, was dropped on a full channel, or was never        *)
(* published: it is offered once, and only to channels that are open, for  *)
(* any number of sockets, publishers, reconnections and restarts.          *)
THEOREM HubDeliversOnce == H!Spec => []H!HubDelivers
  <1>1. HubInv => H!HubDelivers
    BY DEF HubInv, HubTypes, Cursors, OnePlace, H!HubDelivers, H!OpenChannels
  <1> QED
    BY HubInductive, <1>1, PTL

(***************************************************************************)
(* What is proved about the hub holds in the composition of the two: its   *)
(* steps are the hub's, or leave the hub alone.                            *)
(***************************************************************************)
(* Beside the organizations, too, an event another client committed after  *)
(* the cursor of a socket's ack reaches that socket once, or was dropped   *)
(* or never published, and only open channels are written.                 *)
THEOREM BackendDelivers == BackendSpec => []HubDelivers
  <1>1. BackendInit => H!Init
    BY DEF BackendInit
  <1>2. [BackendNext]_AllVars => [H!Next]_H!vars
    BY DEF BackendNext, AllVars, hubVars, H!vars, H!connVars
  <1>3. H!Spec => []H!HubDelivers
    BY HubDeliversOnce
  <1> QED
    BY <1>1, <1>2, <1>3, PTL DEF BackendSpec, H!Spec, HubDelivers
================================================================================
