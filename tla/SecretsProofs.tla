----------------------------- MODULE SecretsProofs -----------------------------
(***************************************************************************)
(* Machine-checked proofs about Secrets, for any creations, mails, readers *)
(* and sockets, and any limit on the content.                              *)
(***************************************************************************)
EXTENDS MCForms, FiniteSetTheorems, SequenceTheorems, TLAPS

(***************************************************************************)
(* Types.                                                                  *)
(***************************************************************************)
Rows == [status : {None, "pending", "read"}, lapsed : BOOLEAN, wrapped : BOOLEAN,
         sentTo : Recipients \cup {None}]
Forms == [pc : {"idle", "asked", "failed", "made", "recorded", "shown"}, wrapped : BOOLEAN, length : Nat]
AnyLink == Links \cup {NoLink}
MailForms == [pc : {"idle", "asked", "loaded", "mailed", "sent", "failed"}, link : AnyLink,
              to : Recipients \cup {None}]
Pages == [status : {"idle", "loading", "gone", "ready", "pending", "error", "revealed"},
          link : AnyLink, burned : BOOLEAN, call : {None, "burn", "notify"}]
Ends == [active : BOOLEAN, open : BOOLEAN, queue : Seq(Secrets)]

RowTypes == rows \in [Secrets -> Rows] /\ creating \in [Secrets -> Forms]
LinkTypes ==
  /\ window \in AnyLink /\ handed \subseteq Links /\ mails \in [Mails -> MailForms]
  /\ \A m \in Mails : mails[m].pc \in {"asked", "loaded", "mailed"} => mails[m].link \in Links
TabTypes ==
  /\ tabs \in [Readers -> Pages]
  /\ \A p \in Readers : /\ tabs[p].status # "idle" => tabs[p].link \in Links
                        /\ tabs[p].call # None => tabs[p].status = "revealed"
StateTypes ==
  /\ signedIn \in BOOLEAN /\ records \subseteq Secrets
  /\ confirmed \in Seq(Secrets) /\ revision \in Nat
  /\ lines \in [Lines -> Ends]

(***************************************************************************)
(* The invariant: what a form that was sent has stored; which links are    *)
(* under way; what a read secret's page, its frames and its confirmation   *)
(* may rely on.                                                            *)
(***************************************************************************)
FormInv ==
  \A s \in Secrets :
    /\ creating[s].pc \in {"idle", "asked"} => rows[s].status = None
    /\ creating[s].pc \in {"made", "recorded", "shown"} =>
         rows[s].status # None /\ rows[s].wrapped = creating[s].wrapped
    /\ creating[s].pc # "idle" => Fits(creating[s].length)

OpensIt(link) == rows[link.token].status # None /\ (rows[link.token].wrapped \/ link.fragment = link.token)
LinkInv ==
  /\ \A link \in handed : OpensIt(link)
  /\ window # NoLink => window \in handed
  /\ \A m \in Mails : mails[m].pc \in {"asked", "loaded", "mailed"} => mails[m].link \in handed

ReadInv ==
  /\ \A s \in Secrets : rows[s].status = "read" => Shown(s)
  /\ \A p \in Readers : tabs[p].call = "notify" => rows[tabs[p].link.token].status = "read"
  /\ \A k \in Lines : \A i \in 1 .. Len(lines[k].queue) : rows[lines[k].queue[i]].status = "read"

ConfInv ==
  /\ \A i, j \in 1 .. Len(confirmed) : confirmed[i] = confirmed[j] => i = j
  /\ revision = Len(confirmed)
  /\ \A i \in 1 .. Len(confirmed) : rows[confirmed[i]].status = "read"

SecretsTypes == RowTypes /\ LinkTypes /\ TabTypes /\ StateTypes
SecretsInv == SecretsTypes /\ FormInv /\ LinkInv /\ ReadInv /\ ConfInv

(* Base64 takes four characters for every three bytes begun: what the      *)
(* form computes and what the service measures are the same.               *)
LEMMA LengthsAgree ==
  ASSUME NEW n \in Nat
  PROVE  Base64Length(n) \in Nat /\ Base64Length(n) <= ((n + 2) \div 3) * 4
  <1> DEFINE S == {i \in 0 .. n : i % 3 = 0 /\ i < n}
             c == (n + 2) \div 3
             f == [j \in 1 .. c |-> 3 * (j - 1)]
  <1>1. c \in Nat /\ 3 * c <= n + 2 /\ n < 3 * c + 1
    OBVIOUS
  <1>2. IsFiniteSet(1 .. c) /\ Cardinality(1 .. c) = c
    BY <1>1, FS_Interval
  <1>3. IsFiniteSet(S)
    <2>1. IsFiniteSet(0 .. n) /\ S \subseteq 0 .. n
      BY FS_Interval
    <2> QED
      BY <2>1, FS_Subset
  <1>4. \A i \in S : \E j \in 1 .. c : f[j] = i
    <2> SUFFICES ASSUME NEW i \in S PROVE \E j \in 1 .. c : f[j] = i
      OBVIOUS
    <2>1. PICK j \in Nat : i = 3 * j
      <3>1. i \in Nat /\ i % 3 = 0
        OBVIOUS
      <3> QED
        BY <3>1
    <2>2. j + 1 \in 1 .. c
      BY <1>1, <2>1
    <2> QED
      BY <2>1, <2>2
  <1>5. f \in Surjection(1 .. c, S)
    <2>1. \A j \in 1 .. c : 3 * (j - 1) \in 0 .. n /\ (3 * (j - 1)) % 3 = 0 /\ 3 * (j - 1) < n
      BY <1>1
    <2>2. f \in [1 .. c -> S]
      BY <2>1
    <2> QED
      BY <1>4, <2>2 DEF Surjection
  <1>6. Cardinality(S) <= c /\ Cardinality(S) \in Nat
    <2> HIDE DEF S, f
    <2> QED
      BY <1>2, <1>3, <1>5, FS_Surjection, FS_CardinalityType
  <1> QED
    BY <1>1, <1>6 DEF Base64Length

(* What the form lets through the service does not refuse for its size.    *)
LEMMA WhatIsSentFits ==
  ASSUME NEW length \in Nat, estimateContentLimitStatus(length) # "over"
  PROVE  Fits(length)
  <1> DEFINE n == length + TagBytes
             e == ((n + 2) \div 3) * 4
  <1>1. n \in Nat /\ e \in Nat /\ e = ((length + TagBytes + 2) \div 3) * 4
    BY DEF TagBytes
  <1>2. ~ (e > Cap)
    BY <1>1 DEF estimateContentLimitStatus
  <1>3. Base64Length(n) \in Nat /\ Base64Length(n) <= e
    BY <1>1, LengthsAgree
  <1> QED
    BY <1>1, <1>2, <1>3, SecretsAssumption DEF Fits

(***************************************************************************)
(* Every step keeps the types.                                             *)
(***************************************************************************)
LEMMA LinksAreKnown ==
  /\ \A s \in Secrets : LinkOf(s) \in Links
  /\ \A link \in Links : /\ link # NoLink /\ link.token \in Secrets
                         /\ [link EXCEPT !.fragment = None] \in Links
  BY SecretsAssumption DEF LinkOf, Links, NoLink, exportContentKey, generateContentKey

LEMMA RowTypesNext == ASSUME SecretsTypes, [Next]_vars PROVE RowTypes'
  <1> USE DEF SecretsTypes, RowTypes
  <1>1. CASE UNCHANGED <<rows, creating>>
    BY <1>1
  <1>2. ASSUME NEW s \in Secrets, SecretStep(s)
        PROVE  RowTypes'
    <2>1. CASE \E wrapped \in BOOLEAN, length \in Lengths : runCreateSecret(s, wrapped, length)
      BY <2>1, SecretsAssumption DEF runCreateSecret, Forms
    <2>2. CASE Create(s)
      <3>1. rows[s] \in Rows /\ creating[s] \in Forms
        OBVIOUS
      <3>2. /\ creating' \in {[creating EXCEPT ![s].pc = "made"], [creating EXCEPT ![s].pc = "failed"]}
            /\ rows' = [rows EXCEPT ![s].status = "pending", ![s].wrapped = creating[s].wrapped]
        BY <2>2 DEF Create
      <3>3. creating' \in [Secrets -> Forms]
        BY <3>1, <3>2 DEF Forms
      <3>4. rows' \in [Secrets -> Rows]
        BY <3>1, <3>2 DEF Forms, Rows
      <3> QED
        BY <3>3, <3>4
    <2>3. CASE createSecret(s) \/ renderSecretLink(s)
      BY <2>3 DEF createSecret, renderSecretLink, Forms
    <2>4. CASE Lapse(s)
      BY <2>4 DEF Lapse, Rows
    <2> QED
      BY <1>2, <2>1, <2>2, <2>3, <2>4 DEF SecretStep
  <1>3. ASSUME NEW m \in Mails, RecordEmailSent(m)
        PROVE  RowTypes'
    <2>1. mails[m] \in MailForms
      BY DEF LinkTypes
    <2> QED
      BY <1>3, <2>1, ZenonT(60) DEF RecordEmailSent, Rows, MailForms
  <1>4. ASSUME NEW p \in Readers, Burn(p)
        PROVE  RowTypes'
    BY <1>4 DEF Burn, Rows
  <1> QED
    BY <1>1, <1>2, <1>3, <1>4 DEF Next, vars, MailStep, TabStep, LineStep, extVars,
       runSendSecretEmail, LoadOwned, SendSecretLink, Open, getSecret, handlePassphraseSubmit,
       revealAndBurn, NotifySecretRead, CallLost, Connect, Abandon, Unsubscribe, onSecretRead,
       resetToCreateForm, logout, login

LEMMA LinkTypesNext == ASSUME SecretsTypes, [Next]_vars PROVE LinkTypes'
  <1> USE DEF SecretsTypes, LinkTypes
  <1>1. CASE UNCHANGED <<window, handed, mails>>
    BY <1>1
  <1>2. ASSUME NEW s \in Secrets, renderSecretLink(s)
        PROVE  LinkTypes'
    BY <1>2, LinksAreKnown DEF renderSecretLink, AnyLink
  <1>3. CASE resetToCreateForm
    BY <1>3 DEF resetToCreateForm, AnyLink
  <1>4. ASSUME NEW m \in Mails, MailStep(m)
        PROVE  LinkTypes'
    <2>1. mails[m] \in MailForms /\ \A pc \in {"sent", "failed"} : Mail(pc) \in MailForms
      BY DEF MailForms, Mail, AnyLink
    <2>2. CASE \E to \in Recipients : runSendSecretEmail(m, to)
      <3>1. window # NoLink => window \in Links
        BY DEF AnyLink
      <3> QED
        BY <2>1, <2>2, <3>1 DEF runSendSecretEmail, MailForms, Mail
    <2>3. CASE LoadOwned(m)
      BY <2>1, <2>3 DEF LoadOwned, MailForms, Mail
    <2>4. CASE SendSecretLink(m)
      BY <2>1, <2>4 DEF SendSecretLink, MailForms, Mail
    <2>5. CASE RecordEmailSent(m)
      BY <2>1, <2>5 DEF RecordEmailSent, Mail
    <2> QED
      BY <1>4, <2>2, <2>3, <2>4, <2>5 DEF MailStep
  <1> QED
    BY <1>1, <1>2, <1>3, <1>4 DEF Next, vars, SecretStep, TabStep, LineStep, extVars,
       runCreateSecret, Create, createSecret, Lapse, Open, getSecret, handlePassphraseSubmit,
       revealAndBurn, Burn, NotifySecretRead, CallLost, Connect, Abandon, Unsubscribe, onSecretRead,
       logout, login

LEMMA TabTypesNext == ASSUME SecretsTypes, [Next]_vars PROVE TabTypes'
  <1> USE DEF SecretsTypes, TabTypes
  <1>1. CASE UNCHANGED tabs
    BY <1>1
  <1>2. ASSUME NEW p \in Readers, TabStep(p)
        PROVE  TabTypes'
    <2>1. tabs[p] \in Pages
      OBVIOUS
    <2>2. CASE \E link \in handed, whole \in BOOLEAN : Open(p, link, whole)
      <3>1. PICK link \in handed, whole \in BOOLEAN : Open(p, link, whole)
        BY <2>2
      <3>2. PICK l \in Links : l = IF whole THEN link ELSE [link EXCEPT !.fragment = None]
        BY LinksAreKnown DEF LinkTypes
      <3>3. tabs' = [tabs EXCEPT ![p].status = "loading", ![p].link = l] /\ tabs[p].status = "idle"
        BY <3>1, <3>2 DEF Open
      <3>4. /\ tabs' \in [Readers -> Pages] /\ \A r \in Readers \ {p} : tabs'[r] = tabs[r]
            /\ tabs'[p].link = l /\ tabs'[p].status = "loading" /\ tabs'[p].call = tabs[p].call
        BY <2>1, <3>3 DEF Pages, AnyLink
      <3> SUFFICES ASSUME NEW r \in Readers
                   PROVE  /\ tabs'[r].status # "idle" => tabs'[r].link \in Links
                          /\ tabs'[r].call # None => tabs'[r].status = "revealed"
        BY <3>4
      <3>5. CASE r = p
        BY <3>2, <3>3, <3>4, <3>5
      <3>6. CASE r # p
        BY <3>4, <3>6
      <3> QED
        BY <3>5, <3>6
    <2>3. CASE getSecret(p)
      BY <2>1, <2>3 DEF getSecret, Pages
    <2>4. CASE (\E right \in BOOLEAN : handlePassphraseSubmit(p, right)) \/ revealAndBurn(p)
      BY <2>1, <2>4 DEF handlePassphraseSubmit, revealAndBurn, Pages
    <2>5. CASE Burn(p) \/ NotifySecretRead(p) \/ CallLost(p)
      <3>1. /\ \E call \in {None, "notify"} : tabs' = [tabs EXCEPT ![p].call = call]
            /\ tabs[p].call # None
        BY <2>5 DEF Burn, NotifySecretRead, CallLost, None
      <3> QED
        BY <2>1, <3>1 DEF Pages
    <2> QED
      BY <1>2, <2>2, <2>3, <2>4, <2>5 DEF TabStep
  <1> QED
    BY <1>1, <1>2 DEF Next, vars, SecretStep, MailStep, LineStep, extVars,
       runCreateSecret, Create, createSecret, renderSecretLink, Lapse,
       runSendSecretEmail, LoadOwned, SendSecretLink, RecordEmailSent,
       Connect, Abandon, Unsubscribe, onSecretRead, resetToCreateForm, logout, login

(* The queue and the list of confirmations are sequences of secrets.       *)
LEMMA Appended ==
  ASSUME NEW q \in Seq(Secrets), NEW s \in Secrets
  PROVE  /\ Append(q, s) \in Seq(Secrets) /\ Len(q) \in Nat /\ Len(Append(q, s)) = Len(q) + 1
         /\ \A i \in 1 .. Len(q) : Append(q, s)[i] = q[i]
         /\ Append(q, s)[Len(q) + 1] = s
  OBVIOUS

LEMMA StateTypesNext == ASSUME SecretsTypes, [Next]_vars PROVE StateTypes'
  <1> USE DEF SecretsTypes, StateTypes
  <1>1. CASE UNCHANGED <<signedIn, records, confirmed, revision, lines>>
    BY <1>1
  <1>2. ASSUME NEW s \in Secrets, createSecret(s)
        PROVE  StateTypes'
    BY <1>2 DEF createSecret
  <1>3. ASSUME NEW p \in Readers, NotifySecretRead(p)
        PROVE  StateTypes'
    <2>1. UNCHANGED <<signedIn, records, confirmed, revision>>
      BY <1>3 DEF NotifySecretRead, extVars
    <2> DEFINE s == tabs[p].link.token
    <2>2. lines' = [k \in Lines |-> IF Room(k) THEN [lines[k] EXCEPT !.queue = Append(@, s)] ELSE lines[k]]
      BY <1>3 DEF NotifySecretRead
    <2>3. s \in Secrets
      <3>1. tabs[p].link \in Links
        <4>1. tabs[p].call # None
          BY <1>3 DEF NotifySecretRead, None
        <4>2. tabs[p].status # "idle"
          BY <4>1 DEF TabTypes
        <4> QED
          BY <4>2 DEF TabTypes
      <3> QED
        BY <3>1, LinksAreKnown
    <2> HIDE DEF s
    <2>4. \A k \in Lines : [lines[k] EXCEPT !.queue = Append(@, s)] \in Ends
      <3> TAKE k \in Lines
      <3>1. lines[k] \in Ends /\ Append(lines[k].queue, s) \in Seq(Secrets)
        BY <2>3, Appended DEF Ends
      <3> QED
        BY <3>1 DEF Ends
    <2> QED
      BY <2>1, <2>2, <2>4
  <1>4. ASSUME NEW k \in Lines, LineStep(k)
        PROVE  StateTypes'
    <2>1. lines[k] \in Ends /\ <<>> \in Seq(Secrets)
      OBVIOUS
    <2>2. CASE Connect(k) \/ Abandon(k) \/ Unsubscribe(k)
      <3>1. UNCHANGED <<signedIn, records, confirmed, revision>>
        BY <2>2 DEF Connect, Abandon, Unsubscribe, extVars
      <3>2. \E e \in Ends : lines' = [lines EXCEPT ![k] = e]
        <4>1. CASE Connect(k)
          BY <2>1, <4>1 DEF Connect, Ends
        <4>2. CASE Abandon(k)
          BY <2>1, <4>2 DEF Abandon, Ends
        <4>3. CASE Unsubscribe(k)
          <5> DEFINE e == [lines[k] EXCEPT !.open = FALSE, !.queue = <<>>]
          <5>1. e \in Ends
            BY <2>1 DEF Ends
          <5>2. lines' = [lines EXCEPT ![k] = e]
            BY <2>1, <4>3 DEF Unsubscribe, Ends
          <5> QED
            BY <5>1, <5>2
        <4> QED
          BY <2>2, <4>1, <4>2, <4>3
      <3> QED
        BY <3>1, <3>2
    <2>3. CASE onSecretRead(k)
      <3> DEFINE q == lines[k].queue
      <3>1. q \in Seq(Secrets) /\ q # <<>> /\ lines' = [lines EXCEPT ![k].queue = Tail(q)]
        BY <2>1, <2>3 DEF onSecretRead, Ends
      <3> HIDE DEF q
      <3>2. Tail(q) \in Seq(Secrets) /\ Head(q) \in Secrets
        BY <3>1
      <3>3. lines' \in [Lines -> Ends]
        BY <2>1, <3>1, <3>2 DEF Ends
      <3>4. /\ UNCHANGED <<signedIn, records>>
            /\ confirmed' \in {confirmed, Append(confirmed, Head(q))} /\ revision' \in {revision, revision + 1}
        BY <2>3 DEF onSecretRead, recordSecretRead, q
      <3>5. Append(confirmed, Head(q)) \in Seq(Secrets)
        BY <3>2, Appended
      <3>6. confirmed' \in Seq(Secrets) /\ revision' \in Nat
        <4>1. PICK new : new = Append(confirmed, Head(q))
          OBVIOUS
        <4>2. new \in Seq(Secrets) /\ confirmed' \in {confirmed, new}
          BY <3>4, <3>5, <4>1
        <4> QED
          BY <3>4, <4>2
      <3>7. signedIn' \in BOOLEAN /\ records' \subseteq Secrets
        BY <3>4
      <3> QED
        BY <3>3, <3>6, <3>7
    <2> QED
      BY <1>4, <2>2, <2>3 DEF LineStep
  <1>5. CASE logout \/ login
    <2>1. \A k \in Lines : lines[k] \in Ends
      OBVIOUS
    <2> QED
      <3>1. CASE logout
        <4>1. \A k \in Lines : [lines[k] EXCEPT !.active = FALSE] \in Ends
          BY <2>1 DEF Ends
        <4>2. lines' \in [Lines -> Ends]
          BY <3>1, <4>1 DEF logout
        <4>3. signedIn' = FALSE /\ records' = {} /\ confirmed' = <<>> /\ revision' = 0
          BY <3>1 DEF logout
        <4>4. <<>> \in Seq(Secrets) /\ {} \subseteq Secrets /\ 0 \in Nat
          OBVIOUS
        <4> QED
          BY <4>2, <4>3, <4>4
      <3>2. CASE login
        BY <3>2 DEF login
      <3> QED
        BY <1>5, <3>1, <3>2
  <1> QED
    BY <1>1, <1>2, <1>3, <1>4, <1>5 DEF Next, vars, SecretStep, MailStep, TabStep, extVars,
       runCreateSecret, Create, renderSecretLink, Lapse,
       runSendSecretEmail, LoadOwned, SendSecretLink, RecordEmailSent,
       Open, getSecret, handlePassphraseSubmit, revealAndBurn, Burn, CallLost, resetToCreateForm

LEMMA TypesNext == SecretsTypes /\ [Next]_vars => SecretsTypes'
  BY RowTypesNext, LinkTypesNext, TabTypesNext, StateTypesNext DEF SecretsTypes

(***************************************************************************)
(* What a row, a form and a page never take back.                          *)
(***************************************************************************)
LEMMA FormInvNext == ASSUME SecretsTypes, FormInv, [Next]_vars PROVE FormInv'
  <1>0. rows \in [Secrets -> Rows] /\ creating \in [Secrets -> Forms]
    BY DEF SecretsTypes, RowTypes
  <1>1. CASE UNCHANGED <<rows, creating>>
    BY <1>1 DEF FormInv
  <1>2. ASSUME NEW s \in Secrets, SecretStep(s)
        PROVE  FormInv'
    <2>1. CASE \E wrapped \in BOOLEAN, length \in Lengths : runCreateSecret(s, wrapped, length)
      <3>1. PICK wrapped \in BOOLEAN, length \in Lengths : runCreateSecret(s, wrapped, length)
        BY <2>1
      <3>2. Fits(length)
        BY <3>1, WhatIsSentFits, SecretsAssumption DEF runCreateSecret
      <3>3. /\ rows' = rows /\ creating[s].pc = "idle" /\ \A u \in Secrets \ {s} : creating'[u] = creating[u]
            /\ creating'[s].pc \in {"asked", "failed"} /\ creating'[s].length = length
        BY <1>0, <3>1 DEF runCreateSecret
      <3> QED
        BY <3>2, <3>3 DEF FormInv
    <2>2. CASE Create(s)
      <3>1. /\ creating[s].pc = "asked" /\ \A u \in Secrets \ {s} : creating'[u] = creating[u] /\ rows'[u] = rows[u]
            /\ creating'[s].pc \in {"made", "failed"}
            /\ creating'[s].length = creating[s].length /\ creating'[s].wrapped = creating[s].wrapped
            /\ rows'[s].status = "pending" /\ rows'[s].wrapped = creating[s].wrapped
        BY <1>0, <2>2 DEF Create, Forms, Rows
      <3> QED
        BY <3>1 DEF FormInv, None
    <2>3. CASE createSecret(s) \/ renderSecretLink(s)
      <3>1. /\ rows' = rows /\ creating[s].pc \in {"made", "recorded"}
            /\ \A u \in Secrets \ {s} : creating'[u] = creating[u]
            /\ creating'[s].pc \in {"recorded", "shown"}
            /\ creating'[s].length = creating[s].length /\ creating'[s].wrapped = creating[s].wrapped
        BY <1>0, <2>3 DEF createSecret, renderSecretLink, Forms
      <3> QED
        BY <3>1 DEF FormInv
    <2>4. CASE Lapse(s)
      <3>1. creating' = creating /\ \A u \in Secrets : rows'[u].status = rows[u].status /\ rows'[u].wrapped = rows[u].wrapped
        BY <1>0, <2>4 DEF Lapse, Rows
      <3> QED
        BY <3>1 DEF FormInv
    <2> QED
      BY <1>2, <2>1, <2>2, <2>3, <2>4 DEF SecretStep
  <1>3. ASSUME NEW m \in Mails, RecordEmailSent(m)
        PROVE  FormInv'
    <2>1. creating' = creating /\ \A u \in Secrets : rows'[u].status = rows[u].status /\ rows'[u].wrapped = rows[u].wrapped
      BY <1>0, <1>3 DEF RecordEmailSent, Rows
    <2> QED
      BY <2>1 DEF FormInv
  <1>4. ASSUME NEW p \in Readers, Burn(p)
        PROVE  FormInv'
    <2>1. creating' = creating /\ \A u \in Secrets : /\ rows'[u].wrapped = rows[u].wrapped
                                                     /\ rows[u].status = None <=> rows'[u].status = None
      BY <1>0, <1>4 DEF Burn, Rows, Gone, None
    <2> QED
      BY <2>1 DEF FormInv
  <1> QED
    BY <1>1, <1>2, <1>3, <1>4 DEF Next, vars, MailStep, TabStep, LineStep, extVars,
       runSendSecretEmail, LoadOwned, SendSecretLink, Open, getSecret, handlePassphraseSubmit,
       revealAndBurn, NotifySecretRead, CallLost, Connect, Abandon, Unsubscribe, onSecretRead,
       resetToCreateForm, logout, login

(* A row that is there keeps its kind, a read one stays read, and only a   *)
(* burn makes one read.                                                    *)
LEMMA RowsGrow ==
  ASSUME SecretsTypes, FormInv, [Next]_vars
  PROVE  \A s \in Secrets :
           /\ rows[s].status # None => rows'[s].status # None /\ rows'[s].wrapped = rows[s].wrapped
           /\ rows[s].status = "read" => rows'[s].status = "read"
           /\ rows'[s].status = "read" =>
                rows[s].status = "read" \/ \E p \in Readers : Burn(p) /\ tabs[p].link.token = s
  <1>0. rows \in [Secrets -> Rows] /\ creating \in [Secrets -> Forms]
    BY DEF SecretsTypes, RowTypes
  <1> SUFFICES ASSUME NEW s \in Secrets
               PROVE  /\ rows[s].status # None => rows'[s].status # None /\ rows'[s].wrapped = rows[s].wrapped
                      /\ rows[s].status = "read" => rows'[s].status = "read"
                      /\ rows'[s].status = "read" =>
                           rows[s].status = "read" \/ \E p \in Readers : Burn(p) /\ tabs[p].link.token = s
    OBVIOUS
  <1>1. CASE rows' = rows
    BY <1>1
  <1>2. ASSUME NEW u \in Secrets, Create(u)
        PROVE  /\ rows[s].status # None => rows'[s].status # None /\ rows'[s].wrapped = rows[s].wrapped
               /\ rows[s].status = "read" <=> rows'[s].status = "read"
    BY <1>0, <1>2 DEF Create, FormInv, Rows, Forms, None
  <1>3. ASSUME NEW u \in Secrets, Lapse(u)
        PROVE  rows'[s].status = rows[s].status /\ rows'[s].wrapped = rows[s].wrapped
    BY <1>0, <1>3 DEF Lapse, Rows
  <1>4. ASSUME NEW m \in Mails, RecordEmailSent(m)
        PROVE  rows'[s].status = rows[s].status /\ rows'[s].wrapped = rows[s].wrapped
    BY <1>0, <1>4 DEF RecordEmailSent, Rows
  <1>5. ASSUME NEW p \in Readers, Burn(p)
        PROVE  /\ rows[s].status # None => rows'[s].status # None /\ rows'[s].wrapped = rows[s].wrapped
               /\ rows[s].status = "read" => rows'[s].status = "read"
               /\ rows'[s].status = "read" => rows[s].status = "read" \/ tabs[p].link.token = s
    BY <1>0, <1>5 DEF Burn, Rows, None
  <1> QED
    BY <1>1, <1>2, <1>3, <1>4, <1>5 DEF Next, vars, SecretStep, MailStep, TabStep, LineStep, extVars,
       runCreateSecret, createSecret, renderSecretLink,
       runSendSecretEmail, LoadOwned, SendSecretLink, Open, getSecret, handlePassphraseSubmit,
       revealAndBurn, NotifySecretRead, CallLost, Connect, Abandon, Unsubscribe, onSecretRead,
       resetToCreateForm, logout, login

(* A page that has revealed its secret keeps showing it, and its calls end *)
(* or go on.                                                               *)
LEMMA PagesStay ==
  ASSUME SecretsTypes, [Next]_vars
  PROVE  \A p \in Readers :
           /\ tabs[p].status = "revealed" => tabs'[p].status = "revealed" /\ tabs'[p].link = tabs[p].link
           /\ tabs'[p].call = "notify" => \/ tabs[p].call = "notify" /\ tabs'[p].link = tabs[p].link
                                          \/ Burn(p) /\ ~ Gone(tabs[p].link.token) /\ tabs'[p].link = tabs[p].link
  <1>0. tabs \in [Readers -> Pages]
    BY DEF SecretsTypes, TabTypes
  <1>1. CASE tabs' = tabs
    BY <1>1
  <1>2. ASSUME NEW r \in Readers, TabStep(r)
        PROVE  \A p \in Readers :
           /\ tabs[p].status = "revealed" => tabs'[p].status = "revealed" /\ tabs'[p].link = tabs[p].link
           /\ tabs'[p].call = "notify" => \/ tabs[p].call = "notify" /\ tabs'[p].link = tabs[p].link
                                          \/ Burn(p) /\ ~ Gone(tabs[p].link.token) /\ tabs'[p].link = tabs[p].link
    <2>0. tabs[r].call # None => tabs[r].status = "revealed"
      BY DEF SecretsTypes, TabTypes
    <2>1. CASE \E link \in handed, whole \in BOOLEAN : Open(r, link, whole)
      <3>1. PICK l : tabs' = [tabs EXCEPT ![r].status = "loading", ![r].link = l] /\ tabs[r].status = "idle"
        BY <2>1 DEF Open
      <3>2. tabs[r].call # "notify"
        BY <2>0, <3>1 DEF None
      <3> QED
        BY <1>0, <3>1, <3>2 DEF Pages
    <2>2. CASE getSecret(r) \/ \E right \in BOOLEAN : handlePassphraseSubmit(r, right)
      <3>1. PICK st : tabs' = [tabs EXCEPT ![r].status = st] /\ tabs[r].status \in {"loading", "pending"}
        BY <2>2 DEF getSecret, handlePassphraseSubmit
      <3> QED
        BY <1>0, <3>1 DEF Pages
    <2>3. CASE revealAndBurn(r)
      BY <1>0, <2>3 DEF revealAndBurn, Pages
    <2>4. CASE NotifySecretRead(r) \/ CallLost(r)
      <3>1. tabs' = [tabs EXCEPT ![r].call = None]
        BY <2>4 DEF NotifySecretRead, CallLost
      <3> QED
        BY <1>0, <3>1 DEF Pages, None
    <2>5. CASE Burn(r)
      <3>1. tabs' = [tabs EXCEPT ![r].call = IF Gone(tabs[r].link.token) THEN None ELSE "notify"]
        BY <2>5 DEF Burn
      <3> QED
        BY <1>0, <2>5, <3>1 DEF Pages, None
    <2> QED
      BY <1>2, <2>1, <2>2, <2>3, <2>4, <2>5 DEF TabStep
  <1> QED
    BY <1>1, <1>2 DEF Next, vars, SecretStep, MailStep, LineStep, extVars,
       runCreateSecret, Create, createSecret, renderSecretLink, Lapse,
       runSendSecretEmail, LoadOwned, SendSecretLink, RecordEmailSent,
       Connect, Abandon, Unsubscribe, onSecretRead, resetToCreateForm, logout, login

(* A link that opened its secret opens it for good.                        *)
LEMMA LinksKeepOpening ==
  ASSUME SecretsTypes, FormInv, [Next]_vars
  PROVE  \A link \in Links : OpensIt(link) => OpensIt(link)'
  <1> SUFFICES ASSUME NEW link \in Links, OpensIt(link)
               PROVE  OpensIt(link)'
    OBVIOUS
  <1>1. link.token \in Secrets
    BY LinksAreKnown
  <1>2. rows'[link.token].status # None /\ rows'[link.token].wrapped = rows[link.token].wrapped
    BY <1>1, RowsGrow DEF OpensIt
  <1> QED
    BY <1>2 DEF OpensIt

LEMMA LinkInvNext == ASSUME SecretsTypes, FormInv, LinkInv, [Next]_vars PROVE LinkInv'
  <1>0. /\ handed \subseteq Links /\ mails \in [Mails -> MailForms]
        /\ creating \in [Secrets -> Forms] /\ rows \in [Secrets -> Rows]
    BY DEF SecretsTypes, LinkTypes, RowTypes
  <1>1. \A link \in handed : OpensIt(link)'
    BY <1>0, LinksKeepOpening DEF LinkInv
  <1>2. CASE UNCHANGED <<window, handed, mails>>
    BY <1>1, <1>2 DEF LinkInv
  <1>3. ASSUME NEW s \in Secrets, renderSecretLink(s)
        PROVE  LinkInv'
    <2>1. rows[s].status # None /\ rows[s].wrapped = creating[s].wrapped /\ rows' = rows
      BY <1>3 DEF FormInv, renderSecretLink
    <2>2. PICK link \in Links : link = LinkOf(s)
      BY LinksAreKnown
    <2>3. OpensIt(link)
      BY <2>1, <2>2 DEF OpensIt, LinkOf, exportContentKey, generateContentKey
    <2>4. OpensIt(link)'
      BY <2>3, LinksKeepOpening
    <2>5. window' = link /\ handed' = handed \cup {link} /\ mails' = mails
      BY <1>3, <2>2 DEF renderSecretLink
    <2> QED
      BY <1>1, <2>4, <2>5 DEF LinkInv
  <1>4. CASE resetToCreateForm
    BY <1>1, <1>4 DEF LinkInv, resetToCreateForm
  <1>5. ASSUME NEW m \in Mails, MailStep(m)
        PROVE  LinkInv'
    <2>1. PICK mail : /\ mails' = [mails EXCEPT ![m] = mail] /\ window' = window
                      /\ mail.pc \in {"asked", "loaded", "mailed"} => mail.link \in handed
                      /\ handed' \in {handed, handed \cup {mails[m].link}}
                      /\ mails[m].pc = "loaded" \/ handed' = handed
      <3>1. CASE \E to \in Recipients : runSendSecretEmail(m, to)
        BY <3>1 DEF runSendSecretEmail, LinkInv, Mail
      <3>2. CASE LoadOwned(m)
        BY <1>0, <3>2 DEF LoadOwned, LinkInv, Mail, MailForms
      <3>3. CASE SendSecretLink(m)
        <4>1. \/ handed' = handed \cup {mails[m].link} /\ mails' = [mails EXCEPT ![m].pc = "mailed"]
              \/ handed' = handed /\ mails' = [mails EXCEPT ![m] = Mail("failed")]
          BY <3>3 DEF SendSecretLink
        <4>2. /\ window' = window /\ mails[m].pc = "loaded" /\ mails[m].link \in handed
          BY <3>3 DEF SendSecretLink, LinkInv
        <4>3. CASE mails' = [mails EXCEPT ![m].pc = "mailed"]
          <5> DEFINE mail == [mails[m] EXCEPT !.pc = "mailed"]
          <5>1. mails' = [mails EXCEPT ![m] = mail] /\ mail.link = mails[m].link
            BY <1>0, <4>3 DEF MailForms
          <5> QED
            BY <4>1, <4>2, <5>1
        <4>4. CASE mails' = [mails EXCEPT ![m] = Mail("failed")]
          BY <4>1, <4>2, <4>4 DEF Mail
        <4> QED
          BY <4>1, <4>3, <4>4
      <3>4. CASE RecordEmailSent(m)
        BY <3>4 DEF RecordEmailSent, Mail
      <3> QED
        BY <1>5, <3>1, <3>2, <3>3, <3>4 DEF MailStep
    <2>2. handed' = handed
      BY <2>1 DEF LinkInv
    <2>3. \A n \in Mails : mails'[n] = IF n = m THEN mail ELSE mails[n]
      BY <1>0, <2>1
    <2> QED
      BY <1>1, <2>1, <2>2, <2>3 DEF LinkInv
  <1> QED
    BY <1>2, <1>3, <1>4, <1>5 DEF Next, vars, SecretStep, TabStep, LineStep, extVars,
       runCreateSecret, Create, createSecret, Lapse, Open, getSecret, handlePassphraseSubmit,
       revealAndBurn, Burn, NotifySecretRead, CallLost, Connect, Abandon, Unsubscribe, onSecretRead,
       logout, login

(* The page behind a call has a known link and has revealed its secret.    *)
LEMMA CallersKnown ==
  ASSUME SecretsTypes
  PROVE  /\ \A p \in Readers : tabs[p].call # None => tabs[p].status = "revealed" /\ tabs[p].link.token \in Secrets
         /\ \A k \in Lines : lines[k] \in Ends /\ lines[k].queue \in Seq(Secrets)
  <1>1. ASSUME NEW p \in Readers, tabs[p].call # None
        PROVE  tabs[p].status = "revealed" /\ tabs[p].link.token \in Secrets
    <2>1. tabs[p].status = "revealed"
      BY <1>1 DEF SecretsTypes, TabTypes
    <2>2. tabs[p].link \in Links
      BY <2>1 DEF SecretsTypes, TabTypes
    <2> QED
      BY <2>1, <2>2, LinksAreKnown
  <1>2. \A k \in Lines : lines[k] \in Ends /\ lines[k].queue \in Seq(Secrets)
    <2>1. lines \in [Lines -> Ends]
      BY DEF SecretsTypes, StateTypes
    <2> QED
      BY <2>1 DEF Ends
  <1> QED
    BY <1>1, <1>2

(* Each frame that waits was sent for a burned secret.                     *)
AllRead(q) == \A i \in 1 .. Len(q) : rows[q[i]].status = "read"

LEMMA QueuesHoldRead ==
  ASSUME SecretsTypes, FormInv, ReadInv, [Next]_vars
  PROVE  (\A k \in Lines : AllRead(lines[k].queue))'
  <1>1. \A q \in Seq(Secrets) : AllRead(q) => AllRead(q)'
    <2> SUFFICES ASSUME NEW q \in Seq(Secrets), AllRead(q)
                 PROVE  AllRead(q)'
      OBVIOUS
    <2>1. \A i \in 1 .. Len(q) : q[i] \in Secrets
      OBVIOUS
    <2> QED
      BY <2>1, RowsGrow DEF AllRead
  <1>2. \A k \in Lines : AllRead(lines[k].queue) /\ lines[k].queue \in Seq(Secrets) /\ lines[k] \in Ends
    BY CallersKnown DEF ReadInv, AllRead
  <1>3. \A k \in Lines : AllRead(lines[k].queue)'
    <2> SUFFICES ASSUME NEW k \in Lines PROVE AllRead(lines[k].queue)'
      OBVIOUS
    <2>0. lines \in [Lines -> Ends] /\ AllRead(<<>>)'
      BY DEF SecretsTypes, StateTypes, AllRead
    <2>1. CASE lines'[k].queue = lines[k].queue
      <3>1. PICK q \in Seq(Secrets) : q = lines[k].queue
        BY <1>2
      <3>2. AllRead(q)'
        BY <1>1, <1>2, <3>1
      <3> QED
        BY <2>1, <3>1, <3>2 DEF AllRead
    <2>2. CASE lines'[k].queue = <<>>
      BY <2>0, <2>2 DEF AllRead
    <2>3. ASSUME NEW p \in Readers, NotifySecretRead(p)
          PROVE  AllRead(lines[k].queue)'
      <3>1. PICK s \in Secrets : s = tabs[p].link.token
        BY <2>3, CallersKnown DEF NotifySecretRead, None
      <3>2. PICK q \in Seq(Secrets) : q = lines[k].queue
        BY <1>2
      <3>3. rows[s].status = "read"
        BY <2>3, <3>1 DEF ReadInv, NotifySecretRead
      <3>4. CASE Room(k)
        <4>1. lines'[k].queue = Append(q, s)
          BY <1>2, <2>3, <3>1, <3>2, <3>4 DEF NotifySecretRead, Ends
        <4>2. AllRead(q)'
          BY <1>1, <1>2, <3>2
        <4>3. rows'[s].status = "read"
          BY <3>3, RowsGrow
        <4>4. ASSUME NEW i \in 1 .. Len(Append(q, s)) PROVE rows'[Append(q, s)[i]].status = "read"
          <5>1. i \in 1 .. Len(q) \/ i = Len(q) + 1
            BY Appended
          <5> QED
            BY <4>2, <4>3, <5>1, Appended DEF AllRead
        <4> QED
          BY <4>1, <4>4 DEF AllRead
      <3>5. CASE ~ Room(k)
        BY <2>1, <2>3, <3>5 DEF NotifySecretRead
      <3> QED
        BY <3>4, <3>5
    <2>4. ASSUME NEW l \in Lines, onSecretRead(l), l = k
          PROVE  AllRead(lines[k].queue)'
      <3>1. PICK q \in Seq(Secrets) : q = lines[k].queue
        BY <1>2
      <3>2. q # <<>> /\ lines'[k].queue = Tail(q)
        BY <2>0, <2>4, <3>1 DEF onSecretRead, Ends
      <3>3. AllRead(q)'
        BY <1>1, <1>2, <3>1
      <3>4. Len(Tail(q)) = Len(q) - 1 /\ \A i \in 1 .. Len(Tail(q)) : i + 1 \in 1 .. Len(q) /\ Tail(q)[i] = q[i + 1]
        BY <3>2
      <3> QED
        BY <3>2, <3>3, <3>4 DEF AllRead
    <2>5. ASSUME NEW l \in Lines, Connect(l) \/ Abandon(l) \/ Unsubscribe(l) \/ (onSecretRead(l) /\ l # k)
          PROVE  lines'[k].queue = lines[k].queue \/ lines'[k].queue = <<>>
      <3>1. CASE Connect(l)
        BY <2>0, <3>1 DEF Connect, Ends
      <3>2. CASE Abandon(l)
        BY <2>0, <3>2 DEF Abandon, Ends
      <3>3. CASE Unsubscribe(l)
        BY <2>0, <3>3 DEF Unsubscribe, Ends
      <3>4. CASE onSecretRead(l) /\ l # k
        BY <2>0, <3>4 DEF onSecretRead, Ends
      <3> QED
        BY <2>5, <3>1, <3>2, <3>3, <3>4
    <2>6. CASE logout
      <3>1. lines'[k] = [lines[k] EXCEPT !.active = FALSE]
        BY <2>6 DEF logout
      <3> QED
        BY <1>2, <2>1, <3>1 DEF Ends
    <2>7. CASE lines' = lines
      BY <2>1, <2>7
    <2> QED
      BY <2>1, <2>2, <2>3, <2>4, <2>5, <2>6, <2>7 DEF Next, vars, SecretStep, MailStep, TabStep, LineStep, extVars,
         runCreateSecret, Create, createSecret, renderSecretLink, Lapse,
         runSendSecretEmail, LoadOwned, SendSecretLink, RecordEmailSent, Open, getSecret,
         handlePassphraseSubmit, revealAndBurn, Burn, CallLost, resetToCreateForm, login
  <1> QED
    BY <1>3

LEMMA ReadInvNext == ASSUME SecretsTypes, FormInv, ReadInv, [Next]_vars PROVE ReadInv'
  <1>1. ASSUME NEW s \in Secrets, rows'[s].status = "read"
        PROVE  Shown(s)'
    <2>1. CASE rows[s].status = "read"
      BY <2>1, PagesStay DEF ReadInv, Shown
    <2>2. CASE \E p \in Readers : Burn(p) /\ tabs[p].link.token = s
      <3>1. PICK p \in Readers : Burn(p) /\ tabs[p].link.token = s
        BY <2>2
      <3>2. tabs[p].status = "revealed"
        BY <3>1, CallersKnown DEF Burn, None
      <3> QED
        BY <3>1, <3>2, PagesStay DEF Shown
    <2> QED
      BY <1>1, <2>1, <2>2, RowsGrow
  <1>2. ASSUME NEW p \in Readers, tabs'[p].call = "notify"
        PROVE  rows'[tabs'[p].link.token].status = "read"
    <2>1. CASE tabs[p].call = "notify" /\ tabs'[p].link = tabs[p].link
      BY <2>1, CallersKnown, RowsGrow DEF ReadInv, None
    <2>2. CASE Burn(p) /\ ~ Gone(tabs[p].link.token) /\ tabs'[p].link = tabs[p].link
      <3>1. PICK s \in Secrets : s = tabs[p].link.token
        BY <2>2, CallersKnown DEF Burn, None
      <3>2. rows \in [Secrets -> Rows]
        BY DEF SecretsTypes, RowTypes
      <3> QED
        BY <2>2, <3>1, <3>2 DEF Burn, Rows
    <2> QED
      BY <1>2, <2>1, <2>2, PagesStay
  <1>3. (\A k \in Lines : AllRead(lines[k].queue))'
    BY QueuesHoldRead
  <1> QED
    BY <1>1, <1>2, <1>3 DEF ReadInv, AllRead

LEMMA ConfInvNext == ASSUME SecretsTypes, FormInv, ReadInv, ConfInv, [Next]_vars PROVE ConfInv'
  <1>0. confirmed \in Seq(Secrets) /\ \A i \in 1 .. Len(confirmed) : confirmed[i] \in Secrets
    BY DEF SecretsTypes, StateTypes
  <1>1. CASE UNCHANGED <<confirmed, revision>>
    BY <1>0, <1>1, RowsGrow DEF ConfInv
  <1>2. CASE logout
    BY <1>2 DEF ConfInv, logout
  <1>3. ASSUME NEW k \in Lines, onSecretRead(k), ~ UNCHANGED <<confirmed, revision>>
        PROVE  ConfInv'
    <2>1. PICK q \in Seq(Secrets) : q = lines[k].queue
      BY CallersKnown
    <2>2. q # <<>> /\ Head(q) = q[1] /\ 1 \in 1 .. Len(q)
      BY <1>3, <2>1 DEF onSecretRead
    <2>3. PICK s \in Secrets : s = Head(q)
      BY <2>2
    <2>4. confirmed' = Append(confirmed, s) /\ revision' = revision + 1 /\ ~ Contains(confirmed, s)
      BY <1>3, <2>1, <2>3 DEF onSecretRead, recordSecretRead
    <2>5. \A i \in 1 .. Len(confirmed) : confirmed[i] # s
      BY <2>4 DEF Contains
    <2>6. rows'[s].status = "read"
      BY <2>1, <2>2, <2>3, RowsGrow DEF ReadInv
    <2>7. /\ Len(confirmed') = Len(confirmed) + 1 /\ Len(confirmed) \in Nat
          /\ \A i \in 1 .. Len(confirmed') : \/ i \in 1 .. Len(confirmed) /\ confirmed'[i] = confirmed[i]
                                             \/ i = Len(confirmed) + 1 /\ confirmed'[i] = s
      BY <1>0, <2>4, Appended
    <2>8. \A i, j \in 1 .. Len(confirmed') : confirmed'[i] = confirmed'[j] => i = j
      BY <2>5, <2>7 DEF ConfInv
    <2>9. \A i \in 1 .. Len(confirmed') : rows'[confirmed'[i]].status = "read"
      BY <1>0, <2>6, <2>7, RowsGrow DEF ConfInv
    <2>10. revision' = Len(confirmed')
      BY <2>4, <2>7 DEF ConfInv
    <2> QED
      BY <2>8, <2>9, <2>10 DEF ConfInv
  <1> QED
    BY <1>1, <1>2, <1>3 DEF Next, vars, SecretStep, MailStep, TabStep, LineStep, extVars,
       runCreateSecret, Create, createSecret, renderSecretLink, Lapse,
       runSendSecretEmail, LoadOwned, SendSecretLink, RecordEmailSent, Open, getSecret,
       handlePassphraseSubmit, revealAndBurn, Burn, NotifySecretRead, CallLost,
       Connect, Abandon, Unsubscribe, resetToCreateForm, login

LEMMA InitSecrets == Init => SecretsInv
  <1> SUFFICES ASSUME Init PROVE SecretsInv
    OBVIOUS
  <1>1. RowTypes
    BY DEF Init, RowTypes, Rows, Forms
  <1>2. LinkTypes
    BY DEF Init, LinkTypes, AnyLink, MailForms, Mail
  <1>3. TabTypes
    BY DEF Init, TabTypes, BlankTab, Pages, AnyLink
  <1>4. StateTypes
    BY DEF Init, StateTypes, Ends
  <1>5. FormInv
    BY DEF Init, FormInv, Rows
  <1>6. LinkInv
    BY DEF Init, LinkInv, Mail
  <1>7. ReadInv
    BY DEF Init, ReadInv, BlankTab, None
  <1>8. ConfInv
    BY DEF Init, ConfInv
  <1> QED
    BY <1>1, <1>2, <1>3, <1>4, <1>5, <1>6, <1>7, <1>8 DEF SecretsInv, SecretsTypes

(* The invariant is inductive: every reachable state has the types, and    *)
(* the five parts hold of it.                                              *)
THEOREM SecretsInductive == FormsSpec => []SecretsInv
  <1>1. SecretsInv /\ [Next]_vars => SecretsInv'
    BY TypesNext, FormInvNext, LinkInvNext, ReadInvNext, ConfInvNext DEF SecretsInv
  <1>2. [FormsNext]_<<part, vars, importVars>> => [Next]_vars
    BY DEF FormsNext, vars, extVars
  <1>3. FormsInit => Init
    BY DEF FormsInit
  <1> QED
    BY <1>1, <1>2, <1>3, InitSecrets, PTL DEF FormsSpec

(* Every link that leaves the window opens its secret; what the history    *)
(* calls read was shown by a reader who held its key; however many sockets *)
(* bring the frame, a read is confirmed once; and the form submits nothing *)
(* that the service refuses for its size.                                  *)
THEOREM SecretsAreKept == FormsSpec => []SecretsHold
  <1>1. SecretsInv => SecretsHold
    <2> SUFFICES ASSUME SecretsInv PROVE SecretsHold
      OBVIOUS
    <2>1. LinkOpens
      <3> SUFFICES ASSUME NEW link \in handed
                   PROVE  rows[link.token].status # None /\ (rows[link.token].wrapped \/ attemptFragmentDecrypt(link))
        BY DEF LinkOpens
      <3>1. OpensIt(link) /\ link.token \in Secrets
        BY LinksAreKnown DEF SecretsInv, LinkInv, SecretsTypes, LinkTypes
      <3> QED
        BY <3>1, SecretsAssumption DEF OpensIt, attemptFragmentDecrypt, decrypts, importContentKey, BlobOf,
           encrypt, generateContentKey
    <2>2. ReadWasShown
      BY DEF SecretsInv, ReadInv, ReadWasShown, resolveSecretHistoryStatusTag, secretHistoryStatus
    <2>3. ConfirmedOnce
      <3>1. DOMAIN confirmed = 1 .. Len(confirmed)
        BY DEF SecretsInv, SecretsTypes, StateTypes
      <3> QED
        BY <3>1 DEF SecretsInv, ConfInv, ConfirmedOnce
    <2>4. LimitsAgree
      BY DEF SecretsInv, FormInv, LimitsAgree
    <2> QED
      BY <2>1, <2>2, <2>3, <2>4 DEF SecretsHold
  <1> QED
    BY <1>1, SecretsInductive, PTL
================================================================================
