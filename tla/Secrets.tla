-------------------------------- MODULE Secrets --------------------------------
(***************************************************************************)
(* One-time secrets, from the window that makes one to the confirmation    *)
(* that it was read (extension/src/create-secret, background/projection.ts,*)
(* backend/internal/secrethide, admin-web SecretRevealPage, both copies of *)
(* crypto.ts).                                                             *)
(*                                                                         *)
(* A link is a token and, unless a passphrase locks the secret, the key of *)
(* its content in the fragment.  Cryptography is symbolic: a content key   *)
(* is named after the secret it was generated for, and a key opens what it *)
(* sealed and nothing else.  Creations, mails, readers, expiry, sockets,   *)
(* logouts and lost answers interleave.                                    *)
(*                                                                         *)
(* Abstracted: the recipient directory, the text, the clock (a pending     *)
(* secret may lapse at any step), the connection a socket comes from       *)
(* (Sockets) and the hub's other traffic (Hub).                            *)
(***************************************************************************)
EXTENDS Naturals, Sequences, SequencesExt

CONSTANTS
  Secrets,       \* creations, each with a token and a content key of its own
  Mails,         \* uses of the send-email form
  Recipients,
  Readers,       \* tabs that open a link
  Lines,         \* the sockets of the creator, one per projected workspace
  Capacity,      \* length of a subscription's Notifications channel
  Lengths,       \* bytes of content the form may hold
  Cap            \* maxCiphertextBase64Bytes, MAX_CIPHERTEXT_BASE64_BYTES


VARIABLES
  rows,          \* the table secrets
  signedIn, records, confirmed, revision,  \* state of the extension: session, secretRecords,
                                           \* secretReadConfirmations, secretReadSignal.revision
  window,        \* the link the create-secret window shows
  creating,      \* what became of each submission of its form
  mails,         \* requests of the send-email form
  handed,        \* links that left the window: shown to be copied, or mailed
  tabs,          \* the reveal page of each reader
  lines,         \* both ends of each socket
  loggedOut      \* history: the session that began has ended

extVars == <<signedIn, records, confirmed, revision>>
vars == <<rows, extVars, window, creating, mails, handed, tabs, lines, loggedOut>>

-----------------------------------------------------------------------------
None == "none"

ASSUME SecretsAssumption ==
  /\ None \notin Secrets
  /\ Capacity \in Nat \ {0} /\ Lengths \subseteq Nat /\ Cap \in Nat

NoLink == [token |-> None, fragment |-> None]
Mail(pc) == [pc |-> pc, link |-> NoLink, to |-> None]
BlankTab == [status |-> "idle", link |-> NoLink, burned |-> FALSE, call |-> None]

\* Base64 writes four characters for every three bytes begun.
Base64Length(bytes) == 4 * Cardinality({i \in 0 .. bytes : i % 3 = 0 /\ i < bytes})
TagBytes == 16

Init ==
  /\ rows = [s \in Secrets |-> [status |-> None, lapsed |-> FALSE, wrapped |-> FALSE, sentTo |-> None]]
  /\ signedIn = TRUE /\ records = {} /\ confirmed = <<>> /\ revision = 0
  /\ window = NoLink
  /\ creating = [s \in Secrets |-> [pc |-> "idle", wrapped |-> FALSE, length |-> 0]]
  /\ mails = [m \in Mails |-> Mail("idle")]
  /\ handed = {}
  /\ tabs = [p \in Readers |-> BlankTab]
  /\ lines = [k \in Lines |-> [active |-> FALSE, open |-> FALSE, queue |-> <<>>]]
  /\ loggedOut = FALSE

-----------------------------------------------------------------------------
(* Cryptography                                                            *)

generateContentKey(s) == s
exportContentKey(key) == key
\* A passphrase that locks s derives the key that wraps its content key.
deriveWrappingKey(s, right) == IF right THEN <<"passphrase", s>> ELSE <<"passphrase", None>>
wrapKey(wrapping, key) == [by |-> wrapping, key |-> key]
encrypt(key) == [by |-> key]
importContentKey(fragment) == fragment
unwrapKey(wrapping, wrapped) == IF wrapped.by = wrapping THEN wrapped.key ELSE None
decrypts(key, ciphertext) == ciphertext.by = key

BlobOf(s) == [ciphertext |-> encrypt(generateContentKey(s)),
              wrapped |-> wrapKey(deriveWrappingKey(s, TRUE), generateContentKey(s))]

-----------------------------------------------------------------------------
(* The create-secret window                                                *)

estimateWithoutTag(length) == IF ((length + 2) \div 3) * 4 > Cap THEN "over" ELSE "ok"

estimateContentLimitStatus(length) ==
  LET estimated == ((length + TagBytes + 2) \div 3) * 4
  IN  IF estimated > Cap THEN "over" ELSE IF 10 * estimated > 9 * Cap THEN "warning" ELSE "ok"

\* The submission is not disabled while an earlier one is under way.
runCreateSecret(s, wrapped, length) ==
  /\ window = NoLink /\ length > 0
  /\ estimateContentLimitStatus(length) # "over"
  /\ creating[s].pc = "idle"
  /\ creating' = [creating EXCEPT ![s] = [pc |-> IF signedIn THEN "asked" ELSE "failed",
                                               wrapped |-> wrapped, length |-> length]]
  /\ UNCHANGED <<rows, extVars, window, mails, handed, tabs, lines, loggedOut>>

Fits(length) == Base64Length(length + TagBytes) <= Cap

\* The answer may be lost; content that decodeCreateSecretInput refuses stores nothing.
Create(s) ==
  /\ creating[s].pc = "asked" /\ Fits(creating[s].length)
  /\ \E heard \in BOOLEAN : creating' = [creating EXCEPT ![s].pc = IF heard THEN "made" ELSE "failed"]
  /\ rows' = [rows EXCEPT ![s].status = "pending", ![s].wrapped = creating[s].wrapped]
  /\ UNCHANGED <<extVars, window, mails, handed, tabs, lines, loggedOut>>

createSecretUnrecorded(s) ==
  /\ creating[s].pc = "made"
  /\ records' = records
  /\ creating' = [creating EXCEPT ![s].pc = "recorded"]
  /\ UNCHANGED <<rows, signedIn, confirmed, revision, window, mails, handed, tabs, lines, loggedOut>>

\* createSecret of the worker: the record first, then the answer to the window.
createSecret(s) ==
  /\ creating[s].pc = "made"
  /\ records' = records \cup {s}
  /\ creating' = [creating EXCEPT ![s].pc = "recorded"]
  /\ UNCHANGED <<rows, signedIn, confirmed, revision, window, mails, handed, tabs, lines, loggedOut>>

\* A module-level key of the latest submission, instead of the one awaited with.
LinkOfLatest(s) ==
  [token |-> s,
   fragment |-> IF creating[s].wrapped THEN None
                ELSE CHOOSE t \in Secrets : creating[t].pc \notin {"idle", "shown"}]

LinkOf(s) ==
  [token |-> s,
   fragment |-> IF creating[s].wrapped THEN None ELSE exportContentKey(generateContentKey(s))]

renderSecretLink(s) ==
  /\ creating[s].pc = "recorded"
  /\ creating' = [creating EXCEPT ![s].pc = "shown"]
  /\ window' = LinkOf(s)
  /\ handed' = handed \cup {LinkOf(s)}
  /\ UNCHANGED <<rows, extVars, mails, tabs, lines, loggedOut>>

resetToCreateForm ==
  /\ window # NoLink
  /\ window' = NoLink
  /\ UNCHANGED <<rows, extVars, creating, mails, handed, tabs, lines, loggedOut>>

runSendSecretEmail(m, to) ==
  /\ window # NoLink /\ mails[m].pc = "idle"
  /\ mails' = [mails EXCEPT ![m] = IF signedIn THEN [pc |-> "asked", link |-> window, to |-> to]
                                  ELSE Mail("failed")]
  /\ UNCHANGED <<rows, extVars, window, creating, handed, tabs, lines, loggedOut>>

-----------------------------------------------------------------------------
(* The service                                                             *)

\* The status in the row, which never says expired.
LoadOwned(m) ==
  /\ mails[m].pc = "asked"
  /\ mails' = [mails EXCEPT ![m] = IF rows[mails[m].link.token].status = "pending"
                                  THEN [mails[m] EXCEPT !.pc = "loaded"] ELSE Mail("failed")]
  /\ UNCHANGED <<rows, extVars, window, creating, handed, tabs, lines, loggedOut>>

SendSecretLink(m) ==
  /\ mails[m].pc = "loaded"
  /\ \/ /\ mails' = [mails EXCEPT ![m].pc = "mailed"]
        /\ handed' = handed \cup {mails[m].link}
     \/ /\ mails' = [mails EXCEPT ![m] = Mail("failed")]
        /\ UNCHANGED handed
  /\ UNCHANGED <<rows, extVars, window, creating, tabs, lines, loggedOut>>

RecordEmailSent(m) ==
  /\ mails[m].pc = "mailed"
  /\ mails' = [mails EXCEPT ![m] = Mail("sent")]
  /\ rows' = [rows EXCEPT ![mails[m].link.token].sentTo = mails[m].to]
  /\ UNCHANGED <<extVars, window, creating, handed, tabs, lines, loggedOut>>

Lapse(s) ==
  /\ rows[s].status = "pending" /\ ~rows[s].lapsed
  /\ rows' = [rows EXCEPT ![s].lapsed = TRUE]
  /\ UNCHANGED <<extVars, window, creating, mails, handed, tabs, lines, loggedOut>>

Gone(s) == rows[s].status # "pending" \/ rows[s].lapsed

secretHistoryStatus(s) ==
  IF rows[s].status = "read" THEN "read" ELSE IF rows[s].lapsed THEN "expired" ELSE "pending"

\* The label of the options page and of SecretsPage.
resolveSecretHistoryStatusTag(s) ==
  IF secretHistoryStatus(s) = "read" THEN "read"
  ELSE IF secretHistoryStatus(s) = "expired" \/ rows[s].lapsed THEN "expired" ELSE "pending"

-----------------------------------------------------------------------------
(* The reveal page                                                         *)

\* The link may lose its fragment on the way.
Open(p, link, whole) ==
  /\ tabs[p].status = "idle"
  /\ tabs' = [tabs EXCEPT ![p].status = "loading",
                          ![p].link = IF whole THEN link ELSE [link EXCEPT !.fragment = None]]
  /\ UNCHANGED <<rows, extVars, window, creating, mails, handed, lines, loggedOut>>

attemptFragmentDecrypt(link) ==
  link.fragment # None /\ decrypts(importContentKey(link.fragment), BlobOf(link.token).ciphertext)

getSecret(p) ==
  LET link == tabs[p].link
  IN  /\ tabs[p].status = "loading"
      /\ \/ tabs' = [tabs EXCEPT ![p].status =
                       IF Gone(link.token) THEN "gone"
                       ELSE IF ~rows[link.token].wrapped /\ attemptFragmentDecrypt(link) THEN "ready" ELSE "pending"]
         \/ tabs' = [tabs EXCEPT ![p].status = "error"]
      /\ UNCHANGED <<rows, extVars, window, creating, mails, handed, lines, loggedOut>>

\* A form that burns whatever the passphrase yields.
handlePassphraseBurns(p, right) ==
  LET s == tabs[p].link.token
  IN  /\ tabs[p].status = "pending" /\ rows[s].wrapped
      /\ tabs' = [tabs EXCEPT ![p].burned = TRUE, ![p].call = "burn"]
      /\ UNCHANGED <<rows, extVars, window, creating, mails, handed, lines, loggedOut>>

handlePassphraseSubmit(p, right) ==
  LET s == tabs[p].link.token
  IN  /\ tabs[p].status = "pending" /\ rows[s].wrapped
      /\ decrypts(unwrapKey(deriveWrappingKey(s, right), BlobOf(s).wrapped), BlobOf(s).ciphertext)
      /\ tabs' = [tabs EXCEPT ![p].status = "ready"]
      /\ UNCHANGED <<rows, extVars, window, creating, mails, handed, lines, loggedOut>>

revealAndBurn(p) ==
  /\ tabs[p].status = "ready" /\ ~tabs[p].burned
  /\ tabs' = [tabs EXCEPT ![p].status = "revealed", ![p].burned = TRUE, ![p].call = "burn"]
  /\ UNCHANGED <<rows, extVars, window, creating, mails, handed, lines, loggedOut>>

Room(k) == lines[k].open /\ Len(lines[k].queue) < Capacity

Burn(p) ==
  LET s == tabs[p].link.token
  IN  /\ tabs[p].call = "burn"
      /\ tabs' = [tabs EXCEPT ![p].call = IF Gone(s) THEN None ELSE "notify"]
      /\ rows' = IF Gone(s) THEN rows ELSE [rows EXCEPT ![s].status = "read"]
      /\ UNCHANGED <<extVars, window, creating, mails, handed, lines, loggedOut>>

\* After the answer: whoever is subscribed by then and has room.
NotifySecretRead(p) ==
  /\ tabs[p].call = "notify"
  /\ tabs' = [tabs EXCEPT ![p].call = None]
  /\ lines' = [k \in Lines |-> IF Room(k) THEN [lines[k] EXCEPT !.queue = Append(@, tabs[p].link.token)]
                              ELSE lines[k]]
  /\ UNCHANGED <<rows, extVars, window, creating, mails, handed, loggedOut>>

\* The page leaves before its request does, or the server stops before it notifies.
CallLost(p) ==
  /\ tabs[p].call # None
  /\ tabs' = [tabs EXCEPT ![p].call = None]
  /\ UNCHANGED <<rows, extVars, window, creating, mails, handed, lines, loggedOut>>

-----------------------------------------------------------------------------
(* The creator's extension                                                 *)

Connect(k) ==
  /\ signedIn /\ ~lines[k].active /\ ~lines[k].open
  /\ lines' = [lines EXCEPT ![k] = [active |-> TRUE, open |-> TRUE, queue |-> <<>>]]
  /\ UNCHANGED <<rows, extVars, window, creating, mails, handed, tabs, loggedOut>>

\* The client lets go of a socket before the server learns of it.
Abandon(k) ==
  /\ lines[k].active
  /\ lines' = [lines EXCEPT ![k].active = FALSE]
  /\ UNCHANGED <<rows, extVars, window, creating, mails, handed, tabs, loggedOut>>

Unsubscribe(k) ==
  /\ lines[k].open /\ ~lines[k].active
  /\ lines' = [lines EXCEPT ![k].open = FALSE, ![k].queue = <<>>]
  /\ UNCHANGED <<rows, extVars, window, creating, mails, handed, tabs, loggedOut>>

recordEachFrame(s) ==
  IF s \in records
  THEN confirmed' = Append(confirmed, s) /\ revision' = revision + 1
  ELSE UNCHANGED <<confirmed, revision>>

recordSecretRead(s) ==
  IF s \in records /\ ~Contains(confirmed, s)
  THEN confirmed' = Append(confirmed, s) /\ revision' = revision + 1
  ELSE UNCHANGED <<confirmed, revision>>

\* onSecretRead: a frame of a socket that is no longer the active one is ignored.
onSecretRead(k) ==
  /\ lines[k].queue # <<>> /\ lines[k].active
  /\ lines' = [lines EXCEPT ![k].queue = Tail(@)]
  /\ recordSecretRead(Head(lines[k].queue))
  /\ UNCHANGED <<rows, signedIn, records, window, creating, mails, handed, tabs, loggedOut>>

logout ==
  /\ signedIn /\ loggedOut' = TRUE
  /\ signedIn' = FALSE /\ records' = {} /\ confirmed' = <<>> /\ revision' = 0
  /\ lines' = [k \in Lines |-> [lines[k] EXCEPT !.active = FALSE]]
  /\ UNCHANGED <<rows, window, creating, mails, handed, tabs>>

login ==
  /\ ~signedIn /\ signedIn' = TRUE
  /\ UNCHANGED <<rows, records, confirmed, revision, window, creating, mails, handed, tabs, lines, loggedOut>>

-----------------------------------------------------------------------------
SecretStep(s) ==
  \/ \E wrapped \in BOOLEAN, length \in Lengths : runCreateSecret(s, wrapped, length)
  \/ Create(s) \/ createSecret(s) \/ renderSecretLink(s) \/ Lapse(s)

MailStep(m) ==
  \/ \E to \in Recipients : runSendSecretEmail(m, to)
  \/ LoadOwned(m) \/ SendSecretLink(m) \/ RecordEmailSent(m)

TabStep(p) ==
  \/ \E link \in handed, whole \in BOOLEAN : Open(p, link, whole)
  \/ getSecret(p) \/ \E right \in BOOLEAN : handlePassphraseSubmit(p, right)
  \/ revealAndBurn(p) \/ Burn(p) \/ NotifySecretRead(p) \/ CallLost(p)

LineStep(k) == Connect(k) \/ Abandon(k) \/ Unsubscribe(k) \/ onSecretRead(k)

Next ==
  \/ \E s \in Secrets : SecretStep(s)
  \/ \E m \in Mails : MailStep(m)
  \/ \E p \in Readers : TabStep(p)
  \/ \E k \in Lines : LineStep(k)
  \/ resetToCreateForm \/ logout \/ login

Spec == Init /\ [][Next]_vars
\* The browser hands over the frames of a socket that stays connected.
FairSpec == Spec /\ \A k \in Lines : WF_vars(onSecretRead(k))

-----------------------------------------------------------------------------
Links == [token : Secrets, fragment : Secrets \cup {None}]
Shown(s) == \E p \in Readers : tabs[p].status = "revealed" /\ tabs[p].link.token = s

TypeOK ==
  /\ \A s \in Secrets : rows[s].status \in {None, "pending", "read"}
  /\ records \subseteq Secrets /\ confirmed \in Seq(Secrets) /\ revision \in Nat
  /\ window \in Links \cup {NoLink}
  /\ handed \subseteq Links
  /\ \A p \in Readers : tabs[p].link \in Links \cup {NoLink}
  /\ \A k \in Lines : Len(lines[k].queue) <= Capacity

\* Every link that leaves the window, whichever of several submissions answers
\* first, opens the secret it names: its fragment is the key of that content
\* (create-secret.ts:206-253, 266-276).
LinkOpens ==
  \A link \in handed :
    rows[link.token].status # None /\ (rows[link.token].wrapped \/ attemptFragmentDecrypt(link))

\* A secret that the history calls read was shown by a reader who held its key:
\* neither a wrong passphrase nor the decryption on load burns it
\* (SecretRevealPage.tsx:69-95, 128-144).
ReadWasShown == \A s \in Secrets : resolveSecretHistoryStatusTag(s) = "read" => Shown(s)

\* However many sockets deliver the frame of a burned secret, it is confirmed
\* once, and the unseen counter counts each once (projection.ts:1982-2007).
ConfirmedOnce ==
  /\ \A i, j \in DOMAIN confirmed : confirmed[i] = confirmed[j] => i = j
  /\ revision = Len(confirmed)
  /\ \A i \in DOMAIN confirmed : rows[confirmed[i]].status = "read"

\* The form never submits content that the service would refuse for its size
\* (content-limit.ts, secrethide/handler.go:206-213).
LimitsAgree ==
  \A s \in Secrets : creating[s].pc # "idle" => Fits(creating[s].length)

\* A frame that waits in the channel of a socket becomes a confirmation, unless
\* the socket goes, or the session that made the secret ends.
FramesLand ==
  \A k \in Lines, s \in Secrets :
    Contains(lines[k].queue, s) ~> (Contains(confirmed, s) \/ ~lines[k].active \/ (loggedOut /\ s \notin records))

-----------------------------------------------------------------------------
\* openspec/changes/secret-sharing/specs/websocket-user-notifications/spec.md:75: a
\* read that finds no open socket must be kept for the next popup.
OfflineKept ==
  \A s \in records :
    ( /\ rows[s].status = "read"
      /\ \A k \in Lines : ~Contains(lines[k].queue, s)
      /\ \A p \in Readers : ~(tabs[p].call = "notify" /\ tabs[p].link.token = s) )
    => Contains(confirmed, s)

\* service.go:227-232: a secret that expired is refused like an unknown one.
MailsLiveOnly == [][\A m \in Mails : mails[m].pc = "asked" /\ mails'[m].pc = "loaded"
                      => ~Gone(mails[m].link.token)]_vars

\* SecretRevealPage.tsx:164: what one reader has revealed cannot be viewed again.
ViewedOnce ==
  [][\A p \in Readers : tabs[p].status = "ready" /\ tabs'[p].status = "revealed"
       => ~Shown(tabs[p].link.token)]_vars

\* secret-history.ts:58: a secret labelled "Expired, never read" was not shown.
ExpiredUnread == \A s \in Secrets : resolveSecretHistoryStatusTag(s) = "expired" => ~Shown(s)
================================================================================
