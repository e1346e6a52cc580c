---------------------------------- MODULE Hub ----------------------------------
(***************************************************************************)
(* The live half of the sync service: the in-memory hub of                 *)
(* backend/internal/websocket/hub.go, the connection handler of            *)
(* handler.go beside it, and the calls the store makes after a commit.     *)
(*                                                                         *)
(* Publish holds the hub's lock shared while it walks the subscriptions    *)
(* and never waits for a full channel; Subscribe and Close take the lock   *)
(* exclusively.  One action is one critical section, except that the walk  *)
(* of Publish is split by subscription, because connections drain their    *)
(* channels while it goes on.                                              *)
(*                                                                         *)
(* One workspace: the hub keeps its subscriptions per workspace.  An event *)
(* is its cursor; the log is the sequence of the clients that made them.   *)
(***************************************************************************)
EXTENDS Integers, Sequences, FiniteSets

CONSTANTS
  Clients,       \* client ids, the origins of events
  Connections,   \* sockets, each used for any number of connections in turn
  ClientOf,      \* the client a connection authenticates as
  UserOf,        \* and its user
  Capacity,      \* of the channels Messages and Notifications (16)
  MaxLog         \* bound: events committed

VARIABLES
  log,           \* the committed events, read only for their origin
  pending,       \* committed, Publish not called yet
  walk,          \* what the running Publish calls still have to offer, <<event, connection>>
  subs,          \* hub.subscriptions
  stage,         \* per connection: where its handler is
  ack,           \* per connection: the cursor of its ack frame
  queue,         \* per connection: Messages
  notes,         \* per connection: how many Notifications wait
  sent,          \* per connection, history: the events written to the socket
  overflow,      \* per connection, history: the events dropped on a full channel
  unpublished    \* history: events committed by a request whose Commit reported an error

connVars == <<stage, ack, queue, notes, sent, overflow>>
vars == <<log, pending, walk, subs, stage, ack, queue, notes, sent, overflow, unpublished>>

Stages == {"none", "upgraded", "subscribed", "read", "live", "ended"}

Init ==
  /\ log = <<>>
  /\ pending = {} /\ walk = {} /\ subs = {} /\ unpublished = {}
  /\ stage = [c \in Connections |-> "none"]
  /\ ack = [c \in Connections |-> 0]
  /\ queue = [c \in Connections |-> <<>>]
  /\ notes = [c \in Connections |-> 0]
  /\ sent = [c \in Connections |-> {}]
  /\ overflow = [c \in Connections |-> {}]

--------------------------------------------------------------------------------
(***************************************************************************)
(* The store.  Requests commit in the order of their cursors but call      *)
(* Publish in any order.  When the answer to COMMIT is lost the request    *)
(* ends with an error, and what may have been committed is not published.  *)
(***************************************************************************)
Commit(client) ==
  /\ Len(log) < MaxLog
  /\ log' = Append(log, client)
  /\ \/ pending' = pending \cup {Len(log) + 1} /\ UNCHANGED unpublished
     \/ unpublished' = unpublished \cup {Len(log) + 1} /\ UNCHANGED pending
  /\ UNCHANGED <<walk, subs, connVars>>

(* Mutant: the request publishes again, as for a repeated event id. *)
BeginPublishAgain(i) ==
  /\ i \in pending
  /\ walk' = walk \cup ({i} \X subs)
  /\ UNCHANGED <<log, pending, subs, connVars, unpublished>>

(* RLock, and the subscriptions there are.                                 *)
BeginPublish(i) ==
  /\ i \in pending
  /\ pending' = pending \ {i}
  /\ walk' = walk \cup ({i} \X subs)
  /\ UNCHANGED <<log, subs, connVars, unpublished>>

(* Mutant: a send without a default case waits for room. *)
OfferWaiting(i, c) ==
  /\ <<i, c>> \in walk
  /\ walk' = walk \ {<<i, c>>}
  /\ \/ ClientOf[c] = log[i] /\ UNCHANGED queue
     \/ /\ ClientOf[c] # log[i]
        /\ Len(queue[c]) < Capacity
        /\ queue' = [queue EXCEPT ![c] = Append(@, i)]
  /\ UNCHANGED <<log, pending, subs, stage, ack, notes, sent, overflow, unpublished>>

(* Not to the origin; otherwise into the channel if there is room.         *)
Offer(i, c) ==
  /\ <<i, c>> \in walk
  /\ walk' = walk \ {<<i, c>>}
  /\ \/ ClientOf[c] = log[i] /\ UNCHANGED <<queue, overflow>>
     \/ /\ ClientOf[c] # log[i]
        /\ Len(queue[c]) < Capacity
        /\ queue' = [queue EXCEPT ![c] = Append(@, i)]
        /\ UNCHANGED overflow
     \/ /\ ClientOf[c] # log[i]
        /\ Len(queue[c]) = Capacity
        /\ overflow' = [overflow EXCEPT ![c] = @ \cup {i}]
        /\ UNCHANGED queue
  /\ UNCHANGED <<log, pending, subs, stage, ack, notes, sent, unpublished>>

(* Mutant: notifications are kept in a slice instead of a channel. *)
NotifyGrowing(user) ==
  /\ notes' = [c \in Connections |->
                 IF c \in subs /\ UserOf[c] = user THEN notes[c] + 1 ELSE notes[c]]
  /\ UNCHANGED <<log, pending, walk, subs, stage, ack, queue, sent, overflow, unpublished>>

(* PublishToUser, when a secret of the user's was read: to the user's      *)
(* connections; it shares the lock and does not wait for room.             *)
Notify(user) ==
  /\ notes' = [c \in Connections |->
                 IF c \in subs /\ UserOf[c] = user /\ notes[c] < Capacity
                   THEN notes[c] + 1 ELSE notes[c]]
  /\ UNCHANGED <<log, pending, walk, subs, stage, ack, queue, sent, overflow, unpublished>>

(***************************************************************************)
(* A connection: authenticate and upgrade, subscribe, read the cursor,     *)
(* write the ack frame, then forward what the channels hold.               *)
(***************************************************************************)
Upgrade(c) ==
  /\ stage[c] = "none"
  /\ stage' = [stage EXCEPT ![c] = "upgraded"]
  /\ UNCHANGED <<log, pending, walk, subs, ack, queue, notes, sent, overflow, unpublished>>

Unlocked == walk = {}

(* Lock, with fresh channels.                                              *)
Subscribe(c) ==
  /\ stage[c] = "upgraded"
  /\ Unlocked
  /\ stage' = [stage EXCEPT ![c] = "subscribed"]
  /\ subs' = subs \cup {c}
  /\ UNCHANGED <<log, pending, walk, ack, queue, notes, sent, overflow, unpublished>>

(* Mutant: the cursor is read before the subscription is registered. *)
ReadCursorFirst(c) ==
  /\ \/ /\ stage[c] = "upgraded"
        /\ ack[c] = 0 /\ Len(log) > 0
        /\ ack' = [ack EXCEPT ![c] = Len(log)]
        /\ UNCHANGED stage
     \/ /\ stage[c] = "subscribed"
        /\ stage' = [stage EXCEPT ![c] = "read"]
        /\ UNCHANGED ack
  /\ UNCHANGED <<log, pending, walk, subs, queue, notes, sent, overflow, unpublished>>

ReadCursor(c) ==
  /\ stage[c] = "subscribed"
  /\ ack' = [ack EXCEPT ![c] = Len(log)]
  /\ stage' = [stage EXCEPT ![c] = "read"]
  /\ UNCHANGED <<log, pending, walk, subs, queue, notes, sent, overflow, unpublished>>

WriteAck(c) ==
  /\ stage[c] = "read"
  /\ stage' = [stage EXCEPT ![c] = "live"]
  /\ UNCHANGED <<log, pending, walk, subs, ack, queue, notes, sent, overflow, unpublished>>

(* Mutant: notifications are drained before events. *)
ForwardEventLast(c) ==
  /\ stage[c] = "live"
  /\ queue[c] # <<>>
  /\ notes[c] = 0
  /\ queue' = [queue EXCEPT ![c] = Tail(@)]
  /\ sent' = [sent EXCEPT ![c] = @ \cup {Head(queue[c])}]
  /\ UNCHANGED <<log, pending, walk, subs, stage, ack, notes, overflow, unpublished>>

ForwardEvent(c) ==
  /\ stage[c] = "live"
  /\ queue[c] # <<>>
  /\ queue' = [queue EXCEPT ![c] = Tail(@)]
  /\ sent' = [sent EXCEPT ![c] = @ \cup {Head(queue[c])}]
  /\ UNCHANGED <<log, pending, walk, subs, stage, ack, notes, overflow, unpublished>>

ForwardNote(c) ==
  /\ stage[c] = "live"
  /\ notes[c] > 0
  /\ notes' = [notes EXCEPT ![c] = @ - 1]
  /\ UNCHANGED <<log, pending, walk, subs, stage, ack, queue, sent, overflow, unpublished>>

(* A write fails, the peer closes, the cursor cannot be read, or the       *)
(* request's context is cancelled: the handler returns.                    *)
End(c) ==
  /\ stage[c] \in {"subscribed", "read", "live"}
  /\ stage' = [stage EXCEPT ![c] = "ended"]
  /\ UNCHANGED <<log, pending, walk, subs, ack, queue, notes, sent, overflow, unpublished>>

Forget(c) ==
  /\ stage' = [stage EXCEPT ![c] = "none"]
  /\ ack' = [ack EXCEPT ![c] = 0]
  /\ queue' = [queue EXCEPT ![c] = <<>>]
  /\ notes' = [notes EXCEPT ![c] = 0]
  /\ sent' = [sent EXCEPT ![c] = {}]
  /\ overflow' = [overflow EXCEPT ![c] = {}]

(* Mutant: the channels are closed without the lock. *)
CloseUnlocked(c) ==
  /\ stage[c] = "ended"
  /\ subs' = subs \ {c}
  /\ Forget(c)
  /\ UNCHANGED <<log, pending, walk, unpublished>>

(* The deferred Close, which closes the channels under the lock.           *)
Close(c) ==
  /\ stage[c] = "ended"
  /\ Unlocked
  /\ subs' = subs \ {c}
  /\ Forget(c)
  /\ UNCHANGED <<log, pending, walk, unpublished>>

(* The process restarts: the hub and every connection are gone.            *)
Crash ==
  /\ pending' = {} /\ walk' = {} /\ subs' = {}
  /\ stage' = [c \in Connections |-> "none"]
  /\ ack' = [c \in Connections |-> 0]
  /\ queue' = [c \in Connections |-> <<>>]
  /\ notes' = [c \in Connections |-> 0]
  /\ sent' = [c \in Connections |-> {}]
  /\ overflow' = [c \in Connections |-> {}]
  /\ UNCHANGED <<log, unpublished>>

--------------------------------------------------------------------------------
Connection(c) ==
  \/ Upgrade(c) \/ Subscribe(c) \/ ReadCursor(c) \/ WriteAck(c)
  \/ ForwardEvent(c) \/ ForwardNote(c) \/ End(c) \/ Close(c)

Next ==
  \/ \E client \in Clients : Commit(client)
  \/ \E i \in 1 .. Len(log) : BeginPublish(i) \/ \E c \in Connections : Offer(i, c)
  \/ \E user \in {UserOf[c] : c \in Connections} : Notify(user)
  \/ \E c \in Connections : Connection(c)
  \/ Crash

Spec == Init /\ [][Next]_vars

(* A goroutine that can run does; a waiting writer gets the RWMutex before *)
(* later readers, hence strong fairness of Close; select chooses at random *)
(* among its ready cases, so that neither channel starves the other.       *)
FairSpec ==
  /\ Spec
  /\ \A i \in 1 .. MaxLog : WF_vars(BeginPublish(i))
  /\ \A i \in 1 .. MaxLog, c \in Connections : WF_vars(Offer(i, c))
  /\ \A c \in Connections :
       /\ WF_vars(ForwardEvent(c)) /\ WF_vars(ForwardNote(c))
       /\ SF_vars(Close(c))

--------------------------------------------------------------------------------
(* Types of the state.  Only cursors of committed events circulate.        *)
TypeOK ==
  /\ log \in Seq(Clients)
  /\ pending \subseteq 1 .. Len(log)
  /\ unpublished \subseteq 1 .. Len(log)
  /\ walk \subseteq (1 .. Len(log)) \X Connections
  /\ subs \subseteq Connections
  /\ stage \in [Connections -> Stages]
  /\ ack \in [Connections -> 0 .. Len(log)]
  /\ queue \in [Connections -> Seq(1 .. Len(log))]
  /\ notes \in [Connections -> 0 .. Capacity]
  /\ sent \in [Connections -> SUBSET (1 .. Len(log))]
  /\ overflow \in [Connections -> SUBSET (1 .. Len(log))]

InQueue(c) == {queue[c][k] : k \in 1 .. Len(queue[c])}

(* Whatever another client commits after the cursor a connection was       *)
(* acknowledged with is on its way to that connection, unless its channel  *)
(* was full or the event was never published: ack and events leave no      *)
(* window, because the subscription is registered before the cursor is     *)
(* read.                                                                   *)
Coming(i, c) ==
  \/ i \in pending \/ <<i, c>> \in walk
  \/ i \in InQueue(c) \/ i \in sent[c]

NoWindow ==
  \A c \in Connections : stage[c] \in {"read", "live"} =>
    \A i \in ack[c] + 1 .. Len(log) :
      Coming(i, c) \/ log[i] = ClientOf[c] \/ i \in overflow[c] \/ i \in unpublished

(* docs/requeriments.md rules 4 and 5: on one connection an event arrives  *)
(* at most once, and never at the client that made it.                     *)
OthersOnce ==
  \A c \in Connections :
    /\ \A j, k \in 1 .. Len(queue[c]) : queue[c][j] = queue[c][k] => j = k
    /\ \A i \in InQueue(c) : i \notin sent[c] /\ log[i] # ClientOf[c]

(* Publish never sends on a closed channel (which would panic and take the *)
(* whole process down): a connection still to be offered an event is       *)
(* registered, and its channels are closed only after it is not.           *)
OpenChannels == \A p \in walk : p[2] \in subs

(* The sockets other than the one an event came from get it once, no event *)
(* falls between the subscription and the cursor of the ack, and nothing   *)
(* is sent on a channel that is closed.                                    *)
HubDelivers == NoWindow /\ OthersOnce /\ OpenChannels

(* A connection whose handler returned is always released: a publisher     *)
(* never waits inside the lock for a channel that nobody drains any more.  *)
ReleasedOf(c) == stage[c] = "ended" ~> stage[c] # "ended"
Released == \A c \in Connections : ReleasedOf(c)

(* An event in a live connection's channel is written, or the connection   *)
(* ends, however many notifications arrive meanwhile.                      *)
ForwardedTo(c) ==
  \A i \in 1 .. MaxLog :
    (stage[c] = "live" /\ i \in InQueue(c)) ~> (stage[c] # "live" \/ i \in sent[c])
Forwarded == \A c \in Connections : ForwardedTo(c)
================================================================================
