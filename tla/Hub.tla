--------------------------------- MODULE Hub ---------------------------------
(***************************************************************************)
(* internal/websocket: the hub of every API instance (hub.go), the         *)
(* connection handlers that register with it (ServeWS), and the Redis      *)
(* pub/sub channel between instances (pubsub.go).                          *)
(*                                                                         *)
(* Goroutines: per instance the event loop ("hub") and the subscription    *)
(* ("sub"); per connection the handler, which is the read loop, and the    *)
(* writer.  Sends on h.register, h.unregister and h.broadcast are          *)
(* rendezvous (unbuffered channels): one step of both sides.  The read     *)
(* lock of a delivery is held while its todo set is being worked through.  *)
(***************************************************************************)
EXTENDS Naturals, Sequences, FiniteSets

CONSTANTS
    Instances,      \* API instances
    Conns,          \* WebSocket connections
    ClientIds,      \* "<user>:<household>"
    Households,
    Broadcasts,     \* household messages
    Directs,        \* messages for one client ID
    InstanceOf,     \* [Conns -> Instances]
    IdOf,           \* [Conns -> ClientIds]
    HouseholdOf,    \* [ClientIds -> Households]
    Target,         \* household or client ID of each message
    Cap,            \* capacity of Send (256 in the code)
    PubSubOn,       \* a Redis client was given to NewHub
    MayShutdown,    \* Shutdown is called (only by the tests)
    MaxAccepted,    \* messages accepted in all (a bound)
    MaxSends,       \* times the Redis client sends one PUBLISH (4: the
                    \* default of go-redis, which InitRedis leaves)
    NONE

Msgs == Broadcasts \cup Directs
Sources == Instances \cup Directs
Loops == {"hub", "sub"}

ASSUME ShapeAssumption ==
    /\ InstanceOf \in [Conns -> Instances]
    /\ IdOf \in [Conns -> ClientIds]
    /\ HouseholdOf \in [ClientIds -> Households]
    /\ \A m \in Broadcasts : Target[m] \in Households
    /\ \A m \in Directs : Target[m] \in ClientIds
    /\ Broadcasts \cap Directs = {} /\ Instances \cap Directs = {}
    /\ Cap \in Nat /\ MaxAccepted \in Nat /\ MaxSends \in Nat
    /\ PubSubOn \in BOOLEAN /\ MayShutdown \in BOOLEAN
    /\ NONE \notin Conns \cup Msgs

VARIABLES
    clients,   \* h.clients of each instance: client ID -> connection
    conn,      \* handler: "new" (before Register), "open" (reading),
               \* "leaving" (in Unregister), "gone"
    up,        \* the connections whose socket is open at both ends
    writer,    \* writer goroutine: "none", "running", "stopped"
    closed,    \* the connections whose Send is closed
    sent,      \* all that was ever put on each Send (history) ...
    taken,     \* ... and how many of those the writer has received
    work,      \* each loop: where it is, its message, who it still serves
    inbox,     \* what Redis has for each subscription
    direct,    \* each call of BroadcastToClient: where it is, and on which
               \* instance
    accepted,  \* history: what each source has accepted
    givenUp,   \* history: the times the client sent each message's PUBLISH
               \* and gave up waiting for the answer ...
    late,      \* ... and, of each instance's, how many Redis may yet execute
    panicked,  \* a send on, or a second close of, a closed channel
    cancelled  \* the instances whose hub context is cancelled

vars == <<clients, conn, up, writer, closed, sent, taken, work, inbox,
          direct, accepted, givenUp, late, panicked, cancelled>>
attempts == <<givenUp, late>>

Task == [at : {"wait", "deliver", "publish", "stopped"},
         msg : Msgs \cup {NONE}, todo : SUBSET Conns]
Envelope == [origin : Instances, msg : Msgs]
Call == [at : {"idle", "deliver", "publish"}, on : Instances \cup {NONE}]
Idle == [at |-> "wait", msg |-> NONE, todo |-> {}]

Init ==
    /\ clients = [i \in Instances |-> [k \in ClientIds |-> NONE]]
    /\ conn = [c \in Conns |-> "new"]
    /\ up = Conns
    /\ writer = [c \in Conns |-> "none"]
    /\ closed = {}
    /\ sent = [c \in Conns |-> <<>>]
    /\ taken = [c \in Conns |-> 0]
    /\ work = [i \in Instances |-> [g \in Loops |-> Idle]]
    /\ inbox = [i \in Instances |-> <<>>]
    /\ direct = [m \in Directs |-> [at |-> "idle", on |-> NONE]]
    /\ accepted = [s \in Sources |-> <<>>]
    /\ givenUp = [m \in Msgs |-> 0]
    /\ late = [i \in Instances |-> [m \in Msgs |-> 0]]
    /\ panicked = FALSE
    /\ cancelled = {}

-----------------------------------------------------------------------------
(* Helpers. *)

Mapped(i) == {c \in Conns : clients[i][IdOf[c]] = c}

(* Mutant: the household is not compared. *)
RecipientsAll(i, m) == Mapped(i)
(* deliverToHousehold: the clients of the map in the message's household. *)
Recipients(i, m) == {c \in Mapped(i) : HouseholdOf[IdOf[c]] = Target[m]}

(* Mutant: one message too many. *)
RoomForOneMore(c) == Len(sent[c]) - taken[c] <= Cap
(* select { case client.Send <- message: default: }: the send is possible. *)
Room(c) == Len(sent[c]) - taken[c] < Cap

(* The non-blocking send. On a closed channel it panics. *)
Push(c, m) ==
    IF c \in closed
    THEN panicked' = TRUE /\ UNCHANGED sent
    ELSE /\ sent' = IF Room(c) THEN [sent EXCEPT ![c] = Append(@, m)] ELSE sent
         /\ UNCHANGED panicked

(* Mutant: Unregister does not take the lock. *)
LockUnchecked(i) == work[i]["hub"].at = "wait"
(* The event loop is in its select, and nobody holds the read lock.       *)
LockFree(i) == \A g \in Loops : work[i][g].at # "deliver"

HubWaits(i) == work[i]["hub"].at = "wait"

(* Redis executes a PUBLISH: it reaches the subscriptions of R, in one     *)
(* order for all of them. An error, a lost subscription or a slow one      *)
(* loses the message: a subscription that loses it later might as well    *)
(* never have had it.                                                     *)
Publish(i, m) ==
    \E R \in SUBSET Instances :
        inbox' = [j \in Instances |->
            IF j \in R THEN Append(inbox[j], [origin |-> i, msg |-> m]) ELSE inbox[j]]

(* The client gives up waiting for an answer (a timeout, a lost            *)
(* connection); the request may still be on its way.                      *)
Unanswered(i, m) ==
    /\ givenUp[m] < MaxSends
    /\ givenUp' = [givenUp EXCEPT ![m] = @ + 1]
    /\ late' = [late EXCEPT ![i][m] = @ + 1]

-----------------------------------------------------------------------------
(* Connection handlers. *)

(* Register: the loop receives the client and stores it under its ID,     *)
(* replacing whatever was there; the handler starts the writer and reads. *)
Register(i, c) ==
    /\ conn[c] = "new" /\ InstanceOf[c] = i
    /\ HubWaits(i) /\ LockFree(i)
    /\ clients' = [clients EXCEPT ![i][IdOf[c]] = c]
    /\ conn' = [conn EXCEPT ![c] = "open"]
    /\ writer' = [writer EXCEPT ![c] = "running"]
    /\ UNCHANGED <<up, closed, sent, taken, work, inbox, direct, accepted, attempts, panicked, cancelled>>

(* The peer or the network closes the socket. *)
Disconnect(c) ==
    /\ conn[c] = "open" /\ c \in up
    /\ up' = up \ {c}
    /\ UNCHANGED <<clients, conn, writer, closed, sent, taken, work, inbox, direct, accepted, attempts, panicked, cancelled>>

(* ReadMessage fails: the read loop ends. *)
ReaderExit(c) ==
    /\ conn[c] = "open" /\ c \notin up
    /\ conn' = [conn EXCEPT ![c] = "leaving"]
    /\ UNCHANGED <<clients, up, writer, closed, sent, taken, work, inbox, direct, accepted, attempts, panicked, cancelled>>

(* Unregister: if the map has an entry under the client's ID, whoever's it *)
(* is, the entry goes and the client's own Send is closed. Then the handler *)
(* closes the socket and returns.                                         *)
Unregister(i, c) ==
    LET present == clients[i][IdOf[c]] # NONE IN
    /\ conn[c] = "leaving" /\ InstanceOf[c] = i
    /\ HubWaits(i) /\ LockFree(i)
    /\ clients' = [clients EXCEPT ![i][IdOf[c]] = NONE]
    /\ closed' = IF present THEN closed \cup {c} ELSE closed
    /\ panicked' = (panicked \/ (present /\ c \in closed))
    /\ conn' = [conn EXCEPT ![c] = "gone"]
    /\ UNCHANGED <<up, writer, sent, taken, work, inbox, direct, accepted, attempts, cancelled>>

(* The writer receives a message and writes it, or fails to and stops.    *)
WriterTake(c) ==
    /\ writer[c] = "running" /\ taken[c] < Len(sent[c])
    /\ taken' = [taken EXCEPT ![c] = @ + 1]
    /\ writer' = [writer EXCEPT ![c] = IF c \in up THEN "running" ELSE "stopped"]
    /\ UNCHANGED <<clients, conn, up, closed, sent, work, inbox, direct, accepted, attempts, panicked, cancelled>>

(* Mutant: the writer has no ticker, only a closed Send ends it. *)
WriterSeesEndOnClose(c) == c \in closed /\ taken[c] = Len(sent[c])
(* A ping fails, or Send is closed and drained. *)
WriterSeesEnd(c) == c \notin up \/ (c \in closed /\ taken[c] = Len(sent[c]))

WriterStop(c) ==
    /\ writer[c] = "running" /\ WriterSeesEnd(c)
    /\ writer' = [writer EXCEPT ![c] = "stopped"]
    /\ up' = up \ {c}
    /\ UNCHANGED <<clients, conn, closed, sent, taken, work, inbox, direct, accepted, attempts, panicked, cancelled>>

-----------------------------------------------------------------------------
(* Deliveries. *)

Accepted(m) == \E s \in Sources : \E k \in DOMAIN accepted[s] : accepted[s][k] = m
MayAccept(m) == ~Accepted(m) /\ Cardinality({n \in Msgs : Accepted(n)}) < MaxAccepted

(* The loop takes a household message from a caller of BroadcastToHousehold *)
(* and starts deliverToHousehold, read lock held.                         *)
HubBroadcast(i, m) ==
    /\ HubWaits(i) /\ MayAccept(m)
    /\ accepted' = [accepted EXCEPT ![i] = Append(@, m)]
    /\ work' = [work EXCEPT ![i]["hub"] =
          [at |-> "deliver", msg |-> m, todo |-> Recipients(i, m)]]
    /\ UNCHANGED <<clients, conn, up, writer, closed, sent, taken, inbox, direct, attempts, panicked, cancelled>>

(* One client of the range over the map, in any order. *)
SendOne(i, g, c) ==
    /\ work[i][g].at = "deliver" /\ c \in work[i][g].todo
    /\ Push(c, work[i][g].msg)
    /\ work' = [work EXCEPT ![i][g].todo = @ \ {c}]
    /\ UNCHANGED <<clients, conn, up, writer, closed, taken, inbox, direct, accepted, attempts, cancelled>>

(* The range ends, the lock is released. *)
DeliverEnd(i, g) ==
    /\ work[i][g].at = "deliver" /\ work[i][g].todo = {}
    /\ work' = [work EXCEPT ![i][g] =
          IF g = "hub" /\ PubSubOn THEN [@ EXCEPT !.at = "publish"] ELSE Idle]
    /\ UNCHANGED <<clients, conn, up, writer, closed, sent, taken, inbox, direct, accepted, attempts, panicked, cancelled>>

(* PUBLISH is answered, or fails for good. *)
HubPublish(i) ==
    /\ work[i]["hub"].at = "publish"
    /\ Publish(i, work[i]["hub"].msg)
    /\ work' = [work EXCEPT ![i]["hub"] = Idle]
    /\ UNCHANGED <<clients, conn, up, writer, closed, sent, taken, direct, accepted, attempts, panicked, cancelled>>

(* It is not answered: the Redis client sends it again, a limited number   *)
(* of times. What it gave up waiting for Redis may execute all the same,   *)
(* at any later time: the new attempt has a connection of its own.        *)
HubUnanswered(i) ==
    LET m == work[i]["hub"].msg IN
    /\ work[i]["hub"].at = "publish"
    /\ Unanswered(i, m)
    /\ work' = IF givenUp'[m] < MaxSends THEN work ELSE [work EXCEPT ![i]["hub"] = Idle]
    /\ UNCHANGED <<clients, conn, up, writer, closed, sent, taken, inbox, direct, accepted, panicked, cancelled>>

LatePublish(i, m) ==
    /\ late[i][m] > 0
    /\ Publish(i, m)
    /\ late' = [late EXCEPT ![i][m] = @ - 1]
    /\ UNCHANGED <<clients, conn, up, writer, closed, sent, taken, work, direct, accepted, givenUp, panicked, cancelled>>

(* Mutant: an instance also handles what it published itself. *)
ForeignAlways(i, e) == TRUE
(* Messages this instance published itself are ignored. *)
Foreign(i, e) == e.origin # i

(* Mutant: every message is handled in a goroutine of its own. *)
NextPositionsAny(i) == DOMAIN inbox[i]
(* The subscription goroutine handles its messages one after the other.   *)
NextPositions(i) == {1} \cap DOMAIN inbox[i]

Drop(s, k) == [n \in 1 .. Len(s) - 1 |-> IF n < k THEN s[n] ELSE s[n + 1]]

(* deliverToClient: one lookup and one send under the read lock. *)
PushToClient(i, m) ==
    IF clients[i][Target[m]] # NONE
    THEN Push(clients[i][Target[m]], m)
    ELSE UNCHANGED <<sent, panicked>>

(* handlePubSubMessage, up to the start of a household delivery. *)
SubReceive(i) ==
    /\ work[i]["sub"].at = "wait"
    /\ \E k \in NextPositions(i) :
        LET e == inbox[i][k] IN
        /\ inbox' = [inbox EXCEPT ![i] = Drop(@, k)]
        /\ \/ /\ ~Foreign(i, e)
              /\ UNCHANGED <<work, sent, panicked>>
           \/ /\ Foreign(i, e) /\ e.msg \in Broadcasts
              /\ work' = [work EXCEPT ![i]["sub"] =
                    [at |-> "deliver", msg |-> e.msg, todo |-> Recipients(i, e.msg)]]
              /\ UNCHANGED <<sent, panicked>>
           \/ /\ Foreign(i, e) /\ e.msg \in Directs
              /\ PushToClient(i, e.msg)
              /\ UNCHANGED work
    /\ UNCHANGED <<clients, conn, up, writer, closed, taken, direct, accepted, attempts, cancelled>>

(* BroadcastToClient, in the caller's goroutine: it is called ...         *)
DirectCall(i, m) ==
    /\ MayAccept(m)
    /\ accepted' = [accepted EXCEPT ![m] = Append(@, m)]
    /\ direct' = [direct EXCEPT ![m] = [at |-> "deliver", on |-> i]]
    /\ UNCHANGED <<clients, conn, up, writer, closed, sent, taken, work, inbox, attempts, panicked, cancelled>>

(* ... delivers locally ... *)
DirectSend(m) ==
    /\ direct[m].at = "deliver"
    /\ PushToClient(direct[m].on, m)
    /\ direct' = [direct EXCEPT ![m].at = IF PubSubOn THEN "publish" ELSE "idle"]
    /\ UNCHANGED <<clients, conn, up, writer, closed, taken, work, inbox, accepted, attempts, cancelled>>

(* ... and publishes. *)
DirectPublish(m) ==
    /\ direct[m].at = "publish"
    /\ Publish(direct[m].on, m)
    /\ direct' = [direct EXCEPT ![m].at = "idle"]
    /\ UNCHANGED <<clients, conn, up, writer, closed, sent, taken, work, accepted, attempts, panicked, cancelled>>

DirectUnanswered(m) ==
    /\ direct[m].at = "publish"
    /\ Unanswered(direct[m].on, m)
    /\ direct' = IF givenUp'[m] < MaxSends THEN direct ELSE [direct EXCEPT ![m].at = "idle"]
    /\ UNCHANGED <<clients, conn, up, writer, closed, sent, taken, work, inbox, accepted, panicked, cancelled>>

-----------------------------------------------------------------------------
(* Shutdown cancels the context; each loop returns when it next sees that. *)

Shutdown(i) ==
    /\ MayShutdown /\ i \notin cancelled
    /\ cancelled' = cancelled \cup {i}
    /\ UNCHANGED <<clients, conn, up, writer, closed, sent, taken, work, inbox, direct, accepted, attempts, panicked>>

LoopStop(i, g) ==
    /\ i \in cancelled /\ work[i][g].at = "wait"
    /\ work' = [work EXCEPT ![i][g].at = "stopped"]
    /\ UNCHANGED <<clients, conn, up, writer, closed, sent, taken, inbox, direct, accepted, attempts, panicked, cancelled>>

Handler(c) == \/ \E i \in Instances : Register(i, c) \/ Unregister(i, c)
              \/ ReaderExit(c)
Writer(c) == WriterTake(c) \/ WriterStop(c)
Loop(i, g) == \/ \E c \in Conns : SendOne(i, g, c)
              \/ DeliverEnd(i, g) \/ LoopStop(i, g)

Next ==
    \/ \E c \in Conns : Handler(c) \/ Disconnect(c) \/ Writer(c)
    \/ \E i \in Instances :
        \/ \E g \in Loops : Loop(i, g)
        \/ \E m \in Broadcasts : HubBroadcast(i, m)
        \/ \E m \in Directs : DirectCall(i, m)
        \/ \E m \in Msgs : LatePublish(i, m)
        \/ HubPublish(i) \/ HubUnanswered(i) \/ SubReceive(i) \/ Shutdown(i)
    \/ \E m \in Directs : DirectSend(m) \/ DirectPublish(m) \/ DirectUnanswered(m)

Spec == Init /\ [][Next]_vars

(* The scheduler runs every goroutine, a Redis call returns (an attempt is *)
(* answered or times out, and there are MaxSends of them), and select is  *)
(* fair to a client that keeps waiting in Unregister or Register (it picks *)
(* a ready case at random), which makes these two strong. Nothing is said  *)
(* of Redis delivering a message, of callers or of disconnections.        *)
Fairness ==
    /\ \A c \in Conns : WF_vars(ReaderExit(c)) /\ WF_vars(Writer(c)) /\ SF_vars(Handler(c))
    /\ \A i \in Instances : WF_vars(HubPublish(i) \/ HubUnanswered(i)) /\ \A g \in Loops : WF_vars(Loop(i, g))

FairSpec == Spec /\ Fairness

-----------------------------------------------------------------------------
(* Properties. *)

(* Every variable holds the values its comment gives it, no Send holds    *)
(* more than its capacity, a loop or call that is busy has its message and *)
(* its instance, and only an attempt that was given up can come late.     *)
TypeOK ==
    /\ clients \in [Instances -> [ClientIds -> Conns \cup {NONE}]]
    /\ conn \in [Conns -> {"new", "open", "leaving", "gone"}]
    /\ up \subseteq Conns /\ closed \subseteq Conns
    /\ writer \in [Conns -> {"none", "running", "stopped"}]
    /\ sent \in [Conns -> Seq(Msgs)] /\ taken \in [Conns -> Nat]
    /\ \A c \in Conns : taken[c] <= Len(sent[c]) /\ Len(sent[c]) - taken[c] <= Cap
    /\ work \in [Instances -> [Loops -> Task]]
    /\ \A i \in Instances, g \in Loops :
          work[i][g].at \in {"deliver", "publish"} => work[i][g].msg \in Broadcasts
    /\ inbox \in [Instances -> Seq(Envelope)]
    /\ direct \in [Directs -> Call]
    /\ \A m \in Directs : direct[m].at # "idle" => direct[m].on \in Instances
    /\ accepted \in [Sources -> Seq(Msgs)]
    /\ givenUp \in [Msgs -> 0 .. MaxSends] /\ late \in [Instances -> [Msgs -> Nat]]
    /\ \A i \in Instances, m \in Msgs : late[i][m] <= givenUp[m]
    /\ panicked \in BOOLEAN /\ cancelled \subseteq Instances

(* No goroutine ever sends on a closed Send or closes one twice, although *)
(* the loop closes a Send while the subscription goroutine and callers of *)
(* BroadcastToClient deliver: a closed Send is in no map.                 *)
NoPanic == ~panicked

(* Best-effort broadcast: only what was accepted, only to the household or *)
(* client addressed and, unless an attempt to publish the message went     *)
(* unanswered, at most once and in the order of its source (Broadcast).   *)
MeantFor(m, c) == \/ m \in Broadcasts /\ HouseholdOf[IdOf[c]] = Target[m]
                  \/ m \in Directs /\ IdOf[c] = Target[m]

Doubtful == {m \in Msgs : givenUp[m] > 0}

BestEffort == INSTANCE Broadcast WITH
    log <- accepted, delivered <- sent, doubtful <- Doubtful, Addressed <- MeantFor

BestEffortBroadcast == BestEffort!Spec

(* hub.go:123: messages an instance published itself are ignored "to avoid *)
(* double delivery". A connection of the instance that accepted a message *)
(* gets it at most once, however often it is published, and whether it is *)
(* a household's or the client's own.                                     *)
AcceptedBy(i, m) == \/ \E k \in DOMAIN accepted[i] : accepted[i][k] = m
                    \/ m \in Directs /\ direct[m].on = i
OnceAtHome ==
    \A c \in Conns : \A a, b \in DOMAIN sent[c] :
        (sent[c][a] = sent[c][b] /\ AcceptedBy(InstanceOf[c], sent[c][a])) => a = b

(* A connection whose socket has closed is unregistered, and both its     *)
(* goroutines end, even when another connection took its place in the map. *)
(* Only the end of the hub itself leaves a handler waiting in Unregister.  *)
Ended(c) == writer[c] = "stopped" /\ (conn[c] = "gone" \/ InstanceOf[c] \in cancelled)
ClosedConnectionsGoAway == \A c \in Conns : c \notin up ~> Ended(c)

(* hub.go:138-139: deliverToHousehold "sends a message to all locally      *)
(* connected clients in the given household". A second connection of the  *)
(* same user and household replaces the first in the map, and the first's *)
(* end then removes the second.                                           *)
ConnectedClientsAreMapped ==
    \A c \in Conns : (conn[c] = "open" /\ c \in up) => c \in Mapped(InstanceOf[c])

=============================================================================
