------------------------------ MODULE HubProofs ------------------------------
(***************************************************************************)
(* Proofs about the WebSocket hub, for any number of instances,            *)
(* connections and messages and any buffer size: the type invariant, that  *)
(* no goroutine sends on a closed channel or closes one twice, and that    *)
(* the hub implements module Broadcast.                                    *)
(***************************************************************************)
EXTENDS Hub, TLAPS, SequenceTheorems

(* Why a delivery never meets a closed Send: what the map holds has not    *)
(* left, sits under its own ID, and the clients a delivery still has to    *)
(* serve are in the map, for Register and Unregister wait for the lock.    *)
MapHoldsConnected ==
    \A i \in Instances, k \in ClientIds : clients[i][k] # NONE =>
        /\ conn[clients[i][k]] \in {"open", "leaving"}
        /\ InstanceOf[clients[i][k]] = i
        /\ IdOf[clients[i][k]] = k

ClosedAreGone == \A c \in closed : conn[c] = "gone"

TodoIsMapped ==
    \A i \in Instances, g \in Loops :
        /\ work[i][g].todo \subseteq Mapped(i)
        /\ work[i][g].todo # {} => work[i][g].at = "deliver"

SafeInv == MapHoldsConnected /\ ClosedAreGone /\ TodoIsMapped /\ NoPanic

-----------------------------------------------------------------------------
(* Removing an element of a sequence gives a sequence.                    *)
LEMMA DropType ==
    ASSUME NEW S, NEW s \in Seq(S), NEW k \in DOMAIN s
    PROVE  Drop(s, k) \in Seq(S)
<1>1. Len(s) \in Nat /\ k \in 1 .. Len(s) /\ DOMAIN s = 1 .. Len(s)
  OBVIOUS
<1>2. Len(s) - 1 \in Nat
  BY <1>1
<1>3. \A n \in 1 .. Len(s) : s[n] \in S
  OBVIOUS
<1>4. ASSUME NEW n \in 1 .. (Len(s) - 1)
      PROVE  (IF n < k THEN s[n] ELSE s[n + 1]) \in S
  <2>1. n \in 1 .. Len(s) /\ n + 1 \in 1 .. Len(s)
    BY <1>1
  <2> QED
    BY <2>1, <1>3
<1>5. Drop(s, k) \in [1 .. (Len(s) - 1) -> S]
  BY <1>4 DEF Drop
<1> QED
  BY <1>2, <1>5, SeqDef

(* A non-blocking send keeps the buffers well-formed and within capacity. *)
LEMMA PushType ==
    ASSUME TypeOK, NEW c \in Conns, NEW m \in Msgs, Push(c, m)
    PROVE  /\ sent' \in [Conns -> Seq(Msgs)]
           /\ panicked' \in BOOLEAN
           /\ \A d \in Conns : taken[d] <= Len(sent'[d]) /\ Len(sent'[d]) - taken[d] <= Cap
<1> USE DEF TypeOK
<1>1. CASE c \in closed
  BY <1>1 DEF Push
<1>2. CASE c \notin closed /\ ~Room(c)
  BY <1>2 DEF Push
<1>3. CASE c \notin closed /\ Room(c)
  <2>1. sent' = [sent EXCEPT ![c] = Append(@, m)] /\ panicked' = panicked
    BY <1>3 DEF Push
  <2>2. Append(sent[c], m) \in Seq(Msgs) /\ Len(Append(sent[c], m)) = Len(sent[c]) + 1
    OBVIOUS
  <2>3. sent' \in [Conns -> Seq(Msgs)]
    BY <2>1, <2>2
  <2>4. ASSUME NEW d \in Conns
        PROVE  taken[d] <= Len(sent'[d]) /\ Len(sent'[d]) - taken[d] <= Cap
    <3>1. CASE d = c
      <4>1. Len(sent'[c]) = Len(sent[c]) + 1
        BY <2>1, <2>2
      <4>2. Len(sent[c]) \in Nat /\ taken[c] \in Nat /\ Cap \in Nat
        BY ShapeAssumption
      <4> QED
        BY <3>1, <4>1, <4>2, <1>3 DEF Room
    <3>2. CASE d # c
      BY <3>2, <2>1
    <3> QED
      BY <3>1, <3>2
  <2> QED
    BY <2>1, <2>3, <2>4
<1> QED
  BY <1>1, <1>2, <1>3

(* So does deliverToClient. *)
LEMMA PushToClientType ==
    ASSUME TypeOK, NEW i \in Instances, NEW m \in Directs, PushToClient(i, m)
    PROVE  /\ sent' \in [Conns -> Seq(Msgs)]
           /\ panicked' \in BOOLEAN
           /\ \A d \in Conns : taken[d] <= Len(sent'[d]) /\ Len(sent'[d]) - taken[d] <= Cap
<1>1. Target[m] \in ClientIds /\ m \in Msgs
  BY ShapeAssumption DEF Msgs
<1>2. CASE clients[i][Target[m]] # NONE
  <2>1. clients[i][Target[m]] \in Conns
    BY <1>1, <1>2 DEF TypeOK
  <2> QED
    BY <1>1, <1>2, <2>1, PushType DEF PushToClient
<1>3. CASE clients[i][Target[m]] = NONE
  BY <1>3 DEF PushToClient, TypeOK
<1> QED
  BY <1>2, <1>3

(* A publication puts well-formed envelopes in the inboxes. *)
LEMMA PublishType ==
    ASSUME TypeOK, NEW i \in Instances, NEW m \in Msgs, Publish(i, m)
    PROVE  inbox' \in [Instances -> Seq(Envelope)]
<1> DEFINE e == [origin |-> i, msg |-> m]
<1>1. PICK R \in SUBSET Instances :
        inbox' = [j \in Instances |-> IF j \in R THEN Append(inbox[j], e) ELSE inbox[j]]
  BY DEF Publish
<1>2. e \in Envelope
  BY DEF Envelope
<1>3. \A j \in Instances : inbox[j] \in Seq(Envelope)
  BY DEF TypeOK
<1>4. ASSUME NEW j \in Instances
      PROVE  Append(inbox[j], e) \in Seq(Envelope)
  <2>1. inbox[j] \in Seq(Envelope)
    BY <1>3
  <2> QED
    BY <1>2, <2>1, AppendProperties
<1> QED
  BY <1>1, <1>3, <1>4

(* An attempt that is given up is counted, and only it can come late. *)
LEMMA UnansweredType ==
    ASSUME TypeOK, NEW i \in Instances, NEW m \in Msgs, Unanswered(i, m)
    PROVE  /\ givenUp' \in [Msgs -> 0 .. MaxSends] /\ late' \in [Instances -> [Msgs -> Nat]]
           /\ \A j \in Instances, n \in Msgs : late'[j][n] <= givenUp'[n]
<1>1. /\ givenUp \in [Msgs -> 0 .. MaxSends] /\ late \in [Instances -> [Msgs -> Nat]]
      /\ \A j \in Instances, n \in Msgs : late[j][n] <= givenUp[n]
      /\ MaxSends \in Nat
  BY ShapeAssumption DEF TypeOK
<1>2. /\ givenUp[m] < MaxSends /\ givenUp' = [givenUp EXCEPT ![m] = @ + 1]
      /\ late' = [late EXCEPT ![i][m] = @ + 1]
  BY DEF Unanswered
<1>3. \A n \in Msgs : givenUp'[n] = IF n = m THEN givenUp[n] + 1 ELSE givenUp[n]
  BY <1>1, <1>2
<1>4. \A j \in Instances, n \in Msgs :
        late'[j][n] = IF j = i /\ n = m THEN late[j][n] + 1 ELSE late[j][n]
  BY <1>1, <1>2
<1>5. givenUp' \in [Msgs -> 0 .. MaxSends] /\ late' \in [Instances -> [Msgs -> Nat]]
  BY <1>1, <1>2
<1>6. ASSUME NEW j \in Instances, NEW n \in Msgs
      PROVE  late'[j][n] <= givenUp'[n]
  <2>1. late[j][n] \in Nat /\ givenUp[n] \in Nat /\ late[j][n] <= givenUp[n]
    BY <1>1
  <2>2. QED
    BY <1>3, <1>4, <2>1
<1>7. QED
  BY <1>5, <1>6

-----------------------------------------------------------------------------
(* A loop that changes its task for a well-formed one. *)
LEMMA WorkType ==
    ASSUME TypeOK, NEW i \in Instances, NEW g \in Loops, NEW t \in Task,
           t.at \in {"deliver", "publish"} => t.msg \in Broadcasts,
           work' = [work EXCEPT ![i][g] = t]
    PROVE  /\ work' \in [Instances -> [Loops -> Task]]
           /\ \A j \in Instances, h \in Loops :
                work'[j][h].at \in {"deliver", "publish"} => work'[j][h].msg \in Broadcasts
<1>1. [work[i] EXCEPT ![g] = t] \in [Loops -> Task]
  BY DEF TypeOK
<1>2. work' = [work EXCEPT ![i] = [work[i] EXCEPT ![g] = t]]
  BY DEF TypeOK
<1>3. work' \in [Instances -> [Loops -> Task]]
  BY <1>1, <1>2 DEF TypeOK
<1>4. \A j \in Instances, h \in Loops :
        work'[j][h] = IF j = i /\ h = g THEN t ELSE work[j][h]
  BY <1>2 DEF TypeOK
<1> QED
  BY <1>3, <1>4 DEF TypeOK

LEMMA TypeInit == Init => TypeOK
<1> SUFFICES ASSUME Init PROVE TypeOK
  OBVIOUS
<1>1. \A S : <<>> \in Seq(S) /\ Len(<<>>) = 0
  OBVIOUS
<1>2. Idle \in Task /\ Idle.at = "wait"
  BY DEF Idle, Task
<1>3. work \in [Instances -> [Loops -> Task]] /\ \A i \in Instances, g \in Loops : work[i][g] = Idle
  BY <1>2 DEF Init
<1>4. /\ direct \in [Directs -> Call]
      /\ \A m \in Directs : direct[m].at = "idle"
  BY DEF Init, Call
<1>5. /\ clients \in [Instances -> [ClientIds -> Conns \cup {NONE}]]
      /\ conn \in [Conns -> {"new", "open", "leaving", "gone"}]
      /\ up \subseteq Conns /\ closed \subseteq Conns
      /\ writer \in [Conns -> {"none", "running", "stopped"}]
      /\ panicked \in BOOLEAN /\ cancelled \subseteq Instances
  BY DEF Init
<1>6. /\ sent \in [Conns -> Seq(Msgs)] /\ taken \in [Conns -> Nat]
      /\ inbox \in [Instances -> Seq(Envelope)]
      /\ accepted \in [Sources -> Seq(Msgs)]
  BY <1>1 DEF Init
<1>7. \A c \in Conns : taken[c] <= Len(sent[c]) /\ Len(sent[c]) - taken[c] <= Cap
  BY <1>1, ShapeAssumption DEF Init
<1>8. /\ givenUp \in [Msgs -> 0 .. MaxSends] /\ late \in [Instances -> [Msgs -> Nat]]
      /\ \A i \in Instances, m \in Msgs : late[i][m] <= givenUp[m]
  BY ShapeAssumption DEF Init
<1> QED
  BY <1>2, <1>3, <1>4, <1>5, <1>6, <1>7, <1>8 DEF TypeOK

LEMMA TypeStep == TypeOK /\ [Next]_vars => TypeOK'
<1> SUFFICES ASSUME TypeOK, [Next]_vars PROVE TypeOK'
  OBVIOUS
<1> USE DEF TypeOK, attempts
<1>1. ASSUME NEW i \in Instances, NEW c \in Conns, Register(i, c) PROVE TypeOK'
  BY <1>1, ShapeAssumption DEF Register
<1>2. ASSUME NEW i \in Instances, NEW c \in Conns, Unregister(i, c) PROVE TypeOK'
  BY <1>2, ShapeAssumption DEF Unregister
<1>3. ASSUME NEW c \in Conns, ReaderExit(c) \/ Disconnect(c) PROVE TypeOK'
  BY <1>3 DEF ReaderExit, Disconnect
<1>4. ASSUME NEW c \in Conns, WriterTake(c) PROVE TypeOK'
  <2>1. taken' = [taken EXCEPT ![c] = @ + 1] /\ taken[c] < Len(sent[c]) /\ sent' = sent
    BY <1>4 DEF WriterTake
  <2>2. Len(sent[c]) \in Nat /\ taken[c] \in Nat /\ Cap \in Nat
    BY ShapeAssumption
  <2>3. taken' \in [Conns -> Nat]
    BY <2>1
  <2>4. ASSUME NEW d \in Conns
        PROVE  taken'[d] <= Len(sent'[d]) /\ Len(sent'[d]) - taken'[d] <= Cap
    <3>1. CASE d = c
      BY <3>1, <2>1, <2>2
    <3>2. CASE d # c
      BY <3>2, <2>1
    <3> QED
      BY <3>1, <3>2
  <2>5. writer' \in [Conns -> {"none", "running", "stopped"}]
    BY <1>4 DEF WriterTake
  <2> QED
    BY <1>4, <2>3, <2>4, <2>5 DEF WriterTake
<1>5. ASSUME NEW c \in Conns, WriterStop(c) PROVE TypeOK'
  BY <1>5 DEF WriterStop
<1>6. ASSUME NEW i \in Instances, NEW m \in Broadcasts, HubBroadcast(i, m) PROVE TypeOK'
  <2> DEFINE t == [at |-> "deliver", msg |-> m, todo |-> Recipients(i, m)]
  <2>1. accepted' \in [Sources -> Seq(Msgs)]
    BY <1>6, AppendProperties DEF HubBroadcast, Sources, Msgs
  <2>2. t \in Task /\ t.msg \in Broadcasts
    BY DEF Recipients, Mapped, Task, Msgs
  <2>3. "hub" \in Loops /\ work' = [work EXCEPT ![i]["hub"] = t]
    BY <1>6 DEF HubBroadcast, Loops
  <2>4. /\ work' \in [Instances -> [Loops -> Task]]
        /\ \A j \in Instances, h \in Loops :
             work'[j][h].at \in {"deliver", "publish"} => work'[j][h].msg \in Broadcasts
    <3> HIDE DEF t
    <3> QED
      BY <2>2, <2>3, WorkType
  <2> QED
    BY <1>6, <2>1, <2>4 DEF HubBroadcast
<1>7. ASSUME NEW i \in Instances, NEW g \in Loops, NEW c \in Conns, SendOne(i, g, c) PROVE TypeOK'
  <2> DEFINE t == [work[i][g] EXCEPT !.todo = @ \ {c}]
  <2>1. work[i][g] \in Task /\ work[i][g].at = "deliver" /\ work[i][g].msg \in Broadcasts
    BY <1>7 DEF SendOne
  <2>2. /\ sent' \in [Conns -> Seq(Msgs)] /\ panicked' \in BOOLEAN
        /\ \A d \in Conns : taken[d] <= Len(sent'[d]) /\ Len(sent'[d]) - taken[d] <= Cap
    BY <1>7, <2>1, PushType DEF SendOne, Msgs
  <2>3. t \in Task /\ t.msg \in Broadcasts
    BY <2>1 DEF Task
  <2>4. work' = [work EXCEPT ![i][g] = t]
    BY <1>7 DEF SendOne
  <2>5. /\ work' \in [Instances -> [Loops -> Task]]
        /\ \A j \in Instances, h \in Loops :
             work'[j][h].at \in {"deliver", "publish"} => work'[j][h].msg \in Broadcasts
    <3> HIDE DEF t
    <3> QED
      BY <2>3, <2>4, WorkType
  <2> QED
    BY <1>7, <2>2, <2>5 DEF SendOne
<1>8. ASSUME NEW i \in Instances, NEW g \in Loops, DeliverEnd(i, g) PROVE TypeOK'
  <2> DEFINE t == IF g = "hub" /\ PubSubOn THEN [work[i][g] EXCEPT !.at = "publish"] ELSE Idle
  <2>1. work[i][g] \in Task /\ work[i][g].msg \in Broadcasts
    BY <1>8 DEF DeliverEnd
  <2>2. t \in Task /\ (t.at \in {"deliver", "publish"} => t.msg \in Broadcasts)
    BY <2>1 DEF Task, Idle
  <2>3. work' = [work EXCEPT ![i][g] = t]
    BY <1>8 DEF DeliverEnd
  <2>4. /\ work' \in [Instances -> [Loops -> Task]]
        /\ \A j \in Instances, h \in Loops :
             work'[j][h].at \in {"deliver", "publish"} => work'[j][h].msg \in Broadcasts
    <3> HIDE DEF t
    <3> QED
      BY <2>2, <2>3, WorkType
  <2> QED
    BY <1>8, <2>4 DEF DeliverEnd
<1>9. ASSUME NEW i \in Instances, NEW g \in Loops, LoopStop(i, g) PROVE TypeOK'
  <2> DEFINE t == [work[i][g] EXCEPT !.at = "stopped"]
  <2>0. work[i][g] \in Task
    OBVIOUS
  <2>1. t \in Task /\ t.at = "stopped"
    BY <2>0 DEF Task
  <2>2. work' = [work EXCEPT ![i][g] = t]
    BY <1>9 DEF LoopStop
  <2>3. /\ work' \in [Instances -> [Loops -> Task]]
        /\ \A j \in Instances, h \in Loops :
             work'[j][h].at \in {"deliver", "publish"} => work'[j][h].msg \in Broadcasts
    <3> HIDE DEF t
    <3> QED
      BY <2>1, <2>2, WorkType
  <2> QED
    BY <1>9, <2>3 DEF LoopStop
<1>10. ASSUME NEW i \in Instances, HubPublish(i) PROVE TypeOK'
  <2>1. work[i]["hub"].msg \in Msgs
    BY <1>10 DEF HubPublish, Msgs, Loops
  <2>2. inbox' \in [Instances -> Seq(Envelope)]
    BY <1>10, <2>1, PublishType DEF HubPublish
  <2>3. "hub" \in Loops /\ Idle \in Task /\ Idle.at = "wait"
    BY DEF Loops, Idle, Task
  <2>4. /\ work' \in [Instances -> [Loops -> Task]]
        /\ \A j \in Instances, h \in Loops :
             work'[j][h].at \in {"deliver", "publish"} => work'[j][h].msg \in Broadcasts
    BY <1>10, <2>3, WorkType DEF HubPublish
  <2> QED
    BY <1>10, <2>2, <2>4 DEF HubPublish
<1>11. ASSUME NEW i \in Instances, SubReceive(i) PROVE TypeOK'
  <2>1. PICK k \in NextPositions(i) :
          LET e == inbox[i][k] IN
          /\ inbox' = [inbox EXCEPT ![i] = Drop(@, k)]
          /\ \/ UNCHANGED <<work, sent, panicked>>
             \/ /\ e.msg \in Broadcasts
                /\ work' = [work EXCEPT ![i]["sub"] =
                      [at |-> "deliver", msg |-> e.msg, todo |-> Recipients(i, e.msg)]]
                /\ UNCHANGED <<sent, panicked>>
             \/ /\ e.msg \in Directs
                /\ PushToClient(i, e.msg)
                /\ UNCHANGED work
    BY <1>11 DEF SubReceive
  <2> DEFINE e == inbox[i][k]
             t == [at |-> "deliver", msg |-> e.msg, todo |-> Recipients(i, e.msg)]
  <2>2. inbox[i] \in Seq(Envelope) /\ k \in DOMAIN inbox[i]
    BY DEF NextPositions
  <2>3. inbox' \in [Instances -> Seq(Envelope)]
    BY <2>1, <2>2, DropType
  <2>4. /\ work' \in [Instances -> [Loops -> Task]]
        /\ \A j \in Instances, h \in Loops :
             work'[j][h].at \in {"deliver", "publish"} => work'[j][h].msg \in Broadcasts
    <3>1. CASE UNCHANGED work
      BY <3>1
    <3>2. CASE e.msg \in Broadcasts /\ work' = [work EXCEPT ![i]["sub"] = t]
      <4>1. t \in Task /\ t.msg \in Broadcasts /\ "sub" \in Loops
        BY <3>2 DEF Task, Msgs, Recipients, Mapped, Loops
      <4> HIDE DEF t
      <4> QED
        BY <4>1, <3>2, WorkType
    <3> QED
      BY <2>1, <3>1, <3>2
  <2>5. /\ sent' \in [Conns -> Seq(Msgs)] /\ panicked' \in BOOLEAN
        /\ \A d \in Conns : taken[d] <= Len(sent'[d]) /\ Len(sent'[d]) - taken[d] <= Cap
    <3>1. CASE UNCHANGED <<sent, panicked>>
      BY <3>1
    <3>2. CASE e.msg \in Directs /\ PushToClient(i, e.msg)
      BY <3>2, PushToClientType
    <3> QED
      BY <2>1, <3>1, <3>2
  <2> QED
    BY <1>11, <2>3, <2>4, <2>5 DEF SubReceive
<1>12. ASSUME NEW i \in Instances, NEW m \in Directs, DirectCall(i, m) PROVE TypeOK'
  <2>1. accepted' \in [Sources -> Seq(Msgs)]
    BY <1>12, AppendProperties DEF DirectCall, Sources, Msgs
  <2>2. /\ direct' \in [Directs -> Call]
        /\ \A n \in Directs : direct'[n].at # "idle" => direct'[n].on \in Instances
    BY <1>12 DEF DirectCall, Call
  <2> QED
    BY <1>12, <2>1, <2>2 DEF DirectCall
<1>13. ASSUME NEW m \in Directs, DirectSend(m) PROVE TypeOK'
  <2>1. direct[m] \in Call /\ direct[m].on \in Instances
    BY <1>13 DEF DirectSend
  <2>2. /\ sent' \in [Conns -> Seq(Msgs)] /\ panicked' \in BOOLEAN
        /\ \A d \in Conns : taken[d] <= Len(sent'[d]) /\ Len(sent'[d]) - taken[d] <= Cap
    BY <1>13, <2>1, PushToClientType DEF DirectSend
  <2>3. /\ direct' \in [Directs -> Call]
        /\ \A n \in Directs : direct'[n].at # "idle" => direct'[n].on \in Instances
    BY <1>13, <2>1 DEF DirectSend, Call
  <2> QED
    BY <1>13, <2>2, <2>3 DEF DirectSend
<1>14. ASSUME NEW m \in Directs, DirectPublish(m) PROVE TypeOK'
  <2>1. direct[m] \in Call /\ direct[m].on \in Instances /\ m \in Msgs
    BY <1>14 DEF DirectPublish, Msgs
  <2>2. inbox' \in [Instances -> Seq(Envelope)]
    BY <1>14, <2>1, PublishType DEF DirectPublish
  <2>3. /\ direct' \in [Directs -> Call]
        /\ \A n \in Directs : direct'[n].at # "idle" => direct'[n].on \in Instances
    BY <1>14, <2>1 DEF DirectPublish, Call
  <2> QED
    BY <1>14, <2>2, <2>3 DEF DirectPublish
<1>15. ASSUME NEW i \in Instances, Shutdown(i) PROVE TypeOK'
  BY <1>15 DEF Shutdown
<1>16. CASE UNCHANGED vars
  BY <1>16 DEF vars
<1>17. ASSUME NEW i \in Instances, HubUnanswered(i) PROVE TypeOK'
  <2>1. work[i]["hub"].msg \in Msgs /\ Unanswered(i, work[i]["hub"].msg)
    BY <1>17 DEF HubUnanswered, Msgs, Loops
  <2>2. /\ givenUp' \in [Msgs -> 0 .. MaxSends] /\ late' \in [Instances -> [Msgs -> Nat]]
        /\ \A j \in Instances, n \in Msgs : late'[j][n] <= givenUp'[n]
    BY <2>1, UnansweredType
  <2>3. "hub" \in Loops /\ Idle \in Task /\ Idle.at = "wait"
    BY DEF Loops, Idle, Task
  <2>4. /\ work' \in [Instances -> [Loops -> Task]]
        /\ \A j \in Instances, h \in Loops :
             work'[j][h].at \in {"deliver", "publish"} => work'[j][h].msg \in Broadcasts
    <3>1. CASE work' = work
      BY <3>1
    <3>2. CASE work' = [work EXCEPT ![i]["hub"] = Idle]
      BY <2>3, <3>2, WorkType
    <3>3. QED
      BY <1>17, <3>1, <3>2 DEF HubUnanswered
  <2>5. QED
    BY <1>17, <2>2, <2>4 DEF HubUnanswered
<1>18. ASSUME NEW i \in Instances, NEW m \in Msgs, LatePublish(i, m) PROVE TypeOK'
  <2>1. inbox' \in [Instances -> Seq(Envelope)]
    BY <1>18, PublishType DEF LatePublish
  <2>2. /\ late' \in [Instances -> [Msgs -> Nat]]
        /\ \A j \in Instances, n \in Msgs : late'[j][n] <= late[j][n]
    BY <1>18 DEF LatePublish
  <2>3. \A j \in Instances, n \in Msgs : late'[j][n] <= givenUp'[n]
    <3> SUFFICES ASSUME NEW j \in Instances, NEW n \in Msgs PROVE late'[j][n] <= givenUp[n]
      BY <1>18 DEF LatePublish
    <3>1. late'[j][n] \in Nat /\ late[j][n] \in Nat /\ givenUp[n] \in 0 .. MaxSends /\ MaxSends \in Nat
      BY <2>2, ShapeAssumption
    <3>2. QED
      BY <2>2, <3>1
  <2>4. QED
    BY <1>18, <2>1, <2>2, <2>3 DEF LatePublish
<1>19. ASSUME NEW m \in Directs, DirectUnanswered(m) PROVE TypeOK'
  <2>1. /\ direct[m] \in Call /\ direct[m].on \in Instances /\ m \in Msgs
        /\ Unanswered(direct[m].on, m)
    BY <1>19 DEF DirectUnanswered, Msgs
  <2>2. /\ givenUp' \in [Msgs -> 0 .. MaxSends] /\ late' \in [Instances -> [Msgs -> Nat]]
        /\ \A j \in Instances, n \in Msgs : late'[j][n] <= givenUp'[n]
    BY <2>1, UnansweredType
  <2>3. /\ direct' \in [Directs -> Call]
        /\ \A n \in Directs : direct'[n].at # "idle" => direct'[n].on \in Instances
    BY <1>19, <2>1 DEF DirectUnanswered, Call
  <2>4. QED
    BY <1>19, <2>2, <2>3 DEF DirectUnanswered
<1> QED
  BY <1>1, <1>2, <1>3, <1>4, <1>5, <1>6, <1>7, <1>8, <1>9, <1>10, <1>11, <1>12, <1>13,
     <1>14, <1>15, <1>16, <1>17, <1>18, <1>19 DEF Next, Handler, Writer, Loop

-----------------------------------------------------------------------------
(* Every variable of the hub holds the values its declaration gives it, in *)
(* every reachable state and for all values of the constants.             *)
THEOREM TypeCorrect == Spec => []TypeOK
<1>1. Init => TypeOK
  BY TypeInit
<1>2. TypeOK /\ [Next]_vars => TypeOK'
  BY TypeStep
<1> QED
  BY <1>1, <1>2, PTL DEF Spec

-----------------------------------------------------------------------------
(* A send to a connection of the map does not panic. *)
LEMMA PushSafe ==
    ASSUME ClosedAreGone, NoPanic, NEW c, conn[c] \in {"open", "leaving"}, NEW m, Push(c, m)
    PROVE  NoPanic'
<1>1. c \notin closed
  BY DEF ClosedAreGone
<1> QED
  BY <1>1 DEF Push, NoPanic

LEMMA PushToClientSafe ==
    ASSUME TypeOK, SafeInv, NEW i \in Instances, NEW m \in Directs, PushToClient(i, m)
    PROVE  NoPanic'
<1>1. Target[m] \in ClientIds
  BY ShapeAssumption
<1>2. CASE clients[i][Target[m]] # NONE
  BY <1>1, <1>2, PushSafe DEF PushToClient, SafeInv, MapHoldsConnected
<1>3. CASE clients[i][Target[m]] = NONE
  BY <1>3 DEF PushToClient, SafeInv, NoPanic
<1> QED
  BY <1>2, <1>3

LEMMA SafeInit == Init => SafeInv
<1> SUFFICES ASSUME Init PROVE SafeInv
  OBVIOUS
<1>1. \A i \in Instances, g \in Loops : work[i][g].todo = {}
  BY DEF Init, Idle
<1>2. MapHoldsConnected /\ ClosedAreGone /\ NoPanic
  BY DEF Init, MapHoldsConnected, ClosedAreGone, NoPanic
<1> QED
  BY <1>1, <1>2 DEF SafeInv, TodoIsMapped

LEMMA SafeStep == TypeOK /\ SafeInv /\ [Next]_vars => SafeInv'
<1> SUFFICES ASSUME TypeOK, SafeInv, [Next]_vars PROVE SafeInv'
  OBVIOUS
<1> USE DEF SafeInv
<1>1. ASSUME NEW i \in Instances, NEW c \in Conns, Register(i, c) PROVE SafeInv'
  <2>1. IdOf[c] \in ClientIds /\ InstanceOf[c] = i /\ conn[c] = "new"
    BY <1>1, ShapeAssumption DEF Register
  <2>2. /\ clients' = [clients EXCEPT ![i][IdOf[c]] = c]
        /\ conn' = [conn EXCEPT ![c] = "open"]
        /\ UNCHANGED <<closed, work, panicked>>
    BY <1>1 DEF Register
  <2>3. \A j \in Instances, k \in ClientIds :
          clients'[j][k] = IF j = i /\ k = IdOf[c] THEN c ELSE clients[j][k]
    BY <2>1, <2>2 DEF TypeOK
  <2>4. MapHoldsConnected'
    BY <2>1, <2>2, <2>3 DEF MapHoldsConnected, TypeOK
  <2>5. ClosedAreGone'
    BY <2>1, <2>2 DEF ClosedAreGone, TypeOK
  <2>6. \A g \in Loops : work[i][g].todo = {}
    BY <1>1 DEF Register, LockFree, TodoIsMapped
  <2>7. TodoIsMapped'
    <3>1. \A j \in Instances : j # i => Mapped(j)' = Mapped(j)
      BY <2>3, ShapeAssumption DEF Mapped
    <3> QED
      BY <2>2, <2>6, <3>1 DEF TodoIsMapped
  <2> QED
    BY <2>2, <2>4, <2>5, <2>7 DEF NoPanic
<1>2. ASSUME NEW i \in Instances, NEW c \in Conns, Unregister(i, c) PROVE SafeInv'
  <2>1. IdOf[c] \in ClientIds /\ InstanceOf[c] = i /\ conn[c] = "leaving"
    BY <1>2, ShapeAssumption DEF Unregister
  <2>2. /\ clients' = [clients EXCEPT ![i][IdOf[c]] = NONE]
        /\ conn' = [conn EXCEPT ![c] = "gone"]
        /\ closed' \subseteq closed \cup {c}
        /\ UNCHANGED work
    BY <1>2 DEF Unregister
  <2>3. \A j \in Instances, k \in ClientIds :
          clients'[j][k] = IF j = i /\ k = IdOf[c] THEN NONE ELSE clients[j][k]
    BY <2>1, <2>2 DEF TypeOK
  <2>4. c \notin closed
    BY <2>1 DEF ClosedAreGone
  <2>5. NoPanic'
    BY <1>2, <2>4 DEF Unregister, NoPanic
  <2>6. ClosedAreGone'
    BY <2>2 DEF ClosedAreGone, TypeOK
  <2>7. MapHoldsConnected'
    <3> SUFFICES ASSUME NEW j \in Instances, NEW k \in ClientIds, clients'[j][k] # NONE
                 PROVE  /\ conn'[clients'[j][k]] \in {"open", "leaving"}
                        /\ InstanceOf[clients'[j][k]] = j
                        /\ IdOf[clients'[j][k]] = k
      BY DEF MapHoldsConnected
    <3>1. ~(j = i /\ k = IdOf[c]) /\ clients'[j][k] = clients[j][k]
      BY <2>3
    <3>2. clients[j][k] # c
      BY <2>1, <3>1 DEF MapHoldsConnected
    <3> QED
      BY <2>2, <3>1, <3>2 DEF MapHoldsConnected, TypeOK
  <2>8. \A g \in Loops : work[i][g].todo = {}
    BY <1>2 DEF Unregister, LockFree, TodoIsMapped
  <2>9. TodoIsMapped'
    <3>1. \A j \in Instances : j # i => Mapped(j)' = Mapped(j)
      BY <2>3, ShapeAssumption DEF Mapped
    <3> QED
      BY <2>2, <2>8, <3>1 DEF TodoIsMapped
  <2> QED
    BY <2>5, <2>6, <2>7, <2>9
<1>3. ASSUME NEW c \in Conns, ReaderExit(c) PROVE SafeInv'
  <2>1. /\ conn[c] = "open" /\ conn' = [conn EXCEPT ![c] = "leaving"]
        /\ UNCHANGED <<clients, closed, work, panicked>>
    BY <1>3 DEF ReaderExit
  <2> QED
    BY <2>1 DEF MapHoldsConnected, ClosedAreGone, TodoIsMapped, Mapped, NoPanic, TypeOK
<1>4. ASSUME NEW i \in Instances, NEW g \in Loops, NEW c \in Conns, SendOne(i, g, c) PROVE SafeInv'
  <2>1. c \in Mapped(i)
    BY <1>4 DEF SendOne, TodoIsMapped
  <2>2. conn[c] \in {"open", "leaving"}
    BY <2>1, ShapeAssumption DEF MapHoldsConnected, Mapped
  <2>3. NoPanic'
    BY <1>4, <2>2, PushSafe DEF SendOne
  <2>4. /\ UNCHANGED <<clients, conn, closed>>
        /\ work[i][g].at = "deliver"
        /\ work' = [work EXCEPT ![i][g] = [work[i][g] EXCEPT !.todo = @ \ {c}]]
    BY <1>4 DEF SendOne
  <2>5. \A j \in Instances, h \in Loops :
          /\ work'[j][h].todo \subseteq work[j][h].todo
          /\ work'[j][h].at = work[j][h].at
    <3> SUFFICES ASSUME NEW j \in Instances, NEW h \in Loops
                 PROVE  /\ work'[j][h].todo \subseteq work[j][h].todo
                        /\ work'[j][h].at = work[j][h].at
      OBVIOUS
    <3>1. work[j][h] \in Task
      BY DEF TypeOK
    <3>2. CASE j = i /\ h = g
      BY <2>4, <3>1, <3>2 DEF TypeOK, Task
    <3>3. CASE ~(j = i /\ h = g)
      BY <2>4, <3>3 DEF TypeOK
    <3> QED
      BY <3>2, <3>3
  <2>6. TodoIsMapped'
    BY <2>4, <2>5 DEF TodoIsMapped, Mapped
  <2> QED
    BY <2>3, <2>4, <2>6 DEF MapHoldsConnected, ClosedAreGone
<1>5. ASSUME NEW i \in Instances, NEW g \in Loops, NEW t \in Task,
             t.todo \subseteq Mapped(i), t.todo # {} => t.at = "deliver",
             work' = [work EXCEPT ![i][g] = t],
             UNCHANGED <<clients, conn, closed, panicked>>
      PROVE  SafeInv'
  <2>1. \A j \in Instances, h \in Loops :
          work'[j][h] = IF j = i /\ h = g THEN t ELSE work[j][h]
    BY <1>5 DEF TypeOK
  <2>2. TodoIsMapped'
    BY <1>5, <2>1 DEF TodoIsMapped, Mapped
  <2> QED
    BY <1>5, <2>2 DEF MapHoldsConnected, ClosedAreGone, NoPanic
<1>6. Idle \in Task /\ Idle.todo = {} /\ "hub" \in Loops /\ "sub" \in Loops
  BY DEF Idle, Task, Loops
<1>7. ASSUME NEW i \in Instances, NEW m \in Broadcasts
      PROVE  LET t == [at |-> "deliver", msg |-> m, todo |-> Recipients(i, m)]
             IN  t \in Task /\ t.todo \subseteq Mapped(i) /\ t.at = "deliver"
  BY DEF Recipients, Mapped, Task, Msgs
<1>8. ASSUME NEW i \in Instances, NEW m \in Broadcasts, HubBroadcast(i, m) PROVE SafeInv'
  <2> DEFINE t == [at |-> "deliver", msg |-> m, todo |-> Recipients(i, m)]
  <2>1. t \in Task /\ t.todo \subseteq Mapped(i) /\ t.at = "deliver"
    BY <1>7
  <2>2. /\ work' = [work EXCEPT ![i]["hub"] = t]
        /\ UNCHANGED <<clients, conn, closed, panicked>>
    BY <1>8 DEF HubBroadcast
  <2> HIDE DEF t
  <2> QED
    BY <1>5, <1>6, <2>1, <2>2
<1>9. ASSUME NEW i \in Instances, NEW g \in Loops, DeliverEnd(i, g) PROVE SafeInv'
  <2> DEFINE t == IF g = "hub" /\ PubSubOn THEN [work[i][g] EXCEPT !.at = "publish"] ELSE Idle
  <2>1. work[i][g] \in Task /\ work[i][g].todo = {}
    BY <1>9 DEF DeliverEnd, TypeOK
  <2>2. t \in Task /\ t.todo = {}
    BY <1>6, <2>1 DEF Task
  <2>3. /\ work' = [work EXCEPT ![i][g] = t]
        /\ UNCHANGED <<clients, conn, closed, panicked>>
    BY <1>9 DEF DeliverEnd
  <2> HIDE DEF t
  <2> QED
    BY <1>5, <2>2, <2>3
<1>10. ASSUME NEW i \in Instances, NEW g \in Loops, LoopStop(i, g) PROVE SafeInv'
  <2> DEFINE t == [work[i][g] EXCEPT !.at = "stopped"]
  <2>1. work[i][g] \in Task
    BY DEF TypeOK
  <2>2. work[i][g].todo = {}
    BY <1>10 DEF LoopStop, TodoIsMapped
  <2>3. t \in Task /\ t.todo = {}
    BY <2>1, <2>2 DEF Task
  <2>4. /\ work' = [work EXCEPT ![i][g] = t]
        /\ UNCHANGED <<clients, conn, closed, panicked>>
    BY <1>10 DEF LoopStop
  <2> HIDE DEF t
  <2> QED
    BY <1>5, <2>3, <2>4
<1>11. ASSUME NEW i \in Instances, HubPublish(i) PROVE SafeInv'
  BY <1>5, <1>6, <1>11 DEF HubPublish
<1>12. ASSUME NEW i \in Instances, SubReceive(i) PROVE SafeInv'
  <2>1. UNCHANGED <<clients, conn, closed>>
    BY <1>12 DEF SubReceive
  <2>2. CASE UNCHANGED <<work, panicked>>
    BY <2>1, <2>2 DEF MapHoldsConnected, ClosedAreGone, TodoIsMapped, Mapped, NoPanic
  <2>3. ASSUME NEW m \in Broadcasts, UNCHANGED panicked,
               work' = [work EXCEPT ![i]["sub"] =
                   [at |-> "deliver", msg |-> m, todo |-> Recipients(i, m)]]
        PROVE  SafeInv'
    <3> DEFINE t == [at |-> "deliver", msg |-> m, todo |-> Recipients(i, m)]
    <3>1. t \in Task /\ t.todo \subseteq Mapped(i) /\ t.at = "deliver"
      BY <1>7
    <3>2. work' = [work EXCEPT ![i]["sub"] = t]
      BY <2>3
    <3> HIDE DEF t
    <3> QED
      BY <1>5, <1>6, <2>1, <2>3, <3>1, <3>2
  <2>4. ASSUME NEW m \in Directs, PushToClient(i, m), UNCHANGED work
        PROVE  SafeInv'
    BY <2>1, <2>4, PushToClientSafe DEF MapHoldsConnected, ClosedAreGone, TodoIsMapped, Mapped
  <2> QED
    BY <1>12, <2>2, <2>3, <2>4 DEF SubReceive
<1>13. ASSUME NEW m \in Directs, DirectSend(m) PROVE SafeInv'
  <2>1. direct[m].on \in Instances /\ PushToClient(direct[m].on, m)
        /\ UNCHANGED <<clients, conn, closed, work>>
    BY <1>13 DEF DirectSend, TypeOK
  <2> QED
    BY <2>1, PushToClientSafe DEF MapHoldsConnected, ClosedAreGone, TodoIsMapped, Mapped
<1>14. CASE UNCHANGED <<clients, conn, closed, work, panicked>>
  BY <1>14 DEF MapHoldsConnected, ClosedAreGone, TodoIsMapped, Mapped, NoPanic
<1>15. ASSUME NEW i \in Instances, HubUnanswered(i) PROVE SafeInv'
  <2>1. /\ UNCHANGED <<clients, conn, closed, panicked>>
        /\ work' = work \/ work' = [work EXCEPT ![i]["hub"] = Idle]
    BY <1>15 DEF HubUnanswered
  <2>2. QED
    BY <1>5, <1>6, <1>14, <2>1
<1> QED
  BY <1>1, <1>2, <1>3, <1>4, <1>8, <1>9, <1>10, <1>11, <1>12, <1>13, <1>14, <1>15
     DEF Next, Handler, Writer, Loop, Disconnect, WriterTake, WriterStop,
         DirectCall, DirectPublish, DirectUnanswered, LatePublish, Shutdown, vars

(* No goroutine of any instance ever sends on a closed Send or closes one *)
(* twice: the closes of the event loop and the sends of the subscription  *)
(* goroutine and of BroadcastToClient's callers cannot collide.           *)
THEOREM HubNeverPanics == Spec => []NoPanic
<1>1. Init => TypeOK /\ SafeInv
  BY TypeInit, SafeInit
<1>2. TypeOK /\ SafeInv /\ [Next]_vars => (TypeOK /\ SafeInv)'
  BY TypeStep, SafeStep
<1>3. SafeInv => NoPanic
  BY DEF SafeInv
<1> QED
  BY <1>1, <1>2, <1>3, PTL DEF Spec

-----------------------------------------------------------------------------
(* Best-effort delivery.  A message goes from the log of its source through *)
(* the hands of the instance that accepted it, the inboxes of the others  *)
(* and the hands of their subscriptions to the connections.  OrderInv says *)
(* that these stages hold the messages of one source in the order of its  *)
(* log: whatever is still on its way to a connection, nothing at or after *)
(* it in the log has reached the connection or is in a later stage.  A     *)
(* message one of whose attempts to be published was given up is exempt;  *)
(* it was accepted, and the delivery at home is then over.                *)

Got(c, m) == \E n \in DOMAIN sent[c] : sent[c][n] = m
InLog(s, m) == \E a \in DOMAIN accepted[s] : accepted[s][a] = m
(* m is not in doubt, and n is m or was accepted after m by its source. *)
Later(m, n) ==
    /\ m \notin Doubtful
    /\ \E s \in Sources : \E a, b \in DOMAIN accepted[s] :
          a <= b /\ accepted[s][a] = m /\ accepted[s][b] = n
(* m was handed to instance i by a caller. *)
From(i, m) == \/ m \in Broadcasts /\ InLog(i, m)
              \/ m \in Directs /\ InLog(m, m) /\ direct[m].on = i
(* Instance i has m and has not published it. *)
InHand(i, m) ==
    \/ m \in Broadcasts /\ work[i]["hub"].at \in {"deliver", "publish"} /\ work[i]["hub"].msg = m
    \/ m \in Directs /\ direct[m].at # "idle" /\ direct[m].on = i
SubHas(i, m) == work[i]["sub"].at = "deliver" /\ work[i]["sub"].msg = m

LogsOK ==
    /\ \A s, r \in Sources : \A a \in DOMAIN accepted[s], b \in DOMAIN accepted[r] :
          accepted[s][a] = accepted[r][b] => s = r /\ a = b
    /\ \A i \in Instances : \A a \in DOMAIN accepted[i] : accepted[i][a] \in Broadcasts
    /\ \A d \in Directs : \A a \in DOMAIN accepted[d] : accepted[d][a] = d
GotOK == \A c \in Conns, m \in Msgs : Got(c, m) => \E i \in Instances : From(i, m)
(* No other instance has m, nor does any connection but those of i. *)
Unpublished(i, m) ==
    /\ \A j \in Instances : ~SubHas(j, m) /\ \A k \in DOMAIN inbox[j] : inbox[j][k].msg # m
    /\ \A c \in Conns : Got(c, m) => InstanceOf[c] = i
HandOK == \A i \in Instances, m \in Msgs : InHand(i, m) =>
    /\ From(i, m) /\ (\A n \in Msgs : Later(m, n) => n = m)
    /\ m \notin Doubtful => Unpublished(i, m)
DueOK ==
    /\ \A i \in Instances : \A c \in work[i]["hub"].todo : ~Got(c, work[i]["hub"].msg)
    /\ \A m \in Directs : direct[m].at = "deliver" => \A c \in Conns : ~Got(c, m)
InboxOK == \A i \in Instances : \A k \in DOMAIN inbox[i] :
    /\ From(inbox[i][k].origin, inbox[i][k].msg)
    /\ \A l \in DOMAIN inbox[i] : k < l => ~Later(inbox[i][l].msg, inbox[i][k].msg)
    /\ \A m \in Msgs : SubHas(i, m) => ~Later(inbox[i][k].msg, m)
    /\ inbox[i][k].origin # i =>
          \A c \in Conns, n \in Msgs : (InstanceOf[c] = i /\ Later(inbox[i][k].msg, n)) => ~Got(c, n)
SubOK == \A i \in Instances, m \in Msgs : SubHas(i, m) =>
    /\ \E j \in Instances : j # i /\ From(j, m)
    /\ \A c \in work[i]["sub"].todo, n \in Msgs : Later(m, n) => ~Got(c, n)
AimOK == \A i \in Instances, g \in Loops : \A c \in work[i][g].todo : MeantFor(work[i][g].msg, c)
OrderInv == LogsOK /\ GotOK /\ HandOK /\ DueOK /\ InboxOK /\ SubOK /\ AimOK

DoubtOK ==
    /\ \A m \in Doubtful : \E i \in Instances : From(i, m)
    /\ \A i \in Instances, m \in Msgs : late[i][m] > 0 => m \in Doubtful /\ From(i, m)
    /\ \A i \in Instances : work[i]["hub"].at = "deliver" => work[i]["hub"].msg \notin Doubtful
    /\ \A m \in Directs : direct[m].at = "deliver" => m \notin Doubtful

(* Two messages in the order of one log came from one instance, and every *)
(* message came from one.                                                 *)
LEMMA OneSource ==
    ASSUME TypeOK, LogsOK
    PROVE  /\ \A m, n \in Msgs, i \in Instances : Later(m, n) /\ From(i, m) => From(i, n)
           /\ \A m \in Msgs, i, j \in Instances : From(i, m) /\ From(j, m) => i = j
           /\ \A m \in Msgs, i \in Instances : From(i, m) => \E s \in Sources : InLog(s, m)
<1>1. Broadcasts \cap Directs = {} /\ Instances \cap Directs = {} /\ Sources = Instances \cup Directs
  BY ShapeAssumption DEF Sources
<1>2. ASSUME NEW m \in Msgs, NEW n \in Msgs, NEW i \in Instances, Later(m, n), From(i, m)
      PROVE  From(i, n)
  <2>1. PICK s \in Sources : \E a, b \in DOMAIN accepted[s] : accepted[s][a] = m /\ accepted[s][b] = n
    BY <1>2 DEF Later
  <2>2. CASE s \in Directs
    BY <1>2, <2>1, <2>2 DEF LogsOK
  <2>3. CASE s \in Instances
    <3>1. m \in Broadcasts /\ n \in Broadcasts
      BY <2>1, <2>3 DEF LogsOK
    <3>2. InLog(i, m) /\ i = s
      BY <1>1, <1>2, <2>1, <2>3, <3>1 DEF From, InLog, LogsOK
    <3>3. QED
      BY <2>1, <3>1, <3>2 DEF From, InLog
  <2>4. QED
    BY <1>1, <2>2, <2>3
<1>3. ASSUME NEW m \in Msgs, NEW i \in Instances, NEW j \in Instances, From(i, m), From(j, m)
      PROVE  i = j
  BY <1>1, <1>3 DEF From, InLog, LogsOK
<1>4. ASSUME NEW m \in Msgs, NEW i \in Instances, From(i, m)
      PROVE  \E s \in Sources : InLog(s, m)
  BY <1>1, <1>4 DEF From
<1>5. QED
  BY <1>2, <1>3, <1>4

(* A send that keeps the order is a delivery of the abstract specification. *)
LEMMA DeliverStep ==
    ASSUME TypeOK, NEW c \in Conns, NEW m \in Msgs, Push(c, m), UNCHANGED <<accepted, givenUp>>,
           NEW s \in Sources, InLog(s, m), MeantFor(m, c),
           \A n \in Msgs : Later(m, n) => ~Got(c, n)
    PROVE  [BestEffort!Next]_<<accepted, sent, Doubtful>>
<1>D. Doubtful' = Doubtful
  BY DEF Doubtful
<1>1. CASE UNCHANGED sent
  BY <1>D, <1>1
<1>2. CASE sent' = [sent EXCEPT ![c] = Append(@, m)]
  <2>1. PICK k \in DOMAIN accepted[s] : accepted[s][k] = m
    BY DEF InLog
  <2>2. accepted[s] \in Seq(Msgs) /\ k \in Nat
    BY DEF TypeOK
  <2>3. m \notin Doubtful => \A j \in k .. Len(accepted[s]) : ~BestEffort!Got(c, accepted[s][j])
    <3> SUFFICES ASSUME m \notin Doubtful
                 PROVE  \A j \in k .. Len(accepted[s]) : ~BestEffort!Got(c, accepted[s][j])
      OBVIOUS
    <3> SUFFICES ASSUME NEW j \in k .. Len(accepted[s]) PROVE ~BestEffort!Got(c, accepted[s][j])
      OBVIOUS
    <3>1. j \in DOMAIN accepted[s] /\ accepted[s][j] \in Msgs /\ k <= j
      BY <2>2
    <3>2. Later(m, accepted[s][j])
      BY <2>1, <3>1 DEF Later
    <3>3. QED
      BY <3>1, <3>2 DEF Got, BestEffort!Got
  <2>4. BestEffort!Deliver(c, s, k)
    BY <1>D, <1>2, <2>1, <2>3 DEF BestEffort!Deliver
  <2>5. QED
    BY <2>4 DEF BestEffort!Next
<1>3. QED
  BY <1>1, <1>2 DEF Push

(* An accepted message comes last in its log. *)
LEMMA AcceptLogs ==
    ASSUME TypeOK, LogsOK, NEW s \in Sources, NEW m \in Msgs, ~Accepted(m),
           (s \in Instances /\ m \in Broadcasts) \/ (s \in Directs /\ m = s),
           accepted' = [accepted EXCEPT ![s] = Append(@, m)], UNCHANGED givenUp
    PROVE  /\ LogsOK'
           /\ \A r \in Sources, n \in Msgs : (InLog(r, n))' <=> InLog(r, n) \/ (r = s /\ n = m)
           /\ \A x, y \in Msgs : (Later(x, y))' =>
                 Later(x, y) \/ (y = m /\ (x = m \/ InLog(s, x)))
           /\ \A y \in Msgs : (Later(m, y))' => y = m
<1>T. /\ accepted \in [Sources -> Seq(Msgs)] /\ Sources = Instances \cup Directs
      /\ Instances \cap Directs = {}
  BY ShapeAssumption DEF TypeOK, Sources
<1>1. PICK z \in Nat : z = Len(accepted[s]) /\ DOMAIN accepted[s] = 1 .. z
  BY <1>T
<1>2. /\ DOMAIN accepted'[s] = 1 .. (z + 1) /\ accepted'[s][z + 1] = m
      /\ \A a \in 1 .. z : accepted'[s][a] = accepted[s][a]
  BY <1>1, <1>T, AppendProperties
<1>3. \A r \in Sources : r # s => accepted'[r] = accepted[r]
  BY <1>T
<1>4. \A r \in Sources : \A a \in DOMAIN accepted[r] : accepted[r][a] # m /\ accepted[r][a] \in Msgs
  BY <1>T DEF Accepted
<1>5. \A r \in Sources : \A a \in DOMAIN accepted'[r] :
        \/ a \in DOMAIN accepted[r] /\ accepted'[r][a] = accepted[r][a]
        \/ r = s /\ a = z + 1 /\ accepted'[r][a] = m
  BY <1>1, <1>2, <1>3
<1>6. LogsOK'
  <2>1. ASSUME NEW r \in Sources, NEW q \in Sources, NEW a \in DOMAIN accepted'[r],
               NEW b \in DOMAIN accepted'[q], accepted'[r][a] = accepted'[q][b]
        PROVE  r = q /\ a = b
    BY <1>4, <1>5, <2>1 DEF LogsOK
  <2>2. ASSUME NEW i \in Instances, NEW a \in DOMAIN accepted'[i]
        PROVE  accepted'[i][a] \in Broadcasts
    BY <1>T, <1>5, <2>2 DEF LogsOK
  <2>3. ASSUME NEW d \in Directs, NEW a \in DOMAIN accepted'[d]
        PROVE  accepted'[d][a] = d
    BY <1>T, <1>5, <2>3 DEF LogsOK
  <2>4. QED
    BY <2>1, <2>2, <2>3 DEF LogsOK
<1>7. ASSUME NEW r \in Sources, NEW n \in Msgs
      PROVE  (InLog(r, n))' <=> InLog(r, n) \/ (r = s /\ n = m)
  <2>1. CASE r = s
    BY <1>1, <1>2, <2>1 DEF InLog
  <2>2. CASE r # s
    BY <1>3, <2>2 DEF InLog
  <2>3. QED
    BY <2>1, <2>2
<1>8. ASSUME NEW x \in Msgs, NEW y \in Msgs, (Later(x, y))'
      PROVE  /\ Later(x, y) \/ (y = m /\ (x = m \/ InLog(s, x)))
             /\ x = m => y = m
  <2>1. PICK r \in Sources : \E a, b \in DOMAIN accepted'[r] :
          a <= b /\ accepted'[r][a] = x /\ accepted'[r][b] = y
    BY <1>8 DEF Later, Doubtful
  <2>2. PICK a \in DOMAIN accepted'[r], b \in DOMAIN accepted'[r] :
          a <= b /\ accepted'[r][a] = x /\ accepted'[r][b] = y
    BY <2>1
  <2>3. CASE b \in DOMAIN accepted[r] /\ accepted'[r][b] = accepted[r][b]
    <3>1. a \in DOMAIN accepted[r] /\ accepted'[r][a] = accepted[r][a]
      <4>1. CASE r = s
        BY <1>1, <1>2, <2>2, <2>3, <4>1
      <4>2. CASE r # s
        BY <1>3, <4>2
      <4>3. QED
        BY <4>1, <4>2
    <3>2. QED
      BY <1>4, <1>8, <2>2, <2>3, <3>1 DEF Later, Doubtful
  <2>4. CASE r = s /\ accepted'[r][b] = m
    <3>1. (InLog(s, x))'
      BY <2>2, <2>4 DEF InLog
    <3>2. QED
      BY <1>7, <2>2, <2>4, <3>1
  <2>5. QED
    BY <1>5, <2>3, <2>4
<1>9. QED
  BY <1>6, <1>7, <1>8

(* A connection still to be served is one of the instance's. *)
LEMMA TodoFacts ==
    ASSUME TypeOK, SafeInv, NEW i \in Instances, NEW g \in Loops, NEW c \in work[i][g].todo
    PROVE  /\ c \in Conns /\ InstanceOf[c] = i /\ work[i][g].at = "deliver"
           /\ work[i][g].msg \in Broadcasts /\ work[i][g].msg \in Msgs
<1>1. work[i][g] \in Task /\ c \in Mapped(i) /\ work[i][g].at = "deliver"
  BY DEF TypeOK, SafeInv, TodoIsMapped
<1>2. c \in Conns /\ InstanceOf[c] = i
  BY <1>1, ShapeAssumption DEF Mapped, SafeInv, MapHoldsConnected
<1>3. QED
  BY <1>1, <1>2 DEF TypeOK, Msgs

(* Moving a message on: what is in hand, in an inbox or due can only get   *)
(* less, and connection c0, if any, is given m0.                          *)
LEMMA Progress ==
    ASSUME TypeOK, SafeInv, OrderInv, UNCHANGED accepted, NEW c0, NEW m0,
           \A m \in Doubtful : (m \in Doubtful)',
           \A m \in Directs : /\ direct'[m].on = direct[m].on
                              /\ direct'[m].at = "deliver" => direct[m].at = "deliver",
           \A i \in Instances, m \in Msgs : (InHand(i, m))' => InHand(i, m),
           \A i \in Instances, m \in Msgs : (SubHas(i, m))' =>
              SubHas(i, m) /\ work'[i]["sub"].todo \subseteq work[i]["sub"].todo,
           \A i \in Instances : \A c \in work'[i]["hub"].todo :
              c \in work[i]["hub"].todo /\ work'[i]["hub"].msg = work[i]["hub"].msg,
           \A i \in Instances :
              \/ inbox'[i] = inbox[i]
              \/ \A k \in DOMAIN inbox'[i] :
                    /\ k \in Nat /\ k + 1 \in DOMAIN inbox[i]
                    /\ inbox'[i][k] = inbox[i][k + 1],
           \A c \in Conns, m \in Msgs : (Got(c, m))' => Got(c, m) \/ (c = c0 /\ m = m0),
           c0 \in Conns =>
              /\ m0 \in Msgs /\ \E i \in Instances : From(i, m0)
              /\ \A i \in Instances : (m0 \notin Doubtful /\ (InHand(i, m0))') => InstanceOf[c0] = i
              /\ \A i \in Instances : c0 \in work'[i]["hub"].todo => work'[i]["hub"].msg # m0
              /\ m0 \in Directs => direct'[m0].at # "deliver"
              /\ \A i \in Instances : i = InstanceOf[c0] =>
                   /\ \A k \in DOMAIN inbox'[i] :
                         inbox'[i][k].origin # i => ~Later(inbox'[i][k].msg, m0)
              /\ \A i \in Instances, m \in Msgs :
                   ((SubHas(i, m))' /\ c0 \in work'[i]["sub"].todo) => ~Later(m, m0)
    PROVE  LogsOK' /\ GotOK' /\ HandOK' /\ DueOK' /\ InboxOK' /\ SubOK'
<1>T. inbox \in [Instances -> Seq(Envelope)] /\ \A i \in Instances : \A k \in DOMAIN inbox[i] : k \in Nat
  BY DEF TypeOK
<1>L. \A x, y : (Later(x, y))' => Later(x, y)
  BY DEF Later
<1>F. \A i \in Instances, m \in Msgs : (From(i, m))' <=> From(i, m)
  BY DEF From, InLog
<1>I. \A i \in Instances : \A k \in DOMAIN inbox'[i] : \E h \in DOMAIN inbox[i] :
        inbox'[i][k] = inbox[i][h]
  OBVIOUS
<1>J. ASSUME NEW i \in Instances, NEW k \in DOMAIN inbox'[i]
      PROVE  \E h \in DOMAIN inbox[i] :
               /\ inbox'[i][k] = inbox[i][h]
               /\ \A l \in DOMAIN inbox'[i] : k < l => \E g \in DOMAIN inbox[i] :
                    h < g /\ inbox'[i][l] = inbox[i][g]
  <2>1. CASE inbox'[i] = inbox[i]
    BY <2>1
  <2>2. CASE \A l \in DOMAIN inbox'[i] :
               /\ l \in Nat /\ l + 1 \in DOMAIN inbox[i]
               /\ inbox'[i][l] = inbox[i][l + 1]
    <3>1. k \in Nat /\ k + 1 \in DOMAIN inbox[i] /\ inbox'[i][k] = inbox[i][k + 1]
      BY <2>2
    <3>2. ASSUME NEW l \in DOMAIN inbox'[i], k < l
          PROVE  l + 1 \in DOMAIN inbox[i] /\ k + 1 < l + 1 /\ inbox'[i][l] = inbox[i][l + 1]
      BY <2>2, <3>1, <3>2
    <3>3. QED
      BY <3>1, <3>2
  <2>3. QED
    BY <2>1, <2>2
<1>1. LogsOK'
  BY DEF OrderInv, LogsOK
<1>2. GotOK'
  BY <1>F DEF OrderInv, GotOK
<1>3. HandOK'
  <2> SUFFICES ASSUME NEW i \in Instances, NEW m \in Msgs, (InHand(i, m))'
               PROVE  /\ (From(i, m))' /\ (\A n \in Msgs : (Later(m, n))' => n = m)
                      /\ m \notin Doubtful => (Unpublished(i, m))'
    BY DEF HandOK
  <2>1. /\ From(i, m) /\ (\A n \in Msgs : Later(m, n) => n = m)
        /\ m \notin Doubtful => Unpublished(i, m)
    BY DEF OrderInv, HandOK
  <2>2. ASSUME m \notin Doubtful
        PROVE  (Unpublished(i, m))'
    <3>1. \A j \in Instances : \A k \in DOMAIN inbox'[j] : inbox'[j][k].msg # m
      BY <1>I, <2>1, <2>2 DEF Unpublished
    <3>2. \A c \in Conns : (Got(c, m))' => InstanceOf[c] = i
      BY <2>1, <2>2 DEF Unpublished
    <3>3. \A j \in Instances : ~(SubHas(j, m))'
      BY <2>1, <2>2 DEF Unpublished
    <3>4. QED
      BY <3>1, <3>2, <3>3 DEF Unpublished
  <2>3. QED
    BY <1>L, <1>F, <2>1, <2>2
<1>4. DueOK'
  <2>1. ASSUME NEW i \in Instances, NEW c \in work'[i]["hub"].todo
        PROVE  ~(Got(c, work[i]["hub"].msg))' /\ work'[i]["hub"].msg = work[i]["hub"].msg
    <3>1. /\ c \in work[i]["hub"].todo /\ work'[i]["hub"].msg = work[i]["hub"].msg
          /\ "hub" \in Loops
      BY DEF Loops
    <3>2. PICK m \in Msgs : m = work[i]["hub"].msg /\ c \in Conns /\ ~Got(c, m)
      BY <3>1, TodoFacts DEF OrderInv, DueOK
    <3>3. ~(Got(c, m))'
      BY <3>1, <3>2
    <3>4. QED
      BY <3>1, <3>2, <3>3 DEF Got
  <2>2. ASSUME NEW m \in Directs, direct'[m].at = "deliver", NEW c \in Conns
        PROVE  ~(Got(c, m))'
    BY <2>2 DEF OrderInv, DueOK, Msgs
  <2>3. QED
    BY <2>1, <2>2 DEF DueOK, Got
<1>5. InboxOK'
  <2> SUFFICES ASSUME NEW i \in Instances, NEW k \in DOMAIN inbox'[i]
               PROVE  /\ (From(inbox[i][k].origin, inbox[i][k].msg))'
                      /\ \A l \in DOMAIN inbox'[i] : k < l => ~Later(inbox'[i][l].msg, inbox'[i][k].msg)
                      /\ \A m \in Msgs : (SubHas(i, m))' => ~Later(inbox'[i][k].msg, m)
                      /\ inbox'[i][k].origin # i =>
                            \A c \in Conns, n \in Msgs :
                              (InstanceOf[c] = i /\ Later(inbox'[i][k].msg, n)) => ~(Got(c, n))'
    BY <1>L DEF InboxOK
  <2>1. PICK h \in DOMAIN inbox[i] :
          /\ inbox'[i][k] = inbox[i][h]
          /\ \A l \in DOMAIN inbox'[i] : k < l => \E g \in DOMAIN inbox[i] :
               h < g /\ inbox'[i][l] = inbox[i][g]
    BY <1>J
  <2>2. PICK e \in Envelope : e = inbox[i][h]
    BY <1>T
  <2>3. /\ From(e.origin, e.msg) /\ e.origin \in Instances /\ e.msg \in Msgs
        /\ \A g \in DOMAIN inbox[i] : h < g => ~Later(inbox[i][g].msg, e.msg)
        /\ \A m \in Msgs : SubHas(i, m) => ~Later(e.msg, m)
        /\ e.origin # i =>
              \A c \in Conns, n \in Msgs : (InstanceOf[c] = i /\ Later(e.msg, n)) => ~Got(c, n)
    BY <2>2 DEF OrderInv, InboxOK, Envelope
  <2>4. (From(inbox[i][k].origin, inbox[i][k].msg))'
    BY <1>F, <2>1, <2>2, <2>3
  <2>5. \A l \in DOMAIN inbox'[i] : k < l => ~Later(inbox'[i][l].msg, inbox'[i][k].msg)
    BY <2>1, <2>2, <2>3
  <2>6. \A m \in Msgs : (SubHas(i, m))' => ~Later(inbox'[i][k].msg, m)
    BY <2>1, <2>2, <2>3
  <2>7. ASSUME e.origin # i, NEW c \in Conns, NEW n \in Msgs, InstanceOf[c] = i, Later(e.msg, n)
        PROVE  ~(Got(c, n))'
    <3>1. ~Got(c, n)
      BY <2>3, <2>7
    <3>2. ~(c = c0 /\ n = m0)
      BY <2>1, <2>2, <2>7
    <3>3. QED
      BY <3>1, <3>2
  <2>8. QED
    BY <2>1, <2>2, <2>4, <2>5, <2>6, <2>7
<1>6. SubOK'
  <2> SUFFICES ASSUME NEW i \in Instances, NEW m \in Msgs, (SubHas(i, m))'
               PROVE  /\ \E j \in Instances : j # i /\ (From(j, m))'
                      /\ \A c \in work'[i]["sub"].todo, n \in Msgs : (Later(m, n))' => ~(Got(c, n))'
    BY DEF SubOK
  <2>1. /\ SubHas(i, m) /\ work'[i]["sub"].todo \subseteq work[i]["sub"].todo /\ "sub" \in Loops
        /\ \E j \in Instances : j # i /\ From(j, m)
        /\ \A c \in work[i]["sub"].todo, n \in Msgs : Later(m, n) => ~Got(c, n)
    BY DEF OrderInv, SubOK, Loops
  <2>2. ASSUME NEW c \in work'[i]["sub"].todo, NEW n \in Msgs, Later(m, n)
        PROVE  ~(Got(c, n))'
    <3>1. c \in work[i]["sub"].todo
      BY <2>1
    <3>2. c \in Conns
      BY <2>1, <3>1, TodoFacts
    <3>3. ~Got(c, n) /\ ~(c = c0 /\ n = m0)
      BY <2>1, <2>2, <3>1, <3>2
    <3>4. QED
      BY <3>2, <3>3
  <2>3. QED
    BY <1>F, <1>L, <2>1, <2>2
<1>7. QED
  BY <1>1, <1>2, <1>3, <1>4, <1>5, <1>6

(* Instance i accepts m, and has it in hand. *)
LEMMA OrderAccept ==
    ASSUME TypeOK, TypeOK', SafeInv, OrderInv, DoubtOK, NEW i \in Instances, NEW m \in Msgs, ~Accepted(m),
           UNCHANGED <<sent, inbox, givenUp>>,
           \A j \in Instances : work'[j]["sub"] = work[j]["sub"],
           \/ /\ m \in Broadcasts /\ UNCHANGED direct
              /\ accepted' = [accepted EXCEPT ![i] = Append(@, m)]
              /\ work'[i]["hub"].msg = m
              /\ \A j \in Instances : j # i => work'[j] = work[j]
           \/ /\ m \in Directs /\ UNCHANGED work
              /\ accepted' = [accepted EXCEPT ![m] = Append(@, m)]
              /\ direct' = [direct EXCEPT ![m] = [at |-> "deliver", on |-> i]]
    PROVE  LogsOK' /\ GotOK' /\ HandOK' /\ DueOK' /\ InboxOK' /\ SubOK'
<1>T. /\ Broadcasts \cap Directs = {} /\ Instances \cap Directs = {}
      /\ Sources = Instances \cup Directs /\ Msgs = Broadcasts \cup Directs
      /\ inbox \in [Instances -> Seq(Envelope)] /\ direct \in [Directs -> Call]
  BY ShapeAssumption DEF Sources, Msgs, TypeOK
<1>1. PICK s \in Sources : /\ (s = i /\ m \in Broadcasts) \/ (s = m /\ m \in Directs)
                           /\ accepted' = [accepted EXCEPT ![s] = Append(@, m)]
  BY <1>T
<1>2. /\ LogsOK'
      /\ \A r \in Sources, n \in Msgs : (InLog(r, n))' <=> InLog(r, n) \/ (r = s /\ n = m)
      /\ \A x, y \in Msgs : (Later(x, y))' =>
            Later(x, y) \/ (y = m /\ (x = m \/ InLog(s, x)))
      /\ \A y \in Msgs : (Later(m, y))' => y = m
  <2>1. (s \in Instances /\ m \in Broadcasts) \/ (s \in Directs /\ m = s)
    BY <1>1
  <2>2. QED
    BY <1>1, <2>1, AcceptLogs DEF OrderInv
<1>3. \A j \in Instances, n \in Msgs : From(j, n) => n # m
  <2>1. \A r \in Sources : ~InLog(r, m)
    BY DEF Accepted, InLog
  <2>2. QED
    BY <2>1, <1>T DEF From
<1>4. \A j \in Instances, n \in Msgs : (From(j, n))' <=> From(j, n) \/ (j = i /\ n = m)
  <2> SUFFICES ASSUME NEW j \in Instances, NEW n \in Msgs
               PROVE  (From(j, n))' <=> From(j, n) \/ (j = i /\ n = m)
    OBVIOUS
  <2>1. CASE m \in Broadcasts
    <3>1. s = i /\ UNCHANGED direct
      BY <1>1, <1>T, <2>1
    <3>2. QED
      BY <1>2, <1>T, <2>1, <3>1 DEF From
  <2>2. CASE m \in Directs
    <3>1. /\ s = m /\ \A d \in Directs : d # m => direct'[d] = direct[d]
          /\ direct'[m].on = i
      BY <1>1, <1>T, <2>2
    <3>2. QED
      BY <1>2, <1>3, <1>T, <2>2, <3>1 DEF From
  <2>3. QED
    BY <1>T, <2>1, <2>2
<1>5. \A j \in Instances, n \in Msgs : (InHand(j, n))' => InHand(j, n) \/ (j = i /\ n = m)
  <2> SUFFICES ASSUME NEW j \in Instances, NEW n \in Msgs, (InHand(j, n))'
               PROVE  InHand(j, n) \/ (j = i /\ n = m)
    OBVIOUS
  <2>1. CASE m \in Broadcasts
    BY <1>T, <2>1 DEF InHand
  <2>2. CASE m \in Directs
    <3>1. /\ UNCHANGED work /\ \A d \in Directs : d # m => direct'[d] = direct[d]
          /\ direct'[m].on = i
      BY <1>T, <2>2
    <3>2. QED
      BY <3>1 DEF InHand
  <2>3. QED
    BY <1>T, <2>1, <2>2
<1>6. \A j \in Instances, n \in Msgs : (SubHas(j, n))' <=> SubHas(j, n)
  BY DEF SubHas
<1>7. \A c, n : (Got(c, n))' <=> Got(c, n)
  BY DEF Got
<1>8. /\ \A c \in Conns : ~Got(c, m)
      /\ \A j \in Instances : ~SubHas(j, m) /\ \A k \in DOMAIN inbox[j] : inbox[j][k].msg # m
  <2>1. \A j \in Instances : \A k \in DOMAIN inbox[j] : inbox[j][k] \in Envelope
    BY <1>T
  <2>2. QED
    BY <1>3, <2>1 DEF OrderInv, GotOK, SubOK, InboxOK, Envelope
<1>U. Unpublished(i, m)
  BY <1>8 DEF Unpublished
<1>V. \A j \in Instances, n \in Msgs : (Unpublished(j, n))' <=> Unpublished(j, n)
  BY <1>6, <1>7 DEF Unpublished
<1>W. Doubtful' = Doubtful
  BY DEF Doubtful
<1>9. GotOK'
  BY <1>4, <1>7 DEF OrderInv, GotOK
<1>10. HandOK'
  <2> SUFFICES ASSUME NEW j \in Instances, NEW n \in Msgs, (InHand(j, n))'
               PROVE  /\ (From(j, n))' /\ (\A x \in Msgs : (Later(n, x))' => x = n)
                      /\ n \notin Doubtful => Unpublished(j, n)
    BY <1>V, <1>W DEF HandOK
  <2>1. CASE j = i /\ n = m
    BY <1>2, <1>4, <1>U, <2>1
  <2>2. CASE ~(j = i /\ n = m)
    <3>1. InHand(j, n)
      BY <1>5, <2>2
    <3>2. /\ From(j, n) /\ (\A x \in Msgs : Later(n, x) => x = n)
          /\ n \notin Doubtful => Unpublished(j, n)
      BY <3>1 DEF OrderInv, HandOK
    <3>3. n # m /\ ~InLog(s, n)
      <4>1. n # m
        BY <1>3, <3>2
      <4>2. CASE m \in Directs
        BY <1>1, <1>T, <4>1, <4>2 DEF OrderInv, LogsOK, InLog
      <4>3. CASE m \in Broadcasts
        <5>1. SUFFICES ASSUME InLog(i, n) PROVE FALSE
          BY <1>1, <1>T, <4>1, <4>3
        <5>2. n \in Broadcasts /\ From(i, n)
          BY <5>1 DEF OrderInv, LogsOK, InLog, From
        <5>3. j = i
          BY <3>2, <5>2, OneSource DEF OrderInv
        <5>4. QED
          BY <1>T, <2>2, <4>3, <5>2, <5>3 DEF InHand
      <4>4. QED
        BY <1>T, <4>2, <4>3
    <3>4. QED
      BY <1>2, <1>4, <3>2, <3>3
  <2>3. QED
    BY <2>1, <2>2
<1>11. DueOK'
  <2>1. ASSUME NEW j \in Instances, NEW c \in work'[j]["hub"].todo, c \in Conns
        PROVE  ~(Got(c, work[j]["hub"].msg))'
    <3>1. CASE work'[j]["hub"].msg = m
      BY <1>8, <2>1, <3>1 DEF Got
    <3>2. CASE work'[j] = work[j]
      BY <2>1, <3>2 DEF OrderInv, DueOK, Got
    <3>3. QED
      BY <3>1, <3>2
  <2>2. ASSUME NEW n \in Directs, direct'[n].at = "deliver", NEW c \in Conns
        PROVE  ~(Got(c, n))'
    <3>1. CASE n = m
      BY <1>7, <1>8, <3>1
    <3>2. CASE n # m
      <4>1. direct'[n] = direct[n]
        BY <1>T, <3>2
      <4>2. QED
        BY <1>7, <2>2, <4>1 DEF OrderInv, DueOK
    <3>3. QED
      BY <3>1, <3>2
  <2>3. \A j \in Instances : work'[j]["hub"].todo \subseteq Conns
    <3>1. TypeOK'
      OBVIOUS
    <3>2. QED
      BY <3>1 DEF TypeOK, Task, Loops
  <2>4. QED
    BY <2>1, <2>2, <2>3 DEF DueOK
<1>12. InboxOK'
  <2> SUFFICES ASSUME NEW j \in Instances, NEW k \in DOMAIN inbox[j]
               PROVE  /\ (From(inbox[j][k].origin, inbox[j][k].msg))'
                      /\ \A l \in DOMAIN inbox[j] : k < l => ~(Later(inbox[j][l].msg, inbox[j][k].msg))'
                      /\ \A n \in Msgs : (SubHas(j, n))' => ~(Later(inbox[j][k].msg, n))'
                      /\ inbox[j][k].origin # j =>
                            \A c \in Conns, n \in Msgs :
                              (InstanceOf[c] = j /\ (Later(inbox[j][k].msg, n))') => ~(Got(c, n))'
    BY DEF InboxOK
  <2>1. PICK e \in Envelope : e = inbox[j][k]
    BY <1>T
  <2>2. /\ From(e.origin, e.msg) /\ e.origin \in Instances /\ e.msg \in Msgs
        /\ \A l \in DOMAIN inbox[j] : k < l => ~Later(inbox[j][l].msg, e.msg)
        /\ \A n \in Msgs : SubHas(j, n) => ~Later(e.msg, n)
        /\ e.origin # j =>
              \A c \in Conns, n \in Msgs : (InstanceOf[c] = j /\ Later(e.msg, n)) => ~Got(c, n)
    BY <2>1 DEF OrderInv, InboxOK, Envelope
  <2>3. (From(inbox[j][k].origin, inbox[j][k].msg))'
    BY <1>4, <2>1, <2>2
  <2>4. ASSUME NEW l \in DOMAIN inbox[j], k < l
        PROVE  ~(Later(inbox[j][l].msg, inbox[j][k].msg))'
    <3>1. PICK f \in Envelope : f = inbox[j][l]
      BY <1>T
    <3>2. f.msg \in Msgs /\ ~Later(f.msg, e.msg) /\ e.msg # m
      BY <1>8, <2>1, <2>2, <2>4, <3>1 DEF Envelope
    <3>3. ~(Later(f.msg, e.msg))'
      BY <1>2, <2>2, <3>2
    <3>4. QED
      BY <2>1, <3>1, <3>3
  <2>5. ASSUME NEW n \in Msgs, (SubHas(j, n))'
        PROVE  ~(Later(inbox[j][k].msg, n))'
    <3>1. ~Later(e.msg, n) /\ n # m
      BY <1>6, <1>8, <2>2, <2>5
    <3>2. ~(Later(e.msg, n))'
      BY <1>2, <2>2, <3>1
    <3>3. QED
      BY <2>1, <3>2
  <2>6. ASSUME e.origin # j, NEW c \in Conns, NEW n \in Msgs, InstanceOf[c] = j,
               (Later(e.msg, n))'
        PROVE  ~(Got(c, n))'
    BY <1>2, <1>7, <1>8, <2>2, <2>6
  <2>7. QED
    BY <2>1, <2>3, <2>4, <2>5, <2>6
<1>13. SubOK'
  <2> SUFFICES ASSUME NEW j \in Instances, NEW n \in Msgs, (SubHas(j, n))'
               PROVE  /\ \E h \in Instances : h # j /\ (From(h, n))'
                      /\ \A c \in work[j]["sub"].todo, x \in Msgs : (Later(n, x))' => ~(Got(c, x))'
    BY DEF SubOK
  <2>1. /\ \E h \in Instances : h # j /\ From(h, n)
        /\ \A c \in work[j]["sub"].todo, x \in Msgs : Later(n, x) => ~Got(c, x)
    BY <1>6 DEF OrderInv, SubOK
  <2>2. \A c \in work[j]["sub"].todo : c \in Conns
    BY TodoFacts DEF Loops
  <2>3. QED
    BY <1>2, <1>4, <1>7, <1>8, <2>1, <2>2
<1>14. QED
  BY <1>2, <1>9, <1>10, <1>11, <1>12, <1>13

(* Instance i publishes the m it has in hand. *)
LEMMA OrderPublish ==
    ASSUME TypeOK, SafeInv, OrderInv, NEW i \in Instances, NEW m \in Msgs, Publish(i, m),
           \/ InHand(i, m) /\ ~(InHand(i, m))'
           \/ From(i, m) /\ m \in Doubtful,
           UNCHANGED <<accepted, sent, givenUp>>,
           \A j \in Instances, n \in Msgs : (InHand(j, n))' => InHand(j, n),
           \A d \in Directs : /\ direct'[d].on = direct[d].on
                              /\ direct'[d].at = "deliver" => direct[d].at = "deliver",
           \A j \in Instances : /\ work'[j]["sub"] = work[j]["sub"]
                                /\ work'[j]["hub"] # work[j]["hub"] => work'[j]["hub"].todo = {}
    PROVE  LogsOK' /\ GotOK' /\ HandOK' /\ DueOK' /\ InboxOK' /\ SubOK'
<1>T. inbox \in [Instances -> Seq(Envelope)]
  BY DEF TypeOK
<1>L. \A x, y : (Later(x, y))' <=> Later(x, y)
  BY DEF Later, Doubtful
<1>F. \A j \in Instances, n \in Msgs : (From(j, n))' <=> From(j, n)
  BY DEF From, InLog
<1>S. \A j \in Instances, n \in Msgs : (SubHas(j, n))' <=> SubHas(j, n)
  BY DEF SubHas
<1>G. \A c, n : (Got(c, n))' <=> Got(c, n)
  BY DEF Got
<1>D. Doubtful' = Doubtful
  BY DEF Doubtful
<1>M. /\ From(i, m) /\ (\A n \in Msgs : Later(m, n) => n = m)
      /\ m \notin Doubtful => Unpublished(i, m) /\ ~(InHand(i, m))'
  BY DEF OrderInv, HandOK, Later
<1>E. ASSUME NEW j \in Instances
      PROVE  \A k \in DOMAIN inbox'[j] : k \in Nat /\
               \/ k \in DOMAIN inbox[j] /\ inbox'[j][k] = inbox[j][k]
               \/ /\ inbox'[j][k].origin = i /\ inbox'[j][k].msg = m
                  /\ \A l \in DOMAIN inbox'[j] : ~(k < l)
  <2>1. inbox[j] \in Seq(Envelope)
    BY <1>T
  <2>2. \/ inbox'[j] = inbox[j]
        \/ inbox'[j] = Append(inbox[j], [origin |-> i, msg |-> m])
    BY DEF Publish
  <2>3. PICK z \in Nat : z = Len(inbox[j]) /\ DOMAIN inbox[j] = 1 .. z
    BY <2>1
  <2>4. CASE inbox'[j] = inbox[j]
    BY <2>3, <2>4
  <2>5. CASE inbox'[j] = Append(inbox[j], [origin |-> i, msg |-> m])
    <3>1. /\ DOMAIN inbox'[j] = 1 .. (z + 1)
          /\ inbox'[j][z + 1] = [origin |-> i, msg |-> m]
          /\ \A k \in 1 .. z : inbox'[j][k] = inbox[j][k]
      BY <2>1, <2>3, <2>5, AppendProperties
    <3>2. inbox'[j][z + 1].origin = i /\ inbox'[j][z + 1].msg = m
      BY <3>1
    <3>3. QED
      BY <2>3, <3>1, <3>2
  <2>6. QED
    BY <2>2, <2>4, <2>5
<1>1. LogsOK' /\ GotOK'
  BY <1>F, <1>G DEF OrderInv, LogsOK, GotOK
<1>2. HandOK'
  <2> SUFFICES ASSUME NEW j \in Instances, NEW n \in Msgs, (InHand(j, n))'
               PROVE  /\ (From(j, n))' /\ (\A x \in Msgs : (Later(n, x))' => x = n)
                      /\ n \notin Doubtful => (Unpublished(j, n))'
    BY <1>D DEF HandOK
  <2>1. /\ From(j, n) /\ (\A x \in Msgs : Later(n, x) => x = n)
        /\ n \notin Doubtful => Unpublished(j, n)
    BY DEF OrderInv, HandOK
  <2>2. ASSUME n \notin Doubtful
        PROVE  (Unpublished(j, n))'
    <3>1. n # m
      BY <1>M, <2>1, <2>2, OneSource DEF OrderInv
    <3>2. \A h \in Instances : \A k \in DOMAIN inbox'[h] : inbox'[h][k].msg # n
      BY <1>E, <2>1, <2>2, <3>1 DEF Unpublished
    <3>3. QED
      BY <1>S, <1>G, <2>1, <2>2, <3>2 DEF Unpublished
  <2>3. QED
    BY <1>L, <1>F, <2>1, <2>2
<1>3. DueOK'
  <2>1. ASSUME NEW j \in Instances, NEW c \in work'[j]["hub"].todo
        PROVE  ~(Got(c, work[j]["hub"].msg))'
    BY <2>1 DEF OrderInv, DueOK, Got
  <2>2. ASSUME NEW d \in Directs, direct'[d].at = "deliver", NEW c \in Conns
        PROVE  ~(Got(c, d))'
    BY <1>G, <2>2 DEF OrderInv, DueOK
  <2>3. QED
    BY <2>1, <2>2 DEF DueOK
<1>4. InboxOK'
  <2> SUFFICES ASSUME NEW j \in Instances, NEW k \in DOMAIN inbox'[j]
               PROVE  /\ (From(inbox[j][k].origin, inbox[j][k].msg))'
                      /\ \A l \in DOMAIN inbox'[j] : k < l => ~Later(inbox'[j][l].msg, inbox'[j][k].msg)
                      /\ \A n \in Msgs : SubHas(j, n) => ~Later(inbox'[j][k].msg, n)
                      /\ inbox'[j][k].origin # j =>
                            \A c \in Conns, n \in Msgs :
                              (InstanceOf[c] = j /\ Later(inbox'[j][k].msg, n)) => ~Got(c, n)
    BY <1>L, <1>S, <1>G DEF InboxOK
  <2>1. CASE k \in DOMAIN inbox[j] /\ inbox'[j][k] = inbox[j][k]
    <3>1. PICK e \in Envelope : e = inbox[j][k] /\ e = inbox'[j][k]
      BY <1>T, <2>1
    <3>2. /\ From(e.origin, e.msg) /\ e.origin \in Instances /\ e.msg \in Msgs
          /\ \A l \in DOMAIN inbox[j] : k < l => ~Later(inbox[j][l].msg, e.msg)
          /\ \A n \in Msgs : SubHas(j, n) => ~Later(e.msg, n)
          /\ e.origin # j =>
                \A c \in Conns, n \in Msgs : (InstanceOf[c] = j /\ Later(e.msg, n)) => ~Got(c, n)
      BY <2>1, <3>1 DEF OrderInv, InboxOK, Envelope
    <3>3. (From(inbox[j][k].origin, inbox[j][k].msg))'
      BY <1>F, <3>1, <3>2
    <3>4. ASSUME NEW l \in DOMAIN inbox'[j], k < l
          PROVE  ~Later(inbox'[j][l].msg, e.msg)
      <4>1. CASE l \in DOMAIN inbox[j] /\ inbox'[j][l] = inbox[j][l]
        BY <3>2, <3>4, <4>1
      <4>2. CASE inbox'[j][l].msg = m
        BY <1>M, <2>1, <3>1, <3>2, <4>2 DEF Unpublished, Later
      <4>3. QED
        BY <1>E, <4>1, <4>2
    <3>5. QED
      BY <3>1, <3>2, <3>3, <3>4
  <2>2. CASE /\ inbox'[j][k].origin = i /\ inbox'[j][k].msg = m
             /\ \A l \in DOMAIN inbox'[j] : ~(k < l)
    <3>1. (From(inbox[j][k].origin, inbox[j][k].msg))'
      BY <1>F, <1>M, <2>2
    <3>2. QED
      BY <1>M, <2>2, <3>1 DEF Unpublished, Later
  <2>3. QED
    BY <1>E, <2>1, <2>2
<1>5. SubOK'
  <2> SUFFICES ASSUME NEW j \in Instances, NEW n \in Msgs, (SubHas(j, n))'
               PROVE  /\ \E h \in Instances : h # j /\ (From(h, n))'
                      /\ \A c \in work[j]["sub"].todo, x \in Msgs : (Later(n, x))' => ~(Got(c, x))'
    BY DEF SubOK
  <2>1. /\ \E h \in Instances : h # j /\ From(h, n)
        /\ \A c \in work[j]["sub"].todo, x \in Msgs : Later(n, x) => ~Got(c, x)
    BY <1>S DEF OrderInv, SubOK
  <2>2. QED
    BY <1>F, <1>G, <1>L, <2>1
<1>6. QED
  BY <1>1, <1>2, <1>3, <1>4, <1>5

(* The subscription of i takes the broadcast at the head of its inbox. *)
LEMMA OrderTake ==
    ASSUME TypeOK, SafeInv, OrderInv, NEW i \in Instances, NEW e \in Envelope,
           1 \in DOMAIN inbox[i], inbox[i][1] = e, e.origin # i,
           UNCHANGED <<accepted, sent, direct, givenUp>>,
           \A k \in DOMAIN inbox'[i] : /\ k \in Nat \ {0} /\ k + 1 \in DOMAIN inbox[i]
                                       /\ inbox'[i][k] = inbox[i][k + 1],
           \A j \in Instances : j # i => inbox'[j] = inbox[j] /\ work'[j] = work[j],
           work'[i]["hub"] = work[i]["hub"], work'[i]["sub"].msg = e.msg,
           work'[i]["sub"].todo \subseteq Mapped(i)
    PROVE  LogsOK' /\ GotOK' /\ HandOK' /\ DueOK' /\ InboxOK' /\ SubOK'
<1>T. inbox \in [Instances -> Seq(Envelope)] /\ e.origin \in Instances /\ e.msg \in Msgs
  BY DEF TypeOK, Envelope
<1>L. \A x, y : (Later(x, y))' <=> Later(x, y)
  BY DEF Later, Doubtful
<1>F. \A j \in Instances, n \in Msgs : (From(j, n))' <=> From(j, n)
  BY DEF From, InLog
<1>G. \A c, n : (Got(c, n))' <=> Got(c, n)
  BY DEF Got
<1>H. \A j \in Instances, n \in Msgs : (InHand(j, n))' <=> InHand(j, n)
  BY DEF InHand
<1>S. \A j \in Instances, n \in Msgs : (SubHas(j, n))' => SubHas(j, n) \/ (j = i /\ n = e.msg)
  BY DEF SubHas
<1>S2. \A n \in Msgs : (SubHas(i, n))' => n = e.msg
  BY DEF SubHas
<1>E. /\ From(e.origin, e.msg)
      /\ \A l \in DOMAIN inbox[i] : 1 < l => ~Later(inbox[i][l].msg, e.msg)
      /\ \A c \in Conns, n \in Msgs : (InstanceOf[c] = i /\ Later(e.msg, n)) => ~Got(c, n)
  BY DEF OrderInv, InboxOK
<1>1. LogsOK' /\ GotOK'
  BY <1>F, <1>G DEF OrderInv, LogsOK, GotOK
<1>2. HandOK'
  <2> SUFFICES ASSUME NEW j \in Instances, NEW n \in Msgs, InHand(j, n)
               PROVE  /\ (From(j, n))' /\ (\A x \in Msgs : (Later(n, x))' => x = n)
                      /\ n \notin Doubtful => (Unpublished(j, n))'
    BY <1>H DEF HandOK, Doubtful
  <2>1. /\ From(j, n) /\ (\A x \in Msgs : Later(n, x) => x = n)
        /\ n \notin Doubtful => Unpublished(j, n)
    BY DEF OrderInv, HandOK
  <2>2. ASSUME n \notin Doubtful
        PROVE  (Unpublished(j, n))'
    <3>1. n # e.msg
      BY <2>1, <2>2 DEF Unpublished
    <3>2. ASSUME NEW h \in Instances, NEW k \in DOMAIN inbox'[h]
          PROVE  inbox'[h][k].msg # n
      BY <2>1, <2>2, <3>2 DEF Unpublished
    <3>3. \A h \in Instances : ~(SubHas(h, n))'
      BY <1>S, <2>1, <2>2, <3>1 DEF Unpublished
    <3>4. QED
      BY <1>G, <2>1, <2>2, <3>2, <3>3 DEF Unpublished
  <2>3. QED
    BY <1>L, <1>F, <2>1, <2>2
<1>3. DueOK'
  <2>1. \A j \in Instances : work'[j]["hub"] = work[j]["hub"]
    OBVIOUS
  <2>2. QED
    BY <1>G, <2>1 DEF OrderInv, DueOK
<1>4. InboxOK'
  <2> SUFFICES ASSUME NEW j \in Instances, NEW k \in DOMAIN inbox'[j]
               PROVE  /\ (From(inbox[j][k].origin, inbox[j][k].msg))'
                      /\ \A l \in DOMAIN inbox'[j] : k < l => ~Later(inbox'[j][l].msg, inbox'[j][k].msg)
                      /\ \A n \in Msgs : (SubHas(j, n))' => ~Later(inbox'[j][k].msg, n)
                      /\ inbox'[j][k].origin # j =>
                            \A c \in Conns, n \in Msgs :
                              (InstanceOf[c] = j /\ Later(inbox'[j][k].msg, n)) => ~Got(c, n)
    BY <1>L, <1>G DEF InboxOK
  <2>1. CASE j # i
    <3>1. PICK f \in Envelope : f = inbox[j][k] /\ f = inbox'[j][k]
      BY <1>T, <2>1
    <3>2. /\ From(f.origin, f.msg) /\ f.origin \in Instances /\ f.msg \in Msgs
          /\ \A l \in DOMAIN inbox[j] : k < l => ~Later(inbox[j][l].msg, f.msg)
          /\ \A n \in Msgs : SubHas(j, n) => ~Later(f.msg, n)
          /\ f.origin # j =>
                \A c \in Conns, n \in Msgs : (InstanceOf[c] = j /\ Later(f.msg, n)) => ~Got(c, n)
      BY <2>1, <3>1 DEF OrderInv, InboxOK, Envelope
    <3>3. (From(inbox[j][k].origin, inbox[j][k].msg))'
      BY <1>F, <3>1, <3>2
    <3>4. QED
      BY <1>S, <2>1, <3>1, <3>2, <3>3
  <2>2. CASE j = i
    <3>1. /\ k \in Nat \ {0} /\ k + 1 \in DOMAIN inbox[i] /\ 1 < k + 1
          /\ inbox'[i][k] = inbox[i][k + 1]
      BY <2>2
    <3>2. PICK f \in Envelope : f = inbox[i][k + 1] /\ f = inbox'[i][k]
      BY <1>T, <3>1
    <3>3. /\ From(f.origin, f.msg) /\ f.origin \in Instances /\ f.msg \in Msgs
          /\ \A l \in DOMAIN inbox[i] : k + 1 < l => ~Later(inbox[i][l].msg, f.msg)
          /\ f.origin # i =>
                \A c \in Conns, n \in Msgs : (InstanceOf[c] = i /\ Later(f.msg, n)) => ~Got(c, n)
      BY <3>1, <3>2 DEF OrderInv, InboxOK, Envelope
    <3>4. (From(inbox[j][k].origin, inbox[j][k].msg))'
      BY <1>F, <2>2, <3>2, <3>3
    <3>5. ASSUME NEW l \in DOMAIN inbox'[i], k < l
          PROVE  ~Later(inbox'[i][l].msg, f.msg)
      <4>1. l + 1 \in DOMAIN inbox[i] /\ k + 1 < l + 1 /\ inbox'[i][l] = inbox[i][l + 1]
        BY <3>1, <3>5
      <4>2. QED
        BY <3>3, <4>1
    <3>6. ~Later(f.msg, e.msg)
      BY <1>E, <3>1, <3>2
    <3>7. QED
      BY <1>S2, <2>2, <3>2, <3>3, <3>4, <3>5, <3>6
  <2>3. QED
    BY <2>1, <2>2
<1>5. SubOK'
  <2> SUFFICES ASSUME NEW j \in Instances, NEW n \in Msgs, (SubHas(j, n))'
               PROVE  /\ \E h \in Instances : h # j /\ (From(h, n))'
                      /\ \A c \in work'[j]["sub"].todo, x \in Msgs : Later(n, x) => ~Got(c, x)
    BY <1>L, <1>G DEF SubOK
  <2>1. CASE j # i
    <3>1. /\ \E h \in Instances : h # j /\ From(h, n)
          /\ \A c \in work[j]["sub"].todo, x \in Msgs : Later(n, x) => ~Got(c, x)
      BY <1>S, <2>1 DEF OrderInv, SubOK
    <3>2. QED
      BY <1>F, <2>1, <3>1
  <2>2. CASE j = i
    <3>1. n = e.msg
      BY <1>S2, <2>2
    <3>2. \A c \in work'[i]["sub"].todo : c \in Conns /\ InstanceOf[c] = i
      BY ShapeAssumption DEF Mapped, SafeInv, MapHoldsConnected
    <3>3. QED
      BY <1>E, <1>F, <1>T, <2>2, <3>1, <3>2
  <2>3. QED
    BY <2>1, <2>2
<1>6. QED
  BY <1>1, <1>2, <1>3, <1>4, <1>5

-----------------------------------------------------------------------------
LEMMA OrderInit == Init => OrderInv
<1> SUFFICES ASSUME Init PROVE OrderInv
  OBVIOUS
<1>1. /\ \A s \in Sources : DOMAIN accepted[s] = {}
      /\ \A c \in Conns : DOMAIN sent[c] = {}
      /\ \A i \in Instances : DOMAIN inbox[i] = {}
  BY DEF Init
<1>2. /\ \A i \in Instances, g \in Loops : work[i][g].todo = {} /\ work[i][g].at = "wait"
      /\ \A d \in Directs : direct[d].at = "idle"
      /\ "hub" \in Loops /\ "sub" \in Loops /\ Sources = Instances \cup Directs
  BY DEF Init, Idle, Loops, Sources
<1>3. LogsOK /\ GotOK
  BY <1>1, <1>2 DEF LogsOK, GotOK, Got
<1>4. HandOK /\ SubOK
  BY <1>2 DEF HandOK, SubOK, InHand, SubHas
<1>5. DueOK /\ InboxOK /\ AimOK
  BY <1>1, <1>2 DEF DueOK, InboxOK, AimOK
<1>6. QED
  BY <1>3, <1>4, <1>5 DEF OrderInv

(* A send gives at most its message to at most its connection. *)
LEMMA PushGot ==
    ASSUME TypeOK, NEW c \in Conns, NEW m \in Msgs, Push(c, m)
    PROVE  \A d \in Conns, n \in Msgs : (Got(d, n))' => Got(d, n) \/ (d = c /\ n = m)
<1>1. CASE UNCHANGED sent
  BY <1>1 DEF Got
<1>2. CASE sent' = [sent EXCEPT ![c] = Append(@, m)]
  <2>1. sent \in [Conns -> Seq(Msgs)]
    BY DEF TypeOK
  <2>2. PICK z \in Nat : z = Len(sent[c]) /\ DOMAIN sent[c] = 1 .. z
    BY <2>1
  <2>3. /\ DOMAIN sent'[c] = 1 .. (z + 1) /\ sent'[c][z + 1] = m
        /\ \A n \in 1 .. z : sent'[c][n] = sent[c][n]
    BY <1>2, <2>1, <2>2, AppendProperties
  <2>4. \A d \in Conns : d # c => sent'[d] = sent[d]
    BY <1>2, <2>1
  <2>5. ASSUME NEW d \in Conns, NEW n \in Msgs, (Got(d, n))'
        PROVE  Got(d, n) \/ (d = c /\ n = m)
    <3>1. CASE d = c
      BY <2>2, <2>3, <2>5, <3>1 DEF Got
    <3>2. CASE d # c
      BY <2>4, <2>5, <3>2 DEF Got
    <3>3. QED
      BY <3>1, <3>2
  <2>6. QED
    BY <2>5
<1>3. QED
  BY <1>1, <1>2 DEF Push

(* Who a delivery still has to serve is addressed: it was, or it is now.  *)
LEMMA AimStep ==
    ASSUME AimOK,
           \A i \in Instances, g \in Loops : \A c \in work'[i][g].todo :
              \/ c \in work[i][g].todo /\ work'[i][g].msg = work[i][g].msg
              \/ MeantFor(work'[i][g].msg, c)
    PROVE  AimOK'
<1>1. \A m, c : (MeantFor(m, c))' <=> MeantFor(m, c)
  BY DEF MeantFor
<1>2. ASSUME NEW i \in Instances, NEW g \in Loops, NEW c \in work'[i][g].todo
      PROVE  MeantFor(work'[i][g].msg, c)
  BY <1>2 DEF AimOK
<1>3. QED
  BY <1>2 DEF AimOK, MeantFor

LEMMA RecipientsAim ==
    ASSUME NEW i \in Instances, NEW m \in Broadcasts, NEW c \in Recipients(i, m)
    PROVE  MeantFor(m, c)
  BY DEF Recipients, MeantFor

(* deliverToClient finds a connection of its instance under its own ID. *)
LEMMA LookupAim ==
    ASSUME TypeOK, SafeInv, NEW i \in Instances, NEW m \in Directs, clients[i][Target[m]] # NONE
    PROVE  /\ clients[i][Target[m]] \in Conns /\ InstanceOf[clients[i][Target[m]]] = i
           /\ MeantFor(m, clients[i][Target[m]])
<1>1. Target[m] \in ClientIds
  BY ShapeAssumption
<1>2. QED
  BY <1>1 DEF TypeOK, SafeInv, MapHoldsConnected, MeantFor

(* Nothing on its way to the instance that has m in hand precedes m. *)
LEMMA HandFacts ==
    ASSUME TypeOK, OrderInv, NEW i \in Instances, NEW m \in Msgs, InHand(i, m)
    PROVE  /\ From(i, m) /\ \E s \in Sources : InLog(s, m)
           /\ \A n \in Msgs : Later(m, n) => n = m
           /\ \A j \in Instances : InHand(j, m) => j = i
           /\ \A k \in DOMAIN inbox[i] : inbox[i][k].origin # i => ~Later(inbox[i][k].msg, m)
           /\ \A x \in Msgs : SubHas(i, x) => ~Later(x, m)
<1>1. From(i, m) /\ \A n \in Msgs : Later(m, n) => n = m
  BY DEF OrderInv, HandOK
<1>2. \A j \in Instances : InHand(j, m) => j = i
  BY <1>1, OneSource DEF OrderInv, HandOK
<1>3. ASSUME NEW k \in DOMAIN inbox[i], inbox[i][k].origin # i
      PROVE  ~Later(inbox[i][k].msg, m)
  <2>1. PICK e \in Envelope : e = inbox[i][k]
    BY DEF TypeOK
  <2>2. From(e.origin, e.msg) /\ e.msg \in Msgs /\ e.origin \in Instances
    BY <2>1 DEF OrderInv, InboxOK, Envelope
  <2>3. QED
    BY <1>1, <1>3, <2>1, <2>2, OneSource DEF OrderInv
<1>4. ASSUME NEW x \in Msgs, SubHas(i, x)
      PROVE  ~Later(x, m)
  <2>1. PICK j \in Instances : j # i /\ From(j, x)
    BY <1>4 DEF OrderInv, SubOK
  <2>2. QED
    BY <1>1, <2>1, OneSource DEF OrderInv
<1>5. QED
  BY <1>1, <1>2, <1>3, <1>4, OneSource DEF OrderInv

(* Steps that touch neither logs nor messages: the doubts can only grow.   *)
LEMMA OrderQuiet ==
    ASSUME TypeOK, SafeInv, OrderInv, UNCHANGED <<accepted, sent, work, inbox>>,
           \A m \in Doubtful : (m \in Doubtful)',
           \A m \in Directs : /\ direct'[m].on = direct[m].on
                              /\ direct'[m].at \in {direct[m].at, "idle"}
    PROVE  OrderInv'
<1>1. LogsOK' /\ GotOK' /\ HandOK' /\ DueOK' /\ InboxOK' /\ SubOK'
  <2>1. /\ \A i \in Instances, m \in Msgs : (InHand(i, m))' => InHand(i, m)
        /\ \A i \in Instances, m \in Msgs : (SubHas(i, m))' => SubHas(i, m)
        /\ \A c \in Conns, m \in Msgs : (Got(c, m))' => Got(c, m)
    BY DEF InHand, SubHas, Got
  <2>2. NONE \notin Conns
    BY ShapeAssumption
  <2>3. QED
    BY <2>1, <2>2, Progress
<1>2. AimOK'
  BY AimStep DEF OrderInv
<1>3. QED
  BY <1>1, <1>2 DEF OrderInv

LEMMA OrderSendOne ==
    ASSUME TypeOK, SafeInv, OrderInv, NEW i \in Instances, NEW g \in Loops, NEW c \in Conns,
           SendOne(i, g, c)
    PROVE  OrderInv' /\ [BestEffort!Next]_<<accepted, sent, Doubtful>>
<1> DEFINE t == [work[i][g] EXCEPT !.todo = @ \ {c}]
<1>1. PICK m \in Msgs : m = work[i][g].msg /\ m \in Broadcasts
  BY TodoFacts DEF SendOne
<1>2. /\ work[i][g].at = "deliver" /\ c \in work[i][g].todo /\ Push(c, m)
      /\ work' = [work EXCEPT ![i][g] = t]
      /\ UNCHANGED <<accepted, inbox, direct, givenUp>> /\ Doubtful' = Doubtful
  BY <1>1 DEF SendOne, attempts, Doubtful
<1>3. /\ InstanceOf[c] = i /\ MeantFor(m, c) /\ Broadcasts \cap Directs = {}
      /\ "hub" \in Loops /\ "sub" \in Loops
  BY <1>1, <1>2, TodoFacts, ShapeAssumption DEF OrderInv, AimOK, Loops
<1>4. t \in Task /\ t.at = "deliver" /\ t.msg = m /\ t.todo = work[i][g].todo \ {c}
  <2>1. work[i][g] \in Task
    BY DEF TypeOK
  <2>2. QED
    BY <1>1, <1>2, <2>1 DEF Task
<1> HIDE DEF t
<1>5. \A j \in Instances, h \in Loops : work'[j][h] = IF j = i /\ h = g THEN t ELSE work[j][h]
  BY <1>2 DEF TypeOK
<1>6. \A j \in Instances, h \in Loops :
        /\ work'[j][h].at = work[j][h].at /\ work'[j][h].msg = work[j][h].msg
        /\ work'[j][h].todo \subseteq work[j][h].todo
        /\ c \notin work'[i][g].todo
  BY <1>1, <1>2, <1>4, <1>5
<1>7. /\ \A j \in Instances, n \in Msgs : (InHand(j, n))' <=> InHand(j, n)
      /\ \A j \in Instances, n \in Msgs : (SubHas(j, n))' <=> SubHas(j, n)
  BY <1>2, <1>3, <1>6 DEF InHand, SubHas
<1>8. \A d \in Conns, n \in Msgs : (Got(d, n))' => Got(d, n) \/ (d = c /\ n = m)
  BY <1>2, PushGot
<1>9. /\ \E j \in Instances : From(j, m)
      /\ \E s \in Sources : InLog(s, m)
      /\ \A n \in Msgs : Later(m, n) => ~Got(c, n)
      /\ \A j \in Instances : (m \notin Doubtful /\ InHand(j, m)) => j = i
      /\ \A j \in Instances : c \in work'[j]["hub"].todo => work'[j]["hub"].msg # m
      /\ \A k \in DOMAIN inbox[i] : inbox[i][k].origin # i => ~Later(inbox[i][k].msg, m)
      /\ \A j \in Instances, n \in Msgs :
           (SubHas(j, n) /\ c \in work'[j]["sub"].todo) => ~Later(n, m)
  <2>0. \A j \in Instances, h \in Loops : c \in work'[j][h].todo => j = i /\ c \in work[i][h].todo
    BY <1>3, <1>6, TodoFacts
  <2>1. CASE g = "hub"
    <3>1. InHand(i, m)
      BY <1>1, <1>2, <2>1 DEF InHand
    <3>2. ~Got(c, m)
      BY <1>1, <1>2, <2>1 DEF OrderInv, DueOK
    <3>3. QED
      BY <1>3, <1>6, <2>0, <2>1, <3>1, <3>2, HandFacts
  <2>2. CASE g = "sub"
    <3>1. SubHas(i, m)
      BY <1>1, <1>2, <2>2 DEF SubHas
    <3>2. /\ \E j \in Instances : From(j, m)
          /\ \A n \in Msgs : Later(m, n) => ~Got(c, n)
      BY <1>2, <2>2, <3>1 DEF OrderInv, SubOK
    <3>3. \A j \in Instances : InHand(j, m) => m \in Doubtful /\ j # i
      <4>1. PICK h \in Instances : h # i /\ From(h, m)
        BY <1>1, <3>1 DEF OrderInv, SubOK, Msgs
      <4>2. QED
        BY <1>1, <3>1, <4>1, OneSource DEF OrderInv, HandOK, Unpublished, Msgs
    <3>4. \A j \in Instances : c \in work'[j]["hub"].todo => work'[j]["hub"].msg # m
      BY <1>1, <1>3, <1>6, <2>0, <3>3, TodoFacts DEF InHand
    <3>5. \A k \in DOMAIN inbox[i] : ~Later(inbox[i][k].msg, m)
      BY <3>1 DEF OrderInv, InboxOK
    <3>6. \A j \in Instances : c \notin work'[j]["sub"].todo
      BY <1>3, <1>6, <2>0, <2>2
    <3>7. QED
      BY <3>2, <3>3, <3>4, <3>5, <3>6, OneSource DEF OrderInv
  <2>3. QED
    BY <2>1, <2>2 DEF Loops
<1>10. LogsOK' /\ GotOK' /\ HandOK' /\ DueOK' /\ InboxOK' /\ SubOK'
  <2>1. m \notin Directs
    BY <1>1, <1>3
  <2>2. \A j \in Instances : (m \notin Doubtful /\ (InHand(j, m))') => InstanceOf[c] = j
    BY <1>3, <1>7, <1>9
  <2>3. \A j \in Instances : \A d \in work'[j]["hub"].todo :
          d \in work[j]["hub"].todo /\ work'[j]["hub"].msg = work[j]["hub"].msg
    BY <1>3, <1>6
  <2>4. \A j \in Instances, n \in Msgs : (SubHas(j, n))' =>
          SubHas(j, n) /\ work'[j]["sub"].todo \subseteq work[j]["sub"].todo
    BY <1>3, <1>6, <1>7
  <2>5. QED
    BY <1>2, <1>3, <1>7, <1>8, <1>9, <2>1, <2>2, <2>3, <2>4, Progress
<1>11. AimOK'
  BY <1>6, AimStep DEF OrderInv
<1>12. [BestEffort!Next]_<<accepted, sent, Doubtful>>
  BY <1>2, <1>3, <1>9, DeliverStep
<1>13. QED
  BY <1>10, <1>11, <1>12 DEF OrderInv

(* deliverToClient gives m to the connection the instance has for it, when *)
(* nothing on its way there precedes m.                                   *)
LEMMA OrderPushToClient ==
    ASSUME TypeOK, SafeInv, OrderInv, NEW i \in Instances, NEW m \in Directs, PushToClient(i, m),
           UNCHANGED <<accepted, work, givenUp>>,
           \E j \in Instances : From(j, m),
           \A c \in Conns, n \in Msgs : (InstanceOf[c] = i /\ Later(m, n)) => ~Got(c, n),
           \A d \in Directs : /\ direct'[d].on = direct[d].on
                              /\ direct'[d].at # "idle" => direct[d].at # "idle"
                              /\ direct'[d].at = "deliver" => direct[d].at = "deliver",
           direct'[m].at # "deliver",
           \A j \in Instances : (m \notin Doubtful /\ InHand(j, m)) => j = i,
           \A j \in Instances :
              \/ inbox'[j] = inbox[j]
              \/ \A k \in DOMAIN inbox'[j] :
                    /\ k \in Nat /\ k + 1 \in DOMAIN inbox[j]
                    /\ inbox'[j][k] = inbox[j][k + 1],
           \A k \in DOMAIN inbox'[i] : inbox'[i][k].origin # i => ~Later(inbox'[i][k].msg, m),
           \A n \in Msgs : SubHas(i, n) => ~Later(n, m)
    PROVE  OrderInv' /\ [BestEffort!Next]_<<accepted, sent, Doubtful>>
<1>1. /\ \A j \in Instances, n \in Msgs : (InHand(j, n))' => InHand(j, n)
      /\ \A j \in Instances, n \in Msgs : (SubHas(j, n))' <=> SubHas(j, n)
      /\ m \in Msgs /\ Broadcasts \cap Directs = {} /\ "hub" \in Loops /\ "sub" \in Loops
      /\ Doubtful' = Doubtful
  BY ShapeAssumption DEF InHand, SubHas, Msgs, Loops, Doubtful
<1>2. AimOK'
  BY AimStep DEF OrderInv
<1>3. CASE clients[i][Target[m]] = NONE
  <2>1. UNCHANGED sent /\ NONE \notin Conns
    BY <1>3, ShapeAssumption DEF PushToClient
  <2>2. \A c \in Conns, n \in Msgs : (Got(c, n))' => Got(c, n)
    BY <2>1 DEF Got
  <2>3. LogsOK' /\ GotOK' /\ HandOK' /\ DueOK' /\ InboxOK' /\ SubOK'
    BY <1>1, <2>1, <2>2, Progress
  <2>4. QED
    BY <1>1, <1>2, <2>1, <2>3 DEF OrderInv
<1>4. CASE clients[i][Target[m]] # NONE
  <2>1. PICK c \in Conns : c = clients[i][Target[m]] /\ InstanceOf[c] = i /\ MeantFor(m, c)
    BY <1>4, LookupAim
  <2>2. Push(c, m)
    BY <1>4, <2>1 DEF PushToClient
  <2>3. \A d \in Conns, n \in Msgs : (Got(d, n))' => Got(d, n) \/ (d = c /\ n = m)
    BY <1>1, <2>2, PushGot
  <2>4. \A j \in Instances : c \in work'[j]["hub"].todo => work'[j]["hub"].msg # m
    BY <1>1, TodoFacts
  <2>5. \A j \in Instances : c \in work[j]["sub"].todo => j = i
    BY <1>1, <2>1, TodoFacts
  <2>6. LogsOK' /\ GotOK' /\ HandOK' /\ DueOK' /\ InboxOK' /\ SubOK'
    <3>1. \A j \in Instances : (m \notin Doubtful /\ (InHand(j, m))') => InstanceOf[c] = j
      BY <1>1, <2>1
    <3>2. \A j \in Instances, n \in Msgs :
            ((SubHas(j, n))' /\ c \in work'[j]["sub"].todo) => ~Later(n, m)
      BY <1>1, <2>5
    <3>3. QED
      BY <1>1, <2>1, <2>3, <2>4, <3>1, <3>2, Progress
  <2>7. [BestEffort!Next]_<<accepted, sent, Doubtful>>
    <3>1. \E s \in Sources : InLog(s, m)
      BY <1>1, OneSource DEF OrderInv
    <3>2. QED
      BY <1>1, <2>1, <2>2, <3>1, DeliverStep
  <2>8. QED
    BY <1>2, <2>6, <2>7 DEF OrderInv
<1>5. QED
  BY <1>3, <1>4

(* A loop that only leaves its delivery, or stops. *)
LEMMA OrderLoopMoves ==
    ASSUME TypeOK, SafeInv, OrderInv, NEW i \in Instances, NEW g \in Loops, NEW t \in Task,
           work' = [work EXCEPT ![i][g] = t], t.todo = {},
           \/ t.at \notin {"deliver", "publish"}
           \/ g = "hub" /\ work[i]["hub"].at = "deliver" /\ t.msg = work[i]["hub"].msg,
           UNCHANGED <<accepted, sent, inbox, direct>>, \A m \in Doubtful : (m \in Doubtful)'
    PROVE  OrderInv'
<1>1. \A j \in Instances, h \in Loops : work'[j][h] = IF j = i /\ h = g THEN t ELSE work[j][h]
  BY DEF TypeOK
<1>2. "hub" \in Loops /\ "sub" \in Loops /\ NONE \notin Conns
  BY ShapeAssumption DEF Loops
<1>3. \A j \in Instances, n \in Msgs : (InHand(j, n))' => InHand(j, n)
  BY <1>1, <1>2 DEF InHand
<1>4. \A j \in Instances, n \in Msgs : (SubHas(j, n))' =>
        SubHas(j, n) /\ work'[j]["sub"].todo \subseteq work[j]["sub"].todo
  BY <1>1, <1>2 DEF SubHas
<1>5. \A j \in Instances, h \in Loops : \A c \in work'[j][h].todo : work'[j][h] = work[j][h]
  BY <1>1
<1>6. \A c \in Conns, n \in Msgs : (Got(c, n))' => Got(c, n)
  BY DEF Got
<1>7. LogsOK' /\ GotOK' /\ HandOK' /\ DueOK' /\ InboxOK' /\ SubOK'
  BY <1>2, <1>3, <1>4, <1>5, <1>6, Progress
<1>8. AimOK'
  BY <1>5, AimStep DEF OrderInv
<1>9. QED
  BY <1>7, <1>8 DEF OrderInv

LEMMA OrderDeliverEnd ==
    ASSUME TypeOK, SafeInv, OrderInv, NEW i \in Instances, NEW g \in Loops, DeliverEnd(i, g)
    PROVE  OrderInv' /\ [BestEffort!Next]_<<accepted, sent, Doubtful>>
<1> DEFINE t == IF g = "hub" /\ PubSubOn THEN [work[i][g] EXCEPT !.at = "publish"] ELSE Idle
<1>1. /\ work' = [work EXCEPT ![i][g] = t] /\ work[i][g].at = "deliver" /\ work[i][g].todo = {}
      /\ UNCHANGED <<accepted, sent, inbox, direct>> /\ Doubtful' = Doubtful /\ work[i][g] \in Task
  BY DEF DeliverEnd, TypeOK, attempts, Doubtful
<1>2. t \in Task /\ t.todo = {}
  BY <1>1 DEF Idle, Task
<1>3. \/ t.at \notin {"deliver", "publish"}
      \/ g = "hub" /\ work[i]["hub"].at = "deliver" /\ t.msg = work[i]["hub"].msg
  BY <1>1 DEF Idle, Task
<1> HIDE DEF t
<1>4. QED
  BY <1>1, <1>2, <1>3, OrderLoopMoves

LEMMA OrderLoopStop ==
    ASSUME TypeOK, SafeInv, OrderInv, NEW i \in Instances, NEW g \in Loops, LoopStop(i, g)
    PROVE  OrderInv' /\ [BestEffort!Next]_<<accepted, sent, Doubtful>>
<1> DEFINE t == [work[i][g] EXCEPT !.at = "stopped"]
<1>1. /\ work' = [work EXCEPT ![i][g] = t] /\ work[i][g].at = "wait"
      /\ UNCHANGED <<accepted, sent, inbox, direct>> /\ Doubtful' = Doubtful /\ work[i][g] \in Task
  BY DEF LoopStop, TypeOK, attempts, Doubtful
<1>2. work[i][g].todo = {}
  BY <1>1 DEF SafeInv, TodoIsMapped
<1>3. t \in Task /\ t.todo = {} /\ t.at = "stopped"
  BY <1>1, <1>2 DEF Task
<1> HIDE DEF t
<1>4. QED
  BY <1>1, <1>3, OrderLoopMoves

LEMMA OrderHubBroadcast ==
    ASSUME TypeOK, TypeOK', SafeInv, OrderInv, DoubtOK, NEW i \in Instances, NEW m \in Broadcasts,
           HubBroadcast(i, m)
    PROVE  OrderInv' /\ [BestEffort!Next]_<<accepted, sent, Doubtful>>
<1> DEFINE t == [at |-> "deliver", msg |-> m, todo |-> Recipients(i, m)]
<1>1. /\ ~Accepted(m) /\ accepted' = [accepted EXCEPT ![i] = Append(@, m)]
      /\ work' = [work EXCEPT ![i]["hub"] = t]
      /\ UNCHANGED <<sent, inbox, direct, givenUp>>
  BY DEF HubBroadcast, MayAccept, attempts
<1>2. "hub" \in Loops /\ "sub" \in Loops /\ m \in Msgs /\ i \in Sources
  BY DEF Loops, Msgs, Sources
<1>3. t \in Task /\ t.msg = m /\ t.todo = Recipients(i, m)
  BY <1>2 DEF Task, Recipients, Mapped
<1> HIDE DEF t
<1>4. \A j \in Instances, h \in Loops : work'[j][h] = IF j = i /\ h = "hub" THEN t ELSE work[j][h]
  BY <1>1 DEF TypeOK
<1>5. \A j \in Instances : j # i => work'[j] = work[j]
  BY <1>1 DEF TypeOK
<1>6. work'[i]["hub"].msg = m /\ \A j \in Instances : work'[j]["sub"] = work[j]["sub"]
  BY <1>2, <1>3, <1>4
<1>7. LogsOK' /\ GotOK' /\ HandOK' /\ DueOK' /\ InboxOK' /\ SubOK'
  BY <1>1, <1>2, <1>5, <1>6, OrderAccept
<1>8. AimOK'
  BY <1>3, <1>4, RecipientsAim, AimStep DEF OrderInv
<1>9. BestEffort!Accept(i, m)
  BY <1>1 DEF BestEffort!Accept, Accepted, Doubtful
<1>10. QED
  BY <1>2, <1>7, <1>8, <1>9 DEF OrderInv, BestEffort!Next

LEMMA OrderDirectCall ==
    ASSUME TypeOK, TypeOK', SafeInv, OrderInv, DoubtOK, NEW i \in Instances, NEW m \in Directs,
           DirectCall(i, m)
    PROVE  OrderInv' /\ [BestEffort!Next]_<<accepted, sent, Doubtful>>
<1>1. /\ ~Accepted(m) /\ accepted' = [accepted EXCEPT ![m] = Append(@, m)]
      /\ direct' = [direct EXCEPT ![m] = [at |-> "deliver", on |-> i]]
      /\ UNCHANGED <<sent, inbox, work, givenUp>>
  BY DEF DirectCall, MayAccept, attempts
<1>2. m \in Msgs /\ m \in Sources
  BY DEF Msgs, Sources
<1>3. LogsOK' /\ GotOK' /\ HandOK' /\ DueOK' /\ InboxOK' /\ SubOK'
  BY <1>1, <1>2, OrderAccept
<1>4. AimOK'
  BY <1>1, AimStep DEF OrderInv
<1>5. BestEffort!Accept(m, m)
  BY <1>1 DEF BestEffort!Accept, Accepted, Doubtful
<1>6. QED
  BY <1>2, <1>3, <1>4, <1>5 DEF OrderInv, BestEffort!Next

LEMMA OrderHubPublish ==
    ASSUME TypeOK, SafeInv, OrderInv, NEW i \in Instances, HubPublish(i)
    PROVE  OrderInv' /\ [BestEffort!Next]_<<accepted, sent, Doubtful>>
<1>1. PICK m \in Msgs : m = work[i]["hub"].msg /\ m \in Broadcasts
  BY DEF HubPublish, TypeOK, Loops, Msgs
<1>2. /\ work[i]["hub"].at = "publish" /\ Publish(i, m)
      /\ work' = [work EXCEPT ![i]["hub"] = Idle]
      /\ UNCHANGED <<accepted, sent, direct, givenUp>> /\ Doubtful' = Doubtful
  BY <1>1 DEF HubPublish, attempts, Doubtful
<1>3. "hub" \in Loops /\ "sub" \in Loops /\ Idle.at = "wait" /\ Idle.todo = {}
      /\ Idle \in Task /\ Broadcasts \cap Directs = {}
  BY ShapeAssumption DEF Loops, Idle, Task
<1>4. \A j \in Instances, h \in Loops : work'[j][h] = IF j = i /\ h = "hub" THEN Idle ELSE work[j][h]
  BY <1>2, <1>3 DEF TypeOK
<1>5. InHand(i, m)
  BY <1>1, <1>2 DEF InHand
<1>6. /\ ~(InHand(i, m))'
      /\ \A j \in Instances, n \in Msgs : (InHand(j, n))' => InHand(j, n)
  BY <1>1, <1>2, <1>3, <1>4 DEF InHand
<1>7. LogsOK' /\ GotOK' /\ HandOK' /\ DueOK' /\ InboxOK' /\ SubOK'
  BY <1>2, <1>3, <1>4, <1>5, <1>6, OrderPublish
<1>8. AimOK'
  BY <1>3, <1>4, AimStep DEF OrderInv
<1>9. QED
  BY <1>2, <1>7, <1>8 DEF OrderInv

LEMMA OrderDirectPublish ==
    ASSUME TypeOK, SafeInv, OrderInv, NEW m \in Directs, DirectPublish(m)
    PROVE  OrderInv' /\ [BestEffort!Next]_<<accepted, sent, Doubtful>>
<1>1. PICK i \in Instances : i = direct[m].on
  BY DEF DirectPublish, TypeOK
<1>2. /\ direct[m].at = "publish" /\ Publish(i, m) /\ m \in Msgs /\ m \notin Broadcasts
      /\ direct' = [direct EXCEPT ![m].at = "idle"]
      /\ UNCHANGED <<accepted, sent, work, givenUp>> /\ Doubtful' = Doubtful
  BY <1>1, ShapeAssumption DEF DirectPublish, Msgs, attempts, Doubtful
<1>3. \A d \in Directs : /\ direct'[d].on = direct[d].on
                         /\ direct'[d].at = IF d = m THEN "idle" ELSE direct[d].at
  BY <1>2 DEF TypeOK, Call
<1>4. InHand(i, m)
  BY <1>1, <1>2 DEF InHand
<1>5. /\ ~(InHand(i, m))'
      /\ \A j \in Instances, n \in Msgs : (InHand(j, n))' => InHand(j, n)
  BY <1>1, <1>2, <1>3 DEF InHand
<1>6. LogsOK' /\ GotOK' /\ HandOK' /\ DueOK' /\ InboxOK' /\ SubOK'
  BY <1>2, <1>3, <1>4, <1>5, OrderPublish
<1>7. AimOK'
  BY <1>2, AimStep DEF OrderInv
<1>8. QED
  BY <1>2, <1>6, <1>7 DEF OrderInv

LEMMA OrderDirectSend ==
    ASSUME TypeOK, SafeInv, OrderInv, NEW m \in Directs, DirectSend(m)
    PROVE  OrderInv' /\ [BestEffort!Next]_<<accepted, sent, Doubtful>>
<1>1. PICK i \in Instances : i = direct[m].on
  BY DEF DirectSend, TypeOK
<1>2. /\ direct[m].at = "deliver" /\ PushToClient(i, m) /\ m \in Msgs
      /\ direct' = [direct EXCEPT ![m].at = IF PubSubOn THEN "publish" ELSE "idle"]
      /\ UNCHANGED <<accepted, work, inbox, givenUp>>
  BY <1>1 DEF DirectSend, Msgs, attempts
<1>3. \A d \in Directs : /\ direct'[d].on = direct[d].on
                         /\ d # m => direct'[d].at = direct[d].at
                         /\ direct'[m].at # "deliver"
  BY <1>2 DEF TypeOK, Call
<1>4. InHand(i, m)
  BY <1>1, <1>2 DEF InHand
<1>5. \A c \in Conns : ~Got(c, m)
  BY <1>2 DEF OrderInv, DueOK
<1>6. QED
  BY <1>2, <1>3, <1>4, <1>5, HandFacts, OrderPushToClient

(* Without its first message an inbox holds the others, each one earlier. *)
LEMMA DropFirst ==
    ASSUME NEW S, NEW s \in Seq(S), 1 \in DOMAIN s
    PROVE  \A k \in DOMAIN Drop(s, 1) :
              /\ k \in Nat \ {0} /\ k + 1 \in DOMAIN s /\ Drop(s, 1)[k] = s[k + 1]
<1>1. PICK z \in Nat : z = Len(s) /\ DOMAIN s = 1 .. z
  OBVIOUS
<1>2. Drop(s, 1) = [n \in 1 .. z - 1 |-> IF n < 1 THEN s[n] ELSE s[n + 1]]
  BY <1>1 DEF Drop
<1>3. QED
  BY <1>1, <1>2

LEMMA OrderSubReceive ==
    ASSUME TypeOK, SafeInv, OrderInv, DoubtOK, NEW i \in Instances, SubReceive(i)
    PROVE  OrderInv' /\ [BestEffort!Next]_<<accepted, sent, Doubtful>>
<1>1. PICK e \in Envelope : e = inbox[i][1] /\ 1 \in DOMAIN inbox[i]
  BY DEF SubReceive, NextPositions, TypeOK
<1>2. /\ work[i]["sub"].at = "wait" /\ UNCHANGED <<accepted, direct, givenUp>> /\ Doubtful' = Doubtful
      /\ inbox' = [inbox EXCEPT ![i] = Drop(@, 1)]
      /\ \/ e.origin = i /\ UNCHANGED <<work, sent>>
         \/ /\ e.origin # i /\ e.msg \in Broadcasts /\ UNCHANGED sent
            /\ work' = [work EXCEPT ![i]["sub"] =
                  [at |-> "deliver", msg |-> e.msg, todo |-> Recipients(i, e.msg)]]
         \/ /\ e.origin # i /\ e.msg \in Directs
            /\ PushToClient(i, e.msg) /\ UNCHANGED work
  BY <1>1 DEF SubReceive, NextPositions, Foreign, attempts, Doubtful
<1>3. /\ \A k \in DOMAIN inbox'[i] : /\ k \in Nat \ {0} /\ k + 1 \in DOMAIN inbox[i]
                                     /\ inbox'[i][k] = inbox[i][k + 1]
      /\ \A j \in Instances : j # i => inbox'[j] = inbox[j]
  BY <1>1, <1>2, DropFirst DEF TypeOK
<1>4. "hub" \in Loops /\ "sub" \in Loops /\ e.msg \in Msgs /\ e.origin \in Instances
  BY DEF Loops, Envelope, Msgs, SubReceive
<1>5. CASE e.origin = i /\ UNCHANGED <<work, sent>>
  <2>1. /\ \A j \in Instances, n \in Msgs : (InHand(j, n))' => InHand(j, n)
        /\ \A j \in Instances, n \in Msgs : (SubHas(j, n))' => SubHas(j, n)
        /\ \A c \in Conns, n \in Msgs : (Got(c, n))' => Got(c, n)
        /\ NONE \notin Conns
    BY <1>2, <1>5, ShapeAssumption DEF InHand, SubHas, Got
  <2>2. \A j \in Instances :
          \/ inbox'[j] = inbox[j]
          \/ \A k \in DOMAIN inbox'[j] :
                k \in Nat /\ k + 1 \in DOMAIN inbox[j] /\ inbox'[j][k] = inbox[j][k + 1]
    BY <1>3
  <2>3. LogsOK' /\ GotOK' /\ HandOK' /\ DueOK' /\ InboxOK' /\ SubOK'
    BY <1>2, <1>5, <2>1, <2>2, Progress
  <2>4. AimOK'
    BY <1>5, AimStep DEF OrderInv
  <2>5. QED
    BY <1>2, <1>5, <2>3, <2>4 DEF OrderInv
<1>6. ASSUME e.origin # i, e.msg \in Broadcasts, UNCHANGED sent,
             work' = [work EXCEPT ![i]["sub"] =
                 [at |-> "deliver", msg |-> e.msg, todo |-> Recipients(i, e.msg)]]
      PROVE  OrderInv' /\ [BestEffort!Next]_<<accepted, sent, Doubtful>>
  <2> DEFINE t == [at |-> "deliver", msg |-> e.msg, todo |-> Recipients(i, e.msg)]
  <2>1. /\ work' = [work EXCEPT ![i]["sub"] = t]
        /\ t \in Task /\ t.msg = e.msg /\ t.todo = Recipients(i, e.msg)
    BY <1>4, <1>6 DEF Task, Recipients, Mapped
  <2> HIDE DEF t
  <2>2. \A j \in Instances, h \in Loops : work'[j][h] = IF j = i /\ h = "sub" THEN t ELSE work[j][h]
    BY <1>4, <2>1 DEF TypeOK
  <2>3. \A j \in Instances : j # i => work'[j] = work[j]
    BY <2>1 DEF TypeOK
  <2>4. t.todo \subseteq Mapped(i)
    BY <2>1 DEF Recipients
  <2>5. work'[i]["hub"] = work[i]["hub"] /\ work'[i]["sub"] = t
    BY <1>4, <2>2
  <2>6. LogsOK' /\ GotOK' /\ HandOK' /\ DueOK' /\ InboxOK' /\ SubOK'
    BY <1>1, <1>2, <1>3, <1>6, <2>1, <2>3, <2>4, <2>5, OrderTake
  <2>7. AimOK'
    BY <1>6, <2>1, <2>2, RecipientsAim, AimStep DEF OrderInv
  <2>8. QED
    BY <1>2, <1>6, <2>6, <2>7 DEF OrderInv
<1>7. ASSUME e.origin # i, e.msg \in Directs, PushToClient(i, e.msg), UNCHANGED work
      PROVE  OrderInv' /\ [BestEffort!Next]_<<accepted, sent, Doubtful>>
  <2>1. PICK m \in Directs : m = e.msg /\ m \in Msgs
    BY <1>4, <1>7
  <2>2. /\ \E j \in Instances : From(j, m)
        /\ \A l \in DOMAIN inbox[i] : 1 < l => ~Later(inbox[i][l].msg, m)
        /\ \A c \in Conns, n \in Msgs : (InstanceOf[c] = i /\ Later(m, n)) => ~Got(c, n)
    BY <1>1, <1>4, <1>7, <2>1 DEF OrderInv, InboxOK
  <2>3. \A j \in Instances : InHand(j, m) => m \in Doubtful
    BY <1>1, <2>1 DEF OrderInv, HandOK, Unpublished
  <2>4. direct'[m].at # "deliver"
    BY <1>2, <2>3 DEF InHand, TypeOK, DoubtOK
  <2>5. \A k \in DOMAIN inbox'[i] : ~Later(inbox'[i][k].msg, m)
    <3>1. \A k \in Nat \ {0} : 1 < k + 1
      OBVIOUS
    <3>2. QED
      BY <1>3, <2>2, <3>1
  <2>6. \A n \in Msgs : ~SubHas(i, n)
    BY <1>2 DEF SubHas
  <2>7. \A j \in Instances :
          \/ inbox'[j] = inbox[j]
          \/ \A k \in DOMAIN inbox'[j] :
                k \in Nat /\ k + 1 \in DOMAIN inbox[j] /\ inbox'[j][k] = inbox[j][k + 1]
    BY <1>3
  <2>8. PushToClient(i, m)
    BY <1>7, <2>1
  <2>9. QED
    BY <1>2, <1>7, <2>2, <2>3, <2>4, <2>5, <2>6, <2>7, <2>8, OrderPushToClient
<1>8. QED
  BY <1>2, <1>5, <1>6, <1>7

(* An attempt to publish m that is given up puts m in doubt. *)
LEMMA DoubtGrows ==
    ASSUME TypeOK, NEW i \in Instances, NEW m \in Msgs, Unanswered(i, m)
    PROVE  Doubtful' = Doubtful \cup {m}
<1>1. givenUp' = [givenUp EXCEPT ![m] = @ + 1] /\ givenUp \in [Msgs -> 0 .. MaxSends]
      /\ MaxSends \in Nat
  BY ShapeAssumption DEF Unanswered, TypeOK
<1>2. \A n \in Msgs : givenUp'[n] > 0 <=> givenUp[n] > 0 \/ n = m
  BY <1>1
<1>3. QED
  BY <1>2 DEF Doubtful

LEMMA OrderUnanswered ==
    ASSUME TypeOK, OrderInv, NEW i \in Instances, NEW m \in Msgs, InHand(i, m), Unanswered(i, m),
           UNCHANGED <<accepted, sent>>
    PROVE  [BestEffort!Next]_<<accepted, sent, Doubtful>>
<1>1. PICK s \in Sources : InLog(s, m)
  BY HandFacts
<1>2. BestEffort!Doubt(m)
  BY <1>1, DoubtGrows DEF BestEffort!Doubt, InLog
<1>3. QED
  BY <1>2 DEF BestEffort!Next

LEMMA OrderHubUnanswered ==
    ASSUME TypeOK, SafeInv, OrderInv, NEW i \in Instances, HubUnanswered(i)
    PROVE  OrderInv' /\ [BestEffort!Next]_<<accepted, sent, Doubtful>>
<1>1. PICK m \in Msgs : m = work[i]["hub"].msg /\ m \in Broadcasts
  BY DEF HubUnanswered, TypeOK, Loops, Msgs
<1>2. /\ work[i]["hub"].at = "publish" /\ Unanswered(i, m)
      /\ work' = work \/ work' = [work EXCEPT ![i]["hub"] = Idle]
      /\ UNCHANGED <<accepted, sent, inbox, direct>>
  BY <1>1 DEF HubUnanswered
<1>3. InHand(i, m) /\ \A n \in Doubtful : (n \in Doubtful)'
  BY <1>1, <1>2, DoubtGrows DEF InHand
<1>4. OrderInv'
  <2>1. CASE work' = work
    BY <1>2, <1>3, <2>1, OrderQuiet
  <2>2. CASE work' = [work EXCEPT ![i]["hub"] = Idle]
    <3>1. Idle \in Task /\ Idle.todo = {} /\ Idle.at = "wait" /\ "hub" \in Loops
      BY DEF Idle, Task, Loops
    <3>2. QED
      BY <1>2, <1>3, <2>2, <3>1, OrderLoopMoves
  <2>3. QED
    BY <1>2, <2>1, <2>2
<1>5. QED
  BY <1>2, <1>3, <1>4, OrderUnanswered

LEMMA OrderDirectUnanswered ==
    ASSUME TypeOK, SafeInv, OrderInv, NEW m \in Directs, DirectUnanswered(m)
    PROVE  OrderInv' /\ [BestEffort!Next]_<<accepted, sent, Doubtful>>
<1>1. PICK i \in Instances : i = direct[m].on
  BY DEF DirectUnanswered, TypeOK
<1>2. /\ direct[m].at = "publish" /\ Unanswered(i, m) /\ m \in Msgs
      /\ direct' = direct \/ direct' = [direct EXCEPT ![m].at = "idle"]
      /\ UNCHANGED <<accepted, sent, inbox, work>>
  BY <1>1 DEF DirectUnanswered, Msgs
<1>3. InHand(i, m) /\ \A n \in Doubtful : (n \in Doubtful)'
  BY <1>1, <1>2, DoubtGrows DEF InHand
<1>4. \A d \in Directs : /\ direct'[d].on = direct[d].on
                         /\ direct'[d].at \in {direct[d].at, "idle"}
  <2>1. CASE direct' = direct
    BY <2>1
  <2>2. CASE direct' = [direct EXCEPT ![m].at = "idle"]
    BY <2>2 DEF TypeOK, Call
  <2>3. QED
    BY <1>2, <2>1, <2>2
<1>5. QED
  BY <1>2, <1>3, <1>4, OrderQuiet, OrderUnanswered

(* Redis executes an attempt that was given up. *)
LEMMA OrderLatePublish ==
    ASSUME TypeOK, SafeInv, OrderInv, DoubtOK, NEW i \in Instances, NEW m \in Msgs, LatePublish(i, m)
    PROVE  OrderInv' /\ [BestEffort!Next]_<<accepted, sent, Doubtful>>
<1>1. /\ late[i][m] > 0 /\ Publish(i, m) /\ Doubtful' = Doubtful
      /\ UNCHANGED <<accepted, sent, work, direct, givenUp>>
  BY DEF LatePublish, Doubtful
<1>2. m \in Doubtful /\ From(i, m)
  BY <1>1 DEF DoubtOK
<1>3. \A j \in Instances, n \in Msgs : (InHand(j, n))' => InHand(j, n)
  BY <1>1 DEF InHand
<1>4. LogsOK' /\ GotOK' /\ HandOK' /\ DueOK' /\ InboxOK' /\ SubOK'
  BY <1>1, <1>2, <1>3, OrderPublish
<1>5. AimOK'
  BY <1>1, AimStep DEF OrderInv
<1>6. QED
  BY <1>1, <1>4, <1>5 DEF OrderInv

LEMMA OrderStep ==
    ASSUME TypeOK, SafeInv, OrderInv, DoubtOK, [Next]_vars
    PROVE  OrderInv' /\ [BestEffort!Next]_<<accepted, sent, Doubtful>>
<1>1. TypeOK'
  BY TypeStep
<1>2. CASE UNCHANGED <<accepted, sent, work, inbox, direct, givenUp>>
  BY <1>2, OrderQuiet DEF Doubtful
<1>3. CASE \E i \in Instances, g \in Loops, c \in Conns : SendOne(i, g, c)
  BY <1>3, OrderSendOne
<1>4. CASE \E i \in Instances, g \in Loops : DeliverEnd(i, g) \/ LoopStop(i, g)
  BY <1>4, OrderDeliverEnd, OrderLoopStop
<1>5. CASE \E i \in Instances : \/ \E m \in Broadcasts : HubBroadcast(i, m)
                                \/ \E m \in Directs : DirectCall(i, m)
  BY <1>1, <1>5, OrderHubBroadcast, OrderDirectCall
<1>6. CASE \E i \in Instances : HubPublish(i) \/ HubUnanswered(i) \/ SubReceive(i)
  BY <1>6, OrderHubPublish, OrderHubUnanswered, OrderSubReceive
<1>7. CASE \E m \in Directs : DirectSend(m) \/ DirectPublish(m) \/ DirectUnanswered(m)
  BY <1>7, OrderDirectSend, OrderDirectPublish, OrderDirectUnanswered
<1>8. CASE \E i \in Instances, m \in Msgs : LatePublish(i, m)
  BY <1>8, OrderLatePublish
<1>9. QED
  BY <1>2, <1>3, <1>4, <1>5, <1>6, <1>7, <1>8
     DEF Next, Handler, Writer, Loop, Register, Unregister, ReaderExit, Disconnect,
         WriterTake, WriterStop, Shutdown, vars, attempts

-----------------------------------------------------------------------------
(* What comes from an instance stays so, and only what nobody has accepted *)
(* can newly come from one.                                               *)
LEMMA FromStep ==
    ASSUME TypeOK, [Next]_vars
    PROVE  /\ \A i \in Instances, m \in Msgs : From(i, m) => (From(i, m))'
           /\ \A i \in Instances, m \in Msgs : (From(i, m))' => From(i, m) \/ ~Accepted(m)
<1>1. /\ accepted \in [Sources -> Seq(Msgs)] /\ Sources = Instances \cup Directs
      /\ direct \in [Directs -> Call]
  BY DEF TypeOK, Sources
<1>2. ASSUME NEW s \in Sources, NEW n \in Msgs, accepted' = [accepted EXCEPT ![s] = Append(@, n)]
      PROVE  \A r \in Sources, m \in Msgs : (InLog(r, m))' <=> InLog(r, m) \/ (r = s /\ m = n)
  <2>1. PICK z \in Nat : z = Len(accepted[s]) /\ DOMAIN accepted[s] = 1 .. z
    BY <1>1
  <2>2. /\ DOMAIN accepted'[s] = 1 .. (z + 1) /\ accepted'[s][z + 1] = n
        /\ \A a \in 1 .. z : accepted'[s][a] = accepted[s][a]
    BY <1>1, <1>2, <2>1, AppendProperties
  <2>3. \A r \in Sources : r # s => accepted'[r] = accepted[r]
    BY <1>1, <1>2
  <2>4. ASSUME NEW r \in Sources, NEW m \in Msgs
        PROVE  (InLog(r, m))' <=> InLog(r, m) \/ (r = s /\ m = n)
    <3>1. CASE r = s
      BY <2>1, <2>2, <3>1 DEF InLog
    <3>2. CASE r # s
      BY <2>3, <3>2 DEF InLog
    <3>3. QED
      BY <3>1, <3>2
  <2>5. QED
    BY <2>4
<1>3. ASSUME NEW i \in Instances, NEW n \in Broadcasts, HubBroadcast(i, n)
      PROVE  /\ \A j \in Instances, m \in Msgs : From(j, m) => (From(j, m))'
             /\ \A j \in Instances, m \in Msgs : (From(j, m))' => From(j, m) \/ ~Accepted(m)
  <2>1. /\ accepted' = [accepted EXCEPT ![i] = Append(@, n)] /\ ~Accepted(n) /\ UNCHANGED direct
        /\ i \in Sources /\ n \in Msgs
    BY <1>1, <1>3 DEF HubBroadcast, MayAccept, Msgs
  <2>2. \A r \in Sources, m \in Msgs : (InLog(r, m))' <=> InLog(r, m) \/ (r = i /\ m = n)
    BY <1>2, <2>1
  <2>3. QED
    BY <1>1, <2>1, <2>2 DEF From
<1>4. ASSUME NEW i \in Instances, NEW n \in Directs, DirectCall(i, n)
      PROVE  /\ \A j \in Instances, m \in Msgs : From(j, m) => (From(j, m))'
             /\ \A j \in Instances, m \in Msgs : (From(j, m))' => From(j, m) \/ ~Accepted(m)
  <2>1. /\ accepted' = [accepted EXCEPT ![n] = Append(@, n)] /\ ~Accepted(n)
        /\ direct' = [direct EXCEPT ![n] = [at |-> "deliver", on |-> i]]
        /\ n \in Sources /\ n \in Msgs
    BY <1>1, <1>4 DEF DirectCall, MayAccept, Msgs
  <2>2. \A r \in Sources, m \in Msgs : (InLog(r, m))' <=> InLog(r, m) \/ (r = n /\ m = n)
    BY <1>2, <2>1
  <2>3. ~InLog(n, n) /\ \A d \in Directs : d # n => direct'[d] = direct[d]
    BY <1>1, <2>1 DEF Accepted, InLog
  <2>4. QED
    BY <1>1, <2>1, <2>2, <2>3 DEF From
<1>5. CASE UNCHANGED accepted /\ \A d \in Directs : direct'[d].on = direct[d].on
  BY <1>5 DEF From, InLog
<1>6. ASSUME NEW d \in Directs, DirectSend(d) \/ DirectPublish(d) \/ DirectUnanswered(d)
      PROVE  accepted' = accepted /\ \A n \in Directs : direct'[n].on = direct[n].on
  <2>1. accepted' = accepted
    BY <1>6 DEF DirectSend, DirectPublish, DirectUnanswered
  <2>2. \/ direct' = direct
        \/ direct' = [direct EXCEPT ![d].at = "idle"]
        \/ direct' = [direct EXCEPT ![d].at = "publish"]
    BY <1>6 DEF DirectSend, DirectPublish, DirectUnanswered
  <2>3. ASSUME NEW n \in Directs
        PROVE  direct'[n].on = direct[n].on
    <3>1. direct[n] \in Call /\ direct[d] \in Call
      BY <1>1
    <3>2. CASE direct' = direct
      BY <3>2
    <3>3. CASE direct' = [direct EXCEPT ![d].at = "idle"]
      BY <1>1, <3>1, <3>3 DEF Call
    <3>4. CASE direct' = [direct EXCEPT ![d].at = "publish"]
      BY <1>1, <3>1, <3>4 DEF Call
    <3>5. QED
      BY <2>2, <3>2, <3>3, <3>4
  <2>4. QED
    BY <2>1, <2>3
<1>7. QED
  BY <1>3, <1>4, <1>5, <1>6
     DEF Next, Handler, Writer, Loop, Register, Unregister, ReaderExit, Disconnect, WriterTake,
         WriterStop, Shutdown, SendOne, DeliverEnd, LoopStop, HubPublish, HubUnanswered,
         LatePublish, SubReceive, vars

(* Doubts arise only about what an instance has published.                *)
LEMMA DoubtInit == Init => DoubtOK
<1> SUFFICES ASSUME Init PROVE DoubtOK
  OBVIOUS
<1>1. Doubtful = {} /\ \A i \in Instances, m \in Msgs : ~(late[i][m] > 0)
  BY DEF Init, Doubtful
<1>2. QED
  BY <1>1 DEF DoubtOK

LEMMA DoubtStep ==
    ASSUME TypeOK, OrderInv, DoubtOK, [Next]_vars
    PROVE  DoubtOK'
<1>T. /\ Broadcasts \cap Directs = {} /\ Msgs = Broadcasts \cup Directs
      /\ late \in [Instances -> [Msgs -> Nat]] /\ direct \in [Directs -> Call]
      /\ work \in [Instances -> [Loops -> Task]] /\ "hub" \in Loops /\ "sub" \in Loops
  BY ShapeAssumption DEF TypeOK, Msgs, Loops
<1>F. \A i \in Instances, m \in Msgs : From(i, m) => (From(i, m))'
  BY FromStep
<1>N. \A m \in Msgs : ~Accepted(m) => m \notin Doubtful
  <2>1. \A m \in Msgs, i \in Instances : From(i, m) => Accepted(m)
    <3>1. \A m \in Msgs, i \in Instances : From(i, m) => \E s \in Sources : InLog(s, m)
      BY OneSource DEF OrderInv
    <3>2. QED
      BY <3>1 DEF InLog, Accepted
  <2>2. QED
    BY <2>1 DEF DoubtOK, Doubtful
<1>1. ASSUME UNCHANGED attempts,
             \A i \in Instances : work'[i]["hub"].at = "deliver" =>
                work'[i]["hub"].msg \notin Doubtful,
             \A d \in Directs : direct'[d].at = "deliver" => d \notin Doubtful
      PROVE  DoubtOK'
  BY <1>1, <1>F DEF DoubtOK, Doubtful, attempts
<1>2. ASSUME NEW i \in Instances, NEW m \in Msgs, From(i, m), Unanswered(i, m),
             \A j \in Instances : work'[j]["hub"].at = "deliver" =>
                /\ work[j]["hub"].at = "deliver" /\ work'[j]["hub"].msg = work[j]["hub"].msg
                /\ work'[j]["hub"].msg # m,
             \A d \in Directs : direct'[d].at = "deliver" => direct[d].at = "deliver" /\ d # m
      PROVE  DoubtOK'
  <2>1. Doubtful' = Doubtful \cup {m}
    BY <1>2, DoubtGrows
  <2>2. \A j \in Instances, n \in Msgs : late'[j][n] > 0 => late[j][n] > 0 \/ (j = i /\ n = m)
    BY <1>2, <1>T DEF Unanswered
  <2>3. \A n \in Doubtful' : n \in Msgs /\ (n = m \/ n \in Doubtful)
    BY <2>1 DEF Doubtful
  <2>4. \A n \in Doubtful' : \E j \in Instances : (From(j, n))'
    BY <1>2, <1>F, <2>3 DEF DoubtOK
  <2>5. \A j \in Instances, n \in Msgs : late'[j][n] > 0 => n \in Doubtful' /\ (From(j, n))'
    BY <1>2, <1>F, <2>1, <2>2 DEF DoubtOK
  <2>6. QED
    BY <1>2, <2>1, <2>4, <2>5 DEF DoubtOK
<1>3. ASSUME NEW i \in Instances, NEW m \in Broadcasts, HubBroadcast(i, m) PROVE DoubtOK'
  <2> DEFINE t == [at |-> "deliver", msg |-> m, todo |-> Recipients(i, m)]
  <2>1. /\ UNCHANGED <<attempts, direct>> /\ ~Accepted(m) /\ m \in Msgs /\ t.msg = m
        /\ work' = [work EXCEPT ![i]["hub"] = t]
    BY <1>3 DEF HubBroadcast, MayAccept, Msgs
  <2> HIDE DEF t
  <2>2. \A j \in Instances : work'[j]["hub"] = IF j = i THEN t ELSE work[j]["hub"]
    BY <1>T, <2>1
  <2>3. QED
    BY <1>1, <1>N, <2>1, <2>2 DEF DoubtOK
<1>4. ASSUME NEW i \in Instances, NEW m \in Directs, DirectCall(i, m) PROVE DoubtOK'
  <2>1. /\ UNCHANGED <<attempts, work>> /\ ~Accepted(m) /\ m \in Msgs
        /\ \A d \in Directs : d # m => direct'[d] = direct[d]
    BY <1>4 DEF DirectCall, MayAccept, Msgs
  <2>2. QED
    BY <1>1, <1>N, <2>1 DEF DoubtOK
<1>5. ASSUME NEW i \in Instances, NEW g \in Loops, NEW t \in Task, work' = [work EXCEPT ![i][g] = t],
             t.at # "deliver" \/ (work[i][g].at = "deliver" /\ t.msg = work[i][g].msg) \/ g = "sub",
             UNCHANGED <<attempts, direct>>
      PROVE  DoubtOK'
  <2>1. \A j \in Instances : work'[j]["hub"] = IF j = i /\ g = "hub" THEN t ELSE work[j]["hub"]
    BY <1>T, <1>5
  <2>2. QED
    BY <1>1, <1>5, <2>1 DEF DoubtOK
<1>6. ASSUME NEW i \in Instances, NEW g \in Loops, NEW c \in Conns, SendOne(i, g, c) PROVE DoubtOK'
  <2> DEFINE t == [work[i][g] EXCEPT !.todo = @ \ {c}]
  <2>1. work[i][g] \in Task
    BY <1>T
  <2>2. t \in Task /\ t.msg = work[i][g].msg /\ work[i][g].at = "deliver"
        /\ work' = [work EXCEPT ![i][g] = t] /\ UNCHANGED <<attempts, direct>>
    BY <1>6, <2>1 DEF SendOne, Task
  <2> HIDE DEF t
  <2>3. QED
    BY <1>5, <2>2
<1>7. ASSUME NEW i \in Instances, NEW g \in Loops, DeliverEnd(i, g) \/ LoopStop(i, g) PROVE DoubtOK'
  <2>1. work[i][g] \in Task /\ Idle \in Task /\ Idle.at = "wait"
    BY <1>T DEF Idle, Task
  <2>2. \E t \in Task : t.at # "deliver" /\ work' = [work EXCEPT ![i][g] = t]
    <3>1. [work[i][g] EXCEPT !.at = "publish"] \in Task /\ [work[i][g] EXCEPT !.at = "stopped"] \in Task
      BY <2>1 DEF Task
    <3>2. /\ [work[i][g] EXCEPT !.at = "publish"].at = "publish"
          /\ [work[i][g] EXCEPT !.at = "stopped"].at = "stopped"
      BY <2>1 DEF Task
    <3>3. \/ work' = [work EXCEPT ![i][g] = [work[i][g] EXCEPT !.at = "publish"]]
          \/ work' = [work EXCEPT ![i][g] = Idle]
          \/ work' = [work EXCEPT ![i][g] = [work[i][g] EXCEPT !.at = "stopped"]]
      BY <1>7 DEF DeliverEnd, LoopStop
    <3>4. QED
      BY <2>1, <3>1, <3>2, <3>3
  <2>3. UNCHANGED <<attempts, direct>>
    BY <1>7 DEF DeliverEnd, LoopStop
  <2>4. QED
    BY <1>5, <2>2, <2>3
<1>8. ASSUME NEW i \in Instances, HubPublish(i) PROVE DoubtOK'
  <2>1. Idle \in Task /\ Idle.at = "wait"
    BY DEF Idle, Task
  <2>2. work' = [work EXCEPT ![i]["hub"] = Idle] /\ UNCHANGED <<attempts, direct>>
    BY <1>8 DEF HubPublish
  <2>3. QED
    BY <1>T, <1>5, <2>1, <2>2
<1>9. ASSUME NEW i \in Instances, SubReceive(i) PROVE DoubtOK'
  <2>1. UNCHANGED <<attempts, direct>> /\ \A j \in Instances : work'[j]["hub"] = work[j]["hub"]
    BY <1>9, <1>T DEF SubReceive
  <2>2. QED
    BY <1>1, <2>1 DEF DoubtOK
<1>10. ASSUME NEW m \in Directs, DirectSend(m) \/ DirectPublish(m) PROVE DoubtOK'
  <2>1. UNCHANGED <<attempts, work>> /\ \E a \in {"idle", "publish"} : direct' = [direct EXCEPT ![m].at = a]
    BY <1>10 DEF DirectSend, DirectPublish
  <2>2. \A d \in Directs : direct'[d].at = "deliver" => direct[d].at = "deliver"
    BY <1>T, <2>1 DEF Call
  <2>3. QED
    BY <1>1, <2>1, <2>2 DEF DoubtOK
<1>11. ASSUME NEW i \in Instances, HubUnanswered(i) PROVE DoubtOK'
  <2>1. PICK m \in Msgs : m = work[i]["hub"].msg /\ m \in Broadcasts
    BY <1>11, <1>T DEF HubUnanswered, TypeOK
  <2>2. /\ work[i]["hub"].at = "publish" /\ Unanswered(i, m) /\ UNCHANGED direct
        /\ work' = work \/ work' = [work EXCEPT ![i]["hub"] = Idle]
    BY <1>11, <2>1 DEF HubUnanswered
  <2>3. From(i, m)
    BY <2>1, <2>2 DEF OrderInv, HandOK, InHand
  <2>4. \A j \in Instances : work'[j]["hub"].at = "deliver" => work'[j]["hub"] = work[j]["hub"]
    BY <1>T, <2>2 DEF Idle
  <2>5. \A j \in Instances : work[j]["hub"].at = "deliver" => work[j]["hub"].msg # m
    <3> SUFFICES ASSUME NEW j \in Instances, work[j]["hub"].at = "deliver", work[j]["hub"].msg = m
                 PROVE  FALSE
      OBVIOUS
    <3>1. From(j, m)
      BY <2>1 DEF OrderInv, HandOK, InHand
    <3>2. QED
      BY <2>2, <2>3, <3>1, OneSource DEF OrderInv
  <2>6. \A d \in Directs : d # m
    BY <1>T, <2>1
  <2>7. QED
    BY <1>2, <2>2, <2>3, <2>4, <2>5, <2>6
<1>12. ASSUME NEW m \in Directs, DirectUnanswered(m) PROVE DoubtOK'
  <2>1. PICK i \in Instances : i = direct[m].on
    BY <1>12 DEF DirectUnanswered, TypeOK
  <2>2. /\ direct[m].at = "publish" /\ Unanswered(i, m) /\ UNCHANGED work /\ m \in Msgs
        /\ direct' = direct \/ direct' = [direct EXCEPT ![m].at = "idle"]
    BY <1>12, <2>1 DEF DirectUnanswered, Msgs
  <2>3. From(i, m)
    BY <2>1, <2>2 DEF OrderInv, HandOK, InHand
  <2>4. \A d \in Directs : direct'[d].at = "deliver" => direct[d].at = "deliver" /\ d # m
    <3>1. CASE direct' = direct
      BY <2>2, <3>1
    <3>2. CASE direct' = [direct EXCEPT ![m].at = "idle"]
      BY <1>T, <3>2 DEF Call
    <3>3. QED
      BY <2>2, <3>1, <3>2
  <2>5. \A j \in Instances : work[j]["hub"].at = "deliver" => work[j]["hub"].msg # m
    BY <1>T DEF TypeOK
  <2>6. QED
    BY <1>2, <2>2, <2>3, <2>4, <2>5
<1>13. ASSUME NEW i \in Instances, NEW m \in Msgs, LatePublish(i, m) PROVE DoubtOK'
  <2>1. /\ UNCHANGED <<work, direct, givenUp>>
        /\ \A j \in Instances, n \in Msgs : late'[j][n] > 0 => late[j][n] > 0
    BY <1>13, <1>T DEF LatePublish
  <2>2. QED
    BY <1>F, <2>1 DEF DoubtOK, Doubtful
<1>14. CASE UNCHANGED <<attempts, work, direct>>
  BY <1>1, <1>14 DEF DoubtOK
<1>15. QED
  BY <1>3, <1>4, <1>6, <1>7, <1>8, <1>9, <1>10, <1>11, <1>12, <1>13, <1>14
     DEF Next, Handler, Writer, Loop, Register, Unregister, ReaderExit, Disconnect,
         WriterTake, WriterStop, Shutdown, vars, attempts

(* The hub of the instances, its subscriptions and its connections implement *)
(* best-effort broadcast: what a connection is given was accepted and is    *)
(* addressed to it, and unless an attempt to publish it was given up it     *)
(* comes at most once, although it may come both from the connection's own *)
(* instance and through Redis, and in the order in which its source        *)
(* accepted it.                                                           *)
THEOREM HubDeliversBestEffort == Spec => BestEffortBroadcast
<1>1. Init => TypeOK /\ SafeInv /\ OrderInv /\ DoubtOK /\ BestEffort!Init
  <2>1. Init => Doubtful = {}
    BY DEF Init, Doubtful
  <2>2. QED
    BY <2>1, TypeInit, SafeInit, OrderInit, DoubtInit DEF Init, BestEffort!Init
<1>2. TypeOK /\ SafeInv /\ OrderInv /\ DoubtOK /\ [Next]_vars =>
        (TypeOK /\ SafeInv /\ OrderInv /\ DoubtOK)' /\ [BestEffort!Next]_<<accepted, sent, Doubtful>>
  BY TypeStep, SafeStep, OrderStep, DoubtStep
<1>3. QED
  BY <1>1, <1>2, PTL DEF Spec, BestEffortBroadcast, BestEffort!Spec

-----------------------------------------------------------------------------
(* At home a message comes once, in doubt or not: from another instance it *)
(* would have to come under another origin.                               *)
HomeOK ==
    \A c \in Conns, m \in Msgs : From(InstanceOf[c], m) =>
        \A a, b \in DOMAIN sent[c] : (sent[c][a] = m /\ sent[c][b] = m) => a = b

LEMMA HomePush ==
    ASSUME TypeOK, HomeOK, NEW c \in Conns, NEW m \in Msgs, Push(c, m),
           From(InstanceOf[c], m) => ~Got(c, m),
           \A i \in Instances, n \in Msgs : (From(i, n))' => From(i, n)
    PROVE  HomeOK'
<1>1. CASE UNCHANGED sent
  BY <1>1, ShapeAssumption DEF HomeOK
<1>2. CASE sent' = [sent EXCEPT ![c] = Append(@, m)]
  <2>1. sent \in [Conns -> Seq(Msgs)]
    BY DEF TypeOK
  <2>2. PICK z \in Nat : z = Len(sent[c]) /\ DOMAIN sent[c] = 1 .. z
    BY <2>1
  <2>3. /\ DOMAIN sent'[c] = 1 .. (z + 1) /\ sent'[c][z + 1] = m
        /\ \A n \in 1 .. z : sent'[c][n] = sent[c][n]
    BY <1>2, <2>1, <2>2, AppendProperties
  <2>4. \A d \in Conns : d # c => sent'[d] = sent[d]
    BY <1>2, <2>1
  <2> SUFFICES ASSUME NEW d \in Conns, NEW n \in Msgs, From(InstanceOf[d], n),
                      NEW a \in DOMAIN sent'[d], NEW b \in DOMAIN sent'[d],
                      sent'[d][a] = n, sent'[d][b] = n
               PROVE  a = b
    BY ShapeAssumption DEF HomeOK
  <2>5. CASE d # c
    BY <2>4, <2>5 DEF HomeOK
  <2>6. CASE d = c /\ n # m
    <3>1. a \in 1 .. z /\ b \in 1 .. z /\ sent[c][a] = n /\ sent[c][b] = n
      BY <2>3, <2>6
    <3>2. QED
      BY <2>2, <2>6, <3>1 DEF HomeOK
  <2>7. CASE d = c /\ n = m
    <3>1. \A x \in 1 .. z : sent[c][x] # m
      BY <2>2, <2>7 DEF Got
    <3>2. a = z + 1 /\ b = z + 1
      BY <2>3, <2>7, <3>1
    <3>3. QED
      BY <3>2
  <2>8. QED
    BY <2>5, <2>6, <2>7
<1>3. QED
  BY <1>1, <1>2 DEF Push

LEMMA HomeStep ==
    ASSUME TypeOK, SafeInv, OrderInv, HomeOK, [Next]_vars
    PROVE  HomeOK'
<1>F. \A i \in Instances, m \in Msgs : (From(i, m))' => From(i, m) \/ ~Accepted(m)
  BY FromStep
<1>1. CASE UNCHANGED sent
  <2> SUFFICES ASSUME NEW c \in Conns, NEW m \in Msgs, (From(InstanceOf[c], m))',
                      NEW a \in DOMAIN sent[c], NEW b \in DOMAIN sent[c],
                      sent[c][a] = m, sent[c][b] = m
               PROVE  a = b
    BY <1>1 DEF HomeOK
  <2>1. PICK i \in Instances : From(i, m)
    BY DEF OrderInv, GotOK, Got
  <2>2. PICK s \in Sources : InLog(s, m)
    BY <2>1, OneSource DEF OrderInv
  <2>3. Accepted(m)
    BY <2>2 DEF InLog, Accepted
  <2>4. From(InstanceOf[c], m)
    BY <1>F, <2>3, ShapeAssumption
  <2>5. QED
    BY <2>4 DEF HomeOK
<1>2. ASSUME UNCHANGED <<accepted>>, \A d \in Directs : direct'[d].on = direct[d].on
      PROVE  \A i \in Instances, m \in Msgs : (From(i, m))' => From(i, m)
  BY <1>2 DEF From, InLog
<1>3. ASSUME NEW i \in Instances, NEW g \in Loops, NEW c \in Conns, SendOne(i, g, c)
      PROVE  HomeOK'
  <2>1. PICK m \in Msgs : m = work[i][g].msg /\ m \in Broadcasts
    BY <1>3, TodoFacts DEF SendOne
  <2>2. /\ work[i][g].at = "deliver" /\ c \in work[i][g].todo /\ Push(c, m)
        /\ UNCHANGED <<accepted, direct>> /\ InstanceOf[c] = i
    BY <1>3, <2>1, TodoFacts DEF SendOne
  <2>3. From(i, m) => ~Got(c, m)
    <3>1. CASE g = "hub"
      BY <2>1, <2>2, <3>1 DEF OrderInv, DueOK
    <3>2. CASE g = "sub"
      <4>1. SubHas(i, m)
        BY <2>1, <2>2, <3>2 DEF SubHas
      <4>2. PICK h \in Instances : h # i /\ From(h, m)
        BY <4>1 DEF OrderInv, SubOK
      <4>3. QED
        BY <4>2, OneSource DEF OrderInv
    <3>3. QED
      BY <3>1, <3>2 DEF Loops
  <2>4. QED
    BY <1>2, <2>2, <2>3, HomePush
<1>4. ASSUME NEW i \in Instances, NEW m \in Directs, PushToClient(i, m), UNCHANGED accepted,
             \A d \in Directs : direct'[d].on = direct[d].on,
             From(i, m) => \A c \in Conns : ~Got(c, m)
      PROVE  HomeOK'
  <2>1. CASE clients[i][Target[m]] = NONE
    BY <1>1, <1>4, <2>1 DEF PushToClient
  <2>2. CASE clients[i][Target[m]] # NONE
    <3>1. PICK c \in Conns : c = clients[i][Target[m]] /\ InstanceOf[c] = i
      BY <2>2, LookupAim
    <3>2. Push(c, m) /\ m \in Msgs
      BY <1>4, <2>2, <3>1 DEF PushToClient, Msgs
    <3>3. QED
      BY <1>2, <1>4, <3>1, <3>2, HomePush
  <2>3. QED
    BY <2>1, <2>2
<1>5. ASSUME NEW i \in Instances, SubReceive(i)
      PROVE  HomeOK'
  <2>1. PICK e \in Envelope : e = inbox[i][1] /\ 1 \in DOMAIN inbox[i]
    BY <1>5 DEF SubReceive, NextPositions, TypeOK
  <2>2. /\ UNCHANGED <<accepted, direct>>
        /\ \/ UNCHANGED sent
           \/ e.origin # i /\ e.msg \in Directs /\ PushToClient(i, e.msg)
    BY <1>5, <2>1 DEF SubReceive, NextPositions, Foreign
  <2>3. CASE e.origin # i /\ e.msg \in Directs /\ PushToClient(i, e.msg)
    <3>1. From(e.origin, e.msg) /\ e.origin \in Instances /\ e.msg \in Msgs
      BY <2>1 DEF OrderInv, InboxOK, Envelope
    <3>2. ~From(i, e.msg)
      BY <2>3, <3>1, OneSource DEF OrderInv
    <3>3. QED
      BY <1>4, <2>2, <2>3, <3>2
  <2>4. QED
    BY <1>1, <2>2, <2>3
<1>6. ASSUME NEW m \in Directs, DirectSend(m)
      PROVE  HomeOK'
  <2>1. PICK i \in Instances : i = direct[m].on
    BY <1>6 DEF DirectSend, TypeOK
  <2>2. /\ PushToClient(i, m) /\ UNCHANGED accepted /\ direct[m].at = "deliver"
        /\ direct' = [direct EXCEPT ![m].at = IF PubSubOn THEN "publish" ELSE "idle"]
    BY <1>6, <2>1 DEF DirectSend
  <2>3. \A d \in Directs : direct'[d].on = direct[d].on
    BY <2>2 DEF TypeOK, Call
  <2>4. \A c \in Conns : ~Got(c, m)
    BY <2>2 DEF OrderInv, DueOK
  <2>5. QED
    BY <1>4, <2>2, <2>3, <2>4
<1>7. QED
  BY <1>1, <1>3, <1>5, <1>6
     DEF Next, Handler, Writer, Loop, Register, Unregister, ReaderExit, Disconnect, WriterTake,
         WriterStop, Shutdown, DeliverEnd, LoopStop, HubBroadcast, HubPublish, HubUnanswered,
         LatePublish, DirectCall, DirectPublish, DirectUnanswered, vars

(* However often the Redis client sends a PUBLISH again, and however late *)
(* an attempt it gave up is executed, a connection of the instance that   *)
(* accepted a message is given it at most once: every copy that comes      *)
(* through Redis has the instance's own origin and is ignored.            *)
THEOREM HubGivesOnceAtHome == Spec => []OnceAtHome
<1>1. Init => TypeOK /\ SafeInv /\ OrderInv /\ DoubtOK /\ HomeOK
  <2>1. Init => HomeOK
    BY DEF Init, HomeOK
  <2>2. QED
    BY <2>1, TypeInit, SafeInit, OrderInit, DoubtInit
<1>2. TypeOK /\ SafeInv /\ OrderInv /\ DoubtOK /\ HomeOK /\ [Next]_vars =>
        (TypeOK /\ SafeInv /\ OrderInv /\ DoubtOK /\ HomeOK)'
  BY TypeStep, SafeStep, OrderStep, DoubtStep, HomeStep
<1>3. TypeOK /\ OrderInv /\ HomeOK => OnceAtHome
  <2> SUFFICES ASSUME TypeOK, OrderInv, HomeOK, NEW c \in Conns,
                      NEW a \in DOMAIN sent[c], NEW b \in DOMAIN sent[c],
                      sent[c][a] = sent[c][b], AcceptedBy(InstanceOf[c], sent[c][a])
               PROVE  a = b
    BY DEF OnceAtHome
  <2>1. PICK m \in Msgs : m = sent[c][a]
    BY DEF TypeOK
  <2>2. PICK i \in Instances : From(i, m)
    BY <2>1 DEF OrderInv, GotOK, Got
  <2>3. From(InstanceOf[c], m)
    <3>1. CASE m \in Directs /\ direct[m].on = InstanceOf[c]
      BY <2>2, <3>1, ShapeAssumption DEF From
    <3>2. CASE \E k \in DOMAIN accepted[InstanceOf[c]] : accepted[InstanceOf[c]][k] = m
      BY <2>1, <3>2, ShapeAssumption DEF From, InLog, OrderInv, LogsOK
    <3>3. QED
      BY <2>1, <3>1, <3>2 DEF AcceptedBy
  <2>4. QED
    BY <2>1, <2>3 DEF HomeOK
<1>4. QED
  BY <1>1, <1>2, <1>3, PTL DEF Spec

=============================================================================
