------------------------------ MODULE Broadcast ------------------------------
(***************************************************************************)
(* What the WebSocket layer promises a connected client: best-effort       *)
(* delivery.  Each source (the event loop of an API instance, or one direct *)
(* message) has a log of the messages it has accepted; a connection is     *)
(* given some of those addressed to it, and never one that was not         *)
(* accepted: each at most once, and those of one source in the order of    *)
(* its log.  Any message may be skipped for good, and one whose way to the *)
(* other instances is in doubt may come again and late.                    *)
(***************************************************************************)
EXTENDS Naturals, Sequences

CONSTANTS Sources, Conns, Msgs,
          Addressed(_, _)   \* Addressed(m, c): message m is meant for c

VARIABLES log,        \* [Sources -> Seq(Msgs)]
          delivered,  \* [Conns -> Seq(Msgs)]
          doubtful    \* SUBSET Msgs

Init ==
    /\ log = [s \in Sources |-> <<>>]
    /\ delivered = [c \in Conns |-> <<>>]
    /\ doubtful = {}

Accept(s, m) ==
    /\ \A r \in Sources : \A k \in DOMAIN log[r] : log[r][k] # m
    /\ log' = [log EXCEPT ![s] = Append(@, m)]
    /\ UNCHANGED <<delivered, doubtful>>

(* Nobody knows how far m has come. *)
Doubt(m) ==
    /\ \E r \in Sources : \E k \in DOMAIN log[r] : log[r][k] = m
    /\ doubtful' = doubtful \cup {m}
    /\ UNCHANGED <<log, delivered>>

Got(c, m) == \E n \in DOMAIN delivered[c] : delivered[c][n] = m

(* The k-th message of s goes to c: none from there on has yet, or it is   *)
(* in doubt.                                                              *)
Deliver(c, s, k) ==
    /\ Addressed(log[s][k], c)
    /\ \/ \A j \in k .. Len(log[s]) : ~Got(c, log[s][j])
       \/ log[s][k] \in doubtful
    /\ delivered' = [delivered EXCEPT ![c] = Append(@, log[s][k])]
    /\ UNCHANGED <<log, doubtful>>

Next ==
    \/ \E s \in Sources, m \in Msgs : Accept(s, m)
    \/ \E m \in Msgs : Doubt(m)
    \/ \E c \in Conns, s \in Sources : \E k \in DOMAIN log[s] : Deliver(c, s, k)

Spec == Init /\ [][Next]_<<log, delivered, doubtful>>

=============================================================================
