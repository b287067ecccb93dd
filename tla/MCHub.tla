-------------------------------- MODULE MCHub --------------------------------
(***************************************************************************)
(* Hub for TLC: two instances; two connections of one client ID on the     *)
(* first, and a connection of another user, of the same household or not,  *)
(* on the second.                                                          *)
(*                                                                         *)
(* A behaviour of MCFairSpec, one of FairSpec but for the connection that  *)
(* waits at the upgrade, is of one of three kinds: two messages on their   *)
(* way to the connections of two users, of which the nearer may disconnect; *)
(* two connections of one user that replace each other and disconnect      *)
(* while one message arrives and their instance shuts down; or two messages on *)
(* their way to two users who are there from the start, stay and read fast, *)
(* with attempts to publish that are not answered, two in all.  m1 and m2, *)
(* both for the household h1, are alike: m1 is accepted first.             *)
(***************************************************************************)
EXTENDS Hub, TLC, FiniteSetsExt

CONSTANTS i1, i2, c1, c2, c3, alice, bob, h1, h2, m1, m2, d1

MCInstanceOf == [c \in Conns |-> IF c = c3 THEN i2 ELSE i1]
MCIdOf == [c \in Conns |-> IF c = c3 THEN bob ELSE alice]
OneHousehold == (alice :> h1) @@ (bob :> h1)
TwoHouseholds == (alice :> h1) @@ (bob :> h2)
MCTarget == [m \in Msgs |-> IF m = d1 THEN alice ELSE h1]

VARIABLE kind

Playing == IF kind = "replacement" THEN {c1, c2} ELSE {c1, c3}

MCInit == Init /\ kind \in {"delivery", "replacement", "retries"}

MCNext ==
    /\ Next
    /\ UNCHANGED kind
    /\ \A c \in Conns \ Playing : conn'[c] = "new" /\ c \in up'
    /\ Accepted(m2)' => Accepted(m1)
    /\ kind # "replacement" => UNCHANGED cancelled /\ c3 \in up'
    /\ kind # "retries" => UNCHANGED givenUp
    /\ kind = "retries" =>
          /\ MapThenSumSet(LAMBDA m : givenUp'[m], Msgs) <= 2
          /\ UNCHANGED up
          /\ accepted' # accepted => \A c \in Playing : conn[c] = "open"
          /\ \A c \in Playing : taken[c] < Len(sent[c]) => UNCHANGED <<work, inbox, direct>>
    /\ kind = "replacement" => i2 \notin cancelled' /\ \A s \in Sources : accepted'[s] \in {<<>>, <<m1>>}

(* Hub's Fairness, of the connections that play. *)
MCFairness ==
    /\ \A c \in Conns : /\ WF_vars(ReaderExit(c)) /\ WF_vars(Writer(c))
                        /\ SF_vars(c \in Playing /\ Handler(c))
    /\ \A i \in Instances : WF_vars(HubPublish(i) \/ HubUnanswered(i)) /\ \A g \in Loops : WF_vars(Loop(i, g))

MCFairSpec ==
    /\ MCInit
    /\ [][MCNext]_<<vars, kind>>
    /\ MCFairness

(* Spec, with no part left out. *)
MCSpec == Init /\ kind = "any" /\ [][Next /\ UNCHANGED kind]_<<vars, kind>>

=============================================================================
