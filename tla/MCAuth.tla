------------------------------- MODULE MCAuth -------------------------------
(***************************************************************************)
(* Auth for TLC. The ids of handlers and rows are interchangeable: no      *)
(* definition orders or names them.                                        *)
(*                                                                         *)
(* All requests at once are more than TLC can enumerate with enough rows   *)
(* for each to matter, so a behaviour of MCSpec, one of Spec, is one of    *)
(* three kinds: the sessions of an account; the life of an account; or its *)
(* sessions while its password is reset.  The last two have one session    *)
(* row less, and in the last the requests for a reset do not overlap.      *)
(***************************************************************************)
EXTENDS Auth, TLC

VARIABLE kind

Sessions(p) ==
    \/ \E u \in Users : Login(p, u) \/ LogoutAll(u)
    \/ \E u \in Users, t \in Tokens : LogoutOne(u, t)
    \/ \E t \in Tokens : RefreshRead(p, t)
    \/ Kill(p) \/ Rotate(p) \/ Mint(p) \/ Abort(p)

Account(p) ==
    \/ \E u \in Users : RegisterCheck(p, u) \/ Login(p, u)
    \/ RegisterCreate(p) \/ SendVerification(p) \/ Mint(p)
    \/ OneTime(p) \/ Abort(p)

Resets(p) ==
    \/ \E u \in Users : Login(p, u) \/ RequestPasswordReset(p, u)
    \/ \E t \in Tokens : RefreshRead(p, t)
    \/ Kill(p) \/ Rotate(p) \/ Mint(p)
    \/ ClearResetTokens(p) \/ CreateResetToken(p)
    \/ \E r \in ResetIds : ResetRead(p, r)
    \/ ResetConsume(p) \/ ResetUpdate(p) \/ ResetRevoke(p) \/ Abort(p)

MCInit ==
    /\ Init
    /\ \/ kind \in {"sessions", "resets"} /\ \A u \in Users : pwd[u] = 1
       \/ kind = "account" /\ \A u \in Users : pwd[u] = 0

MCNext ==
    /\ UNCHANGED kind
    /\ \/ /\ kind = "sessions"
          /\ (\E p \in Procs : Sessions(p)) \/ CleanupExpiredRefreshTokens
       \/ /\ kind = "account"
          /\ \E p \in Procs : Account(p)
          /\ \E t \in Tokens : status'[t] = "unissued"
       \/ /\ kind = "resets"
          /\ \E p \in Procs : Resets(p)
          /\ crossed' = {}
          /\ \E t \in Tokens : status'[t] = "unissued"
       \/ kind # "resets" /\ \E x \in Ids : Expire(x)

MCSpec == MCInit /\ [][MCNext]_<<vars, kind>>

Symmetry == Permutations(Procs) \cup Permutations(Tokens)
            \cup Permutations(ResetIds) \cup Permutations(VerifyIds)

=============================================================================
