-------------------------------- MODULE Auth --------------------------------
(***************************************************************************)
(* internal/auth/service.go: accounts, refresh-token sessions, password    *)
(* resets and email verification, as the concurrent requests of any number *)
(* of API instances see them.  Each SQL statement is one atomic step;      *)
(* between two statements of a handler every other handler may run.        *)
(*                                                                         *)
(* Abstractions.  A token is the identity of its row (its hash is unique); *)
(* a family is named after the first token minted in it (both are fresh    *)
(* random values).  A password is a version number: version k is the one   *)
(* set by the k-th write of users.password_hash, 0 means the users row     *)
(* does not exist.  Time is the set of rows whose expires_at has passed.   *)
(***************************************************************************)
EXTENDS Naturals, FiniteSets

CONSTANTS
    Users,        \* the (normalised) email addresses
    Procs,        \* the handlers that may be running at once
    Tokens,       \* rows refresh_tokens may ever hold (a bound for TLC)
    ResetIds,     \* rows password_reset_tokens may ever hold (a bound)
    VerifyIds,    \* rows email_verification_tokens may ever hold (a bound)
    MaxPwd,       \* the highest password version (a bound)
    MayFail,      \* TRUE: a statement may fail, or the process crash
    NONE          \* no token, no user

ASSUME UsersAssumption == NONE \notin Users
ASSUME TokenIdsAssumption ==
    /\ NONE \notin Tokens \cup ResetIds \cup VerifyIds
    /\ Tokens \cap ResetIds = {}
    /\ Tokens \cap VerifyIds = {}
    /\ ResetIds \cap VerifyIds = {}
ASSUME BoundsAssumption == MaxPwd \in Nat \ {0} /\ MayFail \in BOOLEAN

Ids == Tokens \cup ResetIds \cup VerifyIds

VARIABLES
    pwd,         \* users.password_hash, as a version; 0: no row
    verified,    \* the users with email_verified_at set
    status,      \* of each token row: "unissued", "live" (revoked_at/used_at
                 \* NULL), "spent" (set) or "deleted"
    owner,       \* its user_id
    expired,     \* the rows whose expires_at is in the past
    birth,       \* of each refresh token: family_id, and two history
                 \* fields, the token it was rotated from (parent) and the
                 \* password version its session was opened with (auth)
    pc,          \* the statement each handler executes next
    loc,         \* what it has read: user, token, password version
    lost,        \* history: one-time tokens consumed by a handler that
                 \* stopped before the effect it was consumed for
    owed,        \* history: users whose password changed in a reset that
                 \* stopped before revoking the sessions, with no reset that
                 \* revoked them since
    escaped,     \* history: families that the last revocation meant for
                 \* them did not end: a refresh was under way, or the
                 \* statement failed, or it ran before the login's INSERT
    overlapped,  \* history: tokens that two refreshes had both read as live
                 \* before either of them revoked the row
    crossed,     \* history: users whose earlier reset tokens were, the last
                 \* time, cleared while another request was between its own
                 \* clearing of them and its INSERT
    terminated   \* history: families a reuse was answered with "all
                 \* sessions in this family terminated"

tables  == <<pwd, verified, status, owner, expired, birth>>
history == <<lost, owed, escaped, overlapped, crossed, terminated>>
vars    == <<pwd, verified, status, owner, expired, birth, pc, loc,
             lost, owed, escaped, overlapped, crossed, terminated>>

Statuses == {"unissued", "live", "spent", "deleted"}
Labels == {"idle", "register_create", "register_verify", "mint",
           "rotate", "kill", "kill_expired", "forgot_clear", "forgot_create",
           "reset_consume", "reset_update", "reset_revoke",
           "verify_consume", "verify_mark", "resend_verify"}
NoLoc   == [user |-> NONE, tok |-> NONE, auth |-> 0]
NoBirth == [family |-> NONE, parent |-> NONE, auth |-> 0]

(* Some users may have had an account before. *)
Init ==
    /\ pwd \in [Users -> {0, 1}]
    /\ verified = {}
    /\ status = [x \in Ids |-> "unissued"]
    /\ owner = [x \in Ids |-> NONE]
    /\ expired = {}
    /\ birth = [t \in Tokens |-> NoBirth]
    /\ pc = [p \in Procs |-> "idle"]
    /\ loc = [p \in Procs |-> NoLoc]
    /\ lost = {} /\ owed = {} /\ escaped = {} /\ overlapped = {} /\ crossed = {}
    /\ terminated = {}

-----------------------------------------------------------------------------
(* Rows and statements. *)

Present(x) == status[x] \in {"live", "spent"}
RowsOf(u, table) == {x \in table : Present(x) /\ owner[x] = u}
(* Mutant: revokeFamily compares family_id with the id of the row. *)
LiveInById(f) == {t \in Tokens : status[t] = "live" /\ t = f}
(* revokeFamily: WHERE family_id = ? AND revoked_at IS NULL. *)
LiveIn(f) == {t \in Tokens : status[t] = "live" /\ birth[t].family = f}
(* A refresh of the family is between the read of its token and the INSERT. *)
UnderWay(f) ==
    \E p \in Procs : /\ pc[p] \in {"rotate", "mint"} /\ loc[p].tok \in Tokens
                     /\ birth[loc[p].tok].family = f

(* UPDATE ... SET revoked_at / used_at = now() on the rows of S. *)
Spend(S) == status' = [x \in Ids |-> IF x \in S THEN "spent" ELSE status[x]]
(* DELETE of the rows of S. *)
Delete(S) == status' = [x \in Ids |-> IF x \in S THEN "deleted" ELSE status[x]]

Goto(p, label, l) ==
    /\ pc' = [pc EXCEPT ![p] = label]
    /\ loc' = [loc EXCEPT ![p] = l]
Return(p) == Goto(p, "idle", NoLoc)

(* Mutant: the consuming UPDATE forgets "AND used_at IS NULL". *)
ConsumableByIdOnly(x) == Present(x)
(* WHERE id = ? AND used_at IS NULL: RowsAffected is 1. *)
Consumable(x) == status[x] = "live"

(* Mutant: revokeAllForUser compares the row's id with the user's. *)
RevocableById(u) == {t \in Tokens : status[t] = "live" /\ t = u}
(* revokeAllForUser: WHERE user_id = ? AND revoked_at IS NULL. *)
Revocable(u) == {t \in Tokens : status[t] = "live" /\ owner[t] = u}

-----------------------------------------------------------------------------
(* Opening a session: Register, Login, and the shared issueTokenPair.     *)

(* A fresh row of a one-time token table for user u. *)
InsertOneTime(u, table) ==
    \E x \in table :
        /\ status[x] = "unissued"
        /\ status' = [status EXCEPT ![x] = "live"]
        /\ owner' = [owner EXCEPT ![x] = u]

RegisterCheck(p, u) ==
    /\ pc[p] = "idle" /\ pwd[u] = 0
    /\ Goto(p, "register_create", [user |-> u, tok |-> NONE, auth |-> 1])
    /\ UNCHANGED <<tables, history>>

(* The unique index on users.email, which the INSERT meets. *)
EmailFree(u) == pwd[u] = 0

RegisterCreate(p) ==
    LET u == loc[p].user IN
    /\ pc[p] = "register_create"
    /\ IF EmailFree(u)
       THEN /\ pwd' = [pwd EXCEPT ![u] = 1]
            /\ Goto(p, "register_verify", loc[p])
       ELSE /\ Return(p)
            /\ UNCHANGED pwd
    /\ UNCHANGED <<verified, status, owner, expired, birth, history>>

(* sendVerificationEmail in Register and in ResendVerificationEmail: best *)
(* effort, an error is logged and the handler goes on.                    *)
SendVerification(p) ==
    /\ pc[p] \in {"register_verify", "resend_verify"}
    /\ \/ InsertOneTime(loc[p].user, VerifyIds)
       \/ MayFail /\ UNCHANGED <<status, owner>>
    /\ IF pc[p] = "register_verify" THEN Goto(p, "mint", loc[p]) ELSE Return(p)
    /\ UNCHANGED <<pwd, verified, expired, birth, history>>

(* The user is read and the password compared with what was read; a wrong *)
(* password or an unknown email changes nothing.                          *)
Login(p, u) ==
    /\ pc[p] = "idle" /\ pwd[u] # 0
    /\ Goto(p, "mint", [user |-> u, tok |-> NONE, auth |-> pwd[u]])
    /\ UNCHANGED <<tables, history>>

(* Mutant: a login leaves the family of its token empty. *)
FamilyOfParent(l, t) == IF l.tok = NONE THEN NONE ELSE birth[l.tok].family
(* issueTokenPair draws a new family; a rotation keeps its token's. *)
FamilyFor(l, t) == IF l.tok = NONE THEN t ELSE birth[l.tok].family

(* issueTokenPairInFamily: a new row, in the family of the token rotated  *)
(* or, from issueTokenPair, in a family of its own. Nothing looks at the  *)
(* password again, which a reset may have changed since.                  *)
Mint(p) ==
    LET l == loc[p] IN
    /\ pc[p] = "mint"
    /\ \E t \in Tokens :
        /\ status[t] = "unissued"
        /\ status' = [status EXCEPT ![t] = "live"]
        /\ owner' = [owner EXCEPT ![t] = l.user]
        /\ birth' = [birth EXCEPT ![t] =
              [family |-> FamilyFor(l, t), parent |-> l.tok, auth |-> l.auth]]
        /\ escaped' = IF l.tok = NONE /\ l.auth < pwd[l.user]
                      THEN escaped \cup {t} ELSE escaped
    /\ Return(p)
    /\ UNCHANGED <<pwd, verified, expired, lost, owed, overlapped, crossed, terminated>>

-----------------------------------------------------------------------------
(* Refresh: read, then either revoke the family or revoke this row and    *)
(* mint its successor.                                                    *)

(* Mutant: Refresh does not look at revoked_at. *)
ReusedNever(t) == FALSE
(* The row read has revoked_at set. *)
Reused(t) == status[t] = "spent"

RefreshRead(p, t) ==
    /\ pc[p] = "idle" /\ Present(t)
    /\ Goto(p, IF Reused(t) THEN "kill"
               ELSE IF t \in expired THEN "kill_expired" ELSE "rotate",
            [user |-> owner[t], tok |-> t, auth |-> birth[t].auth])
    /\ overlapped' = IF \E q \in Procs : pc[q] = "rotate" /\ loc[q].tok = t
                     THEN overlapped \cup {t} ELSE overlapped
    /\ UNCHANGED <<tables, lost, owed, escaped, crossed, terminated>>

(* revokeFamily; its error is ignored. The answer to a token read as       *)
(* revoked is "all sessions in this family terminated".                   *)
Kill(p) ==
    LET f == birth[loc[p].tok].family IN
    /\ pc[p] \in {"kill", "kill_expired"}
    /\ \/ /\ Spend(LiveIn(f))
          /\ escaped' = IF UnderWay(f) THEN escaped \cup {f} ELSE escaped \ {f}
       \/ /\ MayFail
          /\ escaped' = escaped \cup {f}
          /\ UNCHANGED status
    /\ terminated' = IF pc[p] = "kill" THEN terminated \cup {f} ELSE terminated
    /\ Return(p)
    /\ UNCHANGED <<pwd, verified, owner, expired, birth, lost, owed, overlapped, crossed>>

(* UPDATE refresh_tokens SET revoked_at = now() WHERE id = ?: no condition *)
(* on revoked_at, RowsAffected not looked at. The users row is then read  *)
(* (rows of users are never deleted).                                     *)
Rotate(p) ==
    LET t == loc[p].tok IN
    /\ pc[p] = "rotate"
    /\ Spend({t} \cap RowsOf(loc[p].user, Tokens))
    /\ Goto(p, "mint", loc[p])
    /\ UNCHANGED <<pwd, verified, owner, expired, birth, history>>

(* Logout with a refresh token, which must be the caller's; one statement. *)
LogoutOne(u, t) ==
    /\ t \in RowsOf(u, Tokens)
    /\ Spend({t})
    /\ UNCHANGED <<pwd, verified, owner, expired, birth, pc, loc, history>>

(* Logout without one: revokeAllForUser, one statement. *)
LogoutAll(u) ==
    /\ pwd[u] # 0
    /\ Spend(Revocable(u))
    /\ UNCHANGED <<pwd, verified, owner, expired, birth, pc, loc, history>>

(* Mutant: the cleanup removes revoked rows as well as expired ones. *)
DeadRowsAndRevoked == {t \in Tokens : Present(t) /\ (t \in expired \/ status[t] = "spent")}
(* WHERE expires_at < now(). *)
DeadRows == {t \in Tokens : Present(t) /\ t \in expired}

CleanupExpiredRefreshTokens ==
    /\ Delete(DeadRows)
    /\ UNCHANGED <<pwd, verified, owner, expired, birth, pc, loc, history>>

-----------------------------------------------------------------------------
(* Password reset. *)

RequestPasswordReset(p, u) ==
    /\ pc[p] = "idle" /\ pwd[u] # 0
    /\ Goto(p, "forgot_clear", [user |-> u, tok |-> NONE, auth |-> 0])
    /\ UNCHANGED <<tables, history>>

(* Mutant: only the tokens that have expired are cleared. *)
UnconsumedExpired(u) == {r \in ResetIds : status[r] = "live" /\ owner[r] = u /\ r \in expired}
(* WHERE user_id = ? AND used_at IS NULL. *)
Unconsumed(u) == {r \in ResetIds : status[r] = "live" /\ owner[r] = u}

(* sendPasswordResetEmail: the DELETE of earlier tokens ... *)
ClearResetTokens(p) ==
    LET u == loc[p].user IN
    /\ pc[p] = "forgot_clear"
    /\ Delete(Unconsumed(u))
    /\ crossed' = IF \E q \in Procs : pc[q] = "forgot_create" /\ loc[q].user = u
                  THEN crossed \cup {u} ELSE crossed \ {u}
    /\ Goto(p, "forgot_create", loc[p])
    /\ UNCHANGED <<pwd, verified, owner, expired, birth, lost, owed, escaped, overlapped, terminated>>

(* ... then createPasswordResetToken. *)
CreateResetToken(p) ==
    /\ pc[p] = "forgot_create"
    /\ InsertOneTime(loc[p].user, ResetIds)
    /\ Return(p)
    /\ UNCHANGED <<pwd, verified, expired, birth, history>>

(* The token is found unused and unexpired; the new password is hashed.   *)
ResetRead(p, r) ==
    /\ pc[p] = "idle" /\ status[r] = "live" /\ r \notin expired
    /\ Goto(p, "reset_consume", [user |-> owner[r], tok |-> r, auth |-> 0])
    /\ UNCHANGED <<tables, history>>

(* The conditional UPDATE of used_at: only one request wins the race.     *)
ResetConsume(p) ==
    LET r == loc[p].tok IN
    /\ pc[p] = "reset_consume"
    /\ IF Consumable(r)
       THEN Spend({r}) /\ Goto(p, "reset_update", loc[p])
       ELSE Return(p) /\ UNCHANGED status
    /\ UNCHANGED <<pwd, verified, owner, expired, birth, history>>

ResetUpdate(p) ==
    LET u == loc[p].user IN
    /\ pc[p] = "reset_update"
    /\ pwd[u] < MaxPwd
    /\ pwd' = [pwd EXCEPT ![u] = @ + 1]
    /\ Goto(p, "reset_revoke", loc[p])
    /\ UNCHANGED <<verified, status, owner, expired, birth, history>>

(* revokeAllForUser, "force re-authentication on every device". *)
ResetRevoke(p) ==
    LET u == loc[p].user IN
    /\ pc[p] = "reset_revoke"
    /\ Spend(Revocable(u))
    /\ owed' = owed \ {u}
    /\ escaped' = {f \in Tokens : IF owner[f] = u THEN UnderWay(f) ELSE f \in escaped}
    /\ Return(p)
    /\ UNCHANGED <<pwd, verified, owner, expired, birth, lost, overlapped, crossed, terminated>>

-----------------------------------------------------------------------------
(* Email verification. *)

VerifyRead(p, v) ==
    /\ pc[p] = "idle" /\ status[v] = "live" /\ v \notin expired
    /\ Goto(p, "verify_consume", [user |-> owner[v], tok |-> v, auth |-> 0])
    /\ UNCHANGED <<tables, history>>

VerifyConsume(p) ==
    LET v == loc[p].tok IN
    /\ pc[p] = "verify_consume"
    /\ IF Consumable(v)
       THEN Spend({v}) /\ Goto(p, "verify_mark", loc[p])
       ELSE Return(p) /\ UNCHANGED status
    /\ UNCHANGED <<pwd, verified, owner, expired, birth, history>>

(* Mutant: the condition of the UPDATE is the wrong way round. *)
MarkedIfVerified(u) == verified \cup ({u} \cap verified)
(* UPDATE users ... WHERE id = ? AND email_verified_at IS NULL. *)
Marked(u) == verified \cup {u}

VerifyMark(p) ==
    /\ pc[p] = "verify_mark"
    /\ verified' = Marked(loc[p].user)
    /\ Return(p)
    /\ UNCHANGED <<pwd, status, owner, expired, birth, history>>

ResendVerification(p, u) ==
    /\ pc[p] = "idle" /\ pwd[u] # 0 /\ u \notin verified
    /\ Goto(p, "resend_verify", [user |-> u, tok |-> NONE, auth |-> 0])
    /\ UNCHANGED <<tables, history>>

-----------------------------------------------------------------------------
(* The environment: time passes, statements fail, processes crash.        *)

Expire(x) ==
    /\ Present(x) /\ x \notin expired
    /\ expired' = expired \cup {x}
    /\ UNCHANGED <<pwd, verified, status, owner, birth, pc, loc, history>>

(* The next statement of p returns an error, or its process stops: nothing *)
(* a handler has written is undone, there is no transaction around it.    *)
Abort(p) ==
    /\ MayFail /\ pc[p] # "idle"
    /\ lost' = IF pc[p] \in {"reset_update", "verify_mark"}
               THEN lost \cup {loc[p].tok} ELSE lost
    /\ owed' = IF pc[p] = "reset_revoke" THEN owed \cup {loc[p].user} ELSE owed
    /\ Return(p)
    /\ UNCHANGED <<tables, escaped, overlapped, crossed, terminated>>

Session(p) ==
    \/ \E u \in Users : RegisterCheck(p, u) \/ Login(p, u)
    \/ RegisterCreate(p) \/ SendVerification(p) \/ Mint(p)
    \/ \E t \in Tokens : RefreshRead(p, t)
    \/ Kill(p) \/ Rotate(p)

OneTime(p) ==
    \/ \E u \in Users : RequestPasswordReset(p, u) \/ ResendVerification(p, u)
    \/ ClearResetTokens(p) \/ CreateResetToken(p)
    \/ \E r \in ResetIds : ResetRead(p, r)
    \/ ResetConsume(p) \/ ResetUpdate(p) \/ ResetRevoke(p)
    \/ \E v \in VerifyIds : VerifyRead(p, v)
    \/ VerifyConsume(p) \/ VerifyMark(p)

Next ==
    \/ \E p \in Procs : Session(p) \/ OneTime(p) \/ Abort(p)
    \/ \E u \in Users : LogoutAll(u) \/ \E t \in Tokens : LogoutOne(u, t)
    \/ CleanupExpiredRefreshTokens
    \/ \E x \in Ids : Expire(x)

Spec == Init /\ [][Next]_vars

-----------------------------------------------------------------------------
(* Properties. *)

(* Every variable holds the values the comments above give it; a row has a *)
(* user, and a session a family, exactly once it has been written.        *)
TypeOK ==
    /\ pwd \in [Users -> 0 .. MaxPwd] /\ verified \subseteq Users
    /\ status \in [Ids -> Statuses]
    /\ owner \in [Ids -> Users \cup {NONE}]
    /\ expired \subseteq Ids
    /\ birth \in [Tokens -> [family : Tokens \cup {NONE}, parent : Tokens \cup {NONE},
                            auth : 0 .. MaxPwd]]
    /\ pc \in [Procs -> Labels]
    /\ loc \in [Procs -> [user : Users \cup {NONE}, tok : Ids \cup {NONE}, auth : 0 .. MaxPwd]]
    /\ lost \subseteq Ids /\ owed \subseteq Users /\ escaped \subseteq Tokens
    /\ overlapped \subseteq Tokens /\ crossed \subseteq Users /\ terminated \subseteq Tokens
    /\ \A x \in Ids : status[x] = "unissued" <=> owner[x] = NONE
    /\ \A t \in Tokens : status[t] = "unissued" <=> birth[t].family = NONE

(* A reset that has changed a password has not revoked the sessions yet,  *)
(* or stopped right there (ResetPassword, two statements).                *)
RevocationDue(u) ==
    \/ u \in owed
    \/ \E p \in Procs : pc[p] = "reset_revoke" /\ loc[p].user = u

(* A session opened with a password that has been replaced is revoked, in *)
(* every token it was rotated into, unless the revocation is due or missed *)
(* it: a refresh of it was between its read and its INSERT, or the login   *)
(* between its comparison of the password and its INSERT.                 *)
ResetRevokesEarlierSessions ==
    \A t \in Tokens :
        (status[t] = "live" /\ birth[t].auth < pwd[owner[t]]) =>
            RevocationDue(owner[t]) \/ birth[t].family \in escaped

(* Every password change is paid for by one consumed reset token: version *)
(* k of a password was preceded by k-1 resets that won the race for their *)
(* token and did not stop before the UPDATE of the password.              *)
PasswordLedger ==
    \A u \in Users : pwd[u] # 0 =>
        pwd[u] - 1 = Cardinality({r \in ResetIds :
            /\ status[r] = "spent" /\ owner[r] = u /\ r \notin lost
            /\ ~\E p \in Procs : pc[p] = "reset_update" /\ loc[p].tok = r})

(* A user has at most one password reset token that still works, unless    *)
(* two requests for one overlapped between the DELETE and the INSERT:      *)
(* service.go:380, "a new reset request invalidates any previous           *)
(* unconsumed tokens".                                                    *)
OneResetLinkUnlessCrossed ==
    \A r, s \in ResetIds :
        (r # s /\ status[r] = "live" /\ status[s] = "live" /\ owner[r] = owner[s]) =>
            owner[r] \in crossed

(* A refresh token is rotated into at most one successor, unless two      *)
(* requests read it live before either revoked it (Refresh's UPDATE has no *)
(* condition on revoked_at, so both then go on to mint).                  *)
ForksOnlyOnOverlap ==
    \A c, d \in Tokens :
        (c # d /\ birth[c].parent = birth[d].parent /\ birth[c].parent # NONE) =>
            birth[c].parent \in overlapped

(* The family has no live token and no rotation under way. *)
Dead(f) ==
    /\ birth[f].family = f
    /\ LiveIn(f) = {}
    /\ ~UnderWay(f)

(* A family whose tokens are all revoked or gone, with no refresh past the *)
(* check of revoked_at, never has a live token again: the holder of an old *)
(* token cannot revive the session.                                       *)
DeadFamilyStaysDead == [][\A f \in Tokens : Dead(f) => Dead(f)']_vars

(* A revoked row stays, and stays revoked, until it expires: reuse of the *)
(* token is detected for as long as the token would have been accepted.   *)
RevokedUntilExpired ==
    [][\A t \in Tokens : status[t] = "spent" =>
          status'[t] = "spent" \/ (status'[t] = "deleted" /\ t \in expired)]_vars

(* A consumed verification token has verified its user, unless the handler *)
(* that consumed it is about to or stopped in between; and nobody is       *)
(* verified without one.                                                  *)
VerifiedByConsumedToken ==
    /\ \A v \in VerifyIds : status[v] = "spent" =>
          \/ owner[v] \in verified
          \/ v \in lost
          \/ \E p \in Procs : pc[p] = "verify_mark" /\ loc[p].tok = v
    /\ \A u \in verified : \E v \in VerifyIds : status[v] = "spent" /\ owner[v] = u

(* A family reported as terminated has a live token only if a refresh was *)
(* under way when it was revoked, or the revocation failed (its error is  *)
(* ignored). Comments at service.go:154 and :169 say it never has.        *)
TerminatedUnlessUnderWay ==
    \A t \in Tokens : status[t] = "live" => birth[t].family \notin terminated \ escaped

-----------------------------------------------------------------------------
(* What comments of the code say, and the code does not do.               *)

(* service.go:236-238 and :276: a reset revokes all sessions "so other     *)
(* devices must log in again with the new credentials", "force             *)
(* re-authentication on every device". A refresh past its read, or a login *)
(* past its comparison, adds a live token of an old session afterwards.   *)
ResetEndsEverySession ==
    \A t \in Tokens :
        (status[t] = "live" /\ birth[t].auth < pwd[owner[t]]) => RevocationDue(owner[t])

=============================================================================
