----------------------------- MODULE AuthProofs ------------------------------
(***************************************************************************)
(* Proofs about Auth, for any users, handlers and rows.                    *)
(*                                                                         *)
(* A handler acts on what it read some statements ago. What makes its      *)
(* later statements safe is what no other handler can undo meanwhile: a    *)
(* row that was written stays written (it may be spent or deleted), and an *)
(* account that exists keeps existing. At says, of each statement a        *)
(* handler may be at, what it holds that this is true of.  The properties  *)
(* of one-time tokens (HoldInv, OneLink) and of refreshes (OneHeir) add    *)
(* whose hands a token is in: at most one handler's.                       *)
(***************************************************************************)
EXTENDS Auth, FiniteSetTheorems, TLAPS

Issued(x) == status[x] # "unissued"
Locals == [user : Users \cup {NONE}, tok : Ids \cup {NONE}, auth : 0 .. MaxPwd]
Births == [family : Tokens \cup {NONE}, parent : Tokens \cup {NONE}, auth : 0 .. MaxPwd]

(* A handler at the given statement may hold the given locals. *)
Shape(label, l) ==
    /\ label # "idle" => l.user \in Users
    /\ label \in {"register_create", "register_verify"} => l.tok = NONE
    /\ label = "mint" => l.tok \in Tokens \cup {NONE}
    /\ label \in {"rotate", "kill", "kill_expired"} => l.tok \in Tokens
    /\ label \in {"reset_consume", "reset_update"} => l.tok \in ResetIds
    /\ label \in {"verify_consume", "verify_mark"} => l.tok \in VerifyIds
At(label, l) ==
    /\ Shape(label, l)
    /\ l.tok # NONE => Issued(l.tok)
    /\ label \notin {"idle", "register_create"} => pwd[l.user] # 0

UsersOK == pwd \in [Users -> 0 .. MaxPwd] /\ verified \subseteq Users
RowsOK ==
    /\ status \in [Ids -> Statuses]
    /\ owner \in [Ids -> Users \cup {NONE}]
    /\ birth \in [Tokens -> Births]
    /\ \A x \in Ids : status[x] = "unissued" <=> owner[x] = NONE
    /\ \A t \in Tokens : status[t] = "unissued" <=> birth[t].family = NONE
    /\ \A x \in Ids : owner[x] # NONE => pwd[owner[x]] # 0
HandlersOK ==
    /\ pc \in [Procs -> Labels] /\ loc \in [Procs -> Locals]
    /\ \A p \in Procs : At(pc[p], loc[p])
HistoryOK ==
    /\ expired \subseteq Ids /\ lost \subseteq Ids /\ owed \subseteq Users
    /\ escaped \subseteq Tokens
    /\ overlapped \subseteq Tokens /\ crossed \subseteq Users /\ terminated \subseteq Tokens
Types == UsersOK /\ RowsOK /\ HandlersOK /\ HistoryOK

-----------------------------------------------------------------------------
(* What no step undoes. *)

Kept ==
    /\ \A x \in Ids : Issued(x) => Issued(x)'
    /\ \A u \in Users : pwd[u] # 0 => pwd'[u] # 0

(* A handler moves on, every other one keeps its place. *)
LEMMA GotoHandlers ==
    ASSUME HandlersOK, Kept, NEW p \in Procs, NEW label \in Labels, NEW l \in Locals,
           At(label, l)', Goto(p, label, l)
    PROVE  HandlersOK'
<1>1. pc' \in [Procs -> Labels] /\ loc' \in [Procs -> Locals]
  BY DEF HandlersOK, Goto
<1>2. ASSUME NEW q \in Procs
      PROVE  At(pc[q], loc[q])'
  <2>1. CASE q = p
    <3>1. pc'[q] = label /\ loc'[q] = l
      BY <2>1 DEF HandlersOK, Goto
    <3>2. QED
      BY <3>1 DEF At, Shape, Issued
  <2>2. CASE q # p
    <3>1. pc'[q] = pc[q] /\ loc'[q] = loc[q]
      BY <2>2 DEF HandlersOK, Goto
    <3>2. At(pc[q], loc[q]) /\ loc[q].tok \in Ids \cup {NONE}
      BY DEF HandlersOK, Locals
    <3>3. QED
      BY <3>1, <3>2 DEF Kept, At, Shape, Issued
  <2>3. QED
    BY <2>1, <2>2
<1>3. QED
  BY <1>1, <1>2 DEF HandlersOK

(* No handler moves. *)
LEMMA StayHandlers ==
    ASSUME HandlersOK, Kept, UNCHANGED <<pc, loc>>
    PROVE  HandlersOK'
<1>1. \A q \in Procs : loc[q].tok \in Ids \cup {NONE}
  BY DEF HandlersOK, Locals
<1>2. QED
  BY <1>1 DEF HandlersOK, Kept, At, Shape, Issued

LEMMA NoLocTypes == NoLoc \in Locals /\ At("idle", NoLoc) /\ At("idle", NoLoc)'
BY BoundsAssumption DEF NoLoc, Locals, At, Shape

(* A handler moves on with the locals it has. *)
LEMMA ProceedHandlers ==
    ASSUME HandlersOK, Kept, NEW p \in Procs, NEW label \in Labels,
           Shape(label, loc[p]), loc[p].user \in Users, pwd'[loc[p].user] # 0,
           Goto(p, label, loc[p])
    PROVE  HandlersOK'
<1>1. PICK l \in Locals : l = loc[p] /\ At(pc[p], l) /\ l.tok \in Ids \cup {NONE}
  BY DEF HandlersOK, Locals
<1>2. At(label, l)'
  BY <1>1 DEF At, Shape, Kept, Issued
<1>3. Goto(p, label, l)
  BY <1>1
<1>4. QED
  BY <1>2, <1>3, GotoHandlers

(* A handler returns. *)
LEMMA ReturnHandlers ==
    ASSUME HandlersOK, Kept, NEW p \in Procs, Return(p)
    PROVE  HandlersOK'
BY NoLocTypes, GotoHandlers DEF Return, Labels

(* Spending and deleting rows that are there. *)
LEMMA StatusTypes ==
    ASSUME RowsOK, NEW S \in SUBSET Ids, \A x \in S : Issued(x),
           Spend(S) \/ Delete(S), UNCHANGED <<pwd, owner, birth>>
    PROVE  RowsOK' /\ Kept
<1>1. status' \in [Ids -> Statuses]
  BY DEF RowsOK, Spend, Delete, Statuses
<1>2. \A x \in Ids : Issued(x) <=> Issued(x)'
  BY DEF RowsOK, Spend, Delete, Issued
<1>3. Tokens \subseteq Ids
  BY DEF Ids
<1>4. QED
  BY <1>1, <1>2, <1>3 DEF RowsOK, Issued, Kept

LEMMA InsertTypes ==
    ASSUME RowsOK, NEW u \in Users, pwd[u] # 0,
           NEW table \in {ResetIds, VerifyIds}, InsertOneTime(u, table),
           UNCHANGED <<pwd, birth>>
    PROVE  RowsOK' /\ Kept
<1>1. PICK x \in table : /\ status[x] = "unissued"
                         /\ status' = [status EXCEPT ![x] = "live"]
                         /\ owner' = [owner EXCEPT ![x] = u]
  BY DEF InsertOneTime
<1>2. x \in Ids /\ x \notin Tokens /\ u # NONE
  BY TokenIdsAssumption, UsersAssumption DEF Ids
<1>3. status' \in [Ids -> Statuses] /\ owner' \in [Ids -> Users \cup {NONE}]
  BY <1>1, <1>2 DEF RowsOK, Statuses
<1>4. \A y \in Ids : IF y = x THEN status'[y] = "live" /\ owner'[y] = u
                     ELSE status'[y] = status[y] /\ owner'[y] = owner[y]
  BY <1>1 DEF RowsOK
<1>5. Tokens \subseteq Ids
  BY DEF Ids
<1>6. QED
  BY <1>2, <1>3, <1>4, <1>5 DEF RowsOK, Kept, Issued

LEMMA UnchangedKept == ASSUME UNCHANGED <<pwd, status>> PROVE Kept
BY DEF Kept, Issued

LEMMA InitTypes == Init => Types
<1> SUFFICES ASSUME Init PROVE Types
  OBVIOUS
<1>1. UsersOK
  BY UsersAssumption, BoundsAssumption DEF Init, UsersOK
<1>2. RowsOK
  BY BoundsAssumption DEF Init, RowsOK, Births, NoBirth, Statuses, Ids
<1>3. HandlersOK
  BY NoLocTypes DEF Init, HandlersOK, Labels
<1>4. QED
  BY <1>1, <1>2, <1>3 DEF Init, Types, HistoryOK

-----------------------------------------------------------------------------
(* Every step preserves the types. *)

LEMMA MintTypes ==
    ASSUME Types, NEW p \in Procs, Mint(p)
    PROVE  RowsOK' /\ Kept
<1> DEFINE l == loc[p]
<1>1. /\ l \in Locals /\ l.user \in Users /\ pwd[l.user] # 0
      /\ l.tok \in Tokens \cup {NONE} /\ (l.tok # NONE => Issued(l.tok))
  BY DEF Types, HandlersOK, At, Shape, Mint
<1>2. PICK t \in Tokens :
        /\ status[t] = "unissued"
        /\ status' = [status EXCEPT ![t] = "live"]
        /\ owner' = [owner EXCEPT ![t] = l.user]
        /\ birth' = [birth EXCEPT ![t] = [family |-> FamilyFor(l, t), parent |-> l.tok,
                                         auth |-> l.auth]]
        /\ UNCHANGED pwd
  BY DEF Mint
<1>3. t \in Ids /\ l.user # NONE /\ Tokens \subseteq Ids
  BY <1>1, UsersAssumption DEF Ids
<1>4. FamilyFor(l, t) \in Tokens /\ t # NONE /\ FamilyFor(l, t) # NONE
  BY <1>1, TokenIdsAssumption DEF FamilyFor, Types, RowsOK, Births, Issued
<1>5. [family |-> FamilyFor(l, t), parent |-> l.tok, auth |-> l.auth] \in Births
  BY <1>1, <1>4 DEF Locals, Births, Types, UsersOK
<1> DEFINE b == [family |-> FamilyFor(l, t), parent |-> l.tok, auth |-> l.auth]
<1>6. b \in Births /\ b.family # NONE /\ birth' = [birth EXCEPT ![t] = b]
  BY <1>2, <1>4, <1>5
<1> HIDE DEF b, l
<1>7. /\ status' \in [Ids -> Statuses] /\ owner' \in [Ids -> Users \cup {NONE}]
      /\ birth' \in [Tokens -> Births]
  BY <1>1, <1>2, <1>3, <1>6 DEF Types, RowsOK, Statuses
<1>8. \A x \in Ids : IF x = t THEN status'[x] = "live" /\ owner'[x] = l.user
                     ELSE status'[x] = status[x] /\ owner'[x] = owner[x]
  BY <1>2 DEF Types, RowsOK
<1>9. \A x \in Tokens : birth'[x] = IF x = t THEN b ELSE birth[x]
  BY <1>6 DEF Types, RowsOK
<1>10. QED
  BY <1>1, <1>2, <1>3, <1>6, <1>7, <1>8, <1>9 DEF Types, RowsOK, Kept, Issued

LEMMA StepTypes == Types /\ [Next]_vars => Types'
<1> SUFFICES ASSUME Types, [Next]_vars
             PROVE  Types'
  OBVIOUS
<1>T. UsersOK /\ RowsOK /\ HandlersOK /\ HistoryOK
  BY DEF Types
<1>L. \A p \in Procs : /\ loc[p] \in Locals /\ At(pc[p], loc[p])
                       /\ loc[p].tok \in Ids \cup {NONE}
  BY <1>T DEF HandlersOK, Locals
<1>N. \A x \in Ids : Issued(x) => x # NONE /\ owner[x] \in Users /\ pwd[owner[x]] # 0
  BY <1>T, TokenIdsAssumption DEF RowsOK, Issued, Ids
<1>1. ASSUME NEW p \in Procs, NEW u \in Users, RegisterCheck(p, u)
      PROVE  Types'
  <2> DEFINE l == [user |-> u, tok |-> NONE, auth |-> 1]
  <2>1. l \in Locals /\ Kept
    BY <1>1, BoundsAssumption, UnchangedKept DEF Locals, RegisterCheck, tables
  <2>2. At("register_create", l)'
    BY DEF At, Shape
  <2>3. HandlersOK'
    BY <1>1, <1>T, <2>1, <2>2, GotoHandlers DEF RegisterCheck, Labels
  <2>4. QED
    BY <1>1, <1>T, <2>3 DEF RegisterCheck, tables, history, Types, UsersOK, RowsOK, HistoryOK
<1>2. ASSUME NEW p \in Procs, RegisterCreate(p)
      PROVE  Types'
  <2>1. loc[p].user \in Users
    BY <1>2, <1>L DEF RegisterCreate, At, Shape
  <2>2. UsersOK' /\ \A u \in Users : pwd'[u] = pwd[u] \/ (u = loc[p].user /\ pwd'[u] = 1)
    BY <1>2, <1>T, <2>1, BoundsAssumption DEF RegisterCreate, UsersOK
  <2>3. Kept /\ RowsOK'
    BY <1>2, <1>T, <2>2 DEF RegisterCreate, Kept, RowsOK, Issued
  <2>4. HandlersOK'
    <3>1. CASE EmailFree(loc[p].user)
      <4>1. pwd'[loc[p].user] = 1
        BY <1>2, <1>T, <2>1, <3>1 DEF RegisterCreate, UsersOK
      <4>2. Shape("register_verify", loc[p])
        BY <1>2, <1>L, <2>1 DEF At, Shape, RegisterCreate
      <4>3. QED
        BY <1>2, <1>T, <2>1, <2>3, <3>1, <4>1, <4>2, ProceedHandlers DEF RegisterCreate, Labels
    <3>2. CASE ~EmailFree(loc[p].user)
      BY <1>2, <1>T, <2>3, <3>2, ReturnHandlers DEF RegisterCreate
    <3>3. QED
      BY <3>1, <3>2
  <2>5. QED
    BY <1>2, <1>T, <2>2, <2>3, <2>4 DEF RegisterCreate, history, Types, HistoryOK
<1>3. ASSUME NEW p \in Procs, SendVerification(p)
      PROVE  Types'
  <2>1. pc[p] \in {"register_verify", "resend_verify"} /\ loc[p].user \in Users /\ pwd[loc[p].user] # 0
    BY <1>3, <1>L DEF SendVerification, At, Shape
  <2>2. RowsOK' /\ Kept
    BY <1>3, <1>T, <2>1, InsertTypes, UnchangedKept DEF SendVerification, RowsOK
  <2>3. HandlersOK'
    <3>1. CASE pc[p] = "register_verify"
      <4>1. Shape("mint", loc[p])
        BY <1>L, <3>1 DEF At, Shape
      <4>2. QED
        BY <1>3, <1>T, <2>1, <2>2, <3>1, <4>1, ProceedHandlers DEF SendVerification, Labels
    <3>2. CASE pc[p] = "resend_verify"
      BY <1>3, <1>T, <2>2, <3>2, ReturnHandlers DEF SendVerification
    <3>3. QED
      BY <2>1, <3>1, <3>2
  <2>4. QED
    BY <1>3, <1>T, <2>2, <2>3 DEF SendVerification, history, Types, UsersOK, HistoryOK
<1>4. ASSUME NEW p \in Procs, NEW u \in Users,
             Login(p, u) \/ RequestPasswordReset(p, u) \/ ResendVerification(p, u)
      PROVE  Types'
  <2>1. PICK label \in {"mint", "forgot_clear", "resend_verify"}, a \in 0 .. MaxPwd :
          Goto(p, label, [user |-> u, tok |-> NONE, auth |-> a])
    BY <1>4, <1>T, BoundsAssumption DEF Login, RequestPasswordReset, ResendVerification, UsersOK
  <2>2. pwd[u] # 0 /\ UNCHANGED <<tables, history>>
    BY <1>4 DEF Login, RequestPasswordReset, ResendVerification
  <2>3. HandlersOK'
    <3> DEFINE l == [user |-> u, tok |-> NONE, auth |-> a]
    <3>1. l \in Locals /\ At(label, l)'
      BY <2>2 DEF Locals, At, Shape, tables
    <3>2. Kept
      BY <2>2, UnchangedKept DEF tables
    <3>3. QED
      BY <1>T, <2>1, <3>1, <3>2, GotoHandlers DEF Labels
  <2>4. QED
    BY <1>T, <2>2, <2>3 DEF tables, history, Types, UsersOK, RowsOK, HistoryOK
<1>5. ASSUME NEW p \in Procs, Mint(p)
      PROVE  Types'
  <2>1. RowsOK' /\ Kept
    BY <1>5, MintTypes
  <2>2. HandlersOK'
    BY <1>5, <1>T, <2>1, ReturnHandlers DEF Mint
  <2>3. HistoryOK'
    BY <1>5, <1>T DEF Mint, HistoryOK
  <2>4. QED
    BY <1>5, <1>T, <2>1, <2>2, <2>3 DEF Mint, Types, UsersOK
<1>6. ASSUME NEW p \in Procs, NEW t \in Tokens, RefreshRead(p, t)
      PROVE  Types'
  <2>1. PICK label \in {"kill", "kill_expired", "rotate"} :
          Goto(p, label, [user |-> owner[t], tok |-> t, auth |-> birth[t].auth])
    BY <1>6 DEF RefreshRead
  <2>2. t \in Ids /\ Issued(t) /\ owner[t] \in Users /\ pwd[owner[t]] # 0 /\ birth[t].auth \in 0 .. MaxPwd
    BY <1>6, <1>T, <1>N DEF RefreshRead, Present, Issued, Ids, RowsOK, Births
  <2>3. HandlersOK'
    <3>1. PICK l \in Locals : l = [user |-> owner[t], tok |-> t, auth |-> birth[t].auth]
      BY <2>2 DEF Locals
    <3>2. At(label, l)' /\ Kept
      BY <1>6, <2>2, <3>1, UnchangedKept DEF RefreshRead, tables, At, Shape, Issued
    <3>3. QED
      BY <1>T, <2>1, <3>1, <3>2, GotoHandlers DEF Labels
  <2>4. QED
    BY <1>6, <1>T, <2>3 DEF RefreshRead, tables, Types, UsersOK, RowsOK, HistoryOK
<1>7. ASSUME NEW p \in Procs, Kill(p)
      PROVE  Types'
  <2>1. birth[loc[p].tok].family \in Tokens
    BY <1>7, <1>L, <1>T DEF Kill, At, Shape, RowsOK, Births, Issued
  <2>2. RowsOK' /\ Kept
    <3>1. LiveIn(birth[loc[p].tok].family) \in SUBSET Ids
          /\ \A x \in LiveIn(birth[loc[p].tok].family) : Issued(x)
      BY DEF LiveIn, Ids, Issued
    <3>2. QED
      BY <1>7, <1>T, <3>1, StatusTypes, UnchangedKept DEF Kill, RowsOK
  <2>3. HandlersOK'
    BY <1>7, <1>T, <2>2, ReturnHandlers DEF Kill
  <2>4. QED
    BY <1>7, <1>T, <2>1, <2>2, <2>3 DEF Kill, Types, UsersOK, HistoryOK
<1>8. ASSUME NEW p \in Procs, Rotate(p)
      PROVE  Types'
  <2>1. RowsOK' /\ Kept
    <3>1. {loc[p].tok} \cap RowsOf(loc[p].user, Tokens) \in SUBSET Ids
          /\ \A x \in {loc[p].tok} \cap RowsOf(loc[p].user, Tokens) : Issued(x)
      BY DEF RowsOf, Ids, Present, Issued
    <3>2. QED
      BY <1>8, <1>T, <3>1, StatusTypes DEF Rotate
  <2>2. HandlersOK'
    <3>1. Shape("mint", loc[p]) /\ loc[p].user \in Users /\ pwd[loc[p].user] # 0
      BY <1>8, <1>L DEF Rotate, At, Shape
    <3>2. QED
      BY <1>8, <1>T, <2>1, <3>1, ProceedHandlers DEF Rotate, Labels
  <2>3. QED
    BY <1>8, <1>T, <2>1, <2>2 DEF Rotate, history, Types, UsersOK, HistoryOK
<1>9. ASSUME (\E u \in Users : LogoutAll(u) \/ \E t \in Tokens : LogoutOne(u, t))
             \/ CleanupExpiredRefreshTokens
      PROVE  Types'
  <2>1. \E S \in SUBSET Ids : (Spend(S) \/ Delete(S)) /\ \A x \in S : Issued(x)
    <3>1. ASSUME NEW u \in Users, LogoutAll(u)
          PROVE  \E S \in SUBSET Ids : (Spend(S) \/ Delete(S)) /\ \A x \in S : Issued(x)
      <4>1. Revocable(u) \in SUBSET Ids /\ \A x \in Revocable(u) : Issued(x)
        BY DEF Revocable, Issued, Ids
      <4>2. QED
        BY <3>1, <4>1 DEF LogoutAll
    <3>2. ASSUME NEW u \in Users, NEW t \in Tokens, LogoutOne(u, t)
          PROVE  \E S \in SUBSET Ids : (Spend(S) \/ Delete(S)) /\ \A x \in S : Issued(x)
      <4>1. {t} \in SUBSET Ids /\ \A x \in {t} : Issued(x)
        BY <3>2 DEF LogoutOne, RowsOf, Present, Issued, Ids
      <4>2. QED
        BY <3>2, <4>1 DEF LogoutOne
    <3>3. CASE CleanupExpiredRefreshTokens
      <4>1. DeadRows \in SUBSET Ids /\ \A x \in DeadRows : Issued(x)
        BY DEF DeadRows, Present, Issued, Ids
      <4>2. QED
        BY <3>3, <4>1 DEF CleanupExpiredRefreshTokens
    <3>4. QED
      BY <1>9, <3>1, <3>2, <3>3
  <2>2. PICK S \in SUBSET Ids : (Spend(S) \/ Delete(S)) /\ \A x \in S : Issued(x)
    BY <2>1
  <2>3. UNCHANGED <<pwd, verified, owner, expired, birth, pc, loc, history>>
    BY <1>9 DEF LogoutAll, LogoutOne, CleanupExpiredRefreshTokens
  <2>4. RowsOK' /\ Kept
    BY <1>T, <2>2, <2>3, StatusTypes
  <2>5. QED
    BY <1>T, <2>3, <2>4, StayHandlers DEF history, Types, UsersOK, HistoryOK
<1>10. ASSUME NEW p \in Procs, ClearResetTokens(p)
       PROVE  Types'
  <2>1. RowsOK' /\ Kept
    <3> DEFINE S == Unconsumed(loc[p].user)
    <3>1. S \in SUBSET Ids /\ \A x \in S : Issued(x)
      BY DEF Ids, Issued, Unconsumed
    <3>2. QED
      BY <1>10, <1>T, <3>1, StatusTypes DEF ClearResetTokens
  <2>2. HandlersOK'
    <3>1. Shape("forgot_create", loc[p]) /\ loc[p].user \in Users /\ pwd[loc[p].user] # 0
      BY <1>10, <1>L DEF ClearResetTokens, At, Shape
    <3>2. QED
      BY <1>10, <1>T, <2>1, <3>1, ProceedHandlers DEF ClearResetTokens, Labels
  <2>3. QED
    <3>1. loc[p].user \in Users
      BY <1>10, <1>L DEF ClearResetTokens, At, Shape
    <3>2. crossed' \subseteq Users
      BY <1>10, <1>T, <3>1 DEF ClearResetTokens, Types, HistoryOK
    <3>3. QED
      BY <1>10, <1>T, <2>1, <2>2, <3>2 DEF ClearResetTokens, Types, UsersOK, HistoryOK
<1>11. ASSUME NEW p \in Procs, CreateResetToken(p)
       PROVE  Types'
  <2>1. RowsOK' /\ Kept
    BY <1>11, <1>T, <1>L, InsertTypes DEF CreateResetToken, At, Shape
  <2>2. QED
    BY <1>11, <1>T, <2>1, ReturnHandlers DEF CreateResetToken, history, Types, UsersOK, HistoryOK
<1>12. ASSUME NEW p \in Procs, NEW x \in ResetIds \cup VerifyIds,
              (x \in ResetIds /\ ResetRead(p, x)) \/ (x \in VerifyIds /\ VerifyRead(p, x))
       PROVE  Types'
  <2>1. PICK label \in {"reset_consume", "verify_consume"} :
          /\ Goto(p, label, [user |-> owner[x], tok |-> x, auth |-> 0])
          /\ IF label = "reset_consume" THEN x \in ResetIds ELSE x \in VerifyIds
    BY <1>12 DEF ResetRead, VerifyRead
  <2>2. status[x] = "live" /\ UNCHANGED <<tables, history>>
    BY <1>12 DEF ResetRead, VerifyRead
  <2>3. x \in Ids /\ Issued(x) /\ owner[x] \in Users /\ pwd[owner[x]] # 0
    BY <2>2, <1>N DEF Issued, Ids
  <2>4. HandlersOK'
    <3>1. 0 \in 0 .. MaxPwd
      BY BoundsAssumption
    <3>2. [user |-> owner[x], tok |-> x, auth |-> 0] \in Locals
      BY <2>3, <3>1 DEF Locals
    <3>3. PICK l \in Locals : l = [user |-> owner[x], tok |-> x, auth |-> 0]
      BY <3>2
    <3>4. l.user = owner[x] /\ l.tok = x
      BY <3>3
    <3>5. At(label, l)' /\ Kept
      BY <2>1, <2>2, <2>3, <3>4, UnchangedKept DEF tables, At, Shape, Issued
    <3>6. QED
      BY <1>T, <2>1, <3>3, <3>5, GotoHandlers DEF Labels
  <2>5. QED
    BY <1>T, <2>2, <2>4 DEF tables, history, Types, UsersOK, RowsOK, HistoryOK
<1>13. ASSUME NEW p \in Procs, ResetConsume(p) \/ VerifyConsume(p)
       PROVE  Types'
  <2>1. /\ loc[p].tok \in Ids /\ Issued(loc[p].tok)
        /\ loc[p].user \in Users /\ pwd[loc[p].user] # 0
    BY <1>13, <1>L, TokenIdsAssumption DEF ResetConsume, VerifyConsume, At, Shape, Ids
  <2>2. RowsOK' /\ Kept
    <3>1. Spend({loc[p].tok}) \/ UNCHANGED status
      BY <1>13 DEF ResetConsume, VerifyConsume
    <3>2. UNCHANGED <<pwd, owner, birth>>
      BY <1>13 DEF ResetConsume, VerifyConsume
    <3>3. QED
      BY <1>T, <2>1, <3>1, <3>2, StatusTypes, UnchangedKept DEF RowsOK
  <2>3. HandlersOK'
    <3>1. CASE Return(p)
      BY <1>T, <2>2, <3>1, ReturnHandlers
    <3>2. CASE Goto(p, "reset_update", loc[p]) /\ ResetConsume(p)
      BY <1>T, <1>L, <2>1, <2>2, <3>2, ProceedHandlers DEF ResetConsume, At, Shape, Labels
    <3>3. CASE Goto(p, "verify_mark", loc[p]) /\ VerifyConsume(p)
      BY <1>T, <1>L, <2>1, <2>2, <3>3, ProceedHandlers DEF VerifyConsume, At, Shape, Labels
    <3>4. QED
      BY <1>13, <3>1, <3>2, <3>3 DEF ResetConsume, VerifyConsume
  <2>4. QED
    BY <1>13, <1>T, <2>2, <2>3 DEF ResetConsume, VerifyConsume, history, Types, UsersOK, HistoryOK
<1>14. ASSUME NEW p \in Procs, ResetUpdate(p)
       PROVE  Types'
  <2>1. loc[p].user \in Users /\ Shape("reset_revoke", loc[p])
    BY <1>14, <1>L DEF ResetUpdate, At, Shape
  <2>2. UsersOK' /\ pwd'[loc[p].user] # 0 /\ \A u \in Users : pwd[u] # 0 => pwd'[u] # 0
    BY <1>14, <1>T, <2>1, BoundsAssumption DEF ResetUpdate, UsersOK
  <2>3. Kept /\ RowsOK'
    BY <1>14, <1>T, <2>2 DEF ResetUpdate, Kept, RowsOK, Issued
  <2>4. HandlersOK'
    BY <1>14, <1>T, <2>1, <2>2, <2>3, ProceedHandlers DEF ResetUpdate, Labels
  <2>5. QED
    BY <1>14, <1>T, <2>2, <2>3, <2>4 DEF ResetUpdate, history, Types, HistoryOK
<1>15. ASSUME NEW p \in Procs, ResetRevoke(p)
       PROVE  Types'
  <2>1. RowsOK' /\ Kept
    <3>1. Revocable(loc[p].user) \in SUBSET Ids /\ \A x \in Revocable(loc[p].user) : Issued(x)
      BY DEF Revocable, Ids, Issued
    <3>2. QED
      BY <1>15, <1>T, <3>1, StatusTypes DEF ResetRevoke
  <2>2. HistoryOK'
    BY <1>15, <1>T DEF ResetRevoke, HistoryOK
  <2>3. QED
    BY <1>15, <1>T, <2>1, <2>2, ReturnHandlers DEF ResetRevoke, Types, UsersOK
<1>16. ASSUME NEW p \in Procs, VerifyMark(p)
       PROVE  Types'
  <2>1. loc[p].user \in Users /\ Kept
    BY <1>16, <1>L, UnchangedKept DEF VerifyMark, At, Shape
  <2>2. QED
    BY <1>16, <1>T, <2>1, ReturnHandlers
    DEF VerifyMark, Marked, history, Types, UsersOK, RowsOK, HistoryOK
<1>17. ASSUME NEW p \in Procs, Abort(p)
       PROVE  Types'
  <2>1. /\ loc[p].user \in Users
        /\ pc[p] \in {"reset_update", "verify_mark"} => loc[p].tok \in Ids
    BY <1>17, <1>L DEF Abort, At, Shape, Ids
  <2>2. Kept
    BY <1>17, UnchangedKept DEF Abort, tables
  <2>3. HandlersOK'
    BY <1>17, <1>T, <2>2, ReturnHandlers DEF Abort
  <2>4. HistoryOK'
    BY <1>17, <1>T, <2>1 DEF Abort, tables, HistoryOK
  <2>5. QED
    BY <1>17, <1>T, <2>3, <2>4 DEF Abort, tables, Types, UsersOK, RowsOK
<1>18. ASSUME NEW x \in Ids, Expire(x)
       PROVE  Types'
  <2>1. Kept
    BY <1>18, UnchangedKept DEF Expire
  <2>2. QED
    BY <1>18, <1>T, <2>1, StayHandlers DEF Expire, history, Types, UsersOK, RowsOK, HistoryOK
<1>19. CASE UNCHANGED vars
  <2>1. Kept
    BY <1>19, UnchangedKept DEF vars
  <2>2. QED
    BY <1>19, <1>T, <2>1, StayHandlers DEF vars, Types, UsersOK, RowsOK, HistoryOK
<1>20. QED
  BY <1>1, <1>2, <1>3, <1>4, <1>5, <1>6, <1>7, <1>8, <1>9, <1>10, <1>11, <1>12, <1>13,
     <1>14, <1>15, <1>16, <1>17, <1>18, <1>19 DEF Next, Session, OneTime

(* The tables, the handlers and what they hold are well formed in every   *)
(* state, and a row has an owner, and a session a family, from the moment *)
(* it is written.                                                         *)
THEOREM TypeCorrect == Spec => []TypeOK
<1>1. Types => TypeOK
  BY DEF Types, UsersOK, RowsOK, HandlersOK, HistoryOK, TypeOK, Locals, Births
<1>2. QED
  BY <1>1, InitTypes, StepTypes, PTL DEF Spec

-----------------------------------------------------------------------------
(* What one step can do to one session row, and to one handler.           *)

LEMMA TokenSteps ==
    ASSUME Types, [Next]_vars, NEW t \in Tokens
    PROVE  \/ /\ owner'[t] = owner[t] /\ birth'[t] = birth[t]
              /\ \/ status'[t] = status[t]
                 \/ Present(t) /\ status'[t] = "spent"
                 \/ Present(t) /\ status'[t] = "deleted" /\ t \in expired
           \/ \E p \in Procs :
                /\ Mint(p) /\ status[t] = "unissued"
                /\ owner'[t] = loc[p].user
                /\ birth'[t] = [family |-> FamilyFor(loc[p], t), parent |-> loc[p].tok,
                               auth |-> loc[p].auth]
<1> DEFINE Same == owner'[t] = owner[t] /\ birth'[t] = birth[t]
           Quiet == Same /\ status'[t] = status[t]
           Spent == Same /\ Present(t) /\ status'[t] = "spent"
           Gone == Same /\ Present(t) /\ status'[t] = "deleted" /\ t \in expired
           Born == \E p \in Procs :
                /\ Mint(p) /\ status[t] = "unissued"
                /\ owner'[t] = loc[p].user
                /\ birth'[t] = [family |-> FamilyFor(loc[p], t), parent |-> loc[p].tok,
                               auth |-> loc[p].auth]
<1>I. t \in Ids /\ t \notin ResetIds /\ t \notin VerifyIds
  BY TokenIdsAssumption DEF Ids
<1>T. status \in [Ids -> Statuses] /\ owner \in [Ids -> Users \cup {NONE}] /\ birth \in [Tokens -> Births]
  BY DEF Types, RowsOK
<1>S. ASSUME NEW S, Spend(S), t \in S => Present(t), UNCHANGED <<owner, birth>>
      PROVE  Quiet \/ Spent
  BY <1>S, <1>I DEF Spend
<1>O. ASSUME NEW u, NEW table \in {ResetIds, VerifyIds}, InsertOneTime(u, table), UNCHANGED birth
      PROVE  Quiet
  BY <1>O, <1>I, <1>T DEF InsertOneTime
<1>1. ASSUME NEW p \in Procs, Session(p)
      PROVE  Quiet \/ Spent \/ Gone \/ Born
  <2>1. ASSUME Mint(p) PROVE Quiet \/ Born
    <3>1. PICK r \in Tokens :
            /\ status[r] = "unissued"
            /\ status' = [status EXCEPT ![r] = "live"]
            /\ owner' = [owner EXCEPT ![r] = loc[p].user]
            /\ birth' = [birth EXCEPT ![r] =
                 [family |-> FamilyFor(loc[p], r), parent |-> loc[p].tok,
                  auth |-> loc[p].auth]]
      BY <2>1 DEF Mint
    <3>2. CASE r = t
      <4>1. Born
        BY <2>1, <3>1, <3>2, <1>I, <1>T
      <4>2. QED
        BY <4>1
    <3>3. CASE r # t
      BY <3>1, <3>3, <1>I, <1>T
    <3>4. QED
      BY <3>2, <3>3
  <2>2. ASSUME SendVerification(p) PROVE Quiet
    <3>1. CASE InsertOneTime(loc[p].user, VerifyIds)
      BY <2>2, <3>1, <1>O DEF SendVerification
    <3>2. CASE UNCHANGED <<status, owner>>
      BY <2>2, <3>2 DEF SendVerification
    <3>3. QED
      BY <2>2, <3>1, <3>2 DEF SendVerification
  <2>3. ASSUME Kill(p) PROVE Quiet \/ Spent
    <3>1. UNCHANGED <<owner, birth>> /\ \A x \in LiveIn(birth[loc[p].tok].family) : Present(x)
      BY <2>3 DEF Kill, LiveIn, Present
    <3>2. CASE Spend(LiveIn(birth[loc[p].tok].family))
      BY <3>1, <3>2, <1>S
    <3>3. CASE UNCHANGED status
      BY <3>1, <3>3
    <3>4. QED
      BY <2>3, <3>2, <3>3 DEF Kill
  <2>4. ASSUME Rotate(p) PROVE Quiet \/ Spent
    <3>1. \A x \in {loc[p].tok} \cap RowsOf(loc[p].user, Tokens) : Present(x)
      BY DEF RowsOf
    <3>2. QED
      BY <2>4, <3>1, <1>S DEF Rotate
  <2>5. ASSUME NEW u \in Users, RegisterCheck(p, u) \/ Login(p, u) PROVE Quiet
    BY <2>5 DEF RegisterCheck, Login, tables
  <2>6. ASSUME RegisterCreate(p) PROVE Quiet
    BY <2>6 DEF RegisterCreate
  <2>7. ASSUME NEW r \in Tokens, RefreshRead(p, r) PROVE Quiet
    BY <2>7 DEF RefreshRead, tables
  <2>8. QED
    BY <1>1, <2>1, <2>2, <2>3, <2>4, <2>5, <2>6, <2>7 DEF Session
<1>2. ASSUME NEW p \in Procs, OneTime(p)
      PROVE  Quiet \/ Spent
  <2>1. ASSUME ClearResetTokens(p) PROVE Quiet
    BY <2>1, <1>I DEF ClearResetTokens, Delete, Unconsumed
  <2>2. ASSUME CreateResetToken(p) PROVE Quiet
    BY <2>2, <1>O DEF CreateResetToken
  <2>3. ASSUME ResetConsume(p) \/ VerifyConsume(p) PROVE Quiet \/ Spent
    <3>1. UNCHANGED <<owner, birth>> /\ (Consumable(loc[p].tok) => Present(loc[p].tok))
      BY <2>3 DEF ResetConsume, VerifyConsume, Consumable, Present
    <3>2. CASE UNCHANGED status
      BY <3>1, <3>2
    <3>3. CASE Consumable(loc[p].tok) /\ Spend({loc[p].tok})
      BY <3>1, <3>3, <1>S
    <3>4. QED
      BY <2>3, <3>2, <3>3 DEF ResetConsume, VerifyConsume
  <2>4. ASSUME ResetRevoke(p) PROVE Quiet \/ Spent
    <3>1. \A x \in Revocable(loc[p].user) : Present(x)
      BY DEF Revocable, Present
    <3>2. QED
      BY <2>4, <3>1, <1>S DEF ResetRevoke
  <2>5. ASSUME ResetUpdate(p) \/ VerifyMark(p) PROVE Quiet
    BY <2>5 DEF ResetUpdate, VerifyMark
  <2>6. ASSUME NEW x, \/ RequestPasswordReset(p, x) \/ ResendVerification(p, x)
                      \/ ResetRead(p, x) \/ VerifyRead(p, x)
        PROVE  Quiet
    BY <2>6 DEF RequestPasswordReset, ResendVerification, ResetRead, VerifyRead, tables
  <2>7. QED
    BY <1>2, <2>1, <2>2, <2>3, <2>4, <2>5, <2>6 DEF OneTime
<1>3. ASSUME NEW p \in Procs, Abort(p) PROVE Quiet
  BY <1>3 DEF Abort, tables
<1>4. ASSUME NEW u \in Users, LogoutAll(u) PROVE Quiet \/ Spent
  <2>1. \A x \in Revocable(u) : Present(x)
    BY DEF Revocable, Present
  <2>2. QED
    BY <1>4, <2>1, <1>S DEF LogoutAll
<1>5. ASSUME NEW u \in Users, NEW r \in Tokens, LogoutOne(u, r) PROVE Quiet \/ Spent
  <2>1. \A x \in {r} : Present(x)
    BY <1>5 DEF LogoutOne, RowsOf
  <2>2. QED
    BY <1>5, <2>1, <1>S DEF LogoutOne
<1>6. ASSUME CleanupExpiredRefreshTokens PROVE Quiet \/ Gone
  BY <1>6, <1>I DEF CleanupExpiredRefreshTokens, DeadRows, Delete
<1>7. ASSUME NEW x \in Ids, Expire(x) PROVE Quiet
  BY <1>7 DEF Expire
<1>8. CASE UNCHANGED vars
  BY <1>8 DEF vars
<1>9. QED
  <2>1. Quiet \/ Spent \/ Gone \/ Born
    BY <1>1, <1>2, <1>3, <1>4, <1>5, <1>6, <1>7, <1>8 DEF Next
  <2>2. QED
    BY <2>1

(* A revoked session row stays revoked until it has expired: whoever uses *)
(* the token again while it would have been accepted is found out.        *)
THEOREM RevocationLasts == Spec => RevokedUntilExpired
<1>1. Types /\ [Next]_vars =>
        [\A t \in Tokens : status[t] = "spent" =>
            status'[t] = "spent" \/ (status'[t] = "deleted" /\ t \in expired)]_vars
  <2> SUFFICES ASSUME Types, [Next]_vars, NEW t \in Tokens, status[t] = "spent"
               PROVE  status'[t] = "spent" \/ (status'[t] = "deleted" /\ t \in expired)
    OBVIOUS
  <2>1. QED
    BY TokenSteps
<1>2. QED
  BY <1>1, InitTypes, StepTypes, PTL DEF Spec, RevokedUntilExpired

-----------------------------------------------------------------------------
(* What one step can do to a handler, as far as the families and the      *)
(* sessions it may still write are concerned.                             *)

LEMMA HandlerSteps ==
    ASSUME Types, [Next]_vars, NEW q \in Procs
    PROVE  /\ \/ UNCHANGED <<pc[q], loc[q]>>
              \/ pc'[q] \notin {"rotate", "mint"}
              \/ pc[q] = "rotate" /\ loc'[q] = loc[q]
              \/ loc'[q].tok = NONE
              \/ \E t \in Tokens :
                   /\ status[t] = "live" /\ pc'[q] = "rotate"
                   /\ loc'[q] = [user |-> owner[t], tok |-> t, auth |-> birth[t].auth]
           /\ pc[q] = "reset_revoke" =>
                UNCHANGED <<pc[q], loc[q]>> \/ ResetRevoke(q) \/ Abort(q)
<1> DEFINE Stays == pc'[q] = pc[q] /\ loc'[q] = loc[q]
           Moves(label, l) == pc'[q] = label /\ loc'[q] = l
           Done == /\ \/ Stays
                      \/ pc'[q] \notin {"rotate", "mint"}
                      \/ pc[q] = "rotate" /\ loc'[q] = loc[q]
                      \/ loc'[q].tok = NONE
                      \/ \E t \in Tokens :
                           /\ status[t] = "live" /\ pc'[q] = "rotate"
                           /\ loc'[q] = [user |-> owner[t], tok |-> t, auth |-> birth[t].auth]
                   /\ pc[q] = "reset_revoke" => Stays \/ ResetRevoke(q) \/ Abort(q)
<1>H. pc \in [Procs -> Labels] /\ loc \in [Procs -> Locals] /\ At(pc[q], loc[q])
  BY DEF Types, HandlersOK
<1>G. \A p \in Procs : \A label, l : Goto(p, label, l) =>
        IF p = q THEN Moves(label, l) ELSE Stays
  BY <1>H DEF Goto
<1>R. \A p \in Procs : Return(p) => IF p = q THEN Moves("idle", NoLoc) ELSE Stays
  BY <1>G DEF Return
<1>1. ASSUME NEW p \in Procs, Session(p)
      PROVE  Done
  <2>1. ASSUME NEW u \in Users, RegisterCheck(p, u) \/ Login(p, u) PROVE Done
    <3>1. PICK label, a :
            label \in {"register_create", "mint"} /\ Goto(p, label, [user |-> u, tok |-> NONE, auth |-> a]) /\ pc[p] = "idle"
      BY <2>1 DEF RegisterCheck, Login
    <3>2. QED
      BY <3>1, <1>G
  <2>2. ASSUME RegisterCreate(p) PROVE Done
    BY <2>2, <1>G, <1>R DEF RegisterCreate
  <2>3. ASSUME SendVerification(p) PROVE Done
    <3>1. CASE pc[p] = "register_verify"
      <4>1. Goto(p, "mint", loc[p]) /\ (p = q => loc[q].tok = NONE)
        BY <2>3, <3>1, <1>H DEF SendVerification, At, Shape
      <4>2. QED
        BY <3>1, <4>1, <1>G
    <3>2. CASE pc[p] = "resend_verify"
      BY <2>3, <3>2, <1>R DEF SendVerification
    <3>3. QED
      BY <2>3, <3>1, <3>2 DEF SendVerification
  <2>4. ASSUME Mint(p) \/ Kill(p) PROVE Done
    <3>1. Return(p) /\ pc[p] # "reset_revoke"
      BY <2>4 DEF Mint, Kill
    <3>2. QED
      BY <3>1, <1>R
  <2>5. ASSUME NEW t \in Tokens, RefreshRead(p, t) PROVE Done
    <3>1. PICK label \in {"kill", "kill_expired", "rotate"} :
            /\ Goto(p, label, [user |-> owner[t], tok |-> t, auth |-> birth[t].auth])
            /\ label = "rotate" => status[t] = "live"
            /\ pc[p] = "idle"
      BY <2>5 DEF RefreshRead, Reused, Present
    <3>2. QED
      BY <3>1, <1>G
  <2>6. ASSUME Rotate(p) PROVE Done
    BY <2>6, <1>G DEF Rotate
  <2>7. QED
    BY <1>1, <2>1, <2>2, <2>3, <2>4, <2>5, <2>6 DEF Session
<1>2. ASSUME NEW p \in Procs, OneTime(p)
      PROVE  Done
  <2>1. ASSUME NEW x, \/ RequestPasswordReset(p, x) \/ ResendVerification(p, x)
                      \/ ResetRead(p, x) \/ VerifyRead(p, x)
        PROVE  Done
    <3>1. PICK label, l :
            /\ label \in {"forgot_clear", "resend_verify", "reset_consume", "verify_consume"}
            /\ Goto(p, label, l)
            /\ pc[p] = "idle"
      BY <2>1 DEF RequestPasswordReset, ResendVerification, ResetRead, VerifyRead
    <3>2. QED
      BY <3>1, <1>G
  <2>2. ASSUME ClearResetTokens(p) \/ ResetUpdate(p) PROVE Done
    <3>1. PICK label \in {"forgot_create", "reset_revoke"} :
            Goto(p, label, loc[p]) /\ pc[p] # "reset_revoke"
      BY <2>2 DEF ClearResetTokens, ResetUpdate
    <3>2. QED
      BY <3>1, <1>G
  <2>3. ASSUME CreateResetToken(p) \/ VerifyMark(p) PROVE Done
    <3>1. Return(p) /\ pc[p] # "reset_revoke"
      BY <2>3 DEF CreateResetToken, VerifyMark
    <3>2. QED
      BY <3>1, <1>R
  <2>4. ASSUME ResetConsume(p) \/ VerifyConsume(p) PROVE Done
    <3>1. /\ pc[p] # "reset_revoke"
          /\ \/ Return(p)
             \/ \E label \in {"reset_update", "verify_mark"} : Goto(p, label, loc[p])
      BY <2>4 DEF ResetConsume, VerifyConsume
    <3>2. QED
      BY <3>1, <1>G, <1>R
  <2>5. ASSUME ResetRevoke(p) PROVE Done
    <3>1. Return(p)
      BY <2>5 DEF ResetRevoke
    <3>2. QED
      BY <2>5, <3>1, <1>R
  <2>6. QED
    BY <1>2, <2>1, <2>2, <2>3, <2>4, <2>5 DEF OneTime
<1>3. ASSUME NEW p \in Procs, Abort(p) PROVE Done
  <2>1. Return(p)
    BY <1>3 DEF Abort
  <2>2. QED
    BY <1>3, <2>1, <1>R
<1>4. ASSUME UNCHANGED <<pc, loc>> PROVE Done
  BY <1>4
<1>5. UNCHANGED <<pc, loc>> \/ \E p \in Procs : Session(p) \/ OneTime(p) \/ Abort(p)
  BY DEF Next, LogoutAll, LogoutOne, CleanupExpiredRefreshTokens, Expire, vars
<1>6. Done
  BY <1>1, <1>2, <1>3, <1>4, <1>5
<1>7. QED
  BY <1>6

(* No step brings a token of a dead family back.                          *)
LEMMA DeadSteps ==
    ASSUME Types, [Next]_vars, NEW f \in Tokens, Dead(f)
    PROVE  Dead(f)'
<1>T. Types'
  BY StepTypes
<1>1. f # NONE /\ Issued(f)
  BY TokenIdsAssumption DEF Dead, Types, RowsOK, Issued
<1>2. \A t \in Tokens : Issued(t) => birth'[t] = birth[t]
  BY TokenSteps DEF Issued
<1>3. ASSUME NEW p \in Procs, Mint(p), loc[p].tok \in Tokens
      PROVE  birth[loc[p].tok].family # f
  BY <1>3 DEF Dead, UnderWay, Mint
<1>4. ASSUME NEW t \in Tokens, status'[t] = "live", birth'[t].family = f
      PROVE  FALSE
  <2>1. CASE birth'[t] = birth[t] /\ status'[t] = status[t]
    BY <1>4, <2>1 DEF Dead, LiveIn
  <2>2. ASSUME NEW p \in Procs, Mint(p), status[t] = "unissued",
               birth'[t].family = FamilyFor(loc[p], t)
        PROVE  FALSE
    <3>1. loc[p].tok \in Tokens \cup {NONE}
      BY <2>2 DEF Mint, Types, HandlersOK, At, Shape
    <3>2. CASE loc[p].tok = NONE
      BY <1>1, <1>4, <2>2, <3>2 DEF FamilyFor, Issued
    <3>3. CASE loc[p].tok # NONE
      BY <1>3, <1>4, <2>2, <3>1, <3>3 DEF FamilyFor
    <3>4. QED
      BY <3>2, <3>3
  <2>3. CASE birth'[t] = birth[t] /\ status'[t] # status[t] /\ status'[t] \in {"spent", "deleted"}
    BY <1>4, <2>3
  <2>4. ASSUME NEW p \in Procs, Mint(p), status[t] = "unissued",
               birth'[t] = [family |-> FamilyFor(loc[p], t), parent |-> loc[p].tok,
                            auth |-> loc[p].auth]
        PROVE  FALSE
    <3>1. birth'[t].family = FamilyFor(loc[p], t)
      BY <2>4
    <3>2. QED
      BY <2>2, <2>4, <3>1
  <2>5. QED
    BY <2>1, <2>3, <2>4, TokenSteps
<1>5. ASSUME NEW q \in Procs, pc'[q] \in {"rotate", "mint"}, loc'[q].tok \in Tokens
      PROVE  birth'[loc'[q].tok].family # f
  <2>1. PICK t \in Tokens : t = loc'[q].tok
    BY <1>5
  <2>2. CASE pc[q] \in {"rotate", "mint"} /\ loc'[q] = loc[q]
    <3>1. Issued(t) /\ birth[t].family # f
      BY <2>1, <2>2, TokenIdsAssumption DEF Dead, UnderWay, Types, HandlersOK, At
    <3>2. QED
      BY <1>2, <2>1, <3>1
  <2>3. ASSUME NEW x \in Tokens, status[x] = "live",
               loc'[q] = [user |-> owner[x], tok |-> x, auth |-> birth[x].auth]
        PROVE  birth'[loc'[q].tok].family # f
    BY <1>2, <2>3 DEF Dead, LiveIn, Issued
  <2>4. loc'[q].tok # NONE
    BY <1>5, TokenIdsAssumption
  <2>5. QED
    BY <1>5, <2>2, <2>3, <2>4, HandlerSteps
<1>6. QED
  BY <1>1, <1>2, <1>4, <1>5 DEF Dead, UnderWay, LiveIn

(* A family all of whose tokens are revoked or gone, with no refresh past *)
(* the check of revoked_at, never has a live token again.                 *)
THEOREM NoRevival == Spec => DeadFamilyStaysDead
<1>1. Types /\ [Next]_vars => [\A f \in Tokens : Dead(f) => Dead(f)']_vars
  BY DeadSteps
<1>2. QED
  BY <1>1, InitTypes, StepTypes, PTL DEF Spec, DeadFamilyStaysDead

-----------------------------------------------------------------------------
(* Revocations, and the sessions that outrun them.  A session is its       *)
(* family: all its tokens have the owner and the password its first token, *)
(* the root, was written with, and so has every refresh of it on its way.  *)
(* What one step can do to a family is then asked of the root alone: a     *)
(* family that is Dead stays so, and each revocation leaves the families   *)
(* it was meant for dead or escaped.                                       *)

Root(f) == Issued(f) /\ birth[f].family = f
Refreshes(q) == pc[q] \in {"rotate", "mint"} /\ loc[q].tok \in Tokens
FamilyTree ==
    \A t \in Tokens : Issued(t) =>
        \E f \in Tokens : /\ birth[t].family = f /\ Root(f)
                          /\ owner[f] = owner[t] /\ birth[f].auth = birth[t].auth
CarriedOver ==
    \A q \in Procs : Refreshes(q) =>
        loc[q].user = owner[loc[q].tok] /\ loc[q].auth = birth[loc[q].tok].auth
Outdated(f) == birth[f].auth < pwd[owner[f]]
OldSessionsEnd ==
    \A f \in Tokens : (Root(f) /\ ~Dead(f) /\ Outdated(f)) =>
        RevocationDue(owner[f]) \/ f \in escaped
TerminatedEnd == \A f \in terminated : Root(f) /\ (f \in escaped \/ Dead(f))
SessionInv == FamilyTree /\ CarriedOver /\ OldSessionsEnd /\ TerminatedEnd

(* What one step can do to the passwords.                                 *)
LEMMA PasswordSteps ==
    ASSUME Types, [Next]_vars
    PROVE  \/ UNCHANGED pwd
           \/ \E u \in Users : pwd[u] = 0 /\ pwd' = [pwd EXCEPT ![u] = 1]
           \/ \E p \in Procs : /\ ResetUpdate(p) /\ loc[p].user \in Users
                               /\ pc'[p] = "reset_revoke" /\ loc'[p] = loc[p]
<1>1. ASSUME NEW p \in Procs, RegisterCreate(p)
      PROVE  UNCHANGED pwd \/ \E u \in Users : pwd[u] = 0 /\ pwd' = [pwd EXCEPT ![u] = 1]
  <2>1. loc[p].user \in Users
    BY <1>1 DEF RegisterCreate, Types, HandlersOK, At, Shape
  <2>2. QED
    BY <1>1, <2>1 DEF RegisterCreate, EmailFree
<1>2. ASSUME NEW p \in Procs, ResetUpdate(p)
      PROVE  loc[p].user \in Users /\ pc'[p] = "reset_revoke" /\ loc'[p] = loc[p]
  <2>1. loc[p].user \in Users
    BY <1>2 DEF ResetUpdate, Types, HandlersOK, At, Shape
  <2>2. QED
    BY <1>2, <2>1 DEF ResetUpdate, Goto, Types, HandlersOK
<1>3. ASSUME NEW p \in Procs, NEW x,
             \/ RegisterCheck(p, x) \/ Login(p, x) \/ SendVerification(p) \/ Mint(p)
             \/ RefreshRead(p, x) \/ Kill(p) \/ Rotate(p) \/ Abort(p)
      PROVE  UNCHANGED pwd
  BY <1>3 DEF RegisterCheck, Login, SendVerification, Mint, RefreshRead, Kill, Rotate, Abort, tables
<1>4. ASSUME NEW p \in Procs, NEW x,
             \/ RequestPasswordReset(p, x) \/ ResendVerification(p, x) \/ ClearResetTokens(p)
             \/ CreateResetToken(p) \/ ResetRead(p, x) \/ ResetConsume(p) \/ ResetRevoke(p)
             \/ VerifyRead(p, x) \/ VerifyConsume(p) \/ VerifyMark(p)
      PROVE  UNCHANGED pwd
  BY <1>4 DEF RequestPasswordReset, ResendVerification, ClearResetTokens, CreateResetToken,
              ResetRead, ResetConsume, ResetRevoke, VerifyRead, VerifyConsume, VerifyMark, tables
<1>5. ASSUME NEW u, NEW t, LogoutAll(u) \/ LogoutOne(u, t) \/ CleanupExpiredRefreshTokens \/ Expire(t)
      PROVE  UNCHANGED pwd
  BY <1>5 DEF LogoutAll, LogoutOne, CleanupExpiredRefreshTokens, Expire
<1>6. CASE UNCHANGED vars
  BY <1>6 DEF vars
<1>7. QED
  BY <1>1, <1>2, <1>3, <1>4, <1>5, <1>6 DEF Next, Session, OneTime

(* Only three steps change what escaped, what is owed no more and what is  *)
(* reported as terminated.                                                *)
LEMMA EscapeSteps ==
    ASSUME Types, [Next]_vars
    PROVE  \/ \E p \in Procs : Mint(p) \/ Kill(p) \/ ResetRevoke(p)
           \/ UNCHANGED <<escaped, terminated>> /\ owed \subseteq owed'
<1>1. ASSUME NEW p \in Procs, NEW x,
             \/ RegisterCheck(p, x) \/ Login(p, x) \/ RegisterCreate(p) \/ SendVerification(p)
             \/ RefreshRead(p, x) \/ Rotate(p) \/ Abort(p)
      PROVE  UNCHANGED <<escaped, terminated>> /\ owed \subseteq owed'
  BY <1>1 DEF RegisterCheck, Login, RegisterCreate, SendVerification, RefreshRead, Rotate, Abort,
              history
<1>2. ASSUME NEW p \in Procs, NEW x,
             \/ RequestPasswordReset(p, x) \/ ResendVerification(p, x) \/ ClearResetTokens(p)
             \/ CreateResetToken(p) \/ ResetRead(p, x) \/ ResetConsume(p) \/ ResetUpdate(p)
             \/ VerifyRead(p, x) \/ VerifyConsume(p) \/ VerifyMark(p)
      PROVE  UNCHANGED <<escaped, terminated, owed>>
  BY <1>2 DEF RequestPasswordReset, ResendVerification, ClearResetTokens, CreateResetToken,
              ResetRead, ResetConsume, ResetUpdate, VerifyRead, VerifyConsume, VerifyMark, history
<1>3. ASSUME NEW u, NEW t, LogoutAll(u) \/ LogoutOne(u, t) \/ CleanupExpiredRefreshTokens \/ Expire(t)
      PROVE  UNCHANGED <<escaped, terminated, owed>>
  BY <1>3 DEF LogoutAll, LogoutOne, CleanupExpiredRefreshTokens, Expire, history
<1>4. CASE UNCHANGED vars
  BY <1>4 DEF vars
<1>5. QED
  BY <1>1, <1>2, <1>3, <1>4 DEF Next, Session, OneTime

(* A revocation that is due stays so until a reset of the user revokes.   *)
LEMMA DueSteps ==
    ASSUME Types, [Next]_vars, NEW u \in Users, RevocationDue(u)
    PROVE  RevocationDue(u)' \/ \E p \in Procs : ResetRevoke(p) /\ loc[p].user = u
<1>1. CASE u \in owed
  <2>1. ASSUME NEW p \in Procs, ResetRevoke(p), loc[p].user # u
        PROVE  u \in owed'
    BY <1>1, <2>1 DEF ResetRevoke
  <2>2. ASSUME NEW p \in Procs, Mint(p) \/ Kill(p)
        PROVE  u \in owed'
    BY <1>1, <2>2 DEF Mint, Kill
  <2>3. QED
    BY <1>1, <2>1, <2>2, EscapeSteps DEF RevocationDue
<1>2. ASSUME NEW p \in Procs, pc[p] = "reset_revoke", loc[p].user = u
      PROVE  RevocationDue(u)' \/ \E r \in Procs : ResetRevoke(r) /\ loc[r].user = u
  <2>1. CASE UNCHANGED <<pc[p], loc[p]>>
    BY <1>2, <2>1 DEF RevocationDue
  <2>2. CASE Abort(p)
    BY <1>2, <2>2 DEF Abort, RevocationDue
  <2>3. QED
    BY <1>2, <2>1, <2>2, HandlerSteps
<1>3. QED
  BY <1>1, <1>2 DEF RevocationDue

(* The revocation of a reset leaves the user's families dead or escaped ... *)
LEMMA RevokeSteps ==
    ASSUME Types, FamilyTree, NEW p \in Procs, ResetRevoke(p), NEW f \in Tokens, Root(f)
    PROVE  IF owner[f] = loc[p].user THEN f \in escaped' \/ Dead(f)'
           ELSE f \in escaped => f \in escaped'
<1>T. /\ pc \in [Procs -> Labels] /\ loc \in [Procs -> Locals] /\ Tokens \subseteq Ids
      /\ UNCHANGED <<birth, owner>>
  BY DEF Types, HandlersOK, Ids, ResetRevoke
<1>1. ASSUME owner[f] = loc[p].user, f \notin escaped'
      PROVE  Dead(f)'
  <2>1. ~UnderWay(f)
    BY <1>1 DEF ResetRevoke
  <2>2. ~UnderWay(f)'
    <3>1. \A q \in Procs : pc'[q] \in {"rotate", "mint"} => pc'[q] = pc[q] /\ loc'[q] = loc[q]
      BY <1>T DEF ResetRevoke, Return, Goto
    <3>2. QED
      BY <1>T, <2>1, <3>1 DEF UnderWay
  <2>3. ASSUME NEW t \in Tokens, status'[t] = "live", birth'[t].family = f
        PROVE  FALSE
    <3>1. status[t] = "live" /\ owner[t] # loc[p].user
      BY <1>T, <2>3 DEF ResetRevoke, Spend, Revocable
    <3>2. owner[f] = owner[t]
      BY <1>T, <2>3, <3>1 DEF FamilyTree, Issued
    <3>3. QED
      BY <1>1, <3>1, <3>2
  <2>4. QED
    BY <1>T, <2>2, <2>3 DEF Dead, LiveIn, Root
<1>2. owner[f] # loc[p].user /\ f \in escaped => f \in escaped'
  BY DEF ResetRevoke
<1>3. QED
  BY <1>1, <1>2

(* ... and so does that of a reused or expired token's family.            *)
LEMMA KillSteps ==
    ASSUME Types, FamilyTree, NEW p \in Procs, Kill(p), NEW f \in Tokens
    PROVE  IF f = birth[loc[p].tok].family THEN Root(f) /\ (f \in escaped' \/ Dead(f)')
           ELSE /\ f \in escaped => f \in escaped'
                /\ f \in terminated' => f \in terminated
<1>T. /\ pc \in [Procs -> Labels] /\ loc \in [Procs -> Locals] /\ Tokens \subseteq Ids
      /\ UNCHANGED <<birth, owner>> /\ loc[p].tok \in Tokens /\ Issued(loc[p].tok)
  BY TokenIdsAssumption DEF Types, HandlersOK, At, Shape, Ids, Kill
<1>1. CASE f = birth[loc[p].tok].family
  <2>1. Root(f)
    BY <1>T, <1>1 DEF FamilyTree
  <2>2. ASSUME f \notin escaped'
        PROVE  Dead(f)'
    <3>1. ~UnderWay(f) /\ Spend(LiveIn(f))
      BY <1>1, <2>2 DEF Kill
    <3>2. ~UnderWay(f)'
      <4>1. \A q \in Procs : pc'[q] \in {"rotate", "mint"} => pc'[q] = pc[q] /\ loc'[q] = loc[q]
        BY <1>T DEF Kill, Return, Goto
      <4>2. QED
        BY <1>T, <3>1, <4>1 DEF UnderWay
    <3>3. \A t \in Tokens : ~(status'[t] = "live" /\ birth'[t].family = f)
      BY <1>T, <3>1 DEF Spend, LiveIn
    <3>4. QED
      BY <1>T, <2>1, <3>2, <3>3 DEF Dead, LiveIn, Root
  <2>3. QED
    BY <1>1, <2>1, <2>2
<1>2. CASE f # birth[loc[p].tok].family
  BY <1>2 DEF Kill
<1>3. QED
  BY <1>1, <1>2

LEMMA InitSession == Init => SessionInv
<1> SUFFICES ASSUME Init PROVE SessionInv
  OBVIOUS
<1>1. \A t \in Tokens : t \in Ids /\ ~Issued(t)
  BY DEF Init, Issued, Ids
<1>2. \A q \in Procs : ~Refreshes(q)
  BY DEF Init, Refreshes
<1>3. QED
  BY <1>1, <1>2 DEF Init, SessionInv, FamilyTree, CarriedOver, OldSessionsEnd, TerminatedEnd, Root

LEMMA StepSession == Types /\ SessionInv /\ [Next]_vars => SessionInv'
<1> SUFFICES ASSUME Types, SessionInv, [Next]_vars
             PROVE  SessionInv'
  OBVIOUS
<1>I. FamilyTree /\ CarriedOver /\ OldSessionsEnd /\ TerminatedEnd
  BY DEF SessionInv
<1>T. Types' /\ NONE \notin Tokens /\ Tokens \subseteq Ids
  BY StepTypes, TokenIdsAssumption DEF Ids
<1>S. \A t \in Tokens : Issued(t) => Issued(t)' /\ birth'[t] = birth[t] /\ owner'[t] = owner[t]
  BY TokenSteps DEF Issued, Present
<1>R. \A f \in Tokens : Root(f) => Root(f)' /\ birth'[f] = birth[f] /\ owner'[f] = owner[f]
  BY <1>S DEF Root
<1>M. ASSUME NEW p \in Procs, Mint(p)
      PROVE  /\ loc[p] \in Locals /\ loc[p].tok \in Tokens \cup {NONE}
             /\ loc[p].tok # NONE => Issued(loc[p].tok) /\ Refreshes(p)
  BY <1>M DEF Mint, Types, HandlersOK, At, Shape, Refreshes
<1>1. FamilyTree'
  <2> SUFFICES ASSUME NEW t \in Tokens, Issued(t)'
               PROVE  \E f \in Tokens :
                        /\ birth'[t].family = f /\ Root(f)'
                        /\ owner'[f] = owner'[t] /\ birth'[f].auth = birth'[t].auth
    BY DEF FamilyTree
  <2>1. CASE Issued(t)
    BY <1>I, <1>S, <1>R, <2>1 DEF FamilyTree
  <2>2. ASSUME NEW p \in Procs, Mint(p), owner'[t] = loc[p].user,
               birth'[t] = [family |-> FamilyFor(loc[p], t), parent |-> loc[p].tok,
                            auth |-> loc[p].auth]
        PROVE  \E f \in Tokens :
                 /\ birth'[t].family = f /\ Root(f)'
                 /\ owner'[f] = owner'[t] /\ birth'[f].auth = birth'[t].auth
    <3>1. CASE loc[p].tok = NONE
      BY <2>2, <3>1 DEF FamilyFor, Root
    <3>2. CASE loc[p].tok # NONE
      <4>1. PICK s \in Tokens : s = loc[p].tok /\ Issued(s) /\ owner[s] = loc[p].user
                                /\ birth[s].auth = loc[p].auth
        BY <1>I, <1>M, <2>2, <3>2 DEF CarriedOver
      <4>2. PICK f \in Tokens : /\ birth[s].family = f /\ Root(f)
                                /\ owner[f] = owner[s] /\ birth[f].auth = birth[s].auth
        BY <1>I, <4>1 DEF FamilyTree
      <4>3. birth'[t].family = f
        BY <2>2, <3>2, <4>1, <4>2 DEF FamilyFor
      <4>4. QED
        BY <1>R, <2>2, <4>1, <4>2, <4>3
    <3>3. QED
      BY <3>1, <3>2
  <2>3. QED
    BY <2>1, <2>2, TokenSteps DEF Issued, Present
<1>2. CarriedOver'
  <2> SUFFICES ASSUME NEW q \in Procs, Refreshes(q)'
               PROVE  loc'[q].user = owner'[loc'[q].tok] /\ loc'[q].auth = birth'[loc'[q].tok].auth
    BY DEF CarriedOver
  <2>1. CASE loc'[q] = loc[q] /\ pc[q] \in {"rotate", "mint"}
    <3>1. Refreshes(q) /\ Issued(loc[q].tok)
      BY <1>T, <2>1 DEF Refreshes, Types, HandlersOK, At
    <3>2. QED
      BY <1>I, <1>S, <2>1, <3>1 DEF CarriedOver, Refreshes
  <2>2. ASSUME NEW t \in Tokens, status[t] = "live",
               loc'[q] = [user |-> owner[t], tok |-> t, auth |-> birth[t].auth]
        PROVE  loc'[q].user = owner'[loc'[q].tok] /\ loc'[q].auth = birth'[loc'[q].tok].auth
    BY <1>S, <2>2 DEF Issued
  <2>3. pc'[q] \in {"rotate", "mint"} /\ loc'[q].tok # NONE
    BY <1>T DEF Refreshes
  <2>4. QED
    BY <2>1, <2>2, <2>3, HandlerSteps
<1>3. OldSessionsEnd'
  <2> SUFFICES ASSUME NEW f \in Tokens, Root(f)', ~Dead(f)', Outdated(f)'
               PROVE  (RevocationDue(owner[f]))' \/ f \in escaped'
    BY DEF OldSessionsEnd
  <2>0. ASSUME NEW u \in Users, owner'[f] = u
        PROVE  RevocationDue(u)' <=> (RevocationDue(owner[f]))'
    BY <2>0 DEF RevocationDue
  <2>1. CASE Issued(f)
    <3>1. /\ Root(f) /\ ~Dead(f) /\ birth'[f] = birth[f] /\ owner'[f] = owner[f]
          /\ owner[f] \in Users /\ pwd[owner[f]] # 0
      <4>1. Root(f) /\ birth'[f] = birth[f] /\ owner'[f] = owner[f]
        BY <1>S, <2>1 DEF Root
      <4>2. ~Dead(f)
        BY DeadSteps
      <4>3. owner[f] \in Users /\ pwd[owner[f]] # 0
        BY <1>T, <2>1 DEF Types, RowsOK, Issued
      <4>4. QED
        BY <4>1, <4>2, <4>3
    <3>2. PICK u \in Users : u = owner[f]
      BY <3>1
    <3>3. CASE Outdated(f)
      <4>1. CASE RevocationDue(u)
        <5>1. ASSUME NEW p \in Procs, ResetRevoke(p), loc[p].user = u
              PROVE  f \in escaped'
          BY <1>I, <3>1, <3>2, <5>1, RevokeSteps
        <5>2. QED
          BY <2>0, <3>1, <3>2, <4>1, <5>1, DueSteps
      <4>2. CASE f \in escaped
        <5>1. ASSUME NEW p \in Procs, Mint(p) PROVE f \in escaped'
          BY <4>2, <5>1 DEF Mint
        <5>2. ASSUME NEW p \in Procs, Kill(p) PROVE f \in escaped'
          BY <1>I, <4>2, <5>2, KillSteps
        <5>3. ASSUME NEW p \in Procs, ResetRevoke(p) PROVE f \in escaped'
          BY <1>I, <3>1, <4>2, <5>3, RevokeSteps
        <5>4. QED
          BY <4>2, <5>1, <5>2, <5>3, EscapeSteps
      <4>3. QED
        BY <1>I, <3>1, <3>2, <3>3, <4>1, <4>2 DEF OldSessionsEnd
    <3>4. CASE ~Outdated(f)
      <4>1. pwd'[u] # pwd[u]
        BY <3>1, <3>2, <3>4 DEF Outdated
      <4>2. ASSUME NEW v \in Users, pwd[v] = 0, pwd' = [pwd EXCEPT ![v] = 1]
            PROVE  FALSE
        BY <3>1, <3>2, <4>1, <4>2 DEF Types, UsersOK
      <4>3. ASSUME NEW p \in Procs, ResetUpdate(p), loc[p].user \in Users,
                   pc'[p] = "reset_revoke", loc'[p] = loc[p]
            PROVE  RevocationDue(u)'
        <5>1. loc[p].user = u
          BY <4>1, <4>3 DEF ResetUpdate, Types, UsersOK
        <5>2. QED
          BY <4>3, <5>1 DEF RevocationDue
      <4>4. QED
        BY <2>0, <3>1, <3>2, <4>1, <4>2, <4>3, PasswordSteps
    <3>5. QED
      BY <3>3, <3>4
  <2>2. CASE ~Issued(f)
    <3>1. PICK p \in Procs : /\ Mint(p)
                             /\ birth'[f] = [family |-> FamilyFor(loc[p], f), parent |-> loc[p].tok,
                                             auth |-> loc[p].auth]
                             /\ owner'[f] = loc[p].user
      BY <2>2, TokenSteps DEF Issued, Root, Present
    <3>2. loc[p].tok = NONE
      <4>1. SUFFICES ASSUME loc[p].tok # NONE PROVE FALSE
        OBVIOUS
      <4>2. PICK s \in Tokens : s = loc[p].tok /\ Issued(s)
        BY <1>M, <3>1, <4>1
      <4>3. birth[s].family = f
        BY <3>1, <4>1, <4>2 DEF FamilyFor, Root
      <4>4. QED
        BY <1>I, <2>2, <4>2, <4>3 DEF FamilyTree, Root
    <3>3. loc[p].auth < pwd[loc[p].user]
      BY <3>1 DEF Outdated, Mint
    <3>4. PICK t \in Tokens :
            /\ birth' = [birth EXCEPT ![t] =
                 [family |-> FamilyFor(loc[p], t), parent |-> loc[p].tok, auth |-> loc[p].auth]]
            /\ escaped' = IF loc[p].tok = NONE /\ loc[p].auth < pwd[loc[p].user]
                          THEN escaped \cup {t} ELSE escaped
      BY <3>1 DEF Mint
    <3>5. t = f
      <4>1. birth[f].family = NONE
        BY <2>2 DEF Types, RowsOK, Issued
      <4>2. birth'[f].family = f
        BY DEF Root
      <4>3. QED
        BY <1>T, <3>4, <4>1, <4>2
    <3>6. QED
      BY <3>2, <3>3, <3>4, <3>5
  <2>3. QED
    BY <2>1, <2>2
<1>4. TerminatedEnd'
  <2> SUFFICES ASSUME NEW f \in terminated'
               PROVE  Root(f)' /\ (f \in escaped' \/ Dead(f)')
    BY DEF TerminatedEnd
  <2>1. f \in Tokens
    BY <1>T DEF Types, HistoryOK
  <2>2. ASSUME NEW p \in Procs, Kill(p), f = birth[loc[p].tok].family
        PROVE  Root(f)' /\ (f \in escaped' \/ Dead(f)')
    BY <1>I, <1>R, <2>1, <2>2, KillSteps
  <2>3. CASE f \in terminated
    <3>1. Root(f) /\ Root(f)' /\ (f \in escaped \/ Dead(f))
      BY <1>I, <1>R, <2>1, <2>3 DEF TerminatedEnd
    <3>2. CASE Dead(f)
      BY <2>1, <3>1, <3>2, DeadSteps
    <3>3. CASE f \in escaped
      <4>1. ASSUME NEW p \in Procs, Mint(p) PROVE f \in escaped'
        BY <3>3, <4>1 DEF Mint
      <4>2. ASSUME NEW p \in Procs, Kill(p) PROVE f \in escaped' \/ Dead(f)'
        BY <1>I, <2>1, <3>3, <4>2, KillSteps
      <4>3. ASSUME NEW p \in Procs, ResetRevoke(p) PROVE f \in escaped' \/ Dead(f)'
        BY <1>I, <2>1, <3>1, <3>3, <4>3, RevokeSteps
      <4>4. QED
        BY <3>1, <3>3, <4>1, <4>2, <4>3, EscapeSteps
    <3>4. QED
      BY <3>1, <3>2, <3>3
  <2>4. CASE f \notin terminated
    <3>1. PICK p \in Procs : Kill(p)
      <4>1. ASSUME NEW p \in Procs, Mint(p) \/ ResetRevoke(p) PROVE UNCHANGED terminated
        BY <4>1 DEF Mint, ResetRevoke
      <4>2. QED
        BY <2>4, <4>1, EscapeSteps
    <3>2. f = birth[loc[p].tok].family
      BY <2>4, <3>1 DEF Kill
    <3>3. QED
      BY <2>2, <3>1, <3>2
  <2>5. QED
    BY <2>3, <2>4
<1>5. QED
  BY <1>1, <1>2, <1>3, <1>4 DEF SessionInv

(* A live token of a session opened with a password that was replaced is  *)
(* accounted for: the revocation is due, or the session escaped the last  *)
(* one by a refresh or a login that was under way.                        *)
THEOREM ResetsRevoke == Spec => []ResetRevokesEarlierSessions
<1>1. Types /\ SessionInv => ResetRevokesEarlierSessions
  <2> SUFFICES ASSUME Types, SessionInv, NEW t \in Tokens, status[t] = "live",
                      birth[t].auth < pwd[owner[t]]
               PROVE  RevocationDue(owner[t]) \/ birth[t].family \in escaped
    BY DEF ResetRevokesEarlierSessions
  <2>1. PICK f \in Tokens : /\ birth[t].family = f /\ Root(f)
                            /\ owner[f] = owner[t] /\ birth[f].auth = birth[t].auth
    BY DEF SessionInv, FamilyTree, Issued
  <2>2. ~Dead(f) /\ Outdated(f)
    BY <2>1 DEF Dead, LiveIn, Outdated
  <2>3. QED
    BY <2>1, <2>2 DEF SessionInv, OldSessionsEnd
<1>2. QED
  BY <1>1, InitTypes, StepTypes, InitSession, StepSession, PTL DEF Spec

(* A family reported as terminated has no live token, unless a refresh was *)
(* under way when it was revoked or the revocation failed.                *)
THEOREM TerminationEnds == Spec => []TerminatedUnlessUnderWay
<1>1. Types /\ SessionInv => TerminatedUnlessUnderWay
  BY DEF SessionInv, TerminatedEnd, TerminatedUnlessUnderWay, Dead, LiveIn
<1>2. QED
  BY <1>1, InitTypes, StepTypes, InitSession, StepSession, PTL DEF Spec

-----------------------------------------------------------------------------
(* The tokens of e-mail links.  A handler that has consumed one is between *)
(* the UPDATE of used_at and the effect it was consumed for.  The ledger   *)
(* and the verified users follow from HoldInv: such a handler holds a spent *)
(* row of its own user, no two of them hold the same row, and the rows of  *)
(* the handlers that stopped there (lost) are not among them.              *)

OneTimeIds == ResetIds \cup VerifyIds
Holding(p) == pc[p] \in {"reset_update", "verify_mark"}

HoldersOwn == \A p \in Procs : loc[p].tok # NONE => loc[p].user = owner[loc[p].tok]
HoldInv ==
    /\ HoldersOwn
    /\ \A p \in Procs : Holding(p) => status[loc[p].tok] = "spent" /\ loc[p].tok \notin lost
    /\ \A p, q \in Procs : (Holding(p) /\ Holding(q) /\ loc[p].tok = loc[q].tok) => p = q
    /\ \A x \in lost : x \in OneTimeIds /\ status[x] = "spent"

(* A step that consumes no one-time token and finishes no handler that did. *)
Quiet ==
    /\ UNCHANGED <<verified, lost>>
    /\ \A x \in OneTimeIds :
         \/ status'[x] = status[x] /\ owner'[x] = owner[x]
         \/ status[x] = "unissued" /\ status'[x] = "live"
         \/ status[x] = "live" /\ status'[x] = "deleted" /\ owner'[x] = owner[x]
    /\ \A q \in Procs :
         \/ pc'[q] = pc[q] /\ loc'[q] = loc[q]
         \/ pc[q] \notin {"reset_update", "verify_mark"} /\ pc'[q] \notin {"reset_update", "verify_mark"}
    /\ UNCHANGED pwd \/ \E u \in Users : pwd[u] = 0 /\ pwd' = [pwd EXCEPT ![u] = 1]
(* The conditional UPDATE of used_at found its row. *)
Consumes(p) ==
    /\ pc[p] \in {"reset_consume", "verify_consume"}
    /\ status[loc[p].tok] = "live" /\ Spend({loc[p].tok})
    /\ Goto(p, IF pc[p] = "reset_consume" THEN "reset_update" ELSE "verify_mark", loc[p])
    /\ UNCHANGED <<pwd, verified, owner, lost>>

LEMMA OneTimeSteps ==
    ASSUME Types, [Next]_vars
    PROVE  \/ Quiet
           \/ \E p \in Procs : Consumes(p) \/ ResetUpdate(p) \/ VerifyMark(p) \/ Abort(p)
<1> USE DEF OneTimeIds
<1>T. /\ status \in [Ids -> Statuses] /\ owner \in [Ids -> Users \cup {NONE}]
      /\ pc \in [Procs -> Labels] /\ loc \in [Procs -> Locals]
      /\ \A p \in Procs : At(pc[p], loc[p])
  BY DEF Types, RowsOK, HandlersOK
<1>I. /\ OneTimeIds \subseteq Ids /\ Tokens \cap OneTimeIds = {}
  BY TokenIdsAssumption DEF Ids
<1> DEFINE Rows == \A x \in OneTimeIds :
                     \/ status'[x] = status[x] /\ owner'[x] = owner[x]
                     \/ status[x] = "unissued" /\ status'[x] = "live"
                     \/ status[x] = "live" /\ status'[x] = "deleted" /\ owner'[x] = owner[x]
           Places == \A q \in Procs :
                     \/ pc'[q] = pc[q] /\ loc'[q] = loc[q]
                     \/ /\ pc[q] \notin {"reset_update", "verify_mark"}
                        /\ pc'[q] \notin {"reset_update", "verify_mark"}
<1>R1. ASSUME NEW S \in SUBSET Tokens, Spend(S) \/ Delete(S), UNCHANGED owner
       PROVE  Rows
  BY <1>R1, <1>I DEF Spend, Delete
<1>R2. ASSUME NEW u, NEW table \in {ResetIds, VerifyIds}, InsertOneTime(u, table)
       PROVE  Rows
  BY <1>R2, <1>T, <1>I DEF InsertOneTime
<1>R3. ASSUME UNCHANGED <<status, owner>>
       PROVE  Rows
  BY <1>R3
<1>P1. ASSUME NEW p \in Procs, NEW label, NEW l, Goto(p, label, l),
              pc[p] \notin {"reset_update", "verify_mark"}, label \notin {"reset_update", "verify_mark"}
       PROVE  Places
  BY <1>P1, <1>T DEF Goto
<1>P2. ASSUME UNCHANGED <<pc, loc>>
       PROVE  Places
  BY <1>P2
<1>1. ASSUME NEW p \in Procs, Session(p)
      PROVE  Quiet
  <2>1. ASSUME NEW u \in Users, RegisterCheck(p, u) \/ Login(p, u) PROVE Quiet
    <3>1. Places /\ UNCHANGED <<tables, history>>
      BY <2>1, <1>P1 DEF RegisterCheck, Login
    <3>2. QED
      BY <3>1, <1>R3 DEF Quiet, tables, history
  <2>2. ASSUME RegisterCreate(p) PROVE Quiet
    <3>1. Places
      BY <2>2, <1>P1 DEF RegisterCreate, Return
    <3>2. UNCHANGED pwd \/ \E u \in Users : pwd[u] = 0 /\ pwd' = [pwd EXCEPT ![u] = 1]
      <4>1. loc[p].user \in Users
        BY <2>2, <1>T DEF RegisterCreate, At, Shape
      <4>2. QED
        BY <2>2, <4>1 DEF RegisterCreate, EmailFree
    <3>3. QED
      BY <2>2, <3>1, <3>2, <1>R3 DEF RegisterCreate, Quiet, history
  <2>3. ASSUME SendVerification(p) PROVE Quiet
    <3>1. Rows
      BY <2>3, <1>R2, <1>R3 DEF SendVerification
    <3>2. Places
      BY <2>3, <1>P1 DEF SendVerification, Return
    <3>3. QED
      BY <2>3, <3>1, <3>2 DEF SendVerification, Quiet, history
  <2>4. ASSUME Mint(p) PROVE Quiet
    <3>1. Places
      BY <2>4, <1>P1 DEF Mint, Return
    <3>2. Rows
      BY <2>4, <1>T, <1>I DEF Mint
    <3>3. QED
      BY <2>4, <3>1, <3>2 DEF Mint, Quiet, history
  <2>5. ASSUME NEW t \in Tokens, RefreshRead(p, t) PROVE Quiet
    <3>1. Places
      BY <2>5, <1>P1 DEF RefreshRead
    <3>2. QED
      BY <2>5, <3>1, <1>R3 DEF RefreshRead, Quiet, tables
  <2>6. ASSUME Kill(p) PROVE Quiet
    <3>1. Places
      BY <2>6, <1>P1 DEF Kill, Return
    <3>2. LiveIn(birth[loc[p].tok].family) \in SUBSET Tokens
      BY DEF LiveIn
    <3>3. Rows
      BY <2>6, <3>2, <1>R1, <1>R3 DEF Kill
    <3>4. QED
      BY <2>6, <3>1, <3>3 DEF Kill, Quiet
  <2>7. ASSUME Rotate(p) PROVE Quiet
    <3>1. Places
      BY <2>7, <1>P1 DEF Rotate
    <3>2. {loc[p].tok} \cap RowsOf(loc[p].user, Tokens) \in SUBSET Tokens
      BY DEF RowsOf
    <3>3. Rows
      BY <2>7, <3>2, <1>R1 DEF Rotate
    <3>4. QED
      BY <2>7, <3>1, <3>3 DEF Rotate, Quiet, history
  <2>8. QED
    BY <1>1, <2>1, <2>2, <2>3, <2>4, <2>5, <2>6, <2>7 DEF Session
<1>2. ASSUME NEW p \in Procs, OneTime(p)
      PROVE  Quiet \/ Consumes(p) \/ ResetUpdate(p) \/ VerifyMark(p)
  <2>1. ASSUME NEW x, \/ RequestPasswordReset(p, x) \/ ResendVerification(p, x)
                      \/ ResetRead(p, x) \/ VerifyRead(p, x)
        PROVE  Quiet
    <3>1. Places /\ UNCHANGED <<tables, history>>
      BY <2>1, <1>P1 DEF RequestPasswordReset, ResendVerification, ResetRead, VerifyRead
    <3>2. QED
      BY <3>1, <1>R3 DEF Quiet, tables, history
  <2>2. ASSUME ClearResetTokens(p) PROVE Quiet
    <3>1. Places
      BY <2>2, <1>P1 DEF ClearResetTokens
    <3>2. Rows
      BY <2>2, <1>I, <1>T DEF ClearResetTokens, Delete, Unconsumed
    <3>3. QED
      BY <2>2, <3>1, <3>2 DEF ClearResetTokens, Quiet, history
  <2>3. ASSUME CreateResetToken(p) PROVE Quiet
    <3>1. Places
      BY <2>3, <1>P1 DEF CreateResetToken, Return
    <3>2. QED
      BY <2>3, <3>1, <1>R2 DEF CreateResetToken, Quiet, history
  <2>4. ASSUME ResetConsume(p) \/ VerifyConsume(p) PROVE Quiet \/ Consumes(p)
    <3>1. CASE Consumable(loc[p].tok)
      BY <2>4, <3>1 DEF ResetConsume, VerifyConsume, Consumable, Consumes, history
    <3>2. CASE ~Consumable(loc[p].tok)
      <4>1. Places
        BY <2>4, <3>2, <1>P1 DEF ResetConsume, VerifyConsume, Return
      <4>2. QED
        BY <2>4, <3>2, <4>1, <1>R3 DEF ResetConsume, VerifyConsume, Quiet, history
    <3>3. QED
      BY <3>1, <3>2
  <2>5. ASSUME ResetRevoke(p) PROVE Quiet
    <3>1. Places
      BY <2>5, <1>P1 DEF ResetRevoke, Return
    <3>2. Revocable(loc[p].user) \in SUBSET Tokens
      BY DEF Revocable
    <3>3. Rows
      BY <2>5, <3>2, <1>R1 DEF ResetRevoke
    <3>4. QED
      BY <2>5, <3>1, <3>3 DEF ResetRevoke, Quiet, history
  <2>6. QED
    BY <1>2, <2>1, <2>2, <2>3, <2>4, <2>5 DEF OneTime
<1>3. ASSUME NEW u \in Users, LogoutAll(u) \/ \E t \in Tokens : LogoutOne(u, t)
      PROVE  Quiet
  <2>1. Revocable(u) \in SUBSET Tokens
    BY DEF Revocable
  <2>2. Rows
    BY <1>3, <2>1, <1>R1 DEF LogoutAll, LogoutOne
  <2>3. QED
    BY <1>3, <2>2, <1>P2 DEF LogoutAll, LogoutOne, Quiet, history
<1>4. ASSUME CleanupExpiredRefreshTokens
      PROVE  Quiet
  <2>1. DeadRows \in SUBSET Tokens
    BY DEF DeadRows
  <2>2. Rows
    BY <1>4, <2>1, <1>R1 DEF CleanupExpiredRefreshTokens
  <2>3. QED
    BY <1>4, <2>2, <1>P2 DEF CleanupExpiredRefreshTokens, Quiet, history
<1>5. ASSUME (\E x \in Ids : Expire(x)) \/ UNCHANGED vars
      PROVE  Quiet
  BY <1>5, <1>R3, <1>P2 DEF Expire, Quiet, history, vars
<1>6. QED
  BY <1>1, <1>2, <1>3, <1>4, <1>5 DEF Next

(* Nobody takes a row away from its user; what a handler has read it has  *)
(* read of a row that was there.                                          *)
LEMMA OwnersStay ==
    ASSUME Types, [Next]_vars, NEW x \in Ids, Issued(x)
    PROVE  owner'[x] = owner[x]
<1>1. CASE x \in Tokens
  BY <1>1, TokenSteps DEF Issued
<1>2. CASE x \in OneTimeIds
  <2>1. CASE Quiet
    BY <1>2, <2>1 DEF Quiet, Issued
  <2>2. CASE UNCHANGED owner
    BY <2>2
  <2>3. QED
    BY <2>1, <2>2, OneTimeSteps DEF Consumes, ResetUpdate, VerifyMark, Abort, tables
<1>3. QED
  BY <1>1, <1>2 DEF Ids, OneTimeIds

LEMMA LocSteps ==
    ASSUME Types, [Next]_vars, NEW q \in Procs
    PROVE  \/ loc'[q] = loc[q]
           \/ loc'[q].tok = NONE
           \/ Issued(loc'[q].tok) /\ loc'[q].user = owner[loc'[q].tok]
<1> DEFINE Moves == \/ loc'[q] = loc[q]
                    \/ loc'[q].tok = NONE
                    \/ Issued(loc'[q].tok) /\ loc'[q].user = owner[loc'[q].tok]
<1>T. loc \in [Procs -> Locals]
  BY DEF Types, HandlersOK
<1>1. ASSUME NEW p \in Procs, NEW label, Goto(p, label, loc[p]) \/ Return(p)
      PROVE  Moves
  BY <1>1, <1>T DEF Goto, Return, NoLoc
<1>2. ASSUME NEW p \in Procs, NEW label, NEW u, NEW a,
             Goto(p, label, [user |-> u, tok |-> NONE, auth |-> a])
      PROVE  Moves
  BY <1>2, <1>T DEF Goto
<1>3. ASSUME NEW p \in Procs, NEW label, NEW x, NEW a, Present(x),
             Goto(p, label, [user |-> owner[x], tok |-> x, auth |-> a])
      PROVE  Moves
  BY <1>3, <1>T DEF Goto, Present, Issued
<1>4. ASSUME UNCHANGED loc
      PROVE  Moves
  BY <1>4
<1>5. ASSUME NEW p \in Procs, Session(p)
      PROVE  Moves
  BY <1>1, <1>2, <1>3, <1>5 DEF Session, RegisterCheck, Login, RegisterCreate, SendVerification,
     Mint, RefreshRead, Kill, Rotate
<1>6. ASSUME NEW p \in Procs, OneTime(p)
      PROVE  Moves
  <2>1. ASSUME NEW x, ResetRead(p, x) \/ VerifyRead(p, x)
        PROVE  Moves
    BY <1>3, <2>1 DEF ResetRead, VerifyRead, Present
  <2>2. QED
    BY <1>1, <1>2, <1>6, <2>1 DEF OneTime, RequestPasswordReset, ResendVerification,
       ClearResetTokens, CreateResetToken, ResetConsume, ResetUpdate, ResetRevoke,
       VerifyConsume, VerifyMark
<1>7. ASSUME NEW p \in Procs, Abort(p)
      PROVE  Moves
  BY <1>1, <1>7 DEF Abort
<1>8. Moves
  BY <1>4, <1>5, <1>6, <1>7 DEF Next, LogoutAll, LogoutOne, CleanupExpiredRefreshTokens, Expire, vars
<1>9. QED
  BY <1>8

LEMMA HoldStep == Types /\ HoldInv /\ [Next]_vars => HoldInv'
<1> SUFFICES ASSUME Types, HoldInv, [Next]_vars
             PROVE  HoldInv'
  OBVIOUS
<1>T. /\ status \in [Ids -> Statuses] /\ pc \in [Procs -> Labels] /\ loc \in [Procs -> Locals]
      /\ \A p \in Procs : /\ At(pc[p], loc[p]) /\ loc[p].tok \in Ids \cup {NONE}
                          /\ Holding(p) => loc[p].tok \in OneTimeIds
      /\ OneTimeIds \subseteq Ids
  BY DEF Types, RowsOK, HandlersOK, Locals, OneTimeIds, Ids, Holding, At, Shape
<1>1. HoldersOwn'
  <2> SUFFICES ASSUME NEW p \in Procs, loc'[p].tok # NONE
               PROVE  loc'[p].user = owner'[loc'[p].tok]
    BY DEF HoldersOwn
  <2>T. loc'[p].tok \in Ids
    BY StepTypes DEF Types, HandlersOK, Locals
  <2>1. CASE loc'[p] = loc[p]
    <3>1. Issued(loc[p].tok) /\ loc[p].user = owner[loc[p].tok] /\ loc[p].tok \in Ids
      BY <1>T, <2>1, <2>T DEF HoldInv, HoldersOwn, At
    <3>2. QED
      BY <2>1, <3>1, OwnersStay
  <2>2. CASE Issued(loc'[p].tok) /\ loc'[p].user = owner[loc'[p].tok]
    <3>1. PICK x \in Ids : x = loc'[p].tok
      BY <2>T
    <3>2. QED
      BY <2>2, <3>1, OwnersStay
  <2>3. QED
    BY <2>1, <2>2, LocSteps
<1> DEFINE Rest ==
      /\ \A p \in Procs : Holding(p) => status[loc[p].tok] = "spent" /\ loc[p].tok \notin lost
      /\ \A p, q \in Procs : (Holding(p) /\ Holding(q) /\ loc[p].tok = loc[q].tok) => p = q
      /\ \A x \in lost : x \in OneTimeIds /\ status[x] = "spent"
<1>R. Rest
  BY DEF HoldInv
<1>2. CASE Quiet
  <2>1. \A q \in Procs : Holding(q)' => Holding(q) /\ loc'[q] = loc[q]
    BY <1>2 DEF Quiet, Holding
  <2>2. \A x \in OneTimeIds : status[x] = "spent" => status'[x] = "spent"
    BY <1>2 DEF Quiet
  <2>3. UNCHANGED lost
    BY <1>2 DEF Quiet
  <2>4. Rest'
    BY <1>T, <1>R, <2>1, <2>2, <2>3
  <2>5. QED
    BY <1>1, <2>4 DEF HoldInv
<1>3. ASSUME NEW p \in Procs, Consumes(p)
      PROVE  HoldInv'
  <2>1. PICK x \in OneTimeIds : x = loc[p].tok /\ status[x] = "live" /\ x \notin lost
    BY <1>3, <1>T, <1>R DEF Consumes, At, Shape, OneTimeIds
  <2>2. \A y \in Ids : status'[y] = IF y = x THEN "spent" ELSE status[y]
    BY <1>3, <2>1 DEF Consumes, Spend
  <2>3. UNCHANGED <<loc, lost>> /\ \A q \in Procs : Holding(q)' => Holding(q) \/ q = p
    BY <1>3, <1>T DEF Consumes, Goto, Holding
  <2>4. \A q \in Procs : Holding(q) => loc[q].tok # x
    BY <1>R, <2>1
  <2>5. Rest'
    BY <1>T, <1>R, <2>1, <2>2, <2>3, <2>4
  <2>6. QED
    BY <1>1, <2>5 DEF HoldInv
<1>4. ASSUME NEW p \in Procs, ResetUpdate(p) \/ VerifyMark(p)
      PROVE  HoldInv'
  <2>1. UNCHANGED <<status, lost>>
    BY <1>4 DEF ResetUpdate, VerifyMark, history
  <2>2. \A q \in Procs : Holding(q)' => Holding(q) /\ loc'[q] = loc[q]
    BY <1>4, <1>T DEF ResetUpdate, VerifyMark, Return, Goto, Holding
  <2>3. Rest'
    BY <1>R, <2>1, <2>2
  <2>4. QED
    BY <1>1, <2>3 DEF HoldInv
<1>5. ASSUME NEW p \in Procs, Abort(p)
      PROVE  HoldInv'
  <2>1. UNCHANGED status /\ lost' = IF Holding(p) THEN lost \cup {loc[p].tok} ELSE lost
    BY <1>5 DEF Abort, tables, Holding
  <2>2. \A q \in Procs : Holding(q)' => Holding(q) /\ q # p /\ loc'[q] = loc[q]
    BY <1>5, <1>T DEF Abort, Return, Goto, Holding
  <2>3. Rest'
    BY <1>T, <1>R, <2>1, <2>2
  <2>4. QED
    BY <1>1, <2>3 DEF HoldInv
<1>6. QED
  BY <1>2, <1>3, <1>4, <1>5, OneTimeSteps

LEMMA HoldInit == Init => HoldInv
BY DEF Init, HoldInv, HoldersOwn, Holding, NoLoc

(* A verification token that was consumed has verified its user, or its    *)
(* handler is about to, or stopped there; no other way leads to a verified *)
(* address.                                                               *)
THEOREM VerificationIsPaidFor == Spec => []VerifiedByConsumedToken
<1>1. Init => VerifiedByConsumedToken
  BY DEF Init, VerifiedByConsumedToken, Ids
<1>2. ASSUME Types, HoldInv, VerifiedByConsumedToken, [Next]_vars
      PROVE  VerifiedByConsumedToken'
  <2>T. /\ status \in [Ids -> Statuses] /\ pc \in [Procs -> Labels] /\ loc \in [Procs -> Locals]
        /\ \A p \in Procs : At(pc[p], loc[p])
        /\ VerifyIds \subseteq OneTimeIds /\ OneTimeIds \subseteq Ids
        /\ VerifyIds \cap ResetIds = {} /\ NONE \notin VerifyIds
    BY <1>2, TokenIdsAssumption DEF Types, RowsOK, HandlersOK, OneTimeIds, Ids
  <2> DEFINE Marking(v) == \E p \in Procs : pc[p] = "verify_mark" /\ loc[p].tok = v
             Served(v) == owner[v] \in verified \/ v \in lost \/ Marking(v)
             Proof(u) == \E v \in VerifyIds : status[v] = "spent" /\ owner[v] = u
  <2>V. /\ \A v \in VerifyIds : status[v] = "spent" => Served(v)
        /\ \A u \in verified : Proof(u)
    BY <1>2 DEF VerifiedByConsumedToken
  <2>Q. ASSUME \A v \in VerifyIds : status'[v] = "spent" => (Served(v))', \A u \in verified' : (Proof(u))'
        PROVE  VerifiedByConsumedToken'
    BY <2>Q DEF VerifiedByConsumedToken
  <2>1. CASE Quiet
    <3>1. \A v \in VerifyIds :
            /\ status'[v] = "spent" <=> status[v] = "spent"
            /\ status[v] = "spent" => owner'[v] = owner[v]
            /\ Marking(v) => (Marking(v))'
      BY <2>1, <2>T DEF Quiet
    <3>2. UNCHANGED <<verified, lost>>
      BY <2>1 DEF Quiet
    <3>3. QED
      BY <2>V, <2>Q, <3>1, <3>2
  <2>2. ASSUME NEW p \in Procs, Consumes(p)
        PROVE  VerifiedByConsumedToken'
    <3>1. PICK x \in OneTimeIds : x = loc[p].tok /\ status[x] = "live"
      BY <2>2, <2>T DEF Consumes, At, Shape, OneTimeIds
    <3>2. \A y \in Ids : status'[y] = IF y = x THEN "spent" ELSE status[y]
      BY <2>2, <3>1 DEF Consumes, Spend
    <3>3. \A v \in VerifyIds : Marking(v) => (Marking(v))'
      BY <2>2, <2>T DEF Consumes, Goto
    <3>4. x \in VerifyIds => (Marking(x))'
      <4>1. SUFFICES ASSUME x \in VerifyIds PROVE pc'[p] = "verify_mark" /\ loc'[p].tok = x
        OBVIOUS
      <4>2. pc[p] = "verify_consume"
        BY <2>2, <2>T, <3>1, <4>1 DEF Consumes, At, Shape
      <4>3. QED
        BY <2>2, <2>T, <3>1, <4>2 DEF Consumes, Goto
    <3>5. UNCHANGED <<verified, owner, lost>>
      BY <2>2 DEF Consumes
    <3>6. QED
      BY <2>T, <2>V, <2>Q, <3>1, <3>2, <3>3, <3>4, <3>5
  <2>3. ASSUME NEW p \in Procs, ResetUpdate(p)
        PROVE  VerifiedByConsumedToken'
    <3>1. UNCHANGED <<verified, status, owner, lost>>
      BY <2>3 DEF ResetUpdate, history
    <3>2. \A v \in VerifyIds : Marking(v) => (Marking(v))'
      BY <2>3, <2>T DEF ResetUpdate, Goto
    <3>3. QED
      BY <2>V, <2>Q, <3>1, <3>2
  <2>4. ASSUME NEW p \in Procs, VerifyMark(p)
        PROVE  VerifiedByConsumedToken'
    <3>1. PICK x \in VerifyIds : x = loc[p].tok /\ status[x] = "spent" /\ owner[x] = loc[p].user
      BY <1>2, <2>4, <2>T DEF VerifyMark, At, Shape, HoldInv, HoldersOwn, Holding
    <3>2. UNCHANGED <<status, owner, lost>> /\ verified' = verified \cup {owner[x]}
      BY <2>4, <3>1 DEF VerifyMark, Marked, history
    <3>3. \A v \in VerifyIds : Marking(v) => (Marking(v))' \/ v = x
      BY <2>4, <2>T, <3>1 DEF VerifyMark, Return, Goto
    <3>4. QED
      BY <2>V, <2>Q, <3>1, <3>2, <3>3
  <2>5. ASSUME NEW p \in Procs, Abort(p)
        PROVE  VerifiedByConsumedToken'
    <3>1. UNCHANGED <<verified, status, owner>> /\ lost \subseteq lost'
      BY <2>5 DEF Abort, tables
    <3>2. \A v \in VerifyIds : Marking(v) => (Marking(v))' \/ v \in lost'
      BY <2>5, <2>T DEF Abort, Return, Goto
    <3>3. QED
      BY <2>V, <2>Q, <3>1, <3>2
  <2>6. QED
    BY <1>2, <2>1, <2>2, <2>3, <2>4, <2>5, OneTimeSteps
<1>3. QED
  BY <1>1, <1>2, InitTypes, StepTypes, HoldInit, HoldStep, PTL DEF Spec

(* The resets of u that are paid for, and done with the password. *)
Paid(u) == {r \in ResetIds : /\ status[r] = "spent" /\ owner[r] = u /\ r \notin lost
                             /\ ~\E p \in Procs : pc[p] = "reset_update" /\ loc[p].tok = r}
Balanced(u) == IsFiniteSet(Paid(u)) /\ (pwd[u] # 0 => pwd[u] - 1 = Cardinality(Paid(u)))

(* A step that changes no password, or writes the first one of an account, *)
(* leaves the resets paid for as they are.                                *)
LEMMA LedgerStays ==
    ASSUME Types, NEW u \in Users, Balanced(u), Paid(u)' = Paid(u),
           pwd'[u] = pwd[u] \/ (pwd[u] = 0 /\ pwd'[u] = 1)
    PROVE  Balanced(u)'
<1>1. CASE pwd'[u] = pwd[u]
  BY <1>1 DEF Balanced
<1>2. CASE pwd[u] = 0 /\ pwd'[u] = 1
  <2>1. Paid(u) = {}
    <3> SUFFICES ASSUME NEW r \in Paid(u) PROVE FALSE
      OBVIOUS
    <3>1. r \in Ids /\ owner[r] = u /\ u # NONE
      BY UsersAssumption DEF Paid, Ids
    <3>2. QED
      BY <1>2, <3>1 DEF Types, RowsOK
  <2>2. IsFiniteSet(Paid(u)') /\ Cardinality(Paid(u)') = 0
    BY <2>1, FS_EmptySet
  <2>3. QED
    BY <1>2, <2>2 DEF Balanced
<1>3. QED
  BY <1>1, <1>2

(* Version k of a password was preceded by k - 1 resets that each consumed *)
(* a token of that user's own: no two resets with one token, no reset that *)
(* lost its race, and nobody else's token ever changes it.                *)
THEOREM ResetsArePaidFor == Spec => []PasswordLedger
<1> DEFINE Ledger == \A u \in Users : Balanced(u)
<1>1. Init => Ledger
  <2> SUFFICES ASSUME Init, NEW u \in Users PROVE Balanced(u)
    OBVIOUS
  <2>1. Paid(u) = {}
    BY DEF Init, Paid, Ids
  <2>2. IsFiniteSet(Paid(u)) /\ Cardinality(Paid(u)) = 0
    BY <2>1, FS_EmptySet
  <2>3. pwd[u] \in {0, 1}
    BY DEF Init
  <2>4. QED
    BY <2>2, <2>3 DEF Balanced
<1>2. ASSUME Types, HoldInv, Ledger, [Next]_vars
      PROVE  Ledger'
  <2> SUFFICES ASSUME NEW u \in Users PROVE Balanced(u)'
    OBVIOUS
  <2>T. /\ pwd \in [Users -> 0 .. MaxPwd] /\ status \in [Ids -> Statuses]
        /\ pc \in [Procs -> Labels] /\ loc \in [Procs -> Locals]
        /\ \A p \in Procs : At(pc[p], loc[p])
        /\ ResetIds \subseteq OneTimeIds /\ OneTimeIds \subseteq Ids
        /\ VerifyIds \cap ResetIds = {} /\ NONE \notin ResetIds
    BY <1>2, TokenIdsAssumption DEF Types, UsersOK, RowsOK, HandlersOK, OneTimeIds, Ids
  <2>B. Balanced(u)
    BY <1>2
  <2> DEFINE Updating(r) == \E p \in Procs : pc[p] = "reset_update" /\ loc[p].tok = r
             Settled(r) == status[r] = "spent" /\ owner[r] = u /\ r \notin lost /\ ~Updating(r)
  <2>P. Paid(u) = {r \in ResetIds : Settled(r)} /\ Paid(u)' = {r \in ResetIds : (Settled(r))'}
    BY DEF Paid
  <2>Q. ASSUME \A r \in ResetIds : (Settled(r))' <=> Settled(r),
               pwd'[u] = pwd[u] \/ (pwd[u] = 0 /\ pwd'[u] = 1)
        PROVE  Balanced(u)'
    <3>1. Paid(u)' = Paid(u)
      BY <2>P, <2>Q
    <3>2. QED
      BY <1>2, <2>B, <2>Q, <3>1, LedgerStays
  <2>1. CASE Quiet
    <3>1. \A r \in ResetIds :
            /\ status'[r] = "spent" <=> status[r] = "spent"
            /\ status[r] = "spent" => owner'[r] = owner[r]
            /\ (Updating(r))' <=> Updating(r)
      BY <2>1, <2>T DEF Quiet
    <3>2. UNCHANGED lost
      BY <2>1 DEF Quiet
    <3>3. pwd'[u] = pwd[u] \/ (pwd[u] = 0 /\ pwd'[u] = 1)
      BY <2>1, <2>T DEF Quiet
    <3>4. QED
      BY <2>Q, <3>1, <3>2, <3>3
  <2>2. ASSUME NEW p \in Procs, Consumes(p)
        PROVE  Balanced(u)'
    <3>1. PICK x \in OneTimeIds : x = loc[p].tok /\ status[x] = "live"
      BY <2>2, <2>T DEF Consumes, At, Shape, OneTimeIds
    <3>2. \A y \in Ids : status'[y] = IF y = x THEN "spent" ELSE status[y]
      BY <2>2, <3>1 DEF Consumes, Spend
    <3>3. \A r \in ResetIds : r # x => ((Updating(r))' <=> Updating(r))
      BY <2>2, <2>T, <3>1 DEF Consumes, Goto
    <3>4. x \in ResetIds => (Updating(x))'
      <4>1. SUFFICES ASSUME x \in ResetIds PROVE pc'[p] = "reset_update" /\ loc'[p].tok = x
        OBVIOUS
      <4>2. pc[p] = "reset_consume"
        BY <2>2, <2>T, <3>1, <4>1 DEF Consumes, At, Shape
      <4>3. QED
        BY <2>2, <2>T, <3>1, <4>2 DEF Consumes, Goto
    <3>5. UNCHANGED <<pwd, owner, lost>>
      BY <2>2 DEF Consumes
    <3>6. \A r \in ResetIds : (Settled(r))' <=> Settled(r)
      <4> SUFFICES ASSUME NEW r \in ResetIds PROVE (Settled(r))' <=> Settled(r)
        OBVIOUS
      <4>1. CASE r = x
        BY <3>1, <3>4, <4>1
      <4>2. CASE r # x
        BY <2>T, <3>2, <3>3, <3>5, <4>2
      <4>3. QED
        BY <4>1, <4>2
    <3>7. QED
      BY <2>Q, <3>5, <3>6
  <2>3. ASSUME NEW p \in Procs, ResetUpdate(p)
        PROVE  Balanced(u)'
    <3>1. PICK x \in ResetIds : /\ x = loc[p].tok /\ status[x] = "spent" /\ x \notin lost
                                /\ owner[x] = loc[p].user
      BY <1>2, <2>3, <2>T DEF ResetUpdate, At, Shape, HoldInv, HoldersOwn, Holding
    <3>2. /\ UNCHANGED <<status, owner, lost>> /\ owner[x] \in Users
          /\ pwd' = [pwd EXCEPT ![owner[x]] = @ + 1]
      BY <2>3, <2>T, <3>1 DEF ResetUpdate, history, At, Shape
    <3>3. \A r \in ResetIds : (Updating(r))' <=> Updating(r) /\ r # x
      <4>1. \A q \in Procs : (q # p /\ pc[q] = "reset_update") => loc[q].tok # x
        BY <1>2, <2>3, <3>1 DEF ResetUpdate, HoldInv, Holding
      <4>2. /\ pc'[p] # "reset_update" /\ pc[p] = "reset_update"
            /\ \A q \in Procs : q # p => pc'[q] = pc[q] /\ loc'[q] = loc[q]
        BY <2>3, <2>T DEF ResetUpdate, Goto
      <4>3. QED
        BY <3>1, <4>1, <4>2
    <3>4. CASE owner[x] # u
      <4>1. \A r \in ResetIds : (Settled(r))' <=> Settled(r)
        BY <3>2, <3>3, <3>4
      <4>2. QED
        BY <2>Q, <2>T, <3>2, <3>4, <4>1
    <3>5. CASE owner[x] = u
      <4>1. Updating(x)
        BY <2>3, <3>1 DEF ResetUpdate
      <4>2. Paid(u)' = Paid(u) \cup {x} /\ x \notin Paid(u)
        BY <2>P, <3>1, <3>2, <3>3, <3>5, <4>1
      <4>3. IsFiniteSet(Paid(u)') /\ Cardinality(Paid(u)') = Cardinality(Paid(u)) + 1
        BY <2>B, <4>2, FS_AddElement DEF Balanced
      <4>4. pwd[u] \in Nat /\ pwd[u] # 0 /\ pwd'[u] = pwd[u] + 1
        <5>1. pwd[u] # 0
          BY <1>2, <2>T, <3>1, <3>5, UsersAssumption DEF Types, RowsOK
        <5>2. QED
          BY <2>T, <3>2, <3>5, <5>1, BoundsAssumption
      <4>5. Cardinality(Paid(u)) = pwd[u] - 1
        BY <2>B, <4>4 DEF Balanced
      <4>6. QED
        BY <4>3, <4>4, <4>5 DEF Balanced
    <3>6. QED
      BY <3>4, <3>5
  <2>4. ASSUME NEW p \in Procs, VerifyMark(p)
        PROVE  Balanced(u)'
    <3>1. UNCHANGED <<pwd, status, owner, lost>>
      BY <2>4 DEF VerifyMark, history
    <3>2. \A r \in ResetIds : (Updating(r))' <=> Updating(r)
      BY <2>4, <2>T DEF VerifyMark, Return, Goto
    <3>3. QED
      BY <2>Q, <3>1, <3>2
  <2>5. ASSUME NEW p \in Procs, Abort(p)
        PROVE  Balanced(u)'
    <3>1. UNCHANGED <<pwd, status, owner>> /\ lost' = IF Holding(p) THEN lost \cup {loc[p].tok} ELSE lost
      BY <2>5 DEF Abort, tables, Holding
    <3>2. \A q \in Procs : IF q = p THEN pc'[q] = "idle" ELSE pc'[q] = pc[q] /\ loc'[q] = loc[q]
      BY <2>5, <2>T DEF Abort, Return, Goto
    <3>3. CASE pc[p] = "reset_update"
      <4>1. PICK x \in ResetIds : x = loc[p].tok /\ lost' = lost \cup {x} /\ Updating(x)
        BY <2>T, <3>1, <3>3 DEF At, Shape, Holding
      <4>2. \A r \in ResetIds : r # x => ((Updating(r))' <=> Updating(r))
        BY <3>2, <3>3, <4>1
      <4>3. \A r \in ResetIds : (Settled(r))' <=> Settled(r)
        BY <3>1, <4>1, <4>2
      <4>4. QED
        BY <2>Q, <3>1, <4>3
    <3>4. CASE pc[p] # "reset_update"
      <4>1. \A r \in ResetIds : (Updating(r))' <=> Updating(r)
        BY <3>2, <3>4
      <4>2. Holding(p) => loc[p].tok \notin ResetIds
        BY <2>T, <3>4 DEF Holding, At, Shape
      <4>3. \A r \in ResetIds : (Settled(r))' <=> Settled(r)
        BY <3>1, <4>1, <4>2
      <4>4. QED
        BY <2>Q, <3>1, <4>3
    <3>5. QED
      BY <3>3, <3>4
  <2>6. QED
    BY <1>2, <2>1, <2>2, <2>3, <2>4, <2>5, OneTimeSteps
<1>3. Ledger => PasswordLedger
  BY DEF Balanced, PasswordLedger, Paid
<1>4. QED
  BY <1>1, <1>2, <1>3, InitTypes, StepTypes, HoldInit, HoldStep, PTL DEF Spec

-----------------------------------------------------------------------------
(* Rotations.  That a token has one successor is not inductive: the INSERT *)
(* of a second one is prepared by a read long before.  OneHeir counts what *)
(* may still become a successor: of a token that no two refreshes had both *)
(* read as live, there is one successor, or one handler that may write it, *)
(* or neither; and once the handler is past its UPDATE the token is not    *)
(* live, so that no other refresh gets past the check of revoked_at.      *)

Refreshing(p, t) == pc[p] \in {"rotate", "mint"} /\ loc[p].tok = t
Child(c, t) == birth[c].parent = t
Over(t) == status[t] \in {"spent", "deleted"}
OneHeirOf(t) ==
    /\ \A p, q \in Procs : (Refreshing(p, t) /\ Refreshing(q, t)) => p = q
    /\ \A c, d \in Tokens : (Child(c, t) /\ Child(d, t)) => c = d
    /\ \A p \in Procs, c \in Tokens : ~(Refreshing(p, t) /\ Child(c, t))
    /\ \A p \in Procs : (Refreshing(p, t) /\ pc[p] = "mint") => Over(t)
    /\ \A c \in Tokens : Child(c, t) => Over(t)
OneHeir == \A t \in Tokens : t \notin overlapped => OneHeirOf(t)

(* The steps that lead a refresh on; every other step takes a handler out  *)
(* of its refresh or leaves it where it is.                               *)
LEMMA RefreshSteps ==
    ASSUME Types, [Next]_vars
    PROVE  /\ \/ \E p \in Procs : Mint(p) \/ Rotate(p) \/ \E t \in Tokens : RefreshRead(p, t)
              \/ \A t \in Tokens, q \in Procs :
                   (Refreshing(q, t))' => Refreshing(q, t) /\ pc'[q] = pc[q]
           /\ overlapped \subseteq overlapped'
<1> DEFINE Calm == \A t \in Tokens, q \in Procs :
                     (Refreshing(q, t))' => Refreshing(q, t) /\ pc'[q] = pc[q]
           Same == UNCHANGED overlapped
<1>T. /\ pc \in [Procs -> Labels] /\ loc \in [Procs -> Locals] /\ NONE \notin Tokens
      /\ \A p \in Procs : At(pc[p], loc[p])
  BY TokenIdsAssumption DEF Types, HandlersOK
<1>1. ASSUME NEW p \in Procs, NEW label, NEW l, Goto(p, label, l),
             label \notin {"rotate", "mint"} \/ l.tok = NONE
      PROVE  Calm
  BY <1>1, <1>T DEF Goto, Refreshing
<1>2. ASSUME UNCHANGED <<pc, loc>>
      PROVE  Calm
  BY <1>2 DEF Refreshing
<1>3. ASSUME NEW p \in Procs, Return(p)
      PROVE  Calm
  BY <1>1, <1>3 DEF Return
<1>4. ASSUME NEW p \in Procs, NEW u \in Users,
             \/ RegisterCheck(p, u) \/ Login(p, u)
             \/ RequestPasswordReset(p, u) \/ ResendVerification(p, u)
      PROVE  Calm /\ Same
  BY <1>1, <1>4 DEF RegisterCheck, Login, RequestPasswordReset, ResendVerification, history
<1>5. ASSUME NEW p \in Procs, RegisterCreate(p) \/ SendVerification(p)
      PROVE  Calm /\ Same
  <2>1. loc[p].tok = NONE \/ Return(p)
    BY <1>5, <1>T DEF RegisterCreate, SendVerification, At, Shape
  <2>2. QED
    BY <1>1, <1>3, <1>5, <2>1 DEF RegisterCreate, SendVerification, history
<1>6. ASSUME NEW p \in Procs, Mint(p) \/ Rotate(p)
      PROVE  Same
  BY <1>6 DEF Mint, Rotate, history
<1>7. ASSUME NEW p \in Procs, Kill(p) \/ Abort(p)
      PROVE  Calm /\ Same
  BY <1>3, <1>7 DEF Kill, Abort
<1>8. ASSUME NEW p \in Procs, NEW x, ResetRead(p, x) \/ VerifyRead(p, x)
      PROVE  Calm /\ Same
  BY <1>1, <1>8 DEF ResetRead, VerifyRead, history
<1>9. ASSUME NEW p \in Procs,
             \/ ClearResetTokens(p) \/ CreateResetToken(p) \/ ResetConsume(p) \/ ResetUpdate(p)
             \/ ResetRevoke(p) \/ VerifyConsume(p) \/ VerifyMark(p)
      PROVE  Calm /\ Same
  BY <1>1, <1>3, <1>9 DEF ClearResetTokens, CreateResetToken, ResetConsume, ResetUpdate,
     ResetRevoke, VerifyConsume, VerifyMark, history
<1>10. ASSUME NEW p \in Procs, NEW t \in Tokens, RefreshRead(p, t)
       PROVE  overlapped \subseteq overlapped'
  BY <1>10 DEF RefreshRead
<1>11. ASSUME \/ \E u \in Users : LogoutAll(u) \/ \E t \in Tokens : LogoutOne(u, t)
              \/ CleanupExpiredRefreshTokens \/ (\E x \in Ids : Expire(x)) \/ UNCHANGED vars
       PROVE  Calm /\ Same
  BY <1>2, <1>11 DEF LogoutAll, LogoutOne, CleanupExpiredRefreshTokens, Expire, history, vars
<1>12. QED
  BY <1>4, <1>5, <1>6, <1>7, <1>8, <1>9, <1>10, <1>11 DEF Next, Session, OneTime

LEMMA InitOneHeir == Init => OneHeir
BY TokenIdsAssumption DEF Init, OneHeir, OneHeirOf, Refreshing, Child, NoBirth

LEMMA StepOneHeir == Types /\ HoldersOwn /\ OneHeir /\ [Next]_vars => OneHeir'
<1> SUFFICES ASSUME Types, HoldersOwn, OneHeir, [Next]_vars,
                    NEW t \in Tokens, t \notin overlapped'
             PROVE  OneHeirOf(t)'
  BY DEF OneHeir
<1>T. /\ status \in [Ids -> Statuses] /\ birth \in [Tokens -> Births]
      /\ pc \in [Procs -> Labels] /\ loc \in [Procs -> Locals]
      /\ \A p \in Procs : At(pc[p], loc[p])
      /\ t \in Ids /\ t # NONE
  BY TokenIdsAssumption DEF Types, RowsOK, HandlersOK, Ids
<1>H. OneHeirOf(t)
  BY RefreshSteps DEF OneHeir
<1>D. Over(t) => (Over(t))'
  BY TokenSteps DEF Over
<1>1. ASSUME NEW p \in Procs, Mint(p)
      PROVE  OneHeirOf(t)'
  <2>1. PICK c \in Tokens :
          /\ status[c] = "unissued" /\ status' = [status EXCEPT ![c] = "live"]
          /\ birth' = [birth EXCEPT ![c] =
               [family |-> FamilyFor(loc[p], c), parent |-> loc[p].tok, auth |-> loc[p].auth]]
    BY <1>1 DEF Mint
  <2>2. \A d \in Tokens : (Child(d, t))' <=> IF d = c THEN loc[p].tok = t ELSE Child(d, t)
    BY <1>T, <2>1 DEF Child
  <2>3. /\ \A q \in Procs : (Refreshing(q, t))' <=> Refreshing(q, t) /\ q # p
        /\ \A q \in Procs : (Refreshing(q, t))' => pc'[q] = pc[q]
        /\ pc[p] = "mint" /\ (loc[p].tok = t <=> Refreshing(p, t))
    BY <1>1, <1>T DEF Mint, Return, Goto, Refreshing, NoLoc
  <2>4. CASE loc[p].tok = t
    <3>1. (Over(t))'
      BY <1>D, <1>H, <2>3, <2>4 DEF OneHeirOf
    <3>2. QED
      BY <1>H, <2>2, <2>3, <2>4, <3>1 DEF OneHeirOf
  <2>5. CASE loc[p].tok # t
    <3>1. \A d \in Tokens : (Child(d, t))' => Child(d, t)
      BY <2>2, <2>5
    <3>2. QED
      BY <1>D, <1>H, <2>3, <3>1 DEF OneHeirOf
  <2>6. QED
    BY <2>4, <2>5
<1>2. ASSUME UNCHANGED birth,
             \A q \in Procs : (Refreshing(q, t))' => Refreshing(q, t) /\ (pc'[q] = pc[q] \/ (Over(t))')
      PROVE  OneHeirOf(t)'
  <2>1. \A c \in Tokens : (Child(c, t))' <=> Child(c, t)
    BY <1>2 DEF Child
  <2>2. QED
    BY <1>2, <1>D, <1>H, <2>1 DEF OneHeirOf
<1>3. ASSUME NEW p \in Procs, Rotate(p)
      PROVE  OneHeirOf(t)'
  <2>1. UNCHANGED birth
    BY <1>3 DEF Rotate
  <2>2. \A q \in Procs : (Refreshing(q, t))' => Refreshing(q, t) /\ (q # p => pc'[q] = pc[q])
    BY <1>3, <1>T DEF Rotate, Goto, Refreshing
  <2>3. Refreshing(p, t) => (Over(t))'
    <3>1. SUFFICES ASSUME Refreshing(p, t) PROVE (Over(t))'
      OBVIOUS
    <3>2. loc[p].tok = t /\ Issued(t) /\ owner[t] = loc[p].user
      BY <1>T, <3>1 DEF Refreshing, At, HoldersOwn
    <3>3. CASE Present(t)
      BY <1>3, <1>T, <3>2, <3>3 DEF Rotate, Spend, RowsOf, Over
    <3>4. CASE ~Present(t)
      BY <1>D, <1>T, <3>2, <3>4 DEF Present, Issued, Over, Statuses
    <3>5. QED
      BY <3>3, <3>4
  <2>4. QED
    BY <1>2, <2>1, <2>2, <2>3
<1>4. ASSUME NEW p \in Procs, NEW x \in Tokens, RefreshRead(p, x)
      PROVE  OneHeirOf(t)'
  <2>1. UNCHANGED <<status, birth>> /\ \A q \in Procs : q # p => pc'[q] = pc[q] /\ loc'[q] = loc[q]
    BY <1>4, <1>T DEF RefreshRead, tables, Goto
  <2>2. CASE (Refreshing(p, t))'
    <3>1. x = t /\ pc'[p] = "rotate" /\ status[t] = "live"
      BY <1>4, <1>T, <2>2 DEF RefreshRead, Goto, Refreshing, Reused, Present
    <3>2. \A q \in Procs : ~Refreshing(q, t)
      BY <1>4, <1>H, <3>1 DEF RefreshRead, OneHeirOf, Refreshing, Over
    <3>3. \A q \in Procs : (Refreshing(q, t))' => q = p
      BY <2>1, <3>2 DEF Refreshing
    <3>4. \A c \in Tokens : ~(Child(c, t))'
      BY <1>H, <2>1, <3>1 DEF OneHeirOf, Over, Child
    <3>5. QED
      BY <3>1, <3>3, <3>4 DEF OneHeirOf
  <2>3. CASE ~(Refreshing(p, t))'
    BY <1>2, <2>1, <2>3 DEF Refreshing
  <2>4. QED
    BY <2>2, <2>3
<1>5. CASE \A q \in Procs : (Refreshing(q, t))' => Refreshing(q, t) /\ pc'[q] = pc[q]
  <2>1. CASE \A c \in Tokens : birth'[c] = birth[c]
    BY <1>D, <1>H, <1>5, <2>1 DEF OneHeirOf, Child
  <2>2. CASE \E p \in Procs : Mint(p)
    BY <1>1, <2>2
  <2>3. QED
    BY <2>1, <2>2, TokenSteps
<1>6. QED
  BY <1>1, <1>3, <1>4, <1>5, RefreshSteps

(* A refresh token has at most one successor, unless two refreshes had     *)
(* both read it as live before either revoked it.                         *)
THEOREM SessionsForkOnOverlap == Spec => []ForksOnlyOnOverlap
<1>1. Types /\ OneHeir => ForksOnlyOnOverlap
  <2> SUFFICES ASSUME Types, OneHeir, NEW c \in Tokens, NEW d \in Tokens,
                      c # d, birth[c].parent = birth[d].parent, birth[c].parent # NONE
               PROVE  birth[c].parent \in overlapped
    BY DEF ForksOnlyOnOverlap
  <2>1. PICK t \in Tokens : Child(c, t) /\ Child(d, t) /\ t = birth[c].parent
    BY DEF Types, RowsOK, Births, Child
  <2>2. QED
    BY <2>1 DEF OneHeir, OneHeirOf
<1>2. HoldInv => HoldersOwn
  BY DEF HoldInv
<1>3. QED
  BY <1>1, <1>2, InitTypes, StepTypes, HoldInit, HoldStep, InitOneHeir, StepOneHeir, PTL DEF Spec

-----------------------------------------------------------------------------
(* The links of password resets. A request for one is between its DELETE  *)
(* of the earlier tokens and its INSERT: while requests do not cross, a    *)
(* user has either one such request, or one token that works, or neither. *)

Works(r, u) == status[r] = "live" /\ owner[r] = u
Asking(p, u) == pc[p] = "forgot_create" /\ loc[p].user = u
OneLinkOf(u) ==
    /\ \A r, s \in ResetIds : (Works(r, u) /\ Works(s, u)) => r = s
    /\ \A p, q \in Procs : (Asking(p, u) /\ Asking(q, u)) => p = q
    /\ \A p \in Procs, r \in ResetIds : ~(Asking(p, u) /\ Works(r, u))
OneLink == \A u \in Users \ crossed : OneLinkOf(u)

(* Only the two statements of a request make a link work or a request ask. *)
LinksRest ==
    /\ \A r \in ResetIds, u \in Users : (Works(r, u))' => Works(r, u)
    /\ \A q \in Procs, u \in Users : (Asking(q, u))' => Asking(q, u)
    /\ crossed' = crossed

LEMMA LinkSteps ==
    ASSUME Types, [Next]_vars
    PROVE  \/ LinksRest
           \/ \E p \in Procs : ClearResetTokens(p) \/ CreateResetToken(p)
<1> DEFINE Rows == \A r \in ResetIds, u \in Users : (Works(r, u))' => Works(r, u)
           Places == \A q \in Procs, u \in Users : (Asking(q, u))' => Asking(q, u)
           Same == crossed' = crossed
<1>T. /\ status \in [Ids -> Statuses] /\ owner \in [Ids -> Users \cup {NONE}]
      /\ pc \in [Procs -> Labels] /\ loc \in [Procs -> Locals]
  BY DEF Types, RowsOK, HandlersOK
<1>I. /\ ResetIds \subseteq Ids /\ ResetIds \cap Tokens = {} /\ ResetIds \cap VerifyIds = {}
      /\ Tokens \subseteq Ids /\ VerifyIds \subseteq Ids
  BY TokenIdsAssumption DEF Ids
<1>R1. ASSUME UNCHANGED owner, UNCHANGED status \/ \E S : Spend(S) \/ Delete(S)
       PROVE  Rows
  BY <1>R1, <1>I DEF Spend, Delete, Works
<1>R2. ASSUME NEW x \in Tokens \cup VerifyIds, NEW u,
              status' = [status EXCEPT ![x] = "live"], owner' = [owner EXCEPT ![x] = u]
       PROVE  Rows
  BY <1>R2, <1>T, <1>I DEF Works
<1>P1. ASSUME NEW p \in Procs, NEW label, NEW l, Goto(p, label, l), label # "forgot_create"
       PROVE  Places
  BY <1>P1, <1>T DEF Goto, Asking
<1>P2. ASSUME NEW p \in Procs, Return(p)
       PROVE  Places
  BY <1>P1, <1>P2 DEF Return
<1>P3. ASSUME UNCHANGED <<pc, loc>>
       PROVE  Places
  BY <1>P3 DEF Asking
<1>1. ASSUME NEW p \in Procs, Session(p)
      PROVE  Rows /\ Places /\ Same
  <2>1. ASSUME NEW u \in Users, RegisterCheck(p, u) \/ Login(p, u)
        PROVE  Rows /\ Places /\ Same
    BY <2>1, <1>R1, <1>P1 DEF RegisterCheck, Login, tables, history
  <2>2. ASSUME NEW t \in Tokens, RefreshRead(p, t)
        PROVE  Rows /\ Places /\ Same
    <3>1. PICK label \in {"kill", "kill_expired", "rotate"} :
            Goto(p, label, [user |-> owner[t], tok |-> t, auth |-> birth[t].auth])
      BY <2>2 DEF RefreshRead
    <3>2. QED
      BY <2>2, <3>1, <1>R1, <1>P1 DEF RefreshRead, tables
  <2>3. ASSUME RegisterCreate(p)
        PROVE  Rows /\ Places /\ Same
    BY <2>3, <1>R1, <1>P1, <1>P2 DEF RegisterCreate, history
  <2>4. ASSUME SendVerification(p)
        PROVE  Rows /\ Places /\ Same
    <3>1. Rows
      BY <2>4, <1>R1, <1>R2 DEF SendVerification, InsertOneTime
    <3>2. Places
      BY <2>4, <1>P1, <1>P2 DEF SendVerification
    <3>3. QED
      BY <2>4, <3>1, <3>2 DEF SendVerification, history
  <2>5. ASSUME Mint(p)
        PROVE  Rows /\ Places /\ Same
    BY <2>5, <1>R2, <1>P2 DEF Mint
  <2>6. ASSUME Kill(p)
        PROVE  Rows /\ Places /\ Same
    BY <2>6, <1>R1, <1>P2 DEF Kill
  <2>7. ASSUME Rotate(p)
        PROVE  Rows /\ Places /\ Same
    BY <2>7, <1>R1, <1>P1 DEF Rotate, history
  <2>8. QED
    BY <1>1, <2>1, <2>2, <2>3, <2>4, <2>5, <2>6, <2>7 DEF Session
<1>2. ASSUME NEW p \in Procs, OneTime(p), ~ClearResetTokens(p), ~CreateResetToken(p)
      PROVE  Rows /\ Places /\ Same
  <2>1. ASSUME NEW u \in Users, RequestPasswordReset(p, u) \/ ResendVerification(p, u)
        PROVE  Rows /\ Places /\ Same
    BY <2>1, <1>R1, <1>P1 DEF RequestPasswordReset, ResendVerification, tables, history
  <2>2. ASSUME NEW x, ResetRead(p, x) \/ VerifyRead(p, x)
        PROVE  Rows /\ Places /\ Same
    BY <2>2, <1>R1, <1>P1 DEF ResetRead, VerifyRead, tables, history
  <2>3. ASSUME ResetConsume(p) \/ VerifyConsume(p)
        PROVE  Rows /\ Places /\ Same
    BY <2>3, <1>R1, <1>P1, <1>P2 DEF ResetConsume, VerifyConsume, history
  <2>4. ASSUME ResetUpdate(p)
        PROVE  Rows /\ Places /\ Same
    BY <2>4, <1>R1, <1>P1 DEF ResetUpdate, history
  <2>5. ASSUME ResetRevoke(p)
        PROVE  Rows /\ Places /\ Same
    BY <2>5, <1>R1, <1>P2 DEF ResetRevoke
  <2>6. ASSUME VerifyMark(p)
        PROVE  Rows /\ Places /\ Same
    BY <2>6, <1>R1, <1>P2 DEF VerifyMark, history
  <2>7. QED
    BY <1>2, <2>1, <2>2, <2>3, <2>4, <2>5, <2>6 DEF OneTime
<1>3. ASSUME NEW p \in Procs, Abort(p)
      PROVE  Rows /\ Places /\ Same
  BY <1>3, <1>R1, <1>P2 DEF Abort, tables
<1>4. ASSUME \/ \E u \in Users : LogoutAll(u) \/ \E t \in Tokens : LogoutOne(u, t)
             \/ CleanupExpiredRefreshTokens \/ (\E x \in Ids : Expire(x)) \/ UNCHANGED vars
      PROVE  Rows /\ Places /\ Same
  BY <1>4, <1>R1, <1>P3 DEF LogoutAll, LogoutOne, CleanupExpiredRefreshTokens, Expire, history, vars
<1>5. QED
  BY <1>1, <1>2, <1>3, <1>4 DEF Next, LinksRest

LEMMA InitOneLink == Init => OneLink
BY DEF Init, OneLink, OneLinkOf, Works, Asking, Ids

LEMMA StepOneLink == Types /\ OneLink /\ [Next]_vars => OneLink'
<1> SUFFICES ASSUME Types, OneLink, [Next]_vars, NEW u \in Users, u \notin crossed'
             PROVE  OneLinkOf(u)'
  BY DEF OneLink
<1>T. /\ status \in [Ids -> Statuses] /\ owner \in [Ids -> Users \cup {NONE}]
      /\ pc \in [Procs -> Labels] /\ loc \in [Procs -> Locals] /\ ResetIds \subseteq Ids
  BY DEF Types, RowsOK, HandlersOK, Ids
<1>1. ASSUME u \notin crossed, \A r \in ResetIds : (Works(r, u))' => Works(r, u),
             \A q \in Procs : (Asking(q, u))' => Asking(q, u)
      PROVE  OneLinkOf(u)'
  BY <1>1 DEF OneLink, OneLinkOf
<1>2. ASSUME NEW p \in Procs, ClearResetTokens(p)
      PROVE  OneLinkOf(u)'
  <2>1. \A q \in Procs : (Asking(q, u))' <=> IF q = p THEN loc[p].user = u ELSE Asking(q, u)
    BY <1>2, <1>T DEF ClearResetTokens, Goto, Asking
  <2>2. \A r \in ResetIds : (Works(r, u))' => Works(r, u) /\ loc[p].user # u
    BY <1>2, <1>T DEF ClearResetTokens, Delete, Unconsumed, Works
  <2>3. CASE loc[p].user = u
    <3>1. \A q \in Procs : ~Asking(q, u)
      BY <1>2, <2>3 DEF ClearResetTokens, Asking
    <3>2. QED
      BY <2>1, <2>2, <2>3, <3>1 DEF OneLinkOf
  <2>4. CASE loc[p].user # u
    BY <1>1, <1>2, <2>1, <2>2, <2>4 DEF ClearResetTokens, Asking
  <2>5. QED
    BY <2>3, <2>4
<1>3. ASSUME NEW p \in Procs, CreateResetToken(p)
      PROVE  OneLinkOf(u)'
  <2>1. PICK x \in ResetIds : /\ status' = [status EXCEPT ![x] = "live"]
                              /\ owner' = [owner EXCEPT ![x] = loc[p].user]
    BY <1>3 DEF CreateResetToken, InsertOneTime
  <2>2. \A r \in ResetIds : (Works(r, u))' <=> IF r = x THEN loc[p].user = u ELSE Works(r, u)
    BY <1>T, <2>1 DEF Works
  <2>3. \A q \in Procs : (Asking(q, u))' => Asking(q, u) /\ q # p
    BY <1>3, <1>T DEF CreateResetToken, Return, Goto, NoLoc, Asking
  <2>4. u \notin crossed /\ (loc[p].user = u => Asking(p, u))
    BY <1>3 DEF CreateResetToken, history, Asking
  <2>5. CASE loc[p].user = u
    BY <2>2, <2>3, <2>4, <2>5 DEF OneLink, OneLinkOf
  <2>6. CASE loc[p].user # u
    <3>1. \A r \in ResetIds : (Works(r, u))' => Works(r, u)
      BY <2>2, <2>6
    <3>2. QED
      BY <1>1, <2>3, <2>4, <3>1
  <2>7. QED
    BY <2>5, <2>6
<1>4. CASE LinksRest
  BY <1>1, <1>4 DEF LinksRest
<1>5. QED
  BY <1>2, <1>3, <1>4, LinkSteps

(* A user has at most one reset link that works, unless requests for one   *)
(* crossed.                                                               *)
THEOREM LinksReplaceEachOther == Spec => []OneResetLinkUnlessCrossed
<1>1. Types /\ OneLink => OneResetLinkUnlessCrossed
  <2> SUFFICES ASSUME Types, OneLink, NEW r \in ResetIds, NEW s \in ResetIds, r # s,
                      status[r] = "live", status[s] = "live", owner[r] = owner[s]
               PROVE  owner[r] \in crossed
    BY DEF OneResetLinkUnlessCrossed
  <2>1. owner[r] \in Users
    BY DEF Types, RowsOK, Ids
  <2>2. QED
    BY <2>1 DEF OneLink, OneLinkOf, Works
<1>2. QED
  BY <1>1, InitTypes, StepTypes, InitOneLink, StepOneLink, PTL DEF Spec

=============================================================================
