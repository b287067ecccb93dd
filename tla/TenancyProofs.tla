---------------------------- MODULE TenancyProofs ----------------------------
(***************************************************************************)
(* Proofs about Tenancy, for any households, users, categories and         *)
(* handlers.                                                               *)
(*                                                                         *)
(* None of the properties is inductive alone.  Owners adds what the        *)
(* handlers hold between checkOwner and their statement: those about to    *)
(* save a household agree on its owner, those about to remove a member are *)
(* not removing the owner.  Orphans adds what a Delete about to commit     *)
(* holds: it found every category of its household but the late ones.      *)
(* Places adds that a category's household never changes under a handler   *)
(* that holds a copy of it, and Types that a reorder past its check has as *)
(* many distinct ids as it counted.  Tight adds that no position, stored   *)
(* or held, exceeds the number of category ids given out so far, and that  *)
(* a category a Delete has locked stays where it is until the commit.      *)
(***************************************************************************)
EXTENDS Tenancy, FiniteSetTheorems, TLAPS

(* The stages of the handlers that follow checkOwner. *)
OwnerStages == {"update", "save", "delete", "drop", "commit", "add", "remove"}
(* The stages of the handlers that work on one category. *)
CategoryStages == {"cat_update", "cat_save", "cat_delete", "cat_drop"}

Handler == [at : Stages, h : Houses \cup {NONE}, u : Users \cup {NONE},
            c : Cats \cup {NONE}, pos : Nat, ids : Seq(Cats), doomed : SUBSET Cats]
Distinct(ids) == \A a, b \in DOMAIN ids : ids[a] = ids[b] => a = b
Filled(q) ==
    /\ q.at # "idle" => q.h \in Houses
    /\ q.at \in OwnerStages => q.u \in Users
    /\ q.at \in CategoryStages => q.c \in Cats
    /\ q.at = "cat_order" => q.pos = Len(q.ids)
    /\ Distinct(q.ids)

Category == [house : Houses, pos : Nat]
TablesOK ==
    /\ owner \in [Houses -> Users \cup {NONE}]
    /\ members \subseteq Houses \X Users
    /\ cat \in [Cats -> {NONE} \cup Category]
    /\ used \subseteq Houses \cup Cats
    /\ raised \subseteq Houses /\ late \subseteq Cats /\ raced \subseteq Cats
HandlersOK ==
    /\ proc \in [Procs -> Handler]
    /\ \A p \in Procs : Filled(proc[p])
Types == TablesOK /\ HandlersOK

-----------------------------------------------------------------------------
(* Types. *)

LEMMA IdleOK == Idle \in Handler /\ Filled(Idle)
  BY DEF Idle, Handling, Handler, Filled, Stages, OwnerStages, CategoryStages, Distinct

LEMMA GoOK ==
    ASSUME HandlersOK, NEW p \in Procs, NEW q \in Handler, Filled(q), Go(p, q)
    PROVE  HandlersOK'
  BY DEF HandlersOK, Go

LEMMA ReturnOK ==
    ASSUME HandlersOK, NEW p \in Procs, Return(p)
    PROVE  HandlersOK'
  BY IdleOK, GoOK DEF Return

LEMMA Entries ==
    ASSUME NEW S, NEW s \in Seq(S)
    PROVE  \A n \in DOMAIN s : n \in Nat /\ s[n] \in S
  OBVIOUS

LEMMA InitTypes == Init => Types
  BY IdleOK DEF Init, Types, TablesOK, HandlersOK

LEMMA HouseholdTypes ==
    ASSUME Types, NEW p \in Procs, HouseholdStep(p)
    PROVE  Types'
<1>1. ASSUME NEW u \in Users, NEW h \in Houses, CreateHousehold(p, u, h)
      PROVE  Types'
  BY <1>1 DEF CreateHousehold, Types, TablesOK, HandlersOK, ghosts
<1>2. ASSUME NEW u \in Users, NEW h \in Houses, NEW v \in Users,
             NEW next \in {"update", "delete", "add", "remove"}, CheckOwner(p, u, h, next, v)
      PROVE  Types'
  <2>1. TablesOK'
    BY <1>2 DEF CheckOwner, NoChange, ghosts, Types, TablesOK
  <2> DEFINE w == IF next \in {"add", "remove"} THEN v ELSE u
             q == Handling(next, h, w, NONE, <<>>)
  <2>3. Go(p, q)
    BY <1>2 DEF CheckOwner
  <2>w. w \in Users
    OBVIOUS
  <2> HIDE DEF w
  <2>b. q \in Handler
    BY <2>w DEF Handler, Handling, Stages
  <2>c. Filled(q)
    BY <2>w, IdleOK DEF Filled, Idle, Handling, CategoryStages
  <2>2. q \in Handler /\ Filled(q)
    BY <2>b, <2>c
  <2>4. HandlersOK'
    BY <2>2, <2>3, GoOK DEF Types
  <2>5. QED
    BY <2>1, <2>4 DEF Types
<1>3. CASE FindHousehold(p)
  <2>1. TablesOK'
    BY <1>3 DEF FindHousehold, NoChange, ghosts, Types, TablesOK
  <2>2. PICK stage \in {<<"update", "save">>, <<"delete", "drop">>} :
           At(p, stage[1]) /\ (Then(p, stage[2]) \/ Return(p))
    BY <1>3 DEF FindHousehold
  <2>3. CASE Return(p)
    BY <2>1, <2>3, ReturnOK DEF Types
  <2>4. CASE Then(p, stage[2])
    <3> DEFINE q == [proc[p] EXCEPT !.at = stage[2]]
    <3>1. proc[p] \in Handler /\ Filled(proc[p]) /\ proc[p].at = stage[1]
      BY <2>2 DEF Types, HandlersOK, At
    <3>2. q \in Handler /\ Filled(q)
      BY <2>2, <3>1 DEF Handler, Filled, Stages, OwnerStages, CategoryStages, Distinct
    <3>3. Go(p, q)
      BY <2>4 DEF Then
    <3>4. HandlersOK'
      BY <3>2, <3>3, GoOK DEF Types
    <3>5. QED
      BY <2>1, <3>4 DEF Types
  <2>5. QED
    BY <2>2, <2>3, <2>4
<1>4. ASSUME \/ SaveHousehold(p) \/ DropHousehold(p) \/ AddMember(p) \/ RemoveMember(p)
      PROVE  Types'
  <2>1. Return(p) /\ proc[p].at \in OwnerStages
    BY <1>4 DEF SaveHousehold, DropHousehold, AddMember, RemoveMember, At, OwnerStages
  <2>2. proc[p].h \in Houses /\ proc[p].u \in Users
    BY <2>1 DEF Types, HandlersOK, Filled, OwnerStages
  <2>3. TablesOK'
    BY <1>4, <2>2 DEF SaveHousehold, DropHousehold, AddMember, RemoveMember, ghosts, Types, TablesOK
  <2>4. QED
    BY <2>1, <2>3, ReturnOK DEF Types
<1>5. CASE DropCategories(p)
  <2> DEFINE q == [proc[p] EXCEPT !.at = "commit", !.doomed = Doomed(proc[p].h)]
  <2>1. TablesOK'
    BY <1>5 DEF DropCategories, NoChange, ghosts, Types, TablesOK
  <2>2. proc[p] \in Handler /\ Filled(proc[p]) /\ proc[p].at = "drop" /\ Go(p, q)
    BY <1>5 DEF DropCategories, At, Types, HandlersOK
  <2>3. Doomed(proc[p].h) \in SUBSET Cats
    BY DEF Doomed, CatsIn
  <2>4. q \in Handler /\ Filled(q)
    BY <2>2, <2>3 DEF Handler, Filled, Stages, OwnerStages, CategoryStages
  <2>5. QED
    BY <2>1, <2>2, <2>4, GoOK DEF Types
<1>6. QED
  BY <1>1, <1>2, <1>3, <1>4, <1>5 DEF HouseholdStep

LEMMA CategoryTypes ==
    ASSUME Types, NEW p \in Procs, CategoryStep(p)
    PROVE  Types'
<1>P. proc[p] \in Handler /\ Filled(proc[p])
  BY DEF Types, HandlersOK
<1>1. ASSUME NEW u \in Users, NEW h \in Houses, NEW next \in {"cat_create"} \cup CategoryStages \cup {"cat_reorder"},
             NEW c \in Cats \cup {NONE}, NEW ids \in Seq(Cats),
             next \in CategoryStages => c \in Cats, Distinct(ids),
             RequireMembership(p, u, h, next, c, ids)
      PROVE  Types'
  <2>1. TablesOK'
    BY <1>1 DEF RequireMembership, NoChange, ghosts, Types, TablesOK
  <2> DEFINE q == Handling(next, h, NONE, c, ids)
  <2>2. q \in Handler
    BY DEF Handler, Handling, Stages, CategoryStages
  <2>3. Filled(q)
    BY <1>1 DEF Filled, Handling, CategoryStages, OwnerStages
  <2>4. HandlersOK'
    BY <1>1, <2>2, <2>3, GoOK DEF Types, RequireMembership
  <2>5. QED
    BY <2>1, <2>4 DEF Types
<1>2. ASSUME ReadMax(p) \/ FindCategory(p) \/ CountCategories(p)
      PROVE  Types'
  <2>1. TablesOK'
    BY <1>2 DEF ReadMax, FindCategory, CountCategories, NoChange, ghosts, Types, TablesOK
  <2>2. CASE Return(p)
    BY <2>1, <2>2, ReturnOK DEF Types
  <2>3. ASSUME NEW at \in Stages, NEW pos \in Nat,
               at \notin OwnerStages, at # "idle",
               at \in CategoryStages => proc[p].at \in CategoryStages, proc[p].at # "idle",
               at = "cat_order" => pos = Len(proc[p].ids),
               Go(p, [proc[p] EXCEPT !.at = at, !.pos = pos])
        PROVE  Types'
    <3> DEFINE q == [proc[p] EXCEPT !.at = at, !.pos = pos]
    <3>1. q \in Handler
      BY <1>P DEF Handler
    <3>2. Filled(q)
      BY <1>P, <2>3 DEF Filled, Handler
    <3>3. HandlersOK'
      BY <2>3, <3>1, <3>2, GoOK DEF Types
    <3>4. QED
      BY <2>1, <3>3 DEF Types
  <2>4. CASE ReadMax(p)
    <3>1. PICK n \in Position : Go(p, [proc[p] EXCEPT !.at = "cat_insert", !.pos = n])
      BY <2>4 DEF ReadMax
    <3>2. n \in Nat
      BY FiniteAssumption, FS_CardinalityType DEF Position
    <3>3. proc[p].at = "cat_create"
      BY <2>4 DEF ReadMax, At
    <3>4. QED
      BY <2>3, <3>1, <3>2, <3>3 DEF Stages, OwnerStages, CategoryStages
  <2>5. CASE FindCategory(p) /\ ~Return(p)
    <3>1. PICK stage \in {<<"cat_update", "cat_save">>, <<"cat_delete", "cat_drop">>} :
            /\ proc[p].at = stage[1] /\ proc[p].c \in CatsIn(proc[p].h)
            /\ Go(p, [proc[p] EXCEPT !.at = stage[2], !.pos = cat[proc[p].c].pos])
      BY <2>5 DEF FindCategory, At
    <3>2. cat[proc[p].c].pos \in Nat
      BY <3>1 DEF CatsIn, Types, TablesOK, Category
    <3>3. /\ stage[2] \in Stages /\ stage[2] \notin OwnerStages /\ stage[2] # "idle"
          /\ stage[2] # "cat_order" /\ stage[1] \in CategoryStages /\ stage[1] # "idle"
      BY <3>1 DEF Stages, OwnerStages, CategoryStages
    <3>4. QED
      BY <2>3, <3>1, <3>2, <3>3
  <2>6. CASE CountCategories(p) /\ ~Return(p)
    <3> DEFINE k == Cardinality(CatsIn(proc[p].h))
    <3>1. /\ Complete(proc[p].ids, proc[p].h) /\ proc[p].at = "cat_reorder"
          /\ Go(p, [proc[p] EXCEPT !.at = "cat_order", !.pos = k])
      BY <2>6 DEF CountCategories, At
    <3>2. k = Len(proc[p].ids) /\ k \in Nat
      BY <1>P, <3>1 DEF Complete, Handler
    <3>3. QED
      BY <2>3, <3>1, <3>2 DEF Stages, OwnerStages, CategoryStages
  <2>7. QED
    BY <1>2, <2>2, <2>4, <2>5, <2>6
<1>3. ASSUME \/ \E c \in Cats : InsertCategory(p, c)
             \/ SaveCategory(p) \/ DropCategory(p) \/ Reorder(p)
      PROVE  Types'
  <2>1. Return(p)
    BY <1>3 DEF InsertCategory, SaveCategory, DropCategory, Reorder
  <2>2. proc[p].h \in Houses /\ proc[p].pos \in Nat
    BY <1>P, <1>3 DEF InsertCategory, SaveCategory, DropCategory, Reorder, At, Filled, Handler
  <2>3. ASSUME NEW c \in Cats, NEW n \in Nat, Stored(p, c, n), raced' \subseteq Cats,
               used' \subseteq Houses \cup Cats, UNCHANGED <<owner, members, raised>>
        PROVE  TablesOK'
    BY <2>2, <2>3 DEF Stored, Types, TablesOK, Category
  <2>4. ASSUME NEW c \in Cats, InsertCategory(p, c)
        PROVE  TablesOK'
    <3>1. NextPos(proc[p].pos) \in Nat
      BY <2>2 DEF NextPos
    <3>2. raced' \subseteq Cats /\ used' \subseteq Houses \cup Cats
      BY <2>4 DEF InsertCategory, Types, TablesOK
    <3>3. QED
      BY <2>3, <2>4, <3>1, <3>2 DEF InsertCategory
  <2>5. ASSUME SaveCategory(p) PROVE TablesOK'
    <3>1. proc[p].c \in Cats
      BY <1>P, <2>5 DEF SaveCategory, At, Filled, CategoryStages
    <3>2. raced' \subseteq Cats /\ used' \subseteq Houses \cup Cats
      BY <2>5, <3>1 DEF SaveCategory, Types, TablesOK
    <3>3. QED
      BY <2>2, <2>3, <2>5, <3>1, <3>2 DEF SaveCategory
  <2>6. ASSUME DropCategory(p) PROVE TablesOK'
    BY <2>6 DEF DropCategory, Types, TablesOK
  <2>7. ASSUME Reorder(p) PROVE TablesOK'
    <3> DEFINE ids == proc[p].ids
               moved == {ids[n] : n \in DOMAIN ids}
    <3>1. ids \in Seq(Cats)
      BY <1>P DEF Handler
    <3>2. \A n \in DOMAIN ids : n \in Nat /\ ids[n] \in Cats
      BY <3>1, Entries
    <3>3. UNCHANGED <<owner, members, used, raised, late>>
      BY <2>7 DEF Reorder
    <3>4. CASE UNCHANGED <<cat, raced>>
      BY <3>3, <3>4 DEF Types, TablesOK
    <3>5. CASE moved \subseteq CatsIn(proc[p].h)
      <4> DEFINE place(c) == CHOOSE n \in DOMAIN ids : ids[n] = c
      <4>0. raced \subseteq Cats /\ moved \subseteq Cats
        BY <3>2 DEF Types, TablesOK
      <4>a. /\ cat' = [c \in Cats |-> IF c \in moved THEN [cat[c] EXCEPT !.pos = place(c)] ELSE cat[c]]
            /\ \/ raced' = raced \ moved \/ raced' = raced \cup moved \/ raced' = raced
        BY <2>7, <3>5, Zenon DEF Reorder
      <4>2. \A c \in moved : place(c) \in Nat
        BY <3>2
      <4>b. \A c \in moved : cat[c] \in Category
        BY <3>5 DEF Types, TablesOK, CatsIn
      <4> HIDE DEF moved, place, ids
      <4>1. raced' \subseteq Cats
        BY <4>0, <4>a
      <4>3. cat' \in [Cats -> {NONE} \cup Category]
        BY <4>a, <4>2, <4>b DEF Types, TablesOK, Category
      <4>4. QED
        BY <3>3, <4>1, <4>3 DEF Types, TablesOK
    <3>6. QED
      BY <2>7, <3>4, <3>5 DEF Reorder
  <2>8. QED
    BY <1>3, <2>1, <2>4, <2>5, <2>6, <2>7, ReturnOK DEF Types
<1>4. ASSUME NEW h \in Houses, NEW ids \in Orders(h)
      PROVE  ids \in Seq(Cats) /\ Distinct(ids)
  <2>1. PICK n \in 1..Cardinality(KnownCats) : ids \in [1..n -> KnownCats]
    BY DEF Orders
  <2>2. Cardinality(KnownCats) \in Nat
    BY FiniteAssumption, FS_Subset, FS_CardinalityType DEF KnownCats
  <2>3. n \in Nat /\ ids \in [1..n -> Cats]
    BY <2>1, <2>2 DEF KnownCats
  <2>4. QED
    BY <2>3 DEF Orders, Distinct
<1>5. ASSUME NEW u \in Users, NEW h \in Houses,
             \/ RequireMembership(p, u, h, "cat_create", NONE, <<>>)
             \/ \E c \in KnownCats, next \in {"cat_update", "cat_delete"} :
                 RequireMembership(p, u, h, next, c, <<>>)
             \/ \E ids \in Orders(h) : RequireMembership(p, u, h, "cat_reorder", NONE, ids)
      PROVE  Types'
  <2>1. <<>> \in Seq(Cats) /\ Distinct(<<>>) /\ KnownCats \subseteq Cats
    BY DEF Distinct, KnownCats
  <2>2. CASE RequireMembership(p, u, h, "cat_create", NONE, <<>>)
    BY <1>1, <2>1, <2>2 DEF CategoryStages
  <2>3. ASSUME NEW c \in KnownCats, NEW next \in {"cat_update", "cat_delete"},
               RequireMembership(p, u, h, next, c, <<>>)
        PROVE  Types'
    BY <1>1, <2>1, <2>3 DEF CategoryStages
  <2>4. ASSUME NEW ids \in Orders(h), RequireMembership(p, u, h, "cat_reorder", NONE, ids)
        PROVE  Types'
    BY <1>1, <1>4, <2>4 DEF CategoryStages
  <2>5. QED
    BY <1>5, <2>2, <2>3, <2>4
<1>6. QED
  BY <1>2, <1>3, <1>5 DEF CategoryStep

LEMMA StepTypes == Types /\ [Next]_vars => Types'
<1> SUFFICES ASSUME Types, [Next]_vars PROVE Types'
  OBVIOUS
<1>1. CASE UNCHANGED vars
  BY <1>1 DEF vars, Types, TablesOK, HandlersOK
<1>2. ASSUME NEW p \in Procs, Refused(p)
      PROVE  Types'
  <2>1. TablesOK'
    BY <1>2 DEF Refused, NoChange, ghosts, Types, TablesOK
  <2>2. QED
    BY <1>2, <2>1, ReturnOK DEF Refused, Types
<1>3. QED
  BY <1>1, <1>2, HouseholdTypes, CategoryTypes DEF Next

-----------------------------------------------------------------------------
(* Owners. *)

(* What the handlers hold about the owner of a household: it was given out *)
(* once; those about to save it hold its owner, and the same one even if   *)
(* it is deleted meanwhile; those about to remove a member spare it.       *)
HouseKnown ==
    /\ \A h \in Houses : Exists(h) => h \in used
    /\ \A p \in Procs : proc[p].at \in OwnerStages => proc[p].h \in used
Saving(p) == proc[p].at \in {"update", "save"}
SaversHoldOwner ==
    \A p \in Procs : Saving(p) /\ Exists(proc[p].h) => owner[proc[p].h] = proc[p].u
SaversAgree ==
    \A p, q \in Procs : Saving(p) /\ Saving(q) /\ proc[p].h = proc[q].h => proc[p].u = proc[q].u
RemoversSpareOwner ==
    \A p \in Procs :
        proc[p].at = "remove" /\ Exists(proc[p].h) /\ proc[p].h \notin raised
        => owner[proc[p].h] # proc[p].u
Held == HouseKnown /\ SaversHoldOwner /\ SaversAgree /\ RemoversSpareOwner
Owners == OwnerIsMember /\ Held

LEMMA InitOwners == Init => Owners
  BY DEF Init, Owners, Held, OwnerIsMember, HouseKnown, SaversHoldOwner, SaversAgree,
         RemoversSpareOwner, Saving, Exists, Idle, Handling, OwnerStages

(* A step that leaves the households alone and ends or keeps a handler.    *)
LEMMA QuietOwners ==
    ASSUME Types, Owners, NEW p \in Procs, NEW q, Go(p, q),
           \/ q.at \notin OwnerStages
           \/ q.at \in {"save", "drop", "commit"} /\ q.h = proc[p].h /\ q.u = proc[p].u
              /\ proc[p].at \in OwnerStages /\ (q.at = "save" => Saving(p)),
           UNCHANGED <<owner, members, raised>>, used \subseteq used'
    PROVE  Owners'
<1>1. /\ proc' \in [Procs -> {proc'[x] : x \in Procs}] /\ proc'[p] = q
      /\ \A x \in Procs : x # p => proc'[x] = proc[x]
  BY DEF Go, Types, HandlersOK
<1>2. \A x \in Procs : Saving(x)' => Saving(x) /\ proc'[x].h = proc[x].h /\ proc'[x].u = proc[x].u
  BY <1>1 DEF Saving, OwnerStages
<1>3. OwnerIsMember'
  BY DEF Owners, OwnerIsMember, Exists
<1>4. HouseKnown'
  BY <1>1 DEF Owners, Held, HouseKnown, Exists, OwnerStages
<1>5. SaversHoldOwner' /\ SaversAgree'
  BY <1>2 DEF Owners, Held, SaversHoldOwner, SaversAgree, Exists
<1>6. RemoversSpareOwner'
  BY <1>1 DEF Owners, Held, RemoversSpareOwner, Exists, OwnerStages
<1>7. QED
  BY <1>3, <1>4, <1>5, <1>6 DEF Owners, Held

LEMMA HouseholdOwners ==
    ASSUME Types, Owners, NEW p \in Procs, HouseholdStep(p)
    PROVE  Owners'
<1>P. /\ proc \in [Procs -> Handler] /\ Filled(proc[p])
      /\ owner \in [Houses -> Users \cup {NONE}]
      /\ \A u \in Users : u # NONE
  BY NoneAssumption DEF Types, TablesOK, HandlersOK
<1>1. ASSUME NEW u \in Users, NEW h \in Houses, CreateHousehold(p, u, h)
      PROVE  Owners'
  <2>1. /\ owner' = [owner EXCEPT ![h] = u] /\ members' = members \cup {<<h, u>>}
        /\ used' = used \cup {h} /\ h \notin used /\ proc' = proc /\ raised' = raised
    BY <1>1 DEF CreateHousehold, ghosts
  <2>2. \A x \in Procs : proc[x].at \in OwnerStages => proc[x].h \in Houses /\ proc[x].h # h
    BY <2>1 DEF Owners, Held, HouseKnown, Types, HandlersOK, Filled, OwnerStages
  <2>3. OwnerIsMember'
    BY <1>P, <2>1 DEF Owners, OwnerIsMember, Exists
  <2>4. HouseKnown'
    BY <1>P, <2>1 DEF Owners, Held, HouseKnown, Exists
  <2>5. SaversHoldOwner' /\ SaversAgree'
    BY <1>P, <2>1, <2>2 DEF Owners, Held, SaversHoldOwner, SaversAgree, Saving, Exists, OwnerStages
  <2>6. RemoversSpareOwner'
    BY <1>P, <2>1, <2>2 DEF Owners, Held, RemoversSpareOwner, Exists, OwnerStages
  <2>7. QED
    BY <2>3, <2>4, <2>5, <2>6 DEF Owners, Held
<1>2. ASSUME NEW u \in Users, NEW h \in Houses, NEW v \in Users,
             NEW next \in {"update", "delete", "add", "remove"}, CheckOwner(p, u, h, next, v)
      PROVE  Owners'
  <2> DEFINE w == IF next \in {"add", "remove"} THEN v ELSE u
             q == Handling(next, h, w, NONE, <<>>)
  <2>1. /\ Exists(h) /\ owner[h] = u /\ UNCHANGED <<owner, members, used, raised>>
        /\ next = "remove" => v # u
        /\ proc' = [proc EXCEPT ![p] = q]
    BY <1>2 DEF CheckOwner, NoChange, ghosts, Go, Removable
  <2>2. /\ proc'[p].at = next /\ proc'[p].h = h /\ proc'[p].u = w
        /\ \A x \in Procs : x # p => proc'[x] = proc[x]
    BY <1>P, <2>1 DEF Handling
  <2>w. (next \in {"update", "delete"} => w = u) /\ (next = "remove" => w # u)
    BY <2>1
  <2> HIDE DEF w
  <2>3. OwnerIsMember'
    BY <2>1 DEF Owners, OwnerIsMember, Exists
  <2>4. HouseKnown'
    BY <2>1, <2>2 DEF Owners, Held, HouseKnown, Exists
  <2>5. \A x \in Procs : Saving(x)' => x = p \/ (Saving(x) /\ proc'[x] = proc[x])
    BY <2>2 DEF Saving
  <2>6. Saving(p)' => proc'[p].u = owner[h] /\ proc'[p].h = h
    BY <2>1, <2>2, <2>w DEF Saving
  <2>7. SaversHoldOwner'
    BY <2>1, <2>5, <2>6 DEF Owners, Held, SaversHoldOwner, Exists
  <2>8. SaversAgree'
    BY <2>1, <2>5, <2>6 DEF Owners, Held, SaversHoldOwner, SaversAgree
  <2>9. RemoversSpareOwner'
    BY <2>1, <2>2, <2>w DEF Owners, Held, RemoversSpareOwner, Exists
  <2>10. QED
    BY <2>3, <2>4, <2>7, <2>8, <2>9 DEF Owners, Held
<1>3. CASE FindHousehold(p)
  <2>1. /\ UNCHANGED <<owner, members, raised, used>>
        /\ \E stage \in {<<"update", "save">>, <<"delete", "drop">>} :
             At(p, stage[1]) /\ (Then(p, stage[2]) \/ Return(p))
    BY <1>3 DEF FindHousehold, NoChange, ghosts
  <2>2. CASE Return(p)
    BY <2>1, <2>2, QuietOwners DEF Return, Idle, Handling, OwnerStages
  <2>3. ASSUME NEW stage \in {<<"update", "save">>, <<"delete", "drop">>},
               At(p, stage[1]), Then(p, stage[2])
        PROVE  Owners'
    <3> DEFINE q == [proc[p] EXCEPT !.at = stage[2]]
    <3>1. q.at = stage[2] /\ q.h = proc[p].h /\ q.u = proc[p].u
      BY <1>P DEF Handler
    <3>2. /\ stage[2] \in {"save", "drop"} /\ proc[p].at \in OwnerStages
          /\ stage[2] = "save" => Saving(p)
      BY <2>3 DEF At, OwnerStages, Saving
    <3>3. Go(p, q)
      BY <2>3 DEF Then
    <3> HIDE DEF q
    <3>4. QED
      BY <2>1, <3>1, <3>2, <3>3, QuietOwners
  <2>4. QED
    BY <2>1, <2>2, <2>3
<1>4. CASE SaveHousehold(p) \/ DropHousehold(p) \/ AddMember(p) \/ RemoveMember(p)
  <2> DEFINE h == proc[p].h
             u == proc[p].u
  <2>0. h \in Houses /\ u \in Users /\ used' = used /\ Return(p) /\ h \in used
    BY <1>P, <1>4 DEF SaveHousehold, DropHousehold, AddMember, RemoveMember, At, Filled,
                      OwnerStages, Owners, Held, HouseKnown
  <2>1. \A x \in Procs : (proc'[x] = proc[x] /\ x # p) \/ proc'[x].at = "idle"
    BY <1>P, <2>0 DEF Return, Go, Idle, Handling
  <2>x. \A x \in Procs : proc[x].at \in OwnerStages => proc[x].h \in Houses
    BY DEF Types, HandlersOK, Filled, OwnerStages
  <2>2. SaversAgree'
    BY <2>1 DEF Owners, Held, SaversAgree, Saving
  <2>3. CASE SaveHousehold(p)
    <3>1. /\ owner' = [owner EXCEPT ![h] = u] /\ members' = members
          /\ raised' = IF Exists(h) THEN raised ELSE raised \cup {h}
          /\ Saving(p)
      BY <2>3 DEF SaveHousehold, At, Saving
    <3>2. owner'[h] = u /\ \A g \in Houses : g # h => owner'[g] = owner[g]
      BY <1>P, <2>0, <3>1
    <3>3. Exists(h) => owner[h] = u /\ owner' = owner /\ raised' = raised
      BY <1>P, <3>1 DEF Owners, Held, SaversHoldOwner
    <3>4. ~Exists(h) => h \in raised' /\ raised \subseteq raised'
      BY <3>1
    <3>5. OwnerIsMember'
      BY <3>1, <3>2, <3>3, <3>4 DEF Owners, OwnerIsMember, Exists
    <3>6. HouseKnown'
      BY <2>0, <2>1, <3>2 DEF Owners, Held, HouseKnown, Exists, OwnerStages
    <3>7. SaversHoldOwner'
      BY <2>1, <2>x, <3>1, <3>2 DEF Owners, Held, SaversHoldOwner, SaversAgree, Saving, Exists, OwnerStages
    <3>8. RemoversSpareOwner'
      BY <2>1, <2>x, <3>2, <3>3, <3>4 DEF Owners, Held, RemoversSpareOwner, Exists, OwnerStages
    <3>9. QED
      BY <2>2, <3>5, <3>6, <3>7, <3>8 DEF Owners, Held
  <2>4. CASE DropHousehold(p)
    <3>1. /\ owner' = [owner EXCEPT ![h] = NONE] /\ raised' = raised
          /\ members' = {m \in members : m[1] # h}
      BY <2>4 DEF DropHousehold
    <3>2. owner'[h] = NONE /\ \A g \in Houses : g # h => owner'[g] = owner[g]
      BY <1>P, <2>0, <3>1
    <3>3. OwnerIsMember'
      BY <3>1, <3>2 DEF Owners, OwnerIsMember, Exists
    <3>4. HouseKnown'
      BY <2>0, <2>1, <3>2 DEF Owners, Held, HouseKnown, Exists, OwnerStages
    <3>5. SaversHoldOwner'
      BY <2>1, <2>x, <3>2 DEF Owners, Held, SaversHoldOwner, Saving, Exists, OwnerStages
    <3>6. RemoversSpareOwner'
      BY <2>1, <2>x, <3>1, <3>2 DEF Owners, Held, RemoversSpareOwner, Exists, OwnerStages
    <3>7. QED
      BY <2>2, <3>3, <3>4, <3>5, <3>6 DEF Owners, Held
  <2>5. CASE AddMember(p) \/ RemoveMember(p)
    <3>1. /\ owner' = owner /\ raised' = raised
          /\ \/ members \subseteq members'
             \/ proc[p].at = "remove" /\ members' = members \ {<<h, u>>}
      BY <2>5 DEF AddMember, RemoveMember, ghosts, At
    <3>2. OwnerIsMember'
      BY <1>P, <3>1 DEF Owners, Held, OwnerIsMember, RemoversSpareOwner, Exists
    <3>3. HouseKnown'
      BY <2>0, <2>1, <3>1 DEF Owners, Held, HouseKnown, Exists, OwnerStages
    <3>4. SaversHoldOwner' /\ RemoversSpareOwner'
      BY <2>1, <3>1 DEF Owners, Held, SaversHoldOwner, RemoversSpareOwner, Saving, Exists
    <3>5. QED
      BY <2>2, <3>2, <3>3, <3>4 DEF Owners, Held
  <2>6. QED
    BY <1>4, <2>3, <2>4, <2>5
<1>5. CASE DropCategories(p)
  <2> DEFINE q == [proc[p] EXCEPT !.at = "commit", !.doomed = Doomed(proc[p].h)]
  <2>1. q.at = "commit" /\ q.h = proc[p].h /\ q.u = proc[p].u
    BY <1>P DEF Handler
  <2>2. /\ UNCHANGED <<owner, members, raised, used>>
        /\ proc[p].at \in OwnerStages /\ Go(p, q)
    BY <1>5 DEF DropCategories, NoChange, ghosts, At, OwnerStages
  <2> HIDE DEF q
  <2>3. QED
    BY <2>1, <2>2, QuietOwners
<1>6. QED
  BY <1>1, <1>2, <1>3, <1>4, <1>5 DEF HouseholdStep

LEMMA StepOwners == Types /\ Owners /\ [Next]_vars => Owners'
<1> SUFFICES ASSUME Types, Owners, [Next]_vars PROVE Owners'
  OBVIOUS
<1>1. CASE UNCHANGED vars
  BY <1>1 DEF vars, Owners, Held, OwnerIsMember, HouseKnown, SaversHoldOwner, SaversAgree,
              RemoversSpareOwner, Saving, Exists
<1>2. ASSUME NEW p \in Procs, CategoryStep(p) \/ Refused(p)
      PROVE  Owners'
  <2>1. UNCHANGED <<owner, members, raised>> /\ used \subseteq used'
    BY <1>2 DEF CategoryStep, RequireMembership, ReadMax, InsertCategory, FindCategory, SaveCategory,
                DropCategory, CountCategories, Reorder, Refused, NoChange, ghosts
  <2>2. CASE Return(p)
    BY <2>1, <2>2, QuietOwners DEF Return, Idle, Handling, OwnerStages
  <2>3. ASSUME NEW u \in Users, NEW h \in Houses, NEW c, NEW ids,
               NEW next \in {"cat_create", "cat_update", "cat_delete", "cat_reorder"},
               RequireMembership(p, u, h, next, c, ids)
        PROVE  Owners'
    BY <2>1, <2>3, QuietOwners DEF RequireMembership, Handling, OwnerStages
  <2>4. ASSUME NEW at \in {"cat_insert", "cat_save", "cat_drop", "cat_order"}, NEW n,
               Go(p, [proc[p] EXCEPT !.at = at, !.pos = n])
        PROVE  Owners'
    <3>1. [proc[p] EXCEPT !.at = at, !.pos = n].at = at
      BY DEF Types, HandlersOK, Handler
    <3>2. QED
      BY <2>1, <2>4, <3>1, QuietOwners DEF OwnerStages
  <2>5. CASE ReadMax(p) \/ FindCategory(p) \/ CountCategories(p)
    <3>1. CASE ReadMax(p)
      BY <2>4, <3>1 DEF ReadMax
    <3>2. CASE FindCategory(p) /\ ~Return(p)
      <4>1. PICK stage \in {<<"cat_update", "cat_save">>, <<"cat_delete", "cat_drop">>} :
                Go(p, [proc[p] EXCEPT !.at = stage[2], !.pos = cat[proc[p].c].pos])
        BY <3>2 DEF FindCategory
      <4>2. stage[2] \in {"cat_save", "cat_drop"}
        OBVIOUS
      <4>3. QED
        BY <2>4, <4>1, <4>2
    <3>3. CASE CountCategories(p) /\ ~Return(p)
      BY <2>4, <3>3 DEF CountCategories
    <3>4. QED
      BY <2>2, <2>5, <3>1, <3>2, <3>3
  <2>6. CASE ~Return(p) /\ ~(ReadMax(p) \/ FindCategory(p) \/ CountCategories(p))
    BY <1>2, <2>3, <2>6 DEF CategoryStep, InsertCategory, SaveCategory, DropCategory, Reorder, Refused
  <2>7. QED
    BY <2>2, <2>5, <2>6
<1>3. QED
  BY <1>1, <1>2, HouseholdOwners DEF Next

(* For any number of households, users and handlers, the owner of a        *)
(* household is one of its members, unless Update's Save brought the       *)
(* household back after its deletion: about Create's transaction,          *)
(* checkOwner and RemoveMember's guard.                                    *)
THEOREM OwnersStayMembers == Spec => []OwnerIsMember
<1>1. Owners => OwnerIsMember
  BY DEF Owners
<1>2. QED
  BY <1>1, InitTypes, InitOwners, StepTypes, StepOwners, PTL DEF Spec

-----------------------------------------------------------------------------
(* Orphans. *)

(* The categories of a household whose Delete is about to commit are those *)
(* it found, which go with the household, and those written since.         *)
FoundOrLate ==
    \A p \in Procs : proc[p].at = "commit" => CatsIn(proc[p].h) \subseteq proc[p].doomed \cup late
Orphans == OrphansOnlyByRace /\ FoundOrLate

(* A step that starts no deletion, whose categories are where they were or *)
(* excused, and that takes no excuse from one that stays.                  *)
LEMMA KeptOrphans ==
    ASSUME Types, Orphans,
           \A c \in Cats : cat'[c] # NONE =>
               \/ cat[c] # NONE /\ cat'[c].house = cat[c].house /\ (c \in late => c \in late')
               \/ c \in late'
               \/ /\ Exists(cat'[c].house)
                  /\ \A x \in Procs : ~(proc[x].at = "commit" /\ proc[x].h = cat'[c].house),
           \A h \in Houses : Exists(h) => Exists(h)',
           \A x \in Procs : proc'[x].at = "commit" => proc'[x] = proc[x],
           \A c \in Cats : cat'[c] # NONE => cat'[c].house \in Houses
    PROVE  Orphans'
<1>1. \A c \in Cats : cat[c] # NONE => cat[c].house \in Houses
  BY DEF Types, TablesOK, Category
<1>2. OrphansOnlyByRace'
  BY <1>1 DEF Orphans, OrphansOnlyByRace
<1>3. FoundOrLate'
  <2> SUFFICES ASSUME NEW x \in Procs, proc'[x].at = "commit", NEW c \in Cats,
                      cat'[c] # NONE, cat'[c].house = proc'[x].h
               PROVE  c \in proc'[x].doomed \/ c \in late'
    BY DEF FoundOrLate, CatsIn
  <2>1. proc'[x] = proc[x] /\ proc[x].at = "commit"
    OBVIOUS
  <2>2. CASE cat[c] # NONE /\ cat'[c].house = cat[c].house /\ (c \in late => c \in late')
    BY <2>1, <2>2 DEF Orphans, FoundOrLate, CatsIn
  <2>3. CASE c \in late'
    BY <2>3
  <2>4. QED
    BY <2>1, <2>2, <2>3
<1>4. QED
  BY <1>2, <1>3 DEF Orphans

(* A handler that ends, or goes on to another stage than the commit.       *)
LEMMA NotCommitting ==
    ASSUME Types, NEW p \in Procs, NEW q, Go(p, q), q.at # "commit"
    PROVE  \A x \in Procs : proc'[x].at = "commit" => proc'[x] = proc[x]
  BY DEF Go, Types, HandlersOK

LEMMA ReturnOrphans ==
    ASSUME Types, NEW p \in Procs, Return(p)
    PROVE  \A x \in Procs : proc'[x].at = "commit" => proc'[x] = proc[x] /\ x # p
  BY DEF Return, Go, Idle, Handling, Types, HandlersOK

LEMMA DropOrphans ==
    ASSUME Types, Orphans, NEW p \in Procs, DropHousehold(p)
    PROVE  Orphans'
<1> DEFINE h == proc[p].h
           gone == proc[p].doomed
<1>1. /\ owner' = [owner EXCEPT ![h] = NONE] /\ late' = late \ gone
      /\ cat' = [c \in Cats |-> IF c \in gone THEN NONE ELSE cat[c]]
      /\ proc[p].at = "commit" /\ Return(p)
  BY DEF DropHousehold, At
<1>2. \A c \in Cats : cat'[c] # NONE => /\ cat'[c] = cat[c] /\ c \notin gone
                                       /\ (cat[c].house = h => c \in late')
  BY <1>1 DEF Orphans, FoundOrLate, CatsIn
<1>3. \A c \in Cats : c \notin gone => (c \in late => c \in late')
  BY <1>1
<1>4. \A g \in Houses : g # h /\ Exists(g) => Exists(g)'
  BY <1>1 DEF Exists, Types, TablesOK
<1>5. \A c \in Cats : cat[c] # NONE => cat[c].house \in Houses
  BY DEF Types, TablesOK, Category
<1>6. OrphansOnlyByRace'
  BY <1>2, <1>3, <1>4, <1>5 DEF Orphans, OrphansOnlyByRace
<1>7. \A x \in Procs : proc'[x].at = "commit" => proc'[x] = proc[x]
  BY <1>1, ReturnOrphans
<1>8. FoundOrLate'
  BY <1>2, <1>3, <1>7 DEF Orphans, FoundOrLate, CatsIn
<1>9. QED
  BY <1>6, <1>8 DEF Orphans

LEMMA StoredOrphans ==
    ASSUME Types, Orphans, NEW p \in Procs, NEW c \in Cats, NEW n \in Nat, proc[p].h \in Houses,
           Stored(p, c, n), Return(p), owner' = owner
    PROVE  Orphans'
<1> DEFINE h == proc[p].h
<1>1. /\ cat'[c].house = h /\ \A d \in Cats : d # c => cat'[d] = cat[d]
      /\ late \subseteq late'
      /\ c \in late' \/ (Exists(h) /\ ~Leaving(h))
  BY DEF Stored, Types, TablesOK
<1>2. ~Leaving(h) => \A x \in Procs : ~(proc[x].at = "commit" /\ proc[x].h = h)
  BY DEF Leaving, At
<1>3. \A x \in Procs : proc'[x].at = "commit" => proc'[x] = proc[x]
  BY ReturnOrphans
<1>4. \A d \in Cats : cat[d] # NONE => cat[d].house \in Houses
  BY DEF Types, TablesOK, Category
<1> HIDE DEF h
<1>5. \A d \in Cats : cat'[d] # NONE =>
         \/ cat[d] # NONE /\ cat'[d].house = cat[d].house /\ (d \in late => d \in late')
         \/ d \in late'
         \/ /\ Exists(cat'[d].house)
            /\ \A x \in Procs : ~(proc[x].at = "commit" /\ proc[x].h = cat'[d].house)
  BY <1>1, <1>2
<1>6. \A d \in Cats : cat'[d] # NONE => cat'[d].house \in Houses
  BY <1>1, <1>4 DEF h
<1>7. \A g \in Houses : Exists(g) => Exists(g)'
  BY DEF Exists
<1>8. QED
  BY <1>3, <1>5, <1>6, <1>7, KeptOrphans

(* Steps that write no category's household and end no household.          *)
LEMMA QuietOrphans ==
    ASSUME Types, Orphans,
           \A c \in Cats : cat'[c] # NONE => /\ cat[c] # NONE /\ cat'[c].house = cat[c].house
                                             /\ (c \in late => c \in late'),
           \A h \in Houses : Exists(h) => Exists(h)',
           \A x \in Procs : proc'[x].at = "commit" => proc'[x] = proc[x]
    PROVE  Orphans'
<1>1. \A c \in Cats : cat[c] # NONE => cat[c].house \in Houses
  BY DEF Types, TablesOK, Category
<1>2. QED
  BY <1>1, KeptOrphans

LEMMA ReorderOrphans ==
    ASSUME Types, Orphans, NEW p \in Procs, Reorder(p)
    PROVE  Orphans'
<1> DEFINE moved == {proc[p].ids[n] : n \in DOMAIN proc[p].ids}
           place(c) == CHOOSE n \in DOMAIN proc[p].ids : proc[p].ids[n] = c
<1>1. owner' = owner /\ late' = late /\ Return(p)
  BY DEF Reorder
<1>2. CASE moved \subseteq CatsIn(proc[p].h)
  <2>1. cat' = [c \in Cats |-> IF c \in moved THEN [cat[c] EXCEPT !.pos = place(c)] ELSE cat[c]]
    BY <1>2, Zenon DEF Reorder
  <2>2. \A c \in moved : cat[c] \in Category /\ cat[c] # NONE
    BY <1>2 DEF CatsIn, Types, TablesOK
  <2> HIDE DEF moved, place
  <2>3. \A c \in Cats : (cat'[c] # NONE => cat[c] # NONE /\ cat'[c].house = cat[c].house)
    BY <2>1, <2>2 DEF Category
  <2>4. QED
    BY <1>1, <2>3, ReturnOrphans, QuietOrphans DEF Exists
<1>3. CASE ~(moved \subseteq CatsIn(proc[p].h))
  <2>1. cat' = cat
    BY <1>3, Zenon DEF Reorder
  <2>2. QED
    BY <1>1, <2>1, ReturnOrphans, QuietOrphans DEF Exists
<1>4. QED
  BY <1>2, <1>3

LEMMA StepOrphans == Types /\ Orphans /\ [Next]_vars => Orphans'
<1> SUFFICES ASSUME Types, Orphans, [Next]_vars PROVE Orphans'
  OBVIOUS
<1>T. /\ owner \in [Houses -> Users \cup {NONE}] /\ proc \in [Procs -> Handler]
      /\ \A u \in Users : u # NONE
  BY NoneAssumption DEF Types, TablesOK, HandlersOK
<1>1. ASSUME UNCHANGED <<owner, cat, late>>,
             \A x \in Procs : proc'[x].at = "commit" => proc'[x] = proc[x]
      PROVE  Orphans'
  BY <1>1, QuietOrphans DEF Exists
<1>2. ASSUME NEW p \in Procs, NEW q, Go(p, q), q.at # "commit", UNCHANGED <<owner, cat, late>>
      PROVE  Orphans'
  BY <1>1, <1>2, NotCommitting
<1>3. ASSUME NEW p \in Procs, Return(p), UNCHANGED <<owner, cat, late>>
      PROVE  Orphans'
  BY <1>1, <1>3, ReturnOrphans
<1>4. ASSUME NEW p \in Procs, HouseholdStep(p)
      PROVE  Orphans'
  <2>1. ASSUME NEW u \in Users, NEW h \in Houses, CreateHousehold(p, u, h)
        PROVE  Orphans'
    <3>1. \A g \in Houses : Exists(g) => Exists(g)'
      BY <1>T, <2>1 DEF CreateHousehold, Exists
    <3>2. UNCHANGED <<cat, late, proc>>
      BY <2>1 DEF CreateHousehold, ghosts
    <3>3. QED
      BY <3>1, <3>2, QuietOrphans
  <2>2. CASE SaveHousehold(p)
    <3>1. proc[p].u \in Users /\ owner' = [owner EXCEPT ![proc[p].h] = proc[p].u]
      BY <2>2 DEF SaveHousehold, At, Types, HandlersOK, Filled, OwnerStages
    <3>2. \A g \in Houses : Exists(g) => Exists(g)'
      BY <1>T, <3>1 DEF Exists
    <3>3. UNCHANGED <<cat, late>> /\ Return(p)
      BY <2>2 DEF SaveHousehold
    <3>4. QED
      BY <3>2, <3>3, ReturnOrphans, QuietOrphans
  <2>3. CASE DropCategories(p)
    <3> DEFINE h == proc[p].h
               q == [proc[p] EXCEPT !.at = "commit", !.doomed = Doomed(h)]
    <3>1. UNCHANGED <<owner, cat, late>> /\ proc' = [proc EXCEPT ![p] = q]
      BY <2>3 DEF DropCategories, NoChange, ghosts, Go
    <3>2. /\ proc'[p].h = h /\ proc'[p].doomed = CatsIn(h)
          /\ \A x \in Procs : x # p => proc'[x] = proc[x]
      BY <1>T, <3>1 DEF Handler, Doomed
    <3>3. \A g : CatsIn(g)' = CatsIn(g)
      BY <3>1 DEF CatsIn
    <3>4. FoundOrLate'
      BY <3>1, <3>2, <3>3 DEF Orphans, FoundOrLate
    <3>5. OrphansOnlyByRace'
      BY <3>1 DEF Orphans, OrphansOnlyByRace, Exists
    <3>6. QED
      BY <3>4, <3>5 DEF Orphans
  <2>4. ASSUME NEW u \in Users, NEW h \in Houses, NEW v \in Users,
               NEW next \in {"update", "delete", "add", "remove"}, CheckOwner(p, u, h, next, v)
        PROVE  Orphans'
    BY <1>2, <2>4 DEF CheckOwner, NoChange, ghosts, Handling
  <2>5. CASE FindHousehold(p) /\ ~Return(p)
    <3>1. PICK stage \in {<<"update", "save">>, <<"delete", "drop">>} :
            Go(p, [proc[p] EXCEPT !.at = stage[2]])
      BY <2>5 DEF FindHousehold, Then
    <3>2. [proc[p] EXCEPT !.at = stage[2]].at = stage[2] /\ stage[2] # "commit"
      BY <1>T DEF Handler
    <3>3. UNCHANGED <<owner, cat, late>>
      BY <2>5 DEF FindHousehold, NoChange, ghosts
    <3>4. QED
      BY <1>2, <3>1, <3>2, <3>3
  <2>6. CASE (FindHousehold(p) /\ Return(p)) \/ AddMember(p) \/ RemoveMember(p)
    BY <1>3, <2>6 DEF FindHousehold, AddMember, RemoveMember, NoChange, ghosts
  <2>7. QED
    BY <1>4, <2>1, <2>2, <2>3, <2>4, <2>5, <2>6, DropOrphans DEF HouseholdStep
<1>5. ASSUME NEW p \in Procs, CategoryStep(p)
      PROVE  Orphans'
  <2>P. proc[p].pos \in Nat /\ (~At(p, "idle") => proc[p].h \in Houses)
    BY DEF Types, HandlersOK, Handler, Filled, At
  <2>1. ASSUME NEW c \in Cats, InsertCategory(p, c)
        PROVE  Orphans'
    <3>1. PICK n \in Nat : n = NextPos(proc[p].pos)
      BY <2>P DEF NextPos
    <3>2. Stored(p, c, n) /\ owner' = owner /\ Return(p) /\ proc[p].h \in Houses
      BY <2>1, <2>P, <3>1 DEF InsertCategory, At
    <3>3. QED
      BY <3>2, StoredOrphans
  <2>2. CASE SaveCategory(p)
    <3>1. proc[p].c \in Cats /\ proc[p].h \in Houses
      BY <2>2, <2>P DEF SaveCategory, At, Types, HandlersOK, Filled, CategoryStages
    <3>2. QED
      BY <2>2, <2>P, <3>1, StoredOrphans DEF SaveCategory
  <2>3. CASE DropCategory(p)
    <3>1. /\ owner' = owner /\ Return(p)
          /\ \A c \in Cats : cat'[c] # NONE => cat'[c] = cat[c] /\ (c \in late => c \in late')
      BY <2>3 DEF DropCategory, Types, TablesOK
    <3>2. QED
      BY <3>1, ReturnOrphans, QuietOrphans DEF Exists
  <2>4. ASSUME NEW u \in Users, NEW h \in Houses, NEW c, NEW ids,
               NEW next \in {"cat_create", "cat_update", "cat_delete", "cat_reorder"},
               RequireMembership(p, u, h, next, c, ids)
        PROVE  Orphans'
    BY <1>2, <2>4 DEF RequireMembership, NoChange, ghosts, Handling
  <2>5. CASE (FindCategory(p) \/ CountCategories(p)) /\ Return(p)
    BY <1>3, <2>5 DEF FindCategory, CountCategories, NoChange, ghosts
  <2>6. ASSUME NEW at \in {"cat_insert", "cat_save", "cat_drop", "cat_order"}, NEW n,
               Go(p, [proc[p] EXCEPT !.at = at, !.pos = n]), UNCHANGED <<owner, cat, late>>
        PROVE  Orphans'
    <3>1. [proc[p] EXCEPT !.at = at, !.pos = n].at = at
      BY <1>T DEF Handler
    <3>2. QED
      BY <1>2, <2>6, <3>1
  <2>7. CASE ReadMax(p)
    BY <2>6, <2>7 DEF ReadMax, NoChange, ghosts
  <2>8. CASE CountCategories(p) /\ ~Return(p)
    BY <2>6, <2>8 DEF CountCategories, NoChange, ghosts
  <2>9. CASE FindCategory(p) /\ ~Return(p)
    <3>1. PICK stage \in {<<"cat_update", "cat_save">>, <<"cat_delete", "cat_drop">>} :
              Go(p, [proc[p] EXCEPT !.at = stage[2], !.pos = cat[proc[p].c].pos])
      BY <2>9 DEF FindCategory
    <3>2. stage[2] \in {"cat_save", "cat_drop"}
      OBVIOUS
    <3>3. QED
      BY <2>6, <2>9, <3>1, <3>2 DEF FindCategory, NoChange, ghosts
  <2>10. ASSUME NEW u \in Users, NEW h \in Houses,
               \/ RequireMembership(p, u, h, "cat_create", NONE, <<>>)
               \/ \E c \in KnownCats, next \in {"cat_update", "cat_delete"} :
                   RequireMembership(p, u, h, next, c, <<>>)
               \/ \E ids \in Orders(h) : RequireMembership(p, u, h, "cat_reorder", NONE, ids)
        PROVE  Orphans'
    BY <2>4, <2>10
  <2>11. QED
    BY <1>5, <2>1, <2>2, <2>3, <2>5, <2>7, <2>8, <2>9, <2>10, ReorderOrphans DEF CategoryStep
<1>6. CASE UNCHANGED vars
  BY <1>1, <1>6 DEF vars
<1>7. ASSUME NEW p \in Procs, Refused(p)
      PROVE  Orphans'
  BY <1>3, <1>7 DEF Refused, NoChange, ghosts
<1>8. QED
  BY <1>4, <1>5, <1>6, <1>7 DEF Next

(* For any number of households, categories and handlers, a category left  *)
(* without its household was written by a handler that passed the          *)
(* membership check before the deletion, after Delete's transaction had    *)
(* looked for categories: about that transaction.                          *)
THEOREM OrphansAreLate == Spec => []OrphansOnlyByRace
<1>1. Init => Orphans
  BY DEF Init, Orphans, OrphansOnlyByRace, FoundOrLate, Idle, Handling
<1>2. Orphans => OrphansOnlyByRace
  BY DEF Orphans
<1>3. QED
  BY <1>1, <1>2, InitTypes, StepTypes, StepOrphans, PTL DEF Spec

-----------------------------------------------------------------------------
(* Positions. *)

Holding(p) == proc[p].at \in {"cat_save", "cat_drop"}
CategoryKnown ==
    /\ \A c \in Cats : cat[c] # NONE => c \in used
    /\ \A p \in Procs : Holding(p) => proc[p].c \in used
HoldersAgree ==
    /\ \A p \in Procs : Holding(p) /\ cat[proc[p].c] # NONE => cat[proc[p].c].house = proc[p].h
    /\ \A p, q \in Procs : Holding(p) /\ Holding(q) /\ proc[p].c = proc[q].c => proc[p].h = proc[q].h
Places == PositionsDistinctUnlessRaced /\ CategoryKnown /\ HoldersAgree

LEMMA InitPlaces == Init => Places
  BY DEF Init, Places, PositionsDistinctUnlessRaced, CategoryKnown, HoldersAgree, Holding, Idle, Handling

(* A step that moves no category: it only removes some, whose collisions   *)
(* end with them, and no handler takes hold of one.                        *)
LEMMA RemovalPlaces ==
    ASSUME Types, Places, used \subseteq used',
           \A c \in Cats : cat'[c] # NONE => cat'[c] = cat[c] /\ (c \in raced => c \in raced'),
           \A p \in Procs : Holding(p)' => /\ Holding(p) /\ proc'[p].c = proc[p].c
                                           /\ proc'[p].h = proc[p].h
    PROVE  Places'
<1>1. \A p \in Procs : Holding(p) => proc[p].c \in Cats
  BY DEF Holding, Types, HandlersOK, Filled, CategoryStages
<1>2. PositionsDistinctUnlessRaced'
  BY DEF Places, PositionsDistinctUnlessRaced
<1>3. CategoryKnown'
  BY DEF Places, CategoryKnown
<1>4. HoldersAgree'
  BY <1>1 DEF Places, HoldersAgree
<1>5. QED
  BY <1>2, <1>3, <1>4 DEF Places

LEMMA ReturnPlaces ==
    ASSUME Types, NEW p \in Procs, Return(p)
    PROVE  \A x \in Procs : Holding(x)' => /\ Holding(x) /\ proc'[x].c = proc[x].c /\ proc'[x].h = proc[x].h
                                         /\ x # p
  BY DEF Return, Go, Idle, Handling, Holding, Types, HandlersOK

(* As many distinct entries as positions: a reorder that passed its check  *)
(* and finds all its ids names every category, if the count still stands.  *)
LEMMA AllMoved ==
    ASSUME NEW here \in SUBSET Cats, NEW ids \in Seq(Cats), Distinct(ids),
           Len(ids) = Cardinality(here), {ids[n] : n \in DOMAIN ids} \subseteq here
    PROVE  {ids[n] : n \in DOMAIN ids} = here
<1> DEFINE k == Len(ids)
           moved == {ids[n] : n \in DOMAIN ids}
<1>1. k \in Nat /\ DOMAIN ids = 1..k
  OBVIOUS
<1>2. IsFiniteSet(1..k) /\ Cardinality(1..k) = k
  BY <1>1, FS_Interval
<1>3. ids \in [1..k -> moved]
  BY <1>1
<1>4. ids \in Bijection(1..k, moved)
  BY <1>1, <1>3 DEF Bijection, Injection, Surjection, IsInjective, Distinct
<1>5. ExistsBijection(1..k, moved)
  BY <1>4 DEF ExistsBijection
<1>6. Cardinality(moved) = k
  BY <1>2, <1>5, FS_Bijection
<1>7. IsFiniteSet(here)
  BY FiniteAssumption, FS_Subset
<1> HIDE DEF moved, k
<1>8. moved \in SUBSET here /\ Cardinality(here) = Cardinality(moved)
  BY <1>6 DEF moved, k
<1>9. moved = here
  BY <1>7, <1>8, FS_Subset
<1>10. QED
  BY <1>9 DEF moved

LEMMA InsertPlaces ==
    ASSUME Types, Places, NEW p \in Procs, NEW c \in Cats, InsertCategory(p, c)
    PROVE  Places'
<1> DEFINE h == proc[p].h
           n == proc[p].pos
<1>1. /\ h \in Houses /\ n \in Nat
      /\ cat \in [Cats -> {NONE} \cup Category] /\ raced \subseteq Cats
  BY DEF InsertCategory, At, Types, TablesOK, HandlersOK, Handler, Filled
<1>2. /\ c \notin used /\ used' = used \cup {c}
      /\ cat' = [cat EXCEPT ![c] = [house |-> h, pos |-> n + 1]]
      /\ raced' = IF Largest(n, h) THEN raced ELSE raced \cup {c}
  BY DEF InsertCategory, Stored, NextPos
<1>3. \A x \in Procs : Holding(x)' => Holding(x) /\ proc'[x].c = proc[x].c /\ proc'[x].h = proc[x].h
  BY ReturnPlaces DEF InsertCategory
<1>4. \A x \in Procs : Holding(x) => proc[x].c \in Cats /\ proc[x].c # c
  BY <1>2 DEF Places, CategoryKnown, Holding, Types, HandlersOK, Filled, CategoryStages
<1>5. cat'[c].house = h /\ cat'[c].pos = n + 1 /\ \A d \in Cats : d # c => cat'[d] = cat[d]
  BY <1>1, <1>2
<1>6. Largest(n, h) => \A d \in Cats : cat[d] # NONE /\ cat[d].house = h => cat[d].pos # n + 1
  <2> SUFFICES ASSUME Largest(n, h), NEW d \in Cats, cat[d] # NONE, cat[d].house = h
               PROVE  cat[d].pos # n + 1
    OBVIOUS
  <2>1. cat[d].pos \in Nat /\ cat[d].pos <= n
    BY <1>1 DEF Largest, CatsIn, Category
  <2>2. QED
    BY <1>1, <2>1
<1> HIDE DEF h, n
<1>7. PositionsDistinctUnlessRaced'
  BY <1>2, <1>5, <1>6 DEF Places, PositionsDistinctUnlessRaced
<1>8. CategoryKnown'
  BY <1>2, <1>3, <1>5 DEF Places, CategoryKnown
<1>9. HoldersAgree'
  BY <1>3, <1>4, <1>5 DEF Places, HoldersAgree
<1>10. QED
  BY <1>7, <1>8, <1>9 DEF Places

LEMMA SavePlaces ==
    ASSUME Types, Places, NEW p \in Procs, SaveCategory(p)
    PROVE  Places'
<1> DEFINE c == proc[p].c
           h == proc[p].h
           n == proc[p].pos
<1>1. /\ c \in Cats /\ Holding(p) /\ used' = used
      /\ cat \in [Cats -> {NONE} \cup Category]
  BY DEF SaveCategory, At, Holding, Types, TablesOK, HandlersOK, Filled, CategoryStages
<1>2. /\ cat' = [cat EXCEPT ![c] = [house |-> h, pos |-> n]]
      /\ raced' = IF cat[c] # NONE /\ cat[c].pos = n THEN raced ELSE raced \cup {c}
  BY DEF SaveCategory, Stored
<1>3. \A x \in Procs : Holding(x)' => Holding(x) /\ proc'[x].c = proc[x].c /\ proc'[x].h = proc[x].h
  BY ReturnPlaces DEF SaveCategory
<1>4. \A x \in Procs : Holding(x) => proc[x].c \in Cats /\ (proc[x].c = c => proc[x].h = h)
  BY <1>1 DEF Places, HoldersAgree, Holding, Types, HandlersOK, Filled, CategoryStages
<1>5. /\ cat'[c].house = h /\ cat'[c].pos = n /\ \A d \in Cats : d # c => cat'[d] = cat[d]
      /\ cat[c] # NONE => cat[c].house = h
      /\ c \in used
  BY <1>1, <1>2 DEF Places, HoldersAgree, CategoryKnown
<1> HIDE DEF h, n, c
<1>6. PositionsDistinctUnlessRaced'
  BY <1>1, <1>2, <1>5 DEF Places, PositionsDistinctUnlessRaced
<1>7. CategoryKnown'
  BY <1>1, <1>3, <1>5 DEF Places, CategoryKnown
<1>8. HoldersAgree'
  BY <1>3, <1>4, <1>5 DEF Places, HoldersAgree
<1>9. QED
  BY <1>6, <1>7, <1>8 DEF Places

LEMMA ReorderPlaces ==
    ASSUME Types, Places, NEW p \in Procs, Reorder(p)
    PROVE  Places'
<1> DEFINE ids == proc[p].ids
           here == CatsIn(proc[p].h)
           moved == {ids[n] : n \in DOMAIN ids}
           place(c) == CHOOSE n \in DOMAIN ids : ids[n] = c
<1>1. /\ ids \in Seq(Cats) /\ Distinct(ids) /\ proc[p].pos = Len(ids)
      /\ cat \in [Cats -> {NONE} \cup Category] /\ here \subseteq Cats
  BY DEF Reorder, At, Types, TablesOK, HandlersOK, Handler, Filled, CatsIn
<1>2. \A x \in Procs : Holding(x)' => Holding(x) /\ proc'[x].c = proc[x].c /\ proc'[x].h = proc[x].h
  BY ReturnPlaces DEF Reorder
<1>h. \A x \in Procs : Holding(x) => proc[x].c \in Cats
  BY DEF Holding, Types, HandlersOK, Filled, CategoryStages
<1>3. CASE ~(moved \subseteq here)
  <2>1. cat' = cat /\ raced' = raced /\ used' = used
    BY <1>3, Zenon DEF Reorder
  <2>2. QED
    BY <1>2, <2>1, RemovalPlaces
<1>4. CASE moved \subseteq here
  <2>1. /\ cat' = [c \in Cats |-> IF c \in moved THEN [cat[c] EXCEPT !.pos = place(c)] ELSE cat[c]]
        /\ used' = used
        /\ raced' = CASE moved = here -> raced \ moved
                      [] moved # here /\ proc[p].pos # Cardinality(here) -> raced \cup moved
                      [] OTHER -> raced
    BY <1>4, Zenon DEF Reorder
  <2>2. moved # here => proc[p].pos # Cardinality(here)
    BY <1>1, <1>4, AllMoved
  <2>3. \A c \in moved : ids[place(c)] = c
    OBVIOUS
  <2>4. \A c \in moved : cat[c] # NONE /\ cat[c] \in Category /\ cat[c].house = proc[p].h
    BY <1>1, <1>4 DEF CatsIn
  <2>5. \A c \in Cats : cat[c] # NONE /\ cat[c].house = proc[p].h => c \in here
    BY DEF CatsIn
  <2>6. \A c \in Cats \ moved : cat'[c] = cat[c]
    BY <2>1
  <2>7. \A c \in moved : c \in Cats /\ cat'[c].house = proc[p].h /\ cat'[c].pos = place(c)
    BY <1>1, <1>4, <2>1, <2>4 DEF Category
  <2>8. \/ moved = here /\ raced' = raced \ moved
        \/ raced' = raced \cup moved
    BY <2>1, <2>2
  <2>9. \A c, d \in moved : cat'[c].pos = cat'[d].pos => c = d
    BY <2>3, <2>7
  <2> HIDE DEF ids, here, moved, place
  <2>10. PositionsDistinctUnlessRaced'
    <3> SUFFICES ASSUME NEW c \in Cats, NEW d \in Cats, c # d, cat'[c] # NONE, cat'[d] # NONE,
                        cat'[c].house = cat'[d].house, cat'[c].pos = cat'[d].pos
                 PROVE  c \in raced' \/ d \in raced'
      BY DEF PositionsDistinctUnlessRaced
    <3>1. CASE c \notin moved /\ d \notin moved
      BY <2>6, <2>8, <3>1 DEF Places, PositionsDistinctUnlessRaced
    <3>2. CASE raced' = raced \cup moved /\ (c \in moved \/ d \in moved)
      BY <3>2
    <3>3. CASE moved = here /\ (c \in moved \/ d \in moved)
      <4>1. c \in moved /\ d \in moved
        BY <2>5, <2>6, <2>7, <3>3
      <4>2. QED
        BY <2>9, <4>1
    <3>4. QED
      BY <2>8, <3>1, <3>2, <3>3
  <2>11. \A c \in Cats : cat'[c] # NONE => cat[c] # NONE /\ cat'[c].house = cat[c].house
    BY <2>4, <2>6, <2>7
  <2>12. CategoryKnown'
    BY <1>2, <2>1, <2>11 DEF Places, CategoryKnown
  <2>13. HoldersAgree'
    BY <1>2, <1>h, <2>11 DEF Places, HoldersAgree
  <2>14. QED
    BY <2>10, <2>12, <2>13 DEF Places
<1>5. QED
  BY <1>3, <1>4

LEMMA FindPlaces ==
    ASSUME Types, Places, NEW p \in Procs, FindCategory(p)
    PROVE  Places'
<1> DEFINE c == proc[p].c
<1>1. UNCHANGED <<cat, used, raced>>
  BY DEF FindCategory, NoChange, ghosts
<1>2. CASE Return(p)
  BY <1>1, <1>2, ReturnPlaces, RemovalPlaces
<1>3. CASE ~Return(p)
  <2>1. PICK stage \in {<<"cat_update", "cat_save">>, <<"cat_delete", "cat_drop">>} :
            /\ proc[p].at = stage[1] /\ c \in CatsIn(proc[p].h)
            /\ proc' = [proc EXCEPT ![p] = [proc[p] EXCEPT !.at = stage[2], !.pos = cat[c].pos]]
    BY <1>3 DEF FindCategory, Go, At
  <2>2. /\ \A x \in Procs : x # p => proc'[x] = proc[x]
        /\ proc'[p].c = c /\ proc'[p].h = proc[p].h
    BY <2>1 DEF Types, HandlersOK, Handler
  <2>3. /\ c \in Cats /\ cat[c] # NONE /\ cat[c].house = proc[p].h
        /\ c \in used
    BY <2>1 DEF CatsIn, Places, CategoryKnown
  <2>4. \A x \in Procs : Holding(x)' => x = p \/ (Holding(x) /\ proc'[x] = proc[x])
    BY <2>2 DEF Holding
  <2> HIDE DEF c
  <2>5. PositionsDistinctUnlessRaced'
    BY <1>1 DEF Places, PositionsDistinctUnlessRaced
  <2>6. CategoryKnown'
    BY <1>1, <2>2, <2>3, <2>4 DEF Places, CategoryKnown
  <2>7. HoldersAgree'
    BY <1>1, <2>2, <2>3, <2>4 DEF Places, HoldersAgree
  <2>8. QED
    BY <2>5, <2>6, <2>7 DEF Places
<1>4. QED
  BY <1>2, <1>3

LEMMA StepPlaces == Types /\ Places /\ [Next]_vars => Places'
<1> SUFFICES ASSUME Types, Places, [Next]_vars PROVE Places'
  OBVIOUS
<1>1. CASE UNCHANGED vars
  BY <1>1, RemovalPlaces DEF vars, Holding
<1>2. ASSUME NEW p \in Procs, Return(p),
             DropHousehold(p) \/ DropCategory(p) \/ UNCHANGED <<cat, used, raced>>
      PROVE  Places'
  <2>1. /\ used' = used
        /\ \A c \in Cats : cat'[c] # NONE => cat'[c] = cat[c] /\ (c \in raced => c \in raced')
    BY <1>2 DEF DropHousehold, DropCategory, Types, TablesOK
  <2>2. QED
    BY <1>2, <2>1, ReturnPlaces, RemovalPlaces
<1>3. ASSUME NEW p \in Procs, NEW q, Go(p, q), q.at \notin {"cat_save", "cat_drop"},
             UNCHANGED <<cat, used, raced>>
      PROVE  Places'
  <2>1. \A x \in Procs : Holding(x)' => Holding(x) /\ proc'[x].c = proc[x].c /\ proc'[x].h = proc[x].h
    BY <1>3 DEF Go, Holding, Types, HandlersOK
  <2>2. QED
    BY <1>3, <2>1, RemovalPlaces
<1>4. ASSUME NEW p \in Procs, HouseholdStep(p)
      PROVE  Places'
  <2>1. ASSUME NEW u \in Users, NEW h \in Houses, CreateHousehold(p, u, h)
        PROVE  Places'
    BY <2>1, RemovalPlaces DEF CreateHousehold, ghosts, Holding
  <2>2. ASSUME NEW u \in Users, NEW h \in Houses, NEW v \in Users,
               NEW next \in {"update", "delete", "add", "remove"}, CheckOwner(p, u, h, next, v)
        PROVE  Places'
    BY <1>3, <2>2 DEF CheckOwner, NoChange, ghosts, Handling
  <2>3. CASE FindHousehold(p) /\ ~Return(p)
    <3>1. PICK stage \in {<<"update", "save">>, <<"delete", "drop">>} :
            Go(p, [proc[p] EXCEPT !.at = stage[2]])
      BY <2>3 DEF FindHousehold, Then
    <3>2. [proc[p] EXCEPT !.at = stage[2]].at = stage[2]
      BY DEF Types, HandlersOK, Handler
    <3>3. UNCHANGED <<cat, used, raced>>
      BY <2>3 DEF FindHousehold, NoChange, ghosts
    <3>4. stage[2] \notin {"cat_save", "cat_drop"}
      OBVIOUS
    <3>5. QED
      BY <1>3, <3>1, <3>2, <3>3, <3>4
  <2>4. CASE FindHousehold(p) /\ Return(p)
    BY <1>2, <2>4 DEF FindHousehold, NoChange, ghosts
  <2>5. CASE SaveHousehold(p) \/ DropHousehold(p) \/ AddMember(p) \/ RemoveMember(p)
    BY <1>2, <2>5 DEF SaveHousehold, DropHousehold, AddMember, RemoveMember, ghosts
  <2>6. CASE DropCategories(p)
    <3> DEFINE q == [proc[p] EXCEPT !.at = "commit", !.doomed = Doomed(proc[p].h)]
    <3>1. q.at = "commit"
      BY DEF Types, HandlersOK, Handler
    <3>2. Go(p, q) /\ UNCHANGED <<cat, used, raced>>
      BY <2>6 DEF DropCategories, NoChange, ghosts
    <3> HIDE DEF q
    <3>3. QED
      BY <1>3, <3>1, <3>2
  <2>7. QED
    BY <1>4, <2>1, <2>2, <2>3, <2>4, <2>5, <2>6 DEF HouseholdStep
<1>5. ASSUME NEW p \in Procs, CategoryStep(p)
      PROVE  Places'
  <2>1. ASSUME NEW u \in Users, NEW h \in Houses, NEW c, NEW ids,
               NEW next \in {"cat_create", "cat_update", "cat_delete", "cat_reorder"},
               RequireMembership(p, u, h, next, c, ids)
        PROVE  Places'
    BY <1>3, <2>1 DEF RequireMembership, NoChange, ghosts, Handling
  <2>2. ASSUME NEW at \in {"cat_insert", "cat_order"}, NEW n,
               Go(p, [proc[p] EXCEPT !.at = at, !.pos = n]), UNCHANGED <<cat, used, raced>>
        PROVE  Places'
    <3>1. [proc[p] EXCEPT !.at = at, !.pos = n].at = at
      BY DEF Types, HandlersOK, Handler
    <3>2. QED
      BY <1>3, <2>2, <3>1
  <2>3. CASE ReadMax(p) \/ CountCategories(p)
    <3>1. UNCHANGED <<cat, used, raced>>
      BY <2>3 DEF ReadMax, CountCategories, NoChange, ghosts
    <3>2. CASE Return(p)
      BY <1>2, <3>1, <3>2
    <3>3. CASE ReadMax(p)
      BY <2>2, <3>1, <3>3 DEF ReadMax
    <3>4. CASE CountCategories(p) /\ ~Return(p)
      BY <2>2, <3>1, <3>4 DEF CountCategories
    <3>5. QED
      BY <2>3, <3>2, <3>3, <3>4
  <2>4. CASE DropCategory(p)
    BY <1>2, <2>4 DEF DropCategory
  <2>5. CASE FindCategory(p) \/ SaveCategory(p) \/ Reorder(p) \/ \E c \in Cats : InsertCategory(p, c)
    BY <2>5, FindPlaces, SavePlaces, ReorderPlaces, InsertPlaces
  <2>6. ASSUME NEW u \in Users, NEW h \in Houses,
               \/ RequireMembership(p, u, h, "cat_create", NONE, <<>>)
               \/ \E c \in KnownCats, next \in {"cat_update", "cat_delete"} :
                   RequireMembership(p, u, h, next, c, <<>>)
               \/ \E ids \in Orders(h) : RequireMembership(p, u, h, "cat_reorder", NONE, ids)
        PROVE  Places'
    BY <2>1, <2>6
  <2>7. QED
    BY <1>5, <2>3, <2>4, <2>5, <2>6 DEF CategoryStep
<1>6. QED
  BY <1>1, <1>2, <1>4, <1>5 DEF Next, Refused, NoChange, ghosts

(* For any number of households, categories and handlers, two categories   *)
(* of a household share a position only if one of them got it from a read  *)
(* that failed or was out of date when it was written: about Create, Update and      *)
(* Reorder of the category service.                                        *)
THEOREM PositionsCollideOnlyByRace == Spec => []PositionsDistinctUnlessRaced
<1>1. Places => PositionsDistinctUnlessRaced
  BY DEF Places
<1>2. QED
  BY <1>1, InitTypes, InitPlaces, StepTypes, StepPlaces, PTL DEF Spec

-----------------------------------------------------------------------------
(* The type invariant: bounded positions, members of households that are   *)
(* there, and categories that stay in place while a Delete has them        *)
(* locked.                                                                 *)

(* A position is at most the number of categories ever inserted: Create    *)
(* adds one to both, and a reorder counts what is there.                   *)
Known == Cardinality(KnownCats)
PositionsBounded ==
    /\ \A c \in Cats : cat[c] # NONE => cat[c].pos > 0 /\ cat[c].pos <= Known
    /\ \A p \in Procs : /\ proc[p].pos <= Known
                        /\ proc[p].at = "cat_save" => proc[p].pos > 0

(* The categories a Delete has locked are still its household's when it    *)
(* commits: others wait for the locks, and no second Delete of the         *)
(* household gets as far.                                                  *)
DoomedStay ==
    /\ \A p \in Procs : /\ proc[p].at # "commit" => proc[p].doomed = {}
                        /\ proc[p].doomed \subseteq CatsIn(proc[p].h)
    /\ \A p, q \in Procs :
        At(p, "commit") /\ At(q, "commit") /\ proc[p].h = proc[q].h => p = q

MembersOfLive == \A m \in members : Exists(m[1])

Tight == PositionsBounded /\ DoomedStay /\ MembersOfLive

LEMMA KnownIsNat == Known \in Nat
  BY FiniteAssumption, FS_Subset, FS_CardinalityType DEF Known, KnownCats

LEMMA KnownGrows ==
    ASSUME used \subseteq used'
    PROVE  /\ Known \in Nat /\ Known' \in Nat /\ Known <= Known'
           /\ Known <= Cardinality(Cats) /\ Cardinality(Cats) \in Nat
           /\ \A S \in SUBSET KnownCats : Cardinality(S) \in Nat /\ Cardinality(S) <= Known
<1>1. KnownCats \in SUBSET Cats /\ KnownCats \in SUBSET KnownCats' /\ KnownCats' \in SUBSET Cats
  BY DEF KnownCats
<1>2. IsFiniteSet(KnownCats) /\ IsFiniteSet(KnownCats')
  BY <1>1, FiniteAssumption, FS_Subset
<1>3. QED
  BY <1>1, <1>2, FiniteAssumption, FS_Subset, FS_CardinalityType DEF Known

(* A handler goes on, the tables are left alone.                           *)
LEMMA HandlerTight ==
    ASSUME Types, Tight, NEW p \in Procs, NEW q, Go(p, q), NoChange,
           q.at # "commit", q.doomed = {}, q.pos <= Known, q.at = "cat_save" => q.pos > 0
    PROVE  Tight'
<1>1. /\ proc'[p] = q /\ \A x \in Procs \ {p} : proc'[x] = proc[x]
  BY DEF Go, Types, HandlersOK
<1>2. Known' = Known /\ \A h : CatsIn(h)' = CatsIn(h)
  BY DEF NoChange, Known, KnownCats, CatsIn
<1>3. PositionsBounded'
  BY <1>1, <1>2 DEF Tight, PositionsBounded, NoChange
<1>4. DoomedStay'
  BY <1>1, <1>2 DEF Tight, DoomedStay, At
<1>5. MembersOfLive'
  BY DEF Tight, MembersOfLive, NoChange, Exists
<1>6. QED
  BY <1>3, <1>4, <1>5 DEF Tight

(* A handler that writes, and ends with it.                                *)
LEMMA TablesTight ==
    ASSUME Types, Tight, NEW p \in Procs,
           Return(p) \/ (At(p, "idle") /\ UNCHANGED proc), used \subseteq used',
           \A c \in Cats : cat'[c] # NONE => cat'[c].pos > 0 /\ cat'[c].pos <= Known',
           \A x \in Procs \ {p}, c \in Cats :
              c \in proc[x].doomed => cat'[c] # NONE /\ cat'[c].house = cat[c].house,
           \A m \in members' : Exists(m[1])'
    PROVE  Tight'
<1>1. /\ \A x \in Procs \ {p} : proc'[x] = proc[x]
      /\ proc'[p].at # "commit" /\ proc'[p].doomed = {}
      /\ proc'[p].at # "cat_save" /\ proc'[p].pos <= Known
  <2>1. Known \in Nat
    BY KnownGrows
  <2>2. CASE Return(p)
    BY <2>1, <2>2 DEF Return, Go, Types, HandlersOK, Idle, Handling
  <2>3. CASE At(p, "idle") /\ UNCHANGED proc
    BY <2>3 DEF At, Tight, DoomedStay, PositionsBounded
  <2>4. QED
    BY <2>2, <2>3
<1>2. PositionsBounded'
  <2>1. \A x \in Procs : proc[x].pos \in Nat
    BY DEF Types, HandlersOK, Handler
  <2>2. proc'[p].pos \in Nat
    BY <2>1, <1>1 DEF Return, Go, Types, HandlersOK, Idle, Handling
  <2>3. QED
    BY <1>1, <2>1, <2>2, KnownGrows DEF Tight, PositionsBounded
<1>3. DoomedStay'
  <2>1. ASSUME NEW x \in Procs \ {p} PROVE (proc[x].doomed \subseteq CatsIn(proc[x].h))'
    <3>1. proc[x].doomed \subseteq CatsIn(proc[x].h) /\ proc'[x] = proc[x]
      BY <1>1 DEF Tight, DoomedStay
    <3>2. \A c \in proc[x].doomed : c \in Cats /\ cat'[c] # NONE /\ cat'[c].house = proc[x].h
      BY <3>1 DEF CatsIn
    <3>3. QED
      BY <3>1, <3>2 DEF CatsIn
  <2>2. QED
    BY <1>1, <2>1 DEF Tight, DoomedStay, At
<1>4. QED
  BY <1>2, <1>3 DEF Tight, MembersOfLive

LEMMA HouseholdTight ==
    ASSUME Types, Tight, NEW p \in Procs, HouseholdStep(p)
    PROVE  Tight'
<1>P. proc[p] \in Handler /\ Filled(proc[p]) /\ Known \in Nat /\ proc[p].pos <= Known
  BY KnownIsNat DEF Types, HandlersOK, Tight, PositionsBounded
<1>1. ASSUME NEW u \in Users, NEW h \in Houses, CreateHousehold(p, u, h)
      PROVE  Tight'
  <2>1. \A m \in members' : Exists(m[1])'
    BY <1>1, NoneAssumption DEF CreateHousehold, Types, TablesOK, Tight, MembersOfLive, Exists
  <2>2. used \subseteq used' /\ At(p, "idle") /\ UNCHANGED <<cat, proc>>
    BY <1>1 DEF CreateHousehold
  <2>3. \A c \in Cats : cat'[c] # NONE => cat'[c].pos > 0 /\ cat'[c].pos <= Known'
    BY <2>2, KnownGrows DEF Tight, PositionsBounded, Types, TablesOK, Category
  <2>4. \A x \in Procs \ {p}, c \in Cats : c \in proc[x].doomed => cat[c] # NONE
    BY DEF Tight, DoomedStay, CatsIn
  <2>5. QED
    BY <2>1, <2>2, <2>3, <2>4, TablesTight
<1>2. ASSUME NEW u \in Users, NEW h \in Houses, NEW v \in Users,
             NEW next \in {"update", "delete", "add", "remove"}, CheckOwner(p, u, h, next, v)
      PROVE  Tight'
  <2>1. PICK w : Go(p, Handling(next, h, w, NONE, <<>>))
    BY <1>2 DEF CheckOwner
  <2>2. QED
    BY <1>P, <1>2, <2>1, HandlerTight DEF CheckOwner, Handling
<1>3. CASE FindHousehold(p) /\ Return(p)
  BY <1>P, <1>3, HandlerTight DEF FindHousehold, Return, Idle, Handling
<1>4. CASE FindHousehold(p) /\ ~Return(p)
  <2>1. PICK stage \in {<<"update", "save">>, <<"delete", "drop">>} :
          At(p, stage[1]) /\ Go(p, [proc[p] EXCEPT !.at = stage[2]])
    BY <1>4 DEF FindHousehold, Then
  <2> DEFINE q == [proc[p] EXCEPT !.at = stage[2]]
  <2>2. q.at = stage[2] /\ q.doomed = {} /\ q.pos = proc[p].pos
    BY <1>P, <2>1 DEF Handler, Tight, DoomedStay, At
  <2>3. Go(p, q) /\ NoChange /\ stage[2] # "commit" /\ stage[2] # "cat_save"
    BY <1>4, <2>1 DEF FindHousehold
  <2> HIDE DEF q
  <2>4. QED
    BY <1>P, <2>2, <2>3, HandlerTight
<1>5. CASE DropCategories(p)
  <2> DEFINE h == proc[p].h
             q == [proc[p] EXCEPT !.at = "commit", !.doomed = Doomed(h)]
  <2>1. /\ proc'[p].at = "commit" /\ proc'[p].doomed = CatsIn(h) /\ proc'[p].h = h
        /\ proc'[p].pos = proc[p].pos
        /\ \A x \in Procs \ {p} : proc'[x] = proc[x]
    BY <1>P, <1>5 DEF DropCategories, Go, Doomed, Types, HandlersOK, Handler
  <2>2. Known' = Known /\ \A x : CatsIn(x)' = CatsIn(x)
    BY <1>5 DEF DropCategories, NoChange, Known, KnownCats, CatsIn
  <2>3. ~Leaving(h)
    BY <1>5 DEF DropCategories
  <2>4. PositionsBounded'
    BY <1>5, <2>1, <2>2 DEF Tight, PositionsBounded, DropCategories, NoChange
  <2>5. DoomedStay'
    BY <2>1, <2>2, <2>3 DEF Tight, DoomedStay, At, Leaving
  <2>6. MembersOfLive'
    BY <1>5 DEF DropCategories, NoChange, Tight, MembersOfLive, Exists
  <2>7. QED
    BY <2>4, <2>5, <2>6 DEF Tight
<1>6. ASSUME SaveHousehold(p) \/ AddMember(p) \/ RemoveMember(p)
      PROVE  Tight'
  <2>1. Return(p) /\ UNCHANGED <<cat, used>>
    BY <1>6 DEF SaveHousehold, AddMember, RemoveMember
  <2>2. proc[p].u \in Users /\ proc[p].h \in Houses
    BY <1>P, <1>6 DEF SaveHousehold, AddMember, RemoveMember, At, Filled, OwnerStages
  <2>3. \A m \in members' : Exists(m[1])'
    BY <1>6, <2>2, NoneAssumption
    DEF SaveHousehold, AddMember, RemoveMember, Exists, Tight, MembersOfLive, Types, TablesOK
  <2>4. \A c \in Cats : cat'[c] # NONE => cat'[c].pos > 0 /\ cat'[c].pos <= Known'
    BY <2>1 DEF Tight, PositionsBounded, Known, KnownCats
  <2>5. \A x \in Procs \ {p}, c \in Cats : c \in proc[x].doomed => cat[c] # NONE
    BY DEF Tight, DoomedStay, CatsIn
  <2>6. QED
    BY <2>1, <2>3, <2>4, <2>5, TablesTight
<1>7. CASE DropHousehold(p)
  <2>1. /\ Return(p) /\ UNCHANGED used /\ At(p, "commit")
        /\ cat' = [c \in Cats |-> IF c \in proc[p].doomed THEN NONE ELSE cat[c]]
        /\ owner' = [owner EXCEPT ![proc[p].h] = NONE]
        /\ members' = {m \in members : m[1] # proc[p].h}
    BY <1>7 DEF DropHousehold
  <2>2. \A m \in members' : Exists(m[1])'
    BY <2>1 DEF Exists, Tight, MembersOfLive, Types, TablesOK
  <2>3. \A c \in Cats : cat'[c] # NONE => cat'[c].pos > 0 /\ cat'[c].pos <= Known'
    BY <2>1 DEF Tight, PositionsBounded, Known, KnownCats
  <2>4. ASSUME NEW x \in Procs \ {p}, NEW c \in Cats, c \in proc[x].doomed
        PROVE  cat'[c] # NONE /\ cat'[c].house = cat[c].house
    <3>1. At(x, "commit") /\ cat[c] # NONE /\ cat[c].house = proc[x].h
      BY <2>4 DEF Tight, DoomedStay, CatsIn, At
    <3>2. c \notin proc[p].doomed
      BY <2>1, <3>1 DEF Tight, DoomedStay, CatsIn
    <3>3. QED
      BY <2>1, <3>1, <3>2
  <2>5. QED
    BY <2>1, <2>2, <2>3, <2>4, TablesTight
<1>8. QED
  BY <1>1, <1>2, <1>3, <1>4, <1>5, <1>6, <1>7 DEF HouseholdStep

(* What a Delete has locked is a category, of its own household.           *)
LEMMA LockedIsThere ==
    ASSUME Tight, NEW x \in Procs, NEW c \in proc[x].doomed
    PROVE  At(x, "commit") /\ Locked(c) /\ c \in Cats /\ cat[c] # NONE
  BY DEF Tight, DoomedStay, At, Locked, CatsIn

LEMMA StoredTight ==
    ASSUME Types, Tight, NEW p \in Procs, NEW c \in Cats, NEW n \in Nat,
           Return(p), Stored(p, c, n), ~Locked(c), n > 0, n <= Known',
           used \subseteq used', UNCHANGED <<owner, members>>
    PROVE  Tight'
<1>1. cat' = [cat EXCEPT ![c] = [house |-> proc[p].h, pos |-> n]] /\ cat'[c].pos = n
  BY DEF Stored, Types, TablesOK
<1>2. \A d \in Cats : cat'[d] # NONE => cat'[d].pos > 0 /\ cat'[d].pos <= Known'
  <2>1. \A d \in Cats \ {c} : cat'[d] = cat[d] /\ (cat[d] # NONE => cat[d].pos \in Nat)
    BY <1>1 DEF Types, TablesOK, Category
  <2>2. QED
    BY <1>1, <2>1, KnownGrows DEF Tight, PositionsBounded
<1>3. \A x \in Procs \ {p}, d \in Cats :
        d \in proc[x].doomed => cat'[d] # NONE /\ cat'[d].house = cat[d].house
  BY <1>1, LockedIsThere DEF Types, TablesOK
<1>4. \A m \in members' : Exists(m[1])'
  BY DEF Tight, MembersOfLive, Exists
<1>5. QED
  BY <1>2, <1>3, <1>4, TablesTight

LEMMA ReorderTight ==
    ASSUME Types, Tight, NEW p \in Procs, Reorder(p)
    PROVE  Tight'
<1> DEFINE ids == proc[p].ids
           here == CatsIn(proc[p].h)
           moved == {ids[n] : n \in DOMAIN ids}
           place(c) == CHOOSE n \in DOMAIN ids : ids[n] = c
<1>1. /\ ids \in Seq(Cats) /\ proc[p].pos = Len(ids) /\ Len(ids) <= Known
      /\ cat \in [Cats -> {NONE} \cup Category]
  BY DEF Reorder, At, Types, TablesOK, HandlersOK, Handler, Filled, Tight, PositionsBounded
<1>2. Return(p) /\ UNCHANGED <<owner, members, used>> /\ Known' = Known
  BY DEF Reorder, Known, KnownCats
<1>3. ASSUME NEW c \in Cats
      PROVE  \/ cat'[c] = cat[c]
             \/ /\ cat[c] # NONE /\ cat'[c] # NONE /\ cat'[c].house = cat[c].house
                /\ cat'[c].pos \in 1 .. Len(ids)
  <2>1. CASE moved \subseteq here /\ c \in moved
    <3>1. cat' = [d \in Cats |-> IF d \in moved THEN [cat[d] EXCEPT !.pos = place(d)] ELSE cat[d]]
      BY <2>1, Zenon DEF Reorder
    <3>2. place(c) \in DOMAIN ids /\ DOMAIN ids = 1 .. Len(ids)
      BY <1>1, <2>1
    <3>3. cat[c] # NONE /\ cat[c] \in Category
      BY <1>1, <2>1 DEF CatsIn
    <3> HIDE DEF place, moved, here, ids
    <3>4. cat'[c] = [cat[c] EXCEPT !.pos = place(c)]
      BY <2>1, <3>1
    <3>5. cat'[c] \in Category /\ cat'[c].house = cat[c].house /\ cat'[c].pos = place(c)
      <4>1. place(c) \in Nat
        BY <1>1, <3>2 DEF ids
      <4>2. QED
        BY <3>3, <3>4, <4>1 DEF Category
    <3>6. cat'[c] # NONE
      BY <3>5, NoneAssumption DEF Category
    <3>7. QED
      BY <3>2, <3>3, <3>5, <3>6
  <2>2. CASE ~(moved \subseteq here /\ c \in moved)
    <3>1. cat'[c] = cat[c]
      BY <2>2, Zenon DEF Reorder
    <3>2. QED
      BY <3>1
  <2>3. QED
    BY <2>1, <2>2
<1>4. \A c \in Cats : cat'[c] # NONE => cat'[c].pos > 0 /\ cat'[c].pos <= Known'
  <2> SUFFICES ASSUME NEW c \in Cats, cat'[c] # NONE
               PROVE  cat'[c].pos > 0 /\ cat'[c].pos <= Known'
    OBVIOUS
  <2>1. Len(ids) \in Nat
    BY <1>1
  <2> HIDE DEF ids
  <2>2. CASE cat'[c].pos \in 1 .. Len(ids)
    BY <1>1, <1>2, <2>1, <2>2, KnownIsNat DEF ids
  <2>3. CASE cat'[c] = cat[c]
    BY <1>2, <2>3 DEF Tight, PositionsBounded
  <2>4. QED
    BY <1>3, <2>2, <2>3
<1>5. \A x \in Procs \ {p}, c \in Cats :
        c \in proc[x].doomed => cat'[c] # NONE /\ cat'[c].house = cat[c].house
  BY <1>3, LockedIsThere
<1>6. \A m \in members' : Exists(m[1])'
  BY <1>2 DEF Tight, MembersOfLive, Exists
<1>7. QED
  BY <1>2, <1>4, <1>5, <1>6, TablesTight

LEMMA CategoryTight ==
    ASSUME Types, Places, Tight, NEW p \in Procs, CategoryStep(p)
    PROVE  Tight'
<1>P. /\ proc[p] \in Handler /\ Filled(proc[p]) /\ Known \in Nat /\ proc[p].pos <= Known
      /\ proc[p].pos \in Nat
  BY KnownIsNat DEF Types, HandlersOK, Tight, PositionsBounded, Handler
<1>1. ASSUME NEW u \in Users, NEW h \in Houses,
             NEW next \in {"cat_create", "cat_update", "cat_delete", "cat_reorder"},
             NEW c, NEW ids, RequireMembership(p, u, h, next, c, ids)
      PROVE  Tight'
  BY <1>P, <1>1, HandlerTight DEF RequireMembership, Handling
<1>2. ASSUME Return(p), NoChange PROVE Tight'
  BY <1>P, <1>2, HandlerTight DEF Return, Idle, Handling
<1>3. ASSUME NEW at \in Stages, NEW n \in Nat, n <= Known, at # "commit", proc[p].at # "commit",
             at = "cat_save" => n > 0,
             Go(p, [proc[p] EXCEPT !.at = at, !.pos = n]), NoChange
      PROVE  Tight'
  <2> DEFINE q == [proc[p] EXCEPT !.at = at, !.pos = n]
  <2>1. q.at = at /\ q.pos = n /\ q.doomed = {}
    BY <1>P, <1>3 DEF Handler, Tight, DoomedStay
  <2> HIDE DEF q
  <2>2. QED
    BY <1>3, <2>1, HandlerTight DEF q
<1>4. CASE ReadMax(p)
  <2>1. PICK n \in Position : /\ Largest(n, proc[p].h) \/ n = 0
                             /\ Go(p, [proc[p] EXCEPT !.at = "cat_insert", !.pos = n])
    BY <1>4 DEF ReadMax
  <2>2. n \in Nat
    BY FiniteAssumption, FS_CardinalityType DEF Position
  <2>3. n <= Known
    BY <1>P, <2>1 DEF Largest, CatsIn, Tight, PositionsBounded
  <2>4. NoChange /\ proc[p].at # "commit" /\ "cat_insert" \in Stages
    BY <1>4 DEF ReadMax, At, Stages
  <2>5. QED
    BY <1>3, <2>1, <2>2, <2>3, <2>4
<1>5. CASE FindCategory(p) /\ ~Return(p)
  <2>1. PICK stage \in {<<"cat_update", "cat_save">>, <<"cat_delete", "cat_drop">>} :
            /\ proc[p].at = stage[1] /\ proc[p].c \in CatsIn(proc[p].h)
            /\ Go(p, [proc[p] EXCEPT !.at = stage[2], !.pos = cat[proc[p].c].pos])
    BY <1>5 DEF FindCategory, At
  <2>2. /\ cat[proc[p].c].pos \in Nat /\ cat[proc[p].c].pos <= Known
        /\ cat[proc[p].c].pos > 0
    BY <2>1 DEF CatsIn, Types, TablesOK, Category, Tight, PositionsBounded
  <2>3. /\ stage[2] \in Stages /\ stage[2] # "commit" /\ stage[1] # "commit"
    BY <2>1 DEF Stages
  <2>4. NoChange
    BY <1>5 DEF FindCategory
  <2>5. QED
    BY <1>3, <2>1, <2>2, <2>3, <2>4
<1>6. CASE CountCategories(p) /\ ~Return(p)
  <2> DEFINE k == Cardinality(CatsIn(proc[p].h))
  <2>1. /\ proc[p].at = "cat_reorder" /\ NoChange
        /\ Go(p, [proc[p] EXCEPT !.at = "cat_order", !.pos = k])
    BY <1>6 DEF CountCategories, At
  <2>2. CatsIn(proc[p].h) \in SUBSET KnownCats
    BY DEF CatsIn, KnownCats, Places, CategoryKnown
  <2>3. k \in Nat /\ k <= Known
    BY <2>1, <2>2, KnownGrows DEF NoChange
  <2>4. QED
    BY <1>3, <2>1, <2>3 DEF Stages
<1>7. ASSUME NEW c \in Cats, InsertCategory(p, c) PROVE Tight'
  <2>1. /\ c \notin used /\ used' = used \cup {c} /\ Return(p) /\ UNCHANGED <<owner, members>>
        /\ Stored(p, c, proc[p].pos + 1)
    BY <1>7 DEF InsertCategory, NextPos
  <2>2. Known' = Known + 1
    <3>1. KnownCats' = KnownCats \cup {c} /\ c \notin KnownCats
      BY <2>1 DEF KnownCats
    <3>2. IsFiniteSet(KnownCats)
      BY FiniteAssumption, FS_Subset DEF KnownCats
    <3>3. QED
      BY <3>1, <3>2, FS_AddElement DEF Known
  <2>3. ~Locked(c)
    BY <2>1 DEF Locked, Tight, DoomedStay, CatsIn, Places, CategoryKnown
  <2>4. proc[p].pos + 1 \in Nat /\ proc[p].pos + 1 > 0 /\ proc[p].pos + 1 <= Known'
    BY <1>P, <2>2
  <2>5. QED
    BY <2>1, <2>3, <2>4, StoredTight
<1>8. CASE SaveCategory(p)
  <2>1. /\ proc[p].c \in Cats /\ proc[p].pos > 0
    BY <1>P, <1>8 DEF SaveCategory, At, Filled, CategoryStages, Tight, PositionsBounded
  <2>2. /\ ~Locked(proc[p].c) /\ Stored(p, proc[p].c, proc[p].pos) /\ Return(p)
        /\ UNCHANGED <<owner, members, used>>
    BY <1>8 DEF SaveCategory
  <2>3. Known' = Known
    BY <2>2 DEF Known, KnownCats
  <2>4. PICK c \in Cats, n \in Nat : c = proc[p].c /\ n = proc[p].pos
    BY <1>P, <2>1
  <2>5. QED
    BY <1>P, <2>1, <2>2, <2>3, <2>4, StoredTight
<1>9. CASE DropCategory(p)
  <2>1. /\ ~Locked(proc[p].c) /\ cat' = [cat EXCEPT ![proc[p].c] = NONE] /\ Return(p)
        /\ UNCHANGED <<owner, members, used>>
    BY <1>9 DEF DropCategory
  <2>2. Known' = Known
    BY <2>1 DEF Known, KnownCats
  <2>3. \A d \in Cats : cat'[d] # NONE => cat'[d] = cat[d]
    BY <2>1 DEF Types, TablesOK
  <2>4. \A d \in Cats : cat'[d] # NONE => cat'[d].pos > 0 /\ cat'[d].pos <= Known'
    BY <2>2, <2>3 DEF Tight, PositionsBounded
  <2>5. \A x \in Procs \ {p}, d \in Cats :
            d \in proc[x].doomed => cat'[d] # NONE /\ cat'[d].house = cat[d].house
    BY <2>1, LockedIsThere DEF Types, TablesOK
  <2>6. \A m \in members' : Exists(m[1])'
    BY <2>1 DEF Tight, MembersOfLive, Exists
  <2>7. QED
    BY <2>1, <2>4, <2>5, <2>6, TablesTight
<1>10. ASSUME NEW u \in Users, NEW h \in Houses,
             \/ RequireMembership(p, u, h, "cat_create", NONE, <<>>)
             \/ \E c \in KnownCats, next \in {"cat_update", "cat_delete"} :
                 RequireMembership(p, u, h, next, c, <<>>)
             \/ \E ids \in Orders(h) : RequireMembership(p, u, h, "cat_reorder", NONE, ids)
      PROVE  Tight'
  BY <1>1, <1>10
<1>11. QED
  BY <1>2, <1>4, <1>5, <1>6, <1>7, <1>8, <1>9, <1>10, ReorderTight
  DEF CategoryStep, FindCategory, CountCategories

LEMMA StepTight == Types /\ Places /\ Tight /\ [Next]_vars => Tight'
<1> SUFFICES ASSUME Types, Places, Tight, [Next]_vars PROVE Tight'
  OBVIOUS
<1>1. CASE UNCHANGED vars
  BY <1>1 DEF vars, Tight, PositionsBounded, DoomedStay, MembersOfLive, Known, KnownCats, CatsIn, At, Exists
<1>2. ASSUME NEW p \in Procs, Refused(p) PROVE Tight'
  BY <1>2, KnownIsNat, HandlerTight DEF Refused, Return, Idle, Handling
<1>3. QED
  BY <1>1, <1>2, HouseholdTight, CategoryTight DEF Next

(* Types, for any households, users, categories and handlers: among them,  *)
(* that positions start at one and never exceed the number of category     *)
(* ids, whatever maxima and counts they were taken from, that a membership *)
(* never outlives its household, and that a Delete commits what it locked: *)
(* about the category service's Create and Reorder, AddMember's foreign    *)
(* key and Delete's transaction.                                           *)
THEOREM TenancyTypes == Spec => []TypeOK
<1>1. Init => Tight
  <2> SUFFICES ASSUME Init PROVE Tight
    OBVIOUS
  <2>1. \A p \in Procs : proc[p].at = "idle" /\ proc[p].pos = 0 /\ proc[p].doomed = {}
    BY DEF Init, Idle, Handling
  <2>2. PositionsBounded
    BY <2>1, KnownIsNat DEF Init, PositionsBounded
  <2>3. DoomedStay /\ MembersOfLive
    BY <2>1 DEF Init, DoomedStay, MembersOfLive, At
  <2>4. QED
    BY <2>2, <2>3 DEF Tight
<1>2. Types /\ Owners /\ Places /\ Tight => TypeOK
  <2> SUFFICES ASSUME Types, Owners, Places, Tight PROVE TypeOK
    OBVIOUS
  <2>0. Known \in Nat /\ Known <= Cardinality(Cats) /\ Cardinality(Cats) \in Nat
    BY FiniteAssumption, FS_Subset, FS_CardinalityType DEF Known, KnownCats
  <2>1. \A n \in Nat : n <= Known => n \in Position
    BY <2>0 DEF Position
  <2>2. cat \in [Cats -> {NONE} \cup [house : Houses, pos : Position]]
    <3>1. \A c \in Cats : cat[c] # NONE => cat[c] \in [house : Houses, pos : Position]
      BY <2>1 DEF Types, TablesOK, Category, Tight, PositionsBounded
    <3>2. QED
      BY <3>1 DEF Types, TablesOK
  <2>3. ASSUME NEW p \in Procs
        PROVE  /\ proc[p].at \in Stages /\ proc[p].pos \in Position
               /\ proc[p].h \in Houses \cup {NONE} /\ proc[p].u \in Users \cup {NONE}
               /\ proc[p].c \in Cats \cup {NONE} /\ proc[p].ids \in Seq(Cats)
               /\ proc[p].doomed \subseteq CatsIn(proc[p].h)
    <3>1. proc[p] \in Handler
      BY DEF Types, HandlersOK
    <3>2. proc[p].pos \in Position
      BY <2>1, <3>1 DEF Handler, Tight, PositionsBounded
    <3>3. QED
      BY <3>1, <3>2 DEF Handler, Tight, DoomedStay
  <2>4. \A h \in Houses : Exists(h) => h \in used
    BY DEF Owners, Held, HouseKnown
  <2>5. \A c \in Cats : cat[c] # NONE => c \in used /\ cat[c].pos > 0
    BY DEF Places, CategoryKnown, Tight, PositionsBounded
  <2>6. QED
    BY <2>2, <2>3, <2>4, <2>5 DEF TypeOK, Types, TablesOK, Tight, MembersOfLive
<1>3. QED
  BY <1>1, <1>2, InitTypes, InitOwners, InitPlaces, StepTypes, StepOwners, StepPlaces, StepTight,
     PTL DEF Spec
=============================================================================
