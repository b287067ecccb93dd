------------------------------- MODULE Tenancy -------------------------------
(***************************************************************************)
(* Households, their members and their categories: internal/household,     *)
(* internal/category and the checks of internal/middleware/authorization,  *)
(* as concurrent handlers see them.  Every SQL statement is one step, a    *)
(* transaction one step where its row locks make it one; Delete's takes    *)
(* two, for nothing locks out a category inserted before it commits.  What *)
(* a handler checked or read may be gone when it acts: gorm's Save inserts *)
(* the copy of a missing row again.                                        *)
(*                                                                         *)
(* Abstractions.  Names are left out; the unique index on them, like any   *)
(* other error of a statement, is Refused.  The role of a member is        *)
(* stored but read by nobody.  Cache (the module) has the evictions.       *)
(***************************************************************************)
EXTENDS Naturals, Sequences, FiniteSets

CONSTANTS
    Houses, Cats,  \* ids the tables may ever give out (bounds for TLC)
    Users,
    Procs,         \* the handlers that may be running at once
    NONE

ASSUME NoneAssumption == NONE \notin Houses \cup Cats \cup Users \cup [house : Houses, pos : Nat]
ASSUME FiniteAssumption == IsFiniteSet(Cats)

Position == 0..Cardinality(Cats)  \* sort_order: at most one more per id given out

VARIABLES
    owner,    \* households: id -> owner_id, or NONE if there is no such row
    members,  \* household_members: <<household, user>>
    cat,      \* categories: id -> [house, pos], or NONE
    used,     \* the ids given out so far
    proc,     \* handler -> what it does next and holds
    raised,   \* history: households inserted again by a Save after deletion
    late,     \* history: categories written when their household was gone
              \* or going
    raced     \* history: categories whose position came from an outdated or
              \* failed read of the largest position, the row or the count

vars == <<owner, members, cat, used, proc, raised, late, raced>>
ghosts == <<raised, late, raced>>

(* A handler of household h about to run stage "at": the user u it is      *)
(* about, the category c, the position it read, the ids to put in order,   *)
(* the categories it has deleted but not yet committed.                    *)
Handling(at, h, u, c, ids) ==
    [at |-> at, h |-> h, u |-> u, c |-> c, pos |-> 0, ids |-> ids, doomed |-> {}]
Idle == Handling("idle", NONE, NONE, NONE, <<>>)

Exists(h) == owner[h] # NONE
CatsIn(h) == {c \in Cats : cat[c] # NONE /\ cat[c].house = h}
KnownCats == used \cap Cats

Init ==
    /\ owner = [h \in Houses |-> NONE] /\ members = {}
    /\ cat = [c \in Cats |-> NONE] /\ used = {}
    /\ proc = [p \in Procs |-> Idle]
    /\ raised = {} /\ late = {} /\ raced = {}

At(p, stage) == proc[p].at = stage
(* A Delete of h is about to commit; the rows of c are locked by one.      *)
Leaving(h) == \E q \in Procs : At(q, "commit") /\ proc[q].h = h
Locked(c) == \E q \in Procs : At(q, "commit") /\ c \in proc[q].doomed
Go(p, q) == proc' = [proc EXCEPT ![p] = q]
Then(p, stage) == Go(p, [proc[p] EXCEPT !.at = stage])
Return(p) == Go(p, Idle)
NoChange == UNCHANGED <<owner, members, cat, used, ghosts>>

-----------------------------------------------------------------------------
(* Households.                                                            *)

(* Create: the household and the membership of its owner, in one           *)
(* transaction.                                                            *)
CreateHousehold(p, u, h) ==
    /\ At(p, "idle") /\ h \notin used
    /\ owner' = [owner EXCEPT ![h] = u]
    /\ members' = members \cup {<<h, u>>}
    /\ used' = used \cup {h}
    /\ UNCHANGED <<cat, proc, ghosts>>

(* Mutant: owners may remove themselves. *)
RemovableAnyone(u, target) == TRUE
(* RemoveMember's guard.                                                  *)
Removable(u, target) == target # u

(* checkOwner, the first statement of Update, Delete, AddMember and        *)
(* RemoveMember; u asks, about member target in the last two.              *)
CheckOwner(p, u, h, next, target) ==
    /\ At(p, "idle") /\ Exists(h) /\ owner[h] = u
    /\ (next = "remove") => Removable(u, target)
    /\ Go(p, Handling(next, h, IF next \in {"add", "remove"} THEN target ELSE u, NONE, <<>>))
    /\ NoChange

(* Update and Delete then read the row, which must still be there.         *)
FindHousehold(p) ==
    \E stage \in {<<"update", "save">>, <<"delete", "drop">>} :
        /\ At(p, stage[1])
        /\ IF Exists(proc[p].h) THEN Then(p, stage[2]) ELSE Return(p)
        /\ NoChange

(* Update's Save. The row written has the owner the handler read.          *)
SaveHousehold(p) ==
    LET h == proc[p].h IN
    /\ At(p, "save")
    /\ owner' = [owner EXCEPT ![h] = proc[p].u]
    /\ raised' = IF Exists(h) THEN raised ELSE raised \cup {h}
    /\ Return(p)
    /\ UNCHANGED <<members, cat, used, late, raced>>

(* Mutant: the transaction leaves the categories, which have no foreign    *)
(* key to the household.                                                   *)
DoomedNone(h) == {}
(* Delete's transaction: the categories it finds, whose rows it locks, so  *)
(* that another Delete of the household waits too.                         *)
Doomed(h) == CatsIn(h)

DropCategories(p) ==
    LET h == proc[p].h IN
    /\ At(p, "drop")
    /\ ~Leaving(h)
    /\ Go(p, [proc[p] EXCEPT !.at = "commit", !.doomed = Doomed(h)])
    /\ NoChange

(* The commit.  Members that came meanwhile go too (external: cascade).    *)
DropHousehold(p) ==
    LET h == proc[p].h
        gone == proc[p].doomed IN
    /\ At(p, "commit")
    /\ owner' = [owner EXCEPT ![h] = NONE]
    /\ members' = {m \in members : m[1] # h}
    /\ cat' = [c \in Cats |-> IF c \in gone THEN NONE ELSE cat[c]]
    /\ late' = late \ gone /\ raced' = raced \ gone
    /\ Return(p)
    /\ UNCHANGED <<used, raised>>

(* AddMember's INSERT fails without the household or on a second row for   *)
(* the user (external: foreign key, unique index).                         *)
AddMember(p) ==
    LET m == <<proc[p].h, proc[p].u>> IN
    /\ At(p, "add")
    /\ members' = IF Exists(m[1]) THEN members \cup {m} ELSE members
    /\ Return(p)
    /\ UNCHANGED <<owner, cat, used, ghosts>>

RemoveMember(p) ==
    /\ At(p, "remove")
    /\ members' = members \ {<<proc[p].h, proc[p].u>>}
    /\ Return(p)
    /\ UNCHANGED <<owner, cat, used, ghosts>>

-----------------------------------------------------------------------------
(* Categories.                                                            *)

(* RequireMembership, in front of every category request: the handler goes *)
(* on whatever happens to the membership afterwards.                       *)
RequireMembership(p, u, h, next, c, ids) ==
    /\ At(p, "idle") /\ <<h, u>> \in members
    /\ c # NONE <=> next \in {"cat_update", "cat_delete"}
    /\ ids # <<>> <=> next = "cat_reorder"
    /\ Go(p, Handling(next, h, NONE, c, ids))
    /\ NoChange

(* COALESCE(MAX(sort_order), 0) of a household.                            *)
Largest(n, h) ==
    /\ \A c \in CatsIn(h) : cat[c].pos <= n
    /\ n = 0 \/ \E c \in CatsIn(h) : cat[c].pos = n

(* Create reads the largest position, and inserts after it. An error of    *)
(* the read is not looked at and leaves 0.                                 *)
ReadMax(p) ==
    /\ At(p, "cat_create")
    /\ \E n \in Position : /\ Largest(n, proc[p].h) \/ n = 0
                           /\ Go(p, [proc[p] EXCEPT !.at = "cat_insert", !.pos = n])
    /\ NoChange

Stored(p, c, pos) ==
    /\ cat' = [cat EXCEPT ![c] = [house |-> proc[p].h, pos |-> pos]]
    /\ late' = IF Exists(proc[p].h) /\ ~Leaving(proc[p].h) THEN late ELSE late \cup {c}

(* Mutant: the new category takes the last one's place. *)
NextPosSame(n) == n
NextPos(n) == n + 1

InsertCategory(p, c) ==
    /\ At(p, "cat_insert") /\ c \notin used
    /\ Stored(p, c, NextPos(proc[p].pos))
    /\ used' = used \cup {c}
    /\ raced' = IF Largest(proc[p].pos, proc[p].h) THEN raced ELSE raced \cup {c}
    /\ Return(p)
    /\ UNCHANGED <<owner, members, raised>>

(* Update and Delete read the category, scoped to the household.           *)
FindCategory(p) ==
    LET c == proc[p].c IN
    \E stage \in {<<"cat_update", "cat_save">>, <<"cat_delete", "cat_drop">>} :
        /\ At(p, stage[1])
        /\ IF c \in CatsIn(proc[p].h)
           THEN Go(p, [proc[p] EXCEPT !.at = stage[2], !.pos = cat[c].pos]) ELSE Return(p)
        /\ NoChange

(* Save writes the position read back with the new name.                   *)
SaveCategory(p) ==
    LET c == proc[p].c IN
    /\ At(p, "cat_save") /\ ~Locked(c)
    /\ Stored(p, c, proc[p].pos)
    /\ raced' = IF cat[c] # NONE /\ cat[c].pos = proc[p].pos THEN raced ELSE raced \cup {c}
    /\ Return(p)
    /\ UNCHANGED <<owner, members, used, raised>>

DropCategory(p) ==
    LET c == proc[p].c IN
    /\ At(p, "cat_drop") /\ ~Locked(c)
    /\ cat' = [cat EXCEPT ![c] = NONE]
    /\ late' = late \ {c} /\ raced' = raced \ {c}
    /\ Return(p)
    /\ UNCHANGED <<owner, members, used, raised>>

(* Mutant: any distinct ids will do. *)
CompleteAlways(ids, h) == TRUE
(* Reorder's check, outside its transaction; duplicates were refused.      *)
Complete(ids, h) == Len(ids) = Cardinality(CatsIn(h))

CountCategories(p) ==
    /\ At(p, "cat_reorder")
    /\ IF Complete(proc[p].ids, proc[p].h)
       THEN Go(p, [proc[p] EXCEPT !.at = "cat_order", !.pos = Cardinality(CatsIn(proc[p].h))])
       ELSE Return(p)
    /\ NoChange

(* Reorder's transaction.  Its row updates hold their locks to the end and *)
(* all other writers touch one row at a time, so it is one step; two       *)
(* reorders that wait for each other end in Refused for one.  An id that   *)
(* is not there rolls everything back.                                     *)
Reorder(p) ==
    LET ids == proc[p].ids
        here == CatsIn(proc[p].h)
        moved == {ids[n] : n \in DOMAIN ids} IN
    /\ At(p, "cat_order") /\ \A c \in moved : ~Locked(c)
    /\ IF moved \subseteq here
       THEN /\ cat' = [c \in Cats |->
                         IF c \in moved
                         THEN [cat[c] EXCEPT !.pos = CHOOSE n \in DOMAIN ids : ids[n] = c]
                         ELSE cat[c]]
            /\ raced' = CASE moved = here -> raced \ moved
                          [] moved # here /\ proc[p].pos # Cardinality(here) -> raced \cup moved
                          [] OTHER -> raced
       ELSE UNCHANGED <<cat, raced>>
    /\ Return(p)
    /\ UNCHANGED <<owner, members, used, raised, late>>

-----------------------------------------------------------------------------
(* A statement fails, is the victim of a deadlock or meets the unique      *)
(* index on names, or the process stops: the rest does not happen.         *)
Refused(p) == ~At(p, "idle") /\ Return(p) /\ NoChange

(* What a client can put in order: distinct ids it has seen.               *)
Orders(h) ==
    {ids \in UNION {[1..n -> KnownCats] : n \in 1..Cardinality(KnownCats)} :
        \A a, b \in DOMAIN ids : ids[a] = ids[b] => a = b}

HouseholdStep(p) ==
    \/ \E u \in Users, h \in Houses :
        \/ CreateHousehold(p, u, h)
        \/ \E next \in {"update", "delete"} : CheckOwner(p, u, h, next, u)
        \/ \E next \in {"add", "remove"}, v \in Users : CheckOwner(p, u, h, next, v)
    \/ FindHousehold(p) \/ SaveHousehold(p)
    \/ DropCategories(p) \/ DropHousehold(p)
    \/ AddMember(p) \/ RemoveMember(p)

CategoryStep(p) ==
    \/ \E u \in Users, h \in Houses :
        \/ RequireMembership(p, u, h, "cat_create", NONE, <<>>)
        \/ \E c \in KnownCats, next \in {"cat_update", "cat_delete"} :
            RequireMembership(p, u, h, next, c, <<>>)
        \/ \E ids \in Orders(h) : RequireMembership(p, u, h, "cat_reorder", NONE, ids)
    \/ ReadMax(p) \/ (\E c \in Cats : InsertCategory(p, c))
    \/ FindCategory(p) \/ SaveCategory(p) \/ DropCategory(p)
    \/ CountCategories(p) \/ Reorder(p)

Next == \E p \in Procs : HouseholdStep(p) \/ CategoryStep(p) \/ Refused(p)

Spec == Init /\ [][Next]_vars

-----------------------------------------------------------------------------
Stages == {"idle", "update", "save", "delete", "drop", "commit", "add", "remove",
           "cat_create", "cat_insert", "cat_update", "cat_save",
           "cat_delete", "cat_drop", "cat_reorder", "cat_order"}

TypeOK ==
    /\ owner \in [Houses -> Users \cup {NONE}]
    /\ members \in SUBSET (Houses \X Users) /\ \A m \in members : Exists(m[1])
    /\ cat \in [Cats -> {NONE} \cup [house : Houses, pos : Position]]
    /\ used \subseteq Houses \cup Cats
    /\ \A h \in Houses : Exists(h) => h \in used
    /\ \A c \in Cats : cat[c] # NONE => c \in used /\ cat[c].pos > 0
    /\ \A p \in Procs :
        /\ proc[p].at \in Stages /\ proc[p].pos \in Position
        /\ proc[p].h \in Houses \cup {NONE} /\ proc[p].u \in Users \cup {NONE}
        /\ proc[p].c \in Cats \cup {NONE} /\ proc[p].ids \in Seq(Cats)
        /\ proc[p].doomed \subseteq CatsIn(proc[p].h)
    /\ raised \subseteq Houses /\ late \subseteq Cats /\ raced \subseteq Cats

(* The owner of a household is one of its members, so that the membership  *)
(* check never shuts owners out of what is theirs; except in a household   *)
(* that Update's Save brought back from deletion, whose members are gone.  *)
(* About Create's transaction and RemoveMember's guard, household/service  *)
(* 50-95 and 291-325.                                                      *)
OwnerIsMember ==
    \A h \in Houses : Exists(h) /\ h \notin raised => <<h, owner[h]>> \in members

(* A category of a household that is gone, which no request can reach any  *)
(* more, was written by a handler that passed the membership check before  *)
(* the deletion, and wrote after Delete's transaction had looked for       *)
(* categories.  About that transaction, which is all there is to remove    *)
(* them: they have no foreign key.                                         *)
OrphansOnlyByRace ==
    \A c \in Cats : cat[c] # NONE /\ ~Exists(cat[c].house) => c \in late

(* Two categories of a household share a position only if one of them got  *)
(* it from a read that failed or was out of date when it was written (two  *)
(* creations from one maximum, a Save of a row that was moved or deleted,  *)
(* a reorder of fewer categories than there are by then), and only until   *)
(* the next complete reorder.  About Create, Update and Reorder of the     *)
(* category service, whose count is outside the transaction.               *)
PositionsDistinctUnlessRaced ==
    \A c, d \in Cats :
        /\ c # d /\ cat[c] # NONE /\ cat[d] # NONE
        /\ cat[c].house = cat[d].house /\ cat[c].pos = cat[d].pos
        => c \in raced \/ d \in raced
=============================================================================
