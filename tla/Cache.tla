-------------------------------- MODULE Cache --------------------------------
(***************************************************************************)
(* internal/cache and its use by the services: PostgreSQL rows, the copies *)
(* of query results in Redis, readers that fill the copies and writers     *)
(* that evict them.  Every read is "Get, else query and Set"; every write  *)
(* is a statement or transaction followed by a sequence of DELs, whose     *)
(* errors are only logged.                                                 *)
(*                                                                         *)
(* Abstractions.  A row is its identity.  A copy is fresh if it is what    *)
(* its query returns now, stale if a write it depends on came after it,    *)
(* and excused if besides that nobody is left who would evict it: its fill *)
(* came after the eviction, its eviction failed or its writer stopped, or  *)
(* the write was the database's own (a category set to NULL).  A write of  *)
(* any household row is taken to change every user's listing, as the code  *)
(* evicts them all.                                                        *)
(***************************************************************************)
EXTENDS Naturals, Sequences, FiniteSets

CONSTANTS
    Houses, Lists, Items, Cats, \* ids the tables may ever give out
    Users,
    HouseOf,      \* list or category -> its household
    ListOf,       \* item -> its list
    Readers, Writers, \* requests that may run at once
    MayFail,      \* TRUE: Redis or a statement may fail, the process stop
    MaxCached,    \* keys cached or being filled at once (a bound)
    NONE

Rows == Houses \cup Lists \cup Items \cup Cats
ListsOf(h) == {l \in Lists : HouseOf[l] = h}
CatsOf(h) == {c \in Cats : HouseOf[c] = h}

ASSUME RowsAssumption ==
    /\ HouseOf \in [Lists \cup Cats -> Houses] /\ ListOf \in [Items -> Lists]
    /\ NONE \notin Rows \cup {"fresh", "stale", "excused"}
    /\ Houses \cap Lists = {} /\ Houses \cap Items = {} /\ Houses \cap Cats = {}
    /\ Lists \cap Items = {} /\ Lists \cap Cats = {} /\ Items \cap Cats = {}
ASSUME BoundsAssumption == MayFail \in BOOLEAN /\ MaxCached \in Nat

(* household:<h>, household:<h>:lists, categories:household:<h>,          *)
(* households:user:<u>, shoppinglist:<l>, list:<l>:items,                 *)
(* shoppingitem:<i> and category:<h>:<c>.                                 *)
Keys == ({"household", "lists", "categories"} \X Houses) \cup ({"mine"} \X Users)
        \cup ({"list", "items"} \X Lists) \cup ({"item"} \X Items)
        \cup ({"category"} \X Cats)

(* One eviction: of keys known when it is scheduled, or those of list     *)
(* "of", whose household is looked up when its turn comes.                *)
Eviction == [keys : SUBSET Keys, of : {NONE}] \cup [keys : {{}}, of : Lists]
Idle == [at |-> "idle", row |-> NONE, todo |-> <<>>]

VARIABLES
    rows,     \* the rows that exist
    used,     \* the ids given out so far
    raised,   \* history: lists inserted again by a Save after their deletion
    cached,   \* key -> "fresh", "stale", "excused", or NONE
    reader,   \* reader -> the key it will fill and whether its copy is fresh, or NONE
    writer    \* writer -> the row it holds a copy of, the evictions ahead

vars == <<rows, used, raised, cached, reader, writer>>

Init ==
    /\ rows = {} /\ used = {} /\ raised = {}
    /\ cached = [k \in Keys |-> NONE]
    /\ reader = [r \in Readers |-> NONE]
    /\ writer = [w \in Writers |-> Idle]

-----------------------------------------------------------------------------
(* Which queries read which rows, and which copies each write evicts.     *)

(* The rows a key's query may read.                                       *)
ItemsIn(L) == {i \in Items : ListOf[i] \in L}
Reads == [k \in Keys |->
    CASE k[1] = "mine" -> Houses
      [] k[1] \in {"household", "item", "category"} -> {k[2]}
      [] k[1] = "lists" -> ListsOf(k[2]) \cup ItemsIn(ListsOf(k[2]))
      [] k[1] = "list" -> {k[2]} \cup ItemsIn({k[2]})
      [] k[1] = "items" -> ItemsIn({k[2]})
      [] k[1] = "categories" -> CatsOf(k[2])]

Known(K) == [keys |-> K, of |-> NONE]
Later(l) == [keys |-> {}, of |-> l]
Named(kinds, ids) == (kinds \X ids) \cap Keys

(* invalidateHouseholdCache: three keys, then five patterns, of which     *)
(* only category:<h>:* is limited to the household.                       *)
EvictHousehold(h) ==
    <<Known({<<"household", h>>}), Known({<<"lists", h>>}), Known({<<"categories", h>>}),
      Known(Named({"mine"}, Users)), Known(Named({"category"}, CatsOf(h))),
      Known(Named({"list"}, Lists)), Known(Named({"items"}, Lists)),
      Known(Named({"item"}, Items))>>

(* invalidateHouseholdLists and invalidateList of the list service.       *)
EvictLists(h) == <<Known({<<"lists", h>>})>>
EvictOneList(l) == <<Known({<<"list", l>>})>> \o EvictLists(HouseOf[l])

(* invalidateCache of the category service.                               *)
EvictCategories(h) ==
    <<Known(Named({"category"}, CatsOf(h))), Known({<<"categories", h>>})>>

(* Mutant: the household's listing, which embeds the items, is forgotten. *)
KeysOfListAlone(l) == <<Known({<<"items", l>>}), Known({<<"list", l>>})>>
(* invalidateListCaches once it has looked for the list's household; 0 if *)
(* the list is gone, which names no key.                                  *)
KeysOfList(l) ==
    <<Known({<<"items", l>>}), Known({<<"list", l>>})>>
        \o IF l \in rows THEN EvictLists(HouseOf[l]) ELSE <<>>

(* invalidateItem, and invalidateListItems.                              *)
EvictItem(i) == <<Known({<<"item", i>>}), Later(ListOf[i])>>
EvictListItems(l) == <<Later(l)>>

(* The copies an eviction still ahead will remove.                        *)
Covered(e) ==
    e.keys \cup (IF e.of = NONE THEN {}
                 ELSE {<<"items", e.of>>, <<"list", e.of>>}
                      \cup {<<"lists", HouseOf[l]>> : l \in {e.of} \cap rows})
Pending(k) ==
    \E w \in Writers : \E n \in DOMAIN writer[w].todo : k \in Covered(writer[w].todo[n])

-----------------------------------------------------------------------------
(* A write of the rows R overtakes every copy, in Redis or in a reader's  *)
(* hands, of a query that reads them.                                     *)
Shows(k, R) == Reads[k] \cap R # {}
Overtaken(R) == [r \in Readers |->
    IF reader[r] # NONE /\ Shows(reader[r].key, R) THEN [reader[r] EXCEPT !.fresh = FALSE]
    ELSE reader[r]]
Overtake(R) ==
    /\ cached' = [k \in Keys |-> IF cached[k] # NONE /\ Shows(k, R) THEN "stale" ELSE cached[k]]
    /\ reader' = Overtaken(R)

Schedule(w, todo) == writer' = [writer EXCEPT ![w] = [at |-> "evict", row |-> NONE, todo |-> todo]]
Finish(w) == writer' = [writer EXCEPT ![w] = Idle]

(* Foreign keys (external): a list needs its household, an item its list; *)
(* categories have none.                                                  *)
ParentExists(r) ==
    /\ r \in Lists => HouseOf[r] \in rows
    /\ r \in Items => ListOf[r] \in rows

(* Create of the four services, and ReAddFromHistory.                     *)
Insert(w, r, todo) ==
    /\ writer[w].at = "idle" /\ r \notin used /\ ParentExists(r)
    /\ rows' = rows \cup {r} /\ used' = used \cup {r}
    /\ Overtake({r})
    /\ Schedule(w, todo)
    /\ UNCHANGED raised

CreateHousehold(w, h) == Insert(w, h, EvictHousehold(h))
CreateList(w, l) == Insert(w, l, EvictLists(HouseOf[l]))
CreateItem(w, i) == Insert(w, i, EvictListItems(ListOf[i]))
(* The membership of the household was checked before.                    *)
CreateCategory(w, c) == HouseOf[c] \in used /\ Insert(w, c, EvictCategories(HouseOf[c]))

(* Update, UpdateCompleted, Delete and rollOverDueItems read the row.     *)
Read(w, r, at) ==
    /\ writer[w].at = "idle" /\ r \in rows
    /\ writer' = [writer EXCEPT ![w] = [at |-> at, row |-> r, todo |-> <<>>]]
    /\ UNCHANGED <<rows, used, raised, cached, reader>>

(* Save writes the copy back, inserting it if the row is gone.            *)
Save(w, table, todo) ==
    LET r == writer[w].row IN
    /\ writer[w].at = "save" /\ r \in table /\ ParentExists(r)
    /\ rows' = rows \cup {r}
    /\ raised' = IF r \in Lists \ rows THEN raised \cup {r} ELSE raised
    /\ Overtake({r})
    /\ Schedule(w, todo)
    /\ UNCHANGED used

UpdateHousehold(w) == Save(w, Houses, EvictHousehold(writer[w].row))
UpdateList(w) == Save(w, Lists, EvictOneList(writer[w].row))
UpdateItem(w) == Save(w, Items, EvictItem(writer[w].row))
UpdateCategory(w) == Save(w, Cats, EvictCategories(HouseOf[writer[w].row]))
(* The list's copies are evicted once more at the end.                    *)
RollOver(w) ==
    Save(w, Items, EvictItem(writer[w].row) \o EvictListItems(ListOf[writer[w].row]))

(* The INSERT of a gone row violates a foreign key.                       *)
SaveRefused(w) ==
    /\ writer[w].at = "save" /\ ~ParentExists(writer[w].row)
    /\ Finish(w)
    /\ UNCHANGED <<rows, used, raised, cached, reader>>

(* Mutant: the list's items are left to themselves. *)
WithDependentsNotItems(r) ==
    {r} \cup (IF r \in Houses THEN ListsOf(r) \cup CatsOf(r) ELSE {})
(* What the transactions of Delete remove with the row.                   *)
WithDependents(r) ==
    {r} \cup (IF r \in Houses
              THEN ListsOf(r) \cup CatsOf(r) \cup ItemsIn(ListsOf(r)) ELSE {})
        \cup ItemsIn({r})

(* The rows of "also" are not removed but changed by the database.        *)
Remove(w, table, also, todo) ==
    LET gone == rows \cap WithDependents(writer[w].row) IN
    /\ writer[w].at = "delete" /\ writer[w].row \in table
    /\ rows' = rows \ gone
    /\ cached' = [k \in Keys |->
                    CASE cached[k] # NONE /\ Shows(k, gone) -> "stale"
                      [] cached[k] # NONE /\ ~Shows(k, gone) /\ Shows(k, also) ->
                            IF Pending(k) THEN "stale" ELSE "excused"
                      [] OTHER -> cached[k]]
    /\ reader' = Overtaken(gone \cup also)
    /\ Schedule(w, todo)
    /\ UNCHANGED <<used, raised>>

DeleteHousehold(w) == Remove(w, Houses, {}, EvictHousehold(writer[w].row))
DeleteList(w) == Remove(w, Lists, {}, EvictOneList(writer[w].row))
DeleteItem(w) == Remove(w, Items, {}, EvictItem(writer[w].row))
(* The category of some items becomes NULL; the copies that show these    *)
(* items are not evicted.                                                 *)
DeleteCategory(w) ==
    \E also \in SUBSET (Items \cap rows) :
        Remove(w, Cats, also, EvictCategories(HouseOf[writer[w].row]))

(* AddMember and RemoveMember change what the household's copies show.    *)
ChangeMembers(w, h) ==
    /\ writer[w].at = "idle" /\ h \in rows
    /\ Overtake({h})
    /\ Schedule(w, EvictHousehold(h))
    /\ UNCHANGED <<rows, used, raised>>

(* Reorder of the category service.                                       *)
Reorder(w, h) ==
    /\ writer[w].at = "idle" /\ CatsOf(h) \cap rows # {}
    /\ Overtake(CatsOf(h) \cap rows)
    /\ Schedule(w, EvictCategories(h))
    /\ UNCHANGED <<rows, used, raised>>

-----------------------------------------------------------------------------
(* The evictions of a write, one call each.                               *)

Remaining(w, todo) ==
    writer' = [writer EXCEPT ![w] = IF todo = <<>> THEN Idle ELSE [@ EXCEPT !.todo = todo]]

(* householdIDForList; an error is logged and yields 0.                   *)
LookUp(w) ==
    LET t == writer[w].todo IN
    /\ t # <<>> /\ Head(t).of # NONE
    /\ writer' = [writer EXCEPT ![w].todo = KeysOfList(Head(t).of) \o Tail(t)]
    /\ UNCHANGED <<rows, used, raised, cached, reader>>

(* Delete and DeleteByPattern.                                            *)
Evict(w) ==
    LET t == writer[w].todo IN
    /\ t # <<>> /\ Head(t).of = NONE
    /\ cached' = [k \in Keys |-> IF k \in Head(t).keys THEN NONE ELSE cached[k]]
    /\ Remaining(w, Tail(t))
    /\ UNCHANGED <<rows, used, raised, reader>>

(* An error of the cache: some keys of a pattern may already be gone.     *)
EvictFails(w, K) ==
    LET t == writer[w].todo IN
    /\ MayFail /\ t # <<>> /\ Head(t).of = NONE /\ K \subseteq Head(t).keys
    /\ cached' = [k \in Keys |-> CASE k \in K -> NONE
                                   [] k \in Head(t).keys \ K /\ cached[k] = "stale" -> "excused"
                                   [] OTHER -> cached[k]]
    /\ Remaining(w, Tail(t))
    /\ UNCHANGED <<rows, used, raised, reader>>

(* The process stops, or a statement before the evictions fails.          *)
Stop(w) ==
    LET lost == UNION {Covered(writer[w].todo[n]) : n \in DOMAIN writer[w].todo} IN
    /\ MayFail /\ writer[w].at # "idle"
    /\ cached' = [k \in Keys |-> IF k \in lost /\ cached[k] = "stale" THEN "excused" ELSE cached[k]]
    /\ Finish(w)
    /\ UNCHANGED <<rows, used, raised, reader>>

-----------------------------------------------------------------------------
(* A miss, or an error of Get: the query is made.                         *)
InUse == {k \in Keys : cached[k] # NONE \/ \E r \in Readers : reader[r] # NONE /\ reader[r].key = k}
Load(r, k) ==
    /\ reader[r] = NONE
    /\ cached[k] = NONE \/ MayFail
    /\ Cardinality({k} \cup InUse) <= MaxCached
    /\ reader' = [reader EXCEPT ![r] = [key |-> k, fresh |-> TRUE]]
    /\ UNCHANGED <<rows, used, raised, cached, writer>>

(* A single row must be there; a listing may be empty, even of something  *)
(* deleted since the check in front of it.                                *)
GetHousehold(r, h) == h \in rows /\ Load(r, <<"household", h>>)
ListByUser(r, u) == Load(r, <<"mine", u>>)
GetList(r, l) == l \in rows /\ Load(r, <<"list", l>>)
ListByHouseholdID(r, h) == h \in used /\ Load(r, <<"lists", h>>)
GetItem(r, i) == i \in rows /\ Load(r, <<"item", i>>)
ListByListID(r, l) == l \in used /\ Load(r, <<"items", l>>)
GetCategory(r, c) == c \in rows /\ Load(r, <<"category", c>>)
ListCategories(r, h) == h \in used /\ Load(r, <<"categories", h>>)

(* Set.                                                                   *)
Fill(r) ==
    LET k == reader[r].key IN
    /\ reader[r] # NONE
    /\ cached' = [cached EXCEPT ![k] = IF reader[r].fresh THEN "fresh"
                                       ELSE IF Pending(k) THEN "stale" ELSE "excused"]
    /\ reader' = [reader EXCEPT ![r] = NONE]
    /\ UNCHANGED <<rows, used, raised, writer>>

(* Set fails, which is only logged.                                       *)
FillFails(r) ==
    /\ MayFail /\ reader[r] # NONE
    /\ reader' = [reader EXCEPT ![r] = NONE]
    /\ UNCHANGED <<rows, used, raised, cached, writer>>

(* The five minutes of a copy are over (external: Redis).                 *)
Expire(k) ==
    /\ cached[k] # NONE
    /\ cached' = [cached EXCEPT ![k] = NONE]
    /\ UNCHANGED <<rows, used, raised, reader, writer>>

Writes(w) ==
    \/ \E h \in Houses : CreateHousehold(w, h) \/ ChangeMembers(w, h) \/ Reorder(w, h)
    \/ \E l \in Lists : CreateList(w, l)
    \/ \E i \in Items : CreateItem(w, i)
    \/ \E c \in Cats : CreateCategory(w, c)
    \/ \E r \in rows, at \in {"save", "delete"} : Read(w, r, at)
    \/ UpdateHousehold(w) \/ UpdateList(w) \/ UpdateItem(w) \/ UpdateCategory(w)
    \/ RollOver(w) \/ SaveRefused(w)
    \/ DeleteHousehold(w) \/ DeleteList(w) \/ DeleteItem(w) \/ DeleteCategory(w)

Evictions(w) ==
    \/ LookUp(w) \/ Evict(w) \/ Stop(w)
    \/ \E K \in SUBSET {k \in Keys : cached[k] # NONE} : EvictFails(w, K)

Reading(r) ==
    \/ \E h \in Houses : GetHousehold(r, h) \/ ListByHouseholdID(r, h) \/ ListCategories(r, h)
    \/ \E u \in Users : ListByUser(r, u)
    \/ \E l \in Lists : GetList(r, l) \/ ListByListID(r, l)
    \/ \E i \in Items : GetItem(r, i)
    \/ \E c \in Cats : GetCategory(r, c)
    \/ Fill(r) \/ FillFails(r)

Next ==
    \/ \E w \in Writers : Writes(w) \/ Evictions(w)
    \/ \E r \in Readers : Reading(r)
    \/ \E k \in Keys : Expire(k)

Spec == Init /\ [][Next]_vars

-----------------------------------------------------------------------------
(* Type invariant; besides, a row other than a category never outlives    *)
(* the row it belongs to, whatever handlers write back after a deletion.  *)
TypeOK ==
    /\ rows \subseteq used /\ used \subseteq Rows /\ raised \subseteq Lists
    /\ cached \in [Keys -> {NONE, "fresh", "stale", "excused"}]
    /\ reader \in [Readers -> {NONE} \cup [key : Keys, fresh : BOOLEAN]]
    /\ \A w \in Writers :
        /\ writer[w].at \in {"idle", "save", "delete", "evict"}
        /\ writer[w].row \in used \cup {NONE}
        /\ writer[w].todo \in Seq(Eviction)
    /\ \A r \in rows : ParentExists(r)

(* The check in front of a read that the cache answers: membership of the *)
(* household, found through the row itself for lists and items.           *)
Reachable(k) ==
    CASE k[1] = "mine" -> TRUE
      [] k[1] \in {"household", "lists", "categories"} -> k[2] \in rows
      [] k[1] = "category" -> HouseOf[k[2]] \in rows
      [] k[1] \in {"list", "items", "item"} -> k[2] \in rows

(* A copy that a request may be answered with is never overtaken by a     *)
(* committed write unless the eviction of just that copy is still ahead,  *)
(* or one of the known excuses applies; the items of a list that a Save   *)
(* brought back from deletion are one more.  About the eviction lists of  *)
(* the four services, and the household an item's eviction looks up while *)
(* the list is being deleted.                                             *)
StaleOnlyIfExcused ==
    \A k \in Keys :
        cached[k] = "stale" /\ Reachable(k) =>
            Pending(k) \/ (k[1] = "items" /\ k[2] \in raised)
=============================================================================
