----------------------------- MODULE CacheProofs -----------------------------
(***************************************************************************)
(* Proofs about the cache, for any rows, readers and handlers: types, with *)
(* the foreign keys, and that a reachable copy is stale only while its     *)
(* eviction is ahead.  The lemmas say what each service's evictions cover, *)
(* what a write makes stale or reachable, and that the one contains the    *)
(* other, handler by handler.                                              *)
(***************************************************************************)
EXTENDS Cache, SequenceTheorems, TLAPS

(***************************************************************************)
(* The keys and the queries.                                               *)
(***************************************************************************)

LEMMA KeyKinds ==
    ASSUME NEW k \in Keys
    PROVE  \/ k[1] \in {"household", "lists", "categories"} /\ k[2] \in Houses
           \/ k[1] = "mine" /\ k[2] \in Users
           \/ k[1] \in {"list", "items"} /\ k[2] \in Lists
           \/ k[1] = "item" /\ k[2] \in Items
           \/ k[1] = "category" /\ k[2] \in Cats
  BY DEF Keys

LEMMA KeyIsPair ==
    ASSUME NEW k \in Keys PROVE k = <<k[1], k[2]>>
  BY DEF Keys

LEMMA WhatIsRead ==
    ASSUME NEW k \in Keys
    PROVE  /\ k[1] = "mine" => Reads[k] = Houses
           /\ k[1] \in {"household", "item", "category"} => Reads[k] = {k[2]}
           /\ k[1] = "lists" => Reads[k] = ListsOf(k[2]) \cup ItemsIn(ListsOf(k[2]))
           /\ k[1] = "list" => Reads[k] = {k[2]} \cup ItemsIn({k[2]})
           /\ k[1] = "items" => Reads[k] = ItemsIn({k[2]})
           /\ k[1] = "categories" => Reads[k] = CatsOf(k[2])
  BY DEF Reads

(***************************************************************************)
(* What a list of evictions covers when the rows R exist.                  *)
(***************************************************************************)
CoveredIn(e, R) ==
    e.keys \cup (IF e.of = NONE THEN {}
                 ELSE {<<"items", e.of>>, <<"list", e.of>>}
                      \cup {<<"lists", HouseOf[l]>> : l \in {e.of} \cap R})
Covers(todo, k, R) == \E n \in DOMAIN todo : k \in CoveredIn(todo[n], R)

LEMMA PendingCovers ==
    ASSUME NEW k
    PROVE  /\ Pending(k) <=> \E w \in Writers : Covers(writer[w].todo, k, rows)
           /\ Pending(k)' <=> \E w \in Writers : Covers(writer'[w].todo, k, rows')
  BY DEF Pending, Covered, Covers, CoveredIn

LEMMA CoversConcat ==
    ASSUME NEW s \in Seq(Eviction), NEW t \in Seq(Eviction), NEW k, NEW R
    PROVE  /\ s \o t \in Seq(Eviction)
           /\ Covers(s \o t, k, R) <=> Covers(s, k, R) \/ Covers(t, k, R)
  <1>1. s \o t \in Seq(Eviction)
    BY ConcatProperties
  <1>2. ASSUME Covers(s, k, R) PROVE Covers(s \o t, k, R)
    <2>1. PICK n \in DOMAIN s : k \in CoveredIn(s[n], R)
      BY <1>2 DEF Covers
    <2>2. n \in DOMAIN (s \o t) /\ (s \o t)[n] = s[n]
      BY SMT
    <2> QED BY <2>1, <2>2 DEF Covers
  <1>3. ASSUME Covers(t, k, R) PROVE Covers(s \o t, k, R)
    <2>1. PICK n \in DOMAIN t : k \in CoveredIn(t[n], R)
      BY <1>3 DEF Covers
    <2>2. Len(s) + n \in DOMAIN (s \o t) /\ (s \o t)[Len(s) + n] = t[n]
      BY SMT
    <2> QED BY <2>1, <2>2 DEF Covers
  <1>4. ASSUME Covers(s \o t, k, R) PROVE Covers(s, k, R) \/ Covers(t, k, R)
    <2>1. PICK n \in DOMAIN (s \o t) : k \in CoveredIn((s \o t)[n], R)
      BY <1>4 DEF Covers
    <2>2. \/ n \in DOMAIN s /\ (s \o t)[n] = s[n]
          \/ n - Len(s) \in DOMAIN t /\ (s \o t)[n] = t[n - Len(s)]
      BY SMT
    <2> QED BY <2>1, <2>2 DEF Covers
  <1> QED BY <1>1, <1>2, <1>3, <1>4

LEMMA CoversOne ==
    ASSUME NEW e \in Eviction, NEW k, NEW R
    PROVE  <<e>> \in Seq(Eviction) /\ (Covers(<<e>>, k, R) <=> k \in CoveredIn(e, R))
  BY DEF Covers

LEMMA PairIsConcat ==
    ASSUME NEW a \in Eviction, NEW b \in Eviction
    PROVE  /\ <<a>> \in Seq(Eviction) /\ <<b>> \in Seq(Eviction)
           /\ <<a, b>> \in Seq(Eviction)
           /\ <<a, b>> = <<a>> \o <<b>>
  <1>1. <<a>> \in Seq(Eviction) /\ <<b>> \in Seq(Eviction) /\ <<a, b>> \in Seq(Eviction)
    OBVIOUS
  <1>2. /\ Len(<<a>> \o <<b>>) = 2 /\ <<a>> \o <<b>> \in Seq(Eviction)
        /\ (<<a>> \o <<b>>)[1] = a /\ (<<a>> \o <<b>>)[2] = b
    BY <1>1, ConcatProperties
  <1>3. \A n \in 1 .. Len(<<a, b>>) : <<a, b>>[n] = (<<a>> \o <<b>>)[n]
    BY <1>2
  <1>4. Len(<<a, b>>) = 2
    OBVIOUS
  <1> QED BY <1>1, <1>2, <1>3, <1>4, SeqEqual

LEMMA KnownCovers ==
    ASSUME NEW K \in SUBSET Keys, NEW k, NEW R
    PROVE  Known(K) \in Eviction /\ (k \in CoveredIn(Known(K), R) <=> k \in K)
  BY DEF Known, Eviction, CoveredIn

LEMMA LaterCovers ==
    ASSUME NEW l \in Lists, NEW k, NEW R
    PROVE  /\ Later(l) \in Eviction
           /\ k \in CoveredIn(Later(l), R) <=>
                \/ k = <<"items", l>> \/ k = <<"list", l>>
                \/ l \in R /\ k = <<"lists", HouseOf[l]>>
  BY RowsAssumption DEF Later, Eviction, CoveredIn, Rows

LEMMA NamedKeys ==
    ASSUME NEW kinds, NEW ids, NEW k \in Keys
    PROVE  /\ Named(kinds, ids) \in SUBSET Keys
           /\ k[1] \in kinds /\ k[2] \in ids => k \in Named(kinds, ids)
  BY KeyIsPair DEF Named

(* Eviction by eviction, what the lists of the services cover.             *)
LEMMA HouseholdCovers ==
    ASSUME NEW h \in Houses, NEW R
    PROVE  /\ EvictHousehold(h) \in Seq(Eviction)
           /\ \A k \in Keys :
                \/ k[1] \in {"mine", "list", "items", "item"}
                \/ k[1] \in {"household", "lists", "categories"} /\ k[2] = h
                \/ k[1] = "category" /\ HouseOf[k[2]] = h
                => Covers(EvictHousehold(h), k, R)
  <1> DEFINE E == EvictHousehold(h)
  <1>1. /\ <<"household", h>> \in Keys /\ <<"lists", h>> \in Keys
        /\ <<"categories", h>> \in Keys
    BY DEF Keys
  <1>2. \A kinds, ids : Named(kinds, ids) \in SUBSET Keys
    BY DEF Named
  <1>3. \A K \in SUBSET Keys : Known(K) \in Eviction
    BY DEF Known, Eviction
  <1>4. E \in Seq(Eviction)
    BY <1>1, <1>2, <1>3 DEF EvictHousehold
  <1>5. ASSUME NEW k \in Keys,
               \/ k[1] \in {"mine", "list", "items", "item"}
               \/ k[1] \in {"household", "lists", "categories"} /\ k[2] = h
               \/ k[1] = "category" /\ HouseOf[k[2]] = h
        PROVE  Covers(E, k, R)
    <2>1. DOMAIN E = 1 .. 8
      BY DEF EvictHousehold
    <2>2. \A K, x : x \in K => x \in CoveredIn(Known(K), R)
      BY DEF CoveredIn, Known
    <2>3. CASE k[1] = "household"
      <3>1. k \in CoveredIn(E[1], R)
        BY <1>5, <2>2, <2>3, KeyIsPair DEF EvictHousehold
      <3> QED BY <2>1, <3>1 DEF Covers
    <2>4. CASE k[1] = "lists"
      <3>1. k \in CoveredIn(E[2], R)
        BY <1>5, <2>2, <2>4, KeyIsPair DEF EvictHousehold
      <3> QED BY <2>1, <3>1 DEF Covers
    <2>5. CASE k[1] = "categories"
      <3>1. k \in CoveredIn(E[3], R)
        BY <1>5, <2>2, <2>5, KeyIsPair DEF EvictHousehold
      <3> QED BY <2>1, <3>1 DEF Covers
    <2>6. CASE k[1] = "mine"
      <3>1. k \in CoveredIn(E[4], R)
        BY <2>2, <2>6, KeyKinds, NamedKeys DEF EvictHousehold
      <3> QED BY <2>1, <3>1 DEF Covers
    <2>7. CASE k[1] = "category"
      <3>1. k[2] \in CatsOf(h)
        BY <1>5, <2>7, KeyKinds DEF CatsOf
      <3>2. k \in CoveredIn(E[5], R)
        BY <2>2, <2>7, <3>1, NamedKeys DEF EvictHousehold
      <3> QED BY <2>1, <3>2 DEF Covers
    <2>8. CASE k[1] = "list"
      <3>1. k \in CoveredIn(E[6], R)
        BY <2>2, <2>8, KeyKinds, NamedKeys DEF EvictHousehold
      <3> QED BY <2>1, <3>1 DEF Covers
    <2>9. CASE k[1] = "items"
      <3>1. k \in CoveredIn(E[7], R)
        BY <2>2, <2>9, KeyKinds, NamedKeys DEF EvictHousehold
      <3> QED BY <2>1, <3>1 DEF Covers
    <2>10. CASE k[1] = "item"
      <3>1. k \in CoveredIn(E[8], R)
        BY <2>2, <2>10, KeyKinds, NamedKeys DEF EvictHousehold
      <3> QED BY <2>1, <3>1 DEF Covers
    <2> QED
      BY <1>5, <2>3, <2>4, <2>5, <2>6, <2>7, <2>8, <2>9, <2>10
  <1> QED BY <1>4, <1>5

LEMMA ListsCovers ==
    ASSUME NEW h \in Houses, NEW k, NEW R
    PROVE  /\ EvictLists(h) \in Seq(Eviction)
           /\ Covers(EvictLists(h), k, R) <=> k = <<"lists", h>>
  <1>1. {<<"lists", h>>} \in SUBSET Keys
    BY DEF Keys
  <1> QED BY <1>1, CoversOne, KnownCovers DEF EvictLists

LEMMA OneListCovers ==
    ASSUME NEW l \in Lists, NEW k, NEW R
    PROVE  /\ EvictOneList(l) \in Seq(Eviction)
           /\ Covers(EvictOneList(l), k, R) <=> k = <<"list", l>> \/ k = <<"lists", HouseOf[l]>>
  <1>1. {<<"list", l>>} \in SUBSET Keys /\ HouseOf[l] \in Houses
    BY RowsAssumption DEF Keys
  <1> DEFINE A == <<Known({<<"list", l>>})>>
             B == EvictLists(HouseOf[l])
  <1>2. A \in Seq(Eviction) /\ (Covers(A, k, R) <=> k = <<"list", l>>)
    BY <1>1, CoversOne, KnownCovers
  <1>3. B \in Seq(Eviction) /\ (Covers(B, k, R) <=> k = <<"lists", HouseOf[l]>>)
    BY <1>1, ListsCovers
  <1>4. EvictOneList(l) = A \o B
    BY DEF EvictOneList
  <1> HIDE DEF A, B
  <1> QED BY <1>2, <1>3, <1>4, CoversConcat

LEMMA CategoriesCovers ==
    ASSUME NEW h \in Houses, NEW k \in Keys, NEW R
    PROVE  /\ EvictCategories(h) \in Seq(Eviction)
           /\ Covers(EvictCategories(h), k, R) <=>
                \/ k[1] = "category" /\ HouseOf[k[2]] = h
                \/ k = <<"categories", h>>
  <1> DEFINE A == Known(Named({"category"}, CatsOf(h)))
             B == Known({<<"categories", h>>})
  <1>1. {<<"categories", h>>} \in SUBSET Keys
    BY DEF Keys
  <1>2. /\ Named({"category"}, CatsOf(h)) \in SUBSET Keys
        /\ k \in Named({"category"}, CatsOf(h)) <=> k[1] = "category" /\ HouseOf[k[2]] = h
    BY KeyKinds, KeyIsPair DEF Named, CatsOf
  <1>3. /\ A \in Eviction /\ B \in Eviction
        /\ k \in CoveredIn(A, R) <=> k[1] = "category" /\ HouseOf[k[2]] = h
        /\ k \in CoveredIn(B, R) <=> k = <<"categories", h>>
    BY <1>1, <1>2, KnownCovers
  <1> HIDE DEF A, B
  <1>4. <<A, B>> = <<A>> \o <<B>> /\ <<A>> \in Seq(Eviction) /\ <<B>> \in Seq(Eviction)
    BY <1>3, PairIsConcat
  <1>5. EvictCategories(h) = <<A, B>>
    BY DEF EvictCategories, A, B
  <1> QED BY <1>3, <1>4, <1>5, CoversOne, CoversConcat

LEMMA ListItemsCovers ==
    ASSUME NEW l \in Lists, NEW k, NEW R
    PROVE  /\ EvictListItems(l) \in Seq(Eviction)
           /\ Covers(EvictListItems(l), k, R) <=>
                \/ k = <<"items", l>> \/ k = <<"list", l>>
                \/ l \in R /\ k = <<"lists", HouseOf[l]>>
  BY CoversOne, LaterCovers DEF EvictListItems

LEMMA ItemCovers ==
    ASSUME NEW i \in Items, NEW k, NEW R
    PROVE  /\ EvictItem(i) \in Seq(Eviction)
           /\ Covers(EvictItem(i), k, R) <=>
                \/ k = <<"item", i>> \/ k = <<"items", ListOf[i]>> \/ k = <<"list", ListOf[i]>>
                \/ ListOf[i] \in R /\ k = <<"lists", HouseOf[ListOf[i]]>>
  <1> DEFINE A == Known({<<"item", i>>})
             B == Later(ListOf[i])
  <1>1. {<<"item", i>>} \in SUBSET Keys /\ ListOf[i] \in Lists
    BY RowsAssumption DEF Keys
  <1>2. /\ A \in Eviction /\ B \in Eviction
        /\ k \in CoveredIn(A, R) <=> k = <<"item", i>>
        /\ k \in CoveredIn(B, R) <=>
                \/ k = <<"items", ListOf[i]>> \/ k = <<"list", ListOf[i]>>
                \/ ListOf[i] \in R /\ k = <<"lists", HouseOf[ListOf[i]]>>
    BY <1>1, KnownCovers, LaterCovers
  <1> HIDE DEF A, B
  <1>4. <<A, B>> = <<A>> \o <<B>> /\ <<A>> \in Seq(Eviction) /\ <<B>> \in Seq(Eviction)
    BY <1>2, PairIsConcat
  <1>5. EvictItem(i) = <<A, B>>
    BY DEF EvictItem, A, B
  <1> QED BY <1>2, <1>4, <1>5, CoversOne, CoversConcat

(* What householdIDForList puts in the place of a later eviction covers    *)
(* the same copies.                                                        *)
LEMMA KeysOfListCovers ==
    ASSUME NEW l \in Lists, NEW k
    PROVE  /\ KeysOfList(l) \in Seq(Eviction)
           /\ Covers(KeysOfList(l), k, rows) <=> k \in CoveredIn(Later(l), rows)
  <1> DEFINE A == Known({<<"items", l>>})
             B == Known({<<"list", l>>})
             C == IF l \in rows THEN EvictLists(HouseOf[l]) ELSE <<>>
  <1>1. {<<"items", l>>} \in SUBSET Keys /\ {<<"list", l>>} \in SUBSET Keys
        /\ HouseOf[l] \in Houses
    BY RowsAssumption DEF Keys
  <1>2. /\ A \in Eviction /\ B \in Eviction
        /\ k \in CoveredIn(A, rows) <=> k = <<"items", l>>
        /\ k \in CoveredIn(B, rows) <=> k = <<"list", l>>
    BY <1>1, KnownCovers
  <1>3. /\ C \in Seq(Eviction)
        /\ Covers(C, k, rows) <=> l \in rows /\ k = <<"lists", HouseOf[l]>>
    <2>1. CASE l \in rows
      BY <1>1, <2>1, ListsCovers
    <2>2. CASE l \notin rows
      BY <2>2 DEF Covers
    <2> QED BY <2>1, <2>2
  <1>4. KeysOfList(l) = <<A, B>> \o C
    BY DEF KeysOfList
  <1> HIDE DEF A, B, C
  <1>5. <<A, B>> = <<A>> \o <<B>> /\ <<A>> \in Seq(Eviction) /\ <<B>> \in Seq(Eviction)
        /\ <<A, B>> \in Seq(Eviction)
    BY <1>2, PairIsConcat
  <1>6. Covers(<<A, B>>, k, rows) <=> k = <<"items", l>> \/ k = <<"list", l>>
    BY <1>2, <1>5, CoversOne, CoversConcat
  <1>7. /\ <<A, B>> \o C \in Seq(Eviction)
        /\ Covers(<<A, B>> \o C, k, rows) <=>
                Covers(<<A, B>>, k, rows) \/ Covers(C, k, rows)
    BY <1>3, <1>5, CoversConcat
  <1>8. k \in CoveredIn(Later(l), rows) <=>
            \/ k = <<"items", l>> \/ k = <<"list", l>>
            \/ l \in rows /\ k = <<"lists", HouseOf[l]>>
    BY LaterCovers
  <1> QED BY <1>3, <1>4, <1>6, <1>7, <1>8

-----------------------------------------------------------------------------
(***************************************************************************)
(* The inductive invariant.                                                *)
(***************************************************************************)
Types ==
    /\ rows \subseteq used /\ used \subseteq Rows /\ raised \subseteq Lists
    /\ cached \in [Keys -> {NONE, "fresh", "stale", "excused"}]
    /\ reader \in [Readers -> {NONE} \cup [key : Keys, fresh : BOOLEAN]]
    /\ \A r \in rows : ParentExists(r)

(* A handler holds a copy of a row that was there, and schedules its       *)
(* evictions when it has written, not before.                              *)
WriterTypes ==
    /\ writer \in [Writers -> [at : {"idle", "save", "delete", "evict"},
                               row : used \cup {NONE}, todo : Seq(Eviction)]]
    /\ \A w \in Writers : writer[w].at # "evict" => writer[w].todo = <<>>

(* The copies that show a single list or item are read only for rows that  *)
(* have been inserted: no insertion has to evict them.                     *)
UnusedUnread ==
    \A k \in Keys : k[1] \in {"list", "items", "item"} /\ k[2] \notin used =>
        /\ cached[k] = NONE
        /\ \A r \in Readers : reader[r] # NONE => reader[r].key # k

CacheInv == Types /\ WriterTypes /\ UnusedUnread /\ StaleOnlyIfExcused

LEMMA ReachableByKind ==
    ASSUME NEW k \in Keys
    PROVE  /\ Reachable(k) <=>
                \/ k[1] = "mine"
                \/ k[1] \in {"household", "lists", "categories", "list", "items", "item"} /\ k[2] \in rows
                \/ k[1] = "category" /\ HouseOf[k[2]] \in rows
           /\ Reachable(k)' <=>
                \/ k[1] = "mine"
                \/ k[1] \in {"household", "lists", "categories", "list", "items", "item"} /\ k[2] \in rows'
                \/ k[1] = "category" /\ HouseOf[k[2]] \in rows'
  BY KeyKinds DEF Reachable

(* Which copies a write of the rows R overtakes.                           *)
LEMMA ShowsByKind ==
    ASSUME NEW k \in Keys, NEW R \in SUBSET Rows, Shows(k, R)
    PROVE  \/ k[1] = "mine" /\ R \cap Houses # {}
           \/ k[1] \in {"household", "item", "category"} /\ k[2] \in R
           \/ k[1] = "lists" /\ \E l \in R \cap Lists : HouseOf[l] = k[2]
           \/ k[1] = "lists" /\ \E i \in R \cap Items : HouseOf[ListOf[i]] = k[2]
           \/ k[1] = "list" /\ k[2] \in R
           \/ k[1] \in {"list", "items"} /\ \E i \in R \cap Items : ListOf[i] = k[2]
           \/ k[1] = "categories" /\ \E c \in R \cap Cats : HouseOf[c] = k[2]
  <1> PICK x \in Reads[k] : x \in R
    BY DEF Shows
  <1>1. CASE k[1] = "lists"
    BY <1>1, WhatIsRead DEF ListsOf, ItemsIn
  <1>2. CASE k[1] \in {"list", "items"}
    BY <1>2, WhatIsRead DEF ItemsIn
  <1>3. CASE k[1] = "categories"
    <2>1. Reads[k] = CatsOf(k[2])
      BY <1>3, WhatIsRead
    <2>2. x \in Cats /\ HouseOf[x] = k[2]
      BY <2>1 DEF CatsOf
    <2> QED BY <1>3, <2>2
  <1>4. CASE k[1] = "mine"
    <2>1. Reads[k] = Houses
      BY <1>4, WhatIsRead
    <2> QED BY <1>4, <2>1
  <1>5. CASE k[1] \in {"household", "item", "category"}
    <2>1. Reads[k] = {k[2]}
      BY <1>5, WhatIsRead
    <2> QED BY <1>5, <2>1
  <1> QED BY <1>1, <1>2, <1>3, <1>4, <1>5, KeyKinds

LEMMA SortOfRow ==
    ASSUME NEW r \in Rows
    PROVE  /\ r # NONE
           /\ r \in Houses => r \notin Lists /\ r \notin Items /\ r \notin Cats
           /\ r \in Lists => r \notin Houses /\ r \notin Items /\ r \notin Cats
           /\ r \in Items => r \notin Houses /\ r \notin Lists /\ r \notin Cats
           /\ r \in Cats => r \notin Houses /\ r \notin Lists /\ r \notin Items
  BY RowsAssumption DEF Rows

LEMMA HouseOfRow ==
    /\ \A l \in Lists : HouseOf[l] \in Houses
    /\ \A c \in Cats : HouseOf[c] \in Houses
    /\ \A i \in Items : ListOf[i] \in Lists
  BY RowsAssumption

(* A write that removes nothing leaves a reachable stale copy only where   *)
(* an eviction is ahead: the copies it overtakes, and those a Save makes   *)
(* reachable again, must be on its own list.                               *)
Excuse(k) == k[1] = "items" /\ k[2] \in raised

LEMMA PendingGrows ==
    ASSUME WriterTypes, NEW w \in Writers, NEW todo, NEW k,
           writer[w].at # "evict", Schedule(w, todo)
    PROVE  /\ rows \subseteq rows' /\ Pending(k) => Pending(k)'
           /\ Covers(todo, k, rows') => Pending(k)'
  <1>1. /\ writer'[w].todo = todo
        /\ \A v \in Writers \ {w} : writer'[v] = writer[v]
    BY DEF Schedule, WriterTypes
  <1>2. Covers(todo, k, rows') => Pending(k)'
    BY <1>1, PendingCovers
  <1>3. ASSUME rows \subseteq rows', Pending(k)
        PROVE  Pending(k)'
    <2>1. PICK v \in Writers : Covers(writer[v].todo, k, rows)
      BY <1>3, PendingCovers
    <2>2. v # w
      BY <2>1 DEF WriterTypes, Covers
    <2>3. Covers(writer[v].todo, k, rows')
      BY <1>3, <2>1 DEF Covers, CoveredIn
    <2> QED BY <1>1, <2>2, <2>3, PendingCovers
  <1> QED BY <1>2, <1>3

LEMMA WriteSafe ==
    ASSUME CacheInv, NEW w \in Writers, NEW R, NEW todo,
           writer[w].at # "evict", Overtake(R), Schedule(w, todo),
           rows \subseteq rows', raised \subseteq raised',
           \A k \in Keys :
              /\ cached[k] # NONE /\ Reachable(k)'
              /\ Shows(k, R) \/ ~Reachable(k)
              => Covers(todo, k, rows') \/ Excuse(k)'
    PROVE  StaleOnlyIfExcused'
  <1> SUFFICES ASSUME NEW k \in Keys, cached'[k] = "stale", Reachable(k)'
               PROVE  Pending(k)' \/ Excuse(k)'
    BY DEF StaleOnlyIfExcused, Excuse
  <1>1. cached[k] # NONE
    BY RowsAssumption DEF Overtake, CacheInv, Types
  <1>2. CASE Shows(k, R) \/ ~Reachable(k)
    BY <1>1, <1>2, PendingGrows DEF CacheInv
  <1>3. CASE ~Shows(k, R) /\ Reachable(k)
    <2>1. cached[k] = "stale"
      BY <1>3 DEF Overtake
    <2>2. Pending(k) \/ Excuse(k)
      BY <1>3, <2>1 DEF CacheInv, StaleOnlyIfExcused, Excuse
    <2> QED BY <2>2, PendingGrows DEF CacheInv, Excuse
  <1> QED BY <1>2, <1>3

LEMMA OvertakenKeeps ==
    ASSUME Types, NEW R, reader' = Overtaken(R)
    PROVE  /\ reader' \in [Readers -> {NONE} \cup [key : Keys, fresh : BOOLEAN]]
           /\ \A r \in Readers : reader'[r] # NONE =>
                reader[r] # NONE /\ reader'[r].key = reader[r].key
  BY DEF Types, Overtaken

LEMMA CachedKeeps ==
    ASSUME Types, NEW R, Overtake(R)
    PROVE  /\ cached' \in [Keys -> {NONE, "fresh", "stale", "excused"}]
           /\ \A k \in Keys : cached[k] = NONE => cached'[k] = NONE
  BY DEF Types, Overtake

LEMMA ScheduleKeeps ==
    ASSUME WriterTypes, NEW w \in Writers, NEW todo \in Seq(Eviction),
           Schedule(w, todo), used \subseteq used'
    PROVE  WriterTypes'
  BY DEF WriterTypes, Schedule

(* The whole of a write that removes nothing.                              *)
LEMMA WriteKeepsInv ==
    ASSUME CacheInv, NEW w \in Writers, NEW R, NEW todo \in Seq(Eviction),
           writer[w].at # "evict", Overtake(R), Schedule(w, todo),
           rows \subseteq rows', used \subseteq used', raised \subseteq raised',
           rows' \subseteq used', used' \subseteq Rows, raised' \subseteq Lists,
           \A r \in rows' \ rows : ParentExists(r),
           \A k \in Keys :
              /\ cached[k] # NONE /\ Reachable(k)'
              /\ Shows(k, R) \/ ~Reachable(k)
              => Covers(todo, k, rows') \/ Excuse(k)'
    PROVE  CacheInv'
  <1>1. \A r \in rows' : ParentExists(r)'
    BY DEF CacheInv, Types, ParentExists
  <1>2. Types'
    BY <1>1, OvertakenKeeps, CachedKeeps DEF CacheInv, Types, Overtake
  <1>3. WriterTypes'
    BY ScheduleKeeps DEF CacheInv
  <1>4. UnusedUnread'
    BY OvertakenKeeps, CachedKeeps DEF CacheInv, UnusedUnread, Overtake
  <1>5. StaleOnlyIfExcused'
    BY WriteSafe
  <1> QED BY <1>2, <1>3, <1>4, <1>5 DEF CacheInv

-----------------------------------------------------------------------------
(* One lemma per handler.                                                  *)
LEMMA HouseholdRewritten ==
    ASSUME NEW h \in Houses, NEW k \in Keys, NEW R,
           Reachable(k)', rows' \subseteq Rows,
           Shows(k, {h}) \/ (rows' \subseteq rows \cup {h} /\ ~Reachable(k))
    PROVE  Covers(EvictHousehold(h), k, R)
  <1> SUFFICES \/ k[1] \in {"mine", "list", "items", "item"}
               \/ k[1] \in {"household", "lists", "categories"} /\ k[2] = h
               \/ k[1] = "category" /\ HouseOf[k[2]] = h
    BY HouseholdCovers
  <1>1. CASE Shows(k, {h})
    <2>1. {h} \in SUBSET Rows /\ h \in Rows
      BY DEF Rows
    <2>2. h \notin Lists /\ h \notin Items /\ h \notin Cats
      BY <2>1, SortOfRow
    <2> QED BY <1>1, <2>1, <2>2, ShowsByKind, KeyKinds
  <1>2. CASE rows' \subseteq rows \cup {h} /\ ~Reachable(k)
    BY <1>2, ReachableByKind, KeyKinds
  <1> QED BY <1>1, <1>2

LEMMA CreateHouseholdKeeps ==
    ASSUME CacheInv, NEW w \in Writers, NEW h \in Houses, CreateHousehold(w, h)
    PROVE  CacheInv'
  <1> USE DEF CreateHousehold, Insert
  <1>1. /\ h \in Rows /\ rows' \subseteq Rows
    BY DEF CacheInv, Types, Rows
  <1>2. \A k \in Keys :
              /\ cached[k] # NONE /\ Reachable(k)'
              /\ Shows(k, {h}) \/ ~Reachable(k)
              => Covers(EvictHousehold(h), k, rows') \/ Excuse(k)'
    BY <1>1, HouseholdRewritten
  <1>3. EvictHousehold(h) \in Seq(Eviction)
    BY HouseholdCovers
  <1> QED BY <1>1, <1>2, <1>3, WriteKeepsInv DEF CacheInv, Types

LEMMA ChangeMembersKeeps ==
    ASSUME CacheInv, NEW w \in Writers, NEW h \in Houses, ChangeMembers(w, h)
    PROVE  CacheInv'
  <1> USE DEF ChangeMembers
  <1>1. rows' = rows /\ rows' \subseteq Rows
    BY DEF CacheInv, Types
  <1>2. \A k \in Keys :
              /\ cached[k] # NONE /\ Reachable(k)'
              /\ Shows(k, {h}) \/ ~Reachable(k)
              => Covers(EvictHousehold(h), k, rows') \/ Excuse(k)'
    BY <1>1, HouseholdRewritten
  <1>3. EvictHousehold(h) \in Seq(Eviction)
    BY HouseholdCovers
  <1> QED BY <1>1, <1>2, <1>3, WriteKeepsInv DEF CacheInv, Types

LEMMA CreateListKeeps ==
    ASSUME CacheInv, NEW w \in Writers, NEW l \in Lists, CreateList(w, l)
    PROVE  CacheInv'
  <1> USE DEF CreateList, Insert
  <1>1. /\ l \in Rows /\ HouseOf[l] \in Houses /\ {l} \in SUBSET Rows
        /\ l \notin Houses /\ l \notin Items /\ l \notin Cats
    BY SortOfRow, HouseOfRow DEF Rows
  <1>2. ASSUME NEW k \in Keys, cached[k] # NONE, Reachable(k)',
               Shows(k, {l}) \/ ~Reachable(k)
        PROVE  Covers(EvictLists(HouseOf[l]), k, rows')
    <2>1. ~(k[1] \in {"list", "items", "item"} /\ k[2] = l)
      BY <1>2 DEF CacheInv, UnusedUnread
    <2>2. CASE Shows(k, {l})
      <3>1. k[1] = "lists" /\ k[2] = HouseOf[l]
        BY <1>1, <2>1, <2>2, ShowsByKind, KeyKinds
      <3> QED BY <1>1, <3>1, KeyIsPair, ListsCovers
    <2>3. CASE ~Reachable(k)
      <3>1. k[2] = l \/ (k[1] = "category" /\ HouseOf[k[2]] = l)
        BY <1>2, <2>3, ReachableByKind
      <3> QED BY <1>1, <2>1, <3>1, HouseOfRow, KeyKinds, <1>2, <2>3, ReachableByKind
    <2> QED BY <1>2, <2>2, <2>3
  <1>3. EvictLists(HouseOf[l]) \in Seq(Eviction)
    BY <1>1, ListsCovers
  <1> QED BY <1>1, <1>2, <1>3, WriteKeepsInv DEF CacheInv, Types

LEMMA CreateItemKeeps ==
    ASSUME CacheInv, NEW w \in Writers, NEW i \in Items, CreateItem(w, i)
    PROVE  CacheInv'
  <1> USE DEF CreateItem, Insert
  <1> DEFINE l == ListOf[i]
  <1>1. /\ i \in Rows /\ l \in Lists /\ {i} \in SUBSET Rows
        /\ i \notin Houses /\ i \notin Lists /\ i \notin Cats /\ l \in rows'
    BY SortOfRow, HouseOfRow DEF Rows, ParentExists
  <1>2. ASSUME NEW k \in Keys, cached[k] # NONE, Reachable(k)',
               Shows(k, {i}) \/ ~Reachable(k)
        PROVE  Covers(EvictListItems(l), k, rows')
    <2>1. ~(k[1] = "item" /\ k[2] = i)
      BY <1>2 DEF CacheInv, UnusedUnread
    <2>2. CASE Shows(k, {i})
      <3>1. \/ k[1] = "lists" /\ k[2] = HouseOf[l]
            \/ k[1] \in {"list", "items"} /\ k[2] = l
        BY <1>1, <2>1, <2>2, ShowsByKind, KeyKinds
      <3> QED BY <1>1, <3>1, KeyIsPair, ListItemsCovers
    <2>3. CASE ~Reachable(k)
      <3>1. k[2] = i \/ (k[1] = "category" /\ HouseOf[k[2]] = i)
        BY <1>2, <2>3, ReachableByKind
      <3> QED BY <1>1, <2>1, <3>1, HouseOfRow, KeyKinds, <1>2, <2>3, ReachableByKind
    <2> QED BY <1>2, <2>2, <2>3
  <1>3. EvictListItems(l) \in Seq(Eviction)
    BY <1>1, ListItemsCovers
  <1> QED BY <1>1, <1>2, <1>3, WriteKeepsInv DEF CacheInv, Types

(* A write of some categories of a household.                              *)
LEMMA CategoriesRewritten ==
    ASSUME NEW h \in Houses, NEW k \in Keys, NEW C \in SUBSET CatsOf(h), NEW R,
           rows' \subseteq rows \cup C, Reachable(k)', Shows(k, C) \/ ~Reachable(k)
    PROVE  Covers(EvictCategories(h), k, R)
  <1>1. /\ C \in SUBSET Rows /\ C \subseteq Cats
        /\ \A c \in C : HouseOf[c] = h /\ c \notin Houses /\ c \notin Items /\ c \notin Lists
    BY SortOfRow DEF CatsOf, Rows
  <1>2. CASE Shows(k, C)
    <2>1. \/ k[1] = "category" /\ HouseOf[k[2]] = h
          \/ k[1] = "categories" /\ k[2] = h
      BY <1>1, <1>2, ShowsByKind, KeyKinds
    <2> QED BY <2>1, KeyIsPair, CategoriesCovers
  <1>3. CASE ~Reachable(k)
    <2>1. k[2] \in C \/ (k[1] = "category" /\ HouseOf[k[2]] \in C)
      BY <1>3, ReachableByKind
    <2> QED BY <1>1, <1>3, <2>1, HouseOfRow, KeyKinds, ReachableByKind
  <1> QED BY <1>2, <1>3

LEMMA CreateCategoryKeeps ==
    ASSUME CacheInv, NEW w \in Writers, NEW c \in Cats, CreateCategory(w, c)
    PROVE  CacheInv'
  <1> USE DEF CreateCategory, Insert
  <1> DEFINE h == HouseOf[c]
  <1>1. c \in Rows /\ h \in Houses /\ {c} \in SUBSET CatsOf(h)
    BY HouseOfRow DEF Rows, CatsOf
  <1>2. \A k \in Keys :
              /\ cached[k] # NONE /\ Reachable(k)'
              /\ Shows(k, {c}) \/ ~Reachable(k)
              => Covers(EvictCategories(h), k, rows') \/ Excuse(k)'
    BY <1>1, CategoriesRewritten
  <1>3. EvictCategories(h) \in Seq(Eviction)
    <2>1. <<"categories", h>> \in Keys
      BY <1>1 DEF Keys
    <2> QED BY <1>1, <2>1, CategoriesCovers
  <1> QED BY <1>1, <1>2, <1>3, WriteKeepsInv DEF CacheInv, Types

LEMMA ReorderKeeps ==
    ASSUME CacheInv, NEW w \in Writers, NEW h \in Houses, Reorder(w, h)
    PROVE  CacheInv'
  <1> USE DEF Reorder
  <1> DEFINE C == CatsOf(h) \cap rows
  <1>1. PICK K : K = C
    OBVIOUS
  <1>2. K \in SUBSET CatsOf(h) /\ <<"categories", h>> \in Keys
    BY <1>1 DEF Keys
  <1>3. \A k \in Keys :
              /\ cached[k] # NONE /\ Reachable(k)'
              /\ Shows(k, K) \/ ~Reachable(k)
              => Covers(EvictCategories(h), k, rows') \/ Excuse(k)'
    BY <1>2, CategoriesRewritten
  <1>4. EvictCategories(h) \in Seq(Eviction) /\ Overtake(K)
    BY <1>1, <1>2, CategoriesCovers
  <1> QED BY <1>3, <1>4, WriteKeepsInv DEF CacheInv, Types

(* Save, whose copy r may be of a row that is gone: what it inserts is     *)
(* reachable again.                                                        *)
LEMMA SaveKeeps ==
    ASSUME CacheInv, NEW w \in Writers, NEW r \in Rows, NEW table, NEW todo \in Seq(Eviction),
           writer[w].row = r, writer[w].at = "save", r \in table, ParentExists(r),
           rows' = rows \cup {r},
           raised' = IF r \in Lists \ rows THEN raised \cup {r} ELSE raised,
           Overtake({r}), Schedule(w, todo), UNCHANGED used,
           \A k \in Keys :
              /\ Reachable(k)'
              /\ Shows(k, {r}) \/ ~Reachable(k)
              => Covers(todo, k, rows') \/ Excuse(k)'
    PROVE  CacheInv'
  <1>1. r \in used
    BY SortOfRow DEF CacheInv, WriterTypes
  <1> QED BY <1>1, WriteKeepsInv DEF CacheInv, Types

LEMMA CopyHeld ==
    ASSUME CacheInv, NEW w \in Writers, NEW table \in SUBSET Rows, writer[w].row \in table
    PROVE  \E r \in table : r = writer[w].row /\ r \in Rows /\ r \in used
  BY SortOfRow DEF CacheInv, Types, WriterTypes

LEMMA Tables ==
    /\ Houses \in SUBSET Rows /\ Lists \in SUBSET Rows
    /\ Items \in SUBSET Rows /\ Cats \in SUBSET Rows
  BY DEF Rows

LEMMA UpdateHouseholdKeeps ==
    ASSUME CacheInv, NEW w \in Writers, UpdateHousehold(w)
    PROVE  CacheInv'
  <1>1. PICK h \in Houses : h = writer[w].row /\ h \in Rows
    BY CopyHeld, Tables DEF UpdateHousehold, Save
  <1>2. EvictHousehold(h) \in Seq(Eviction) /\ rows' \subseteq Rows
    BY <1>1, HouseholdCovers DEF UpdateHousehold, Save, CacheInv, Types
  <1>3. \A k \in Keys :
              /\ Reachable(k)'
              /\ Shows(k, {h}) \/ ~Reachable(k)
              => Covers(EvictHousehold(h), k, rows')
    BY <1>1, <1>2, HouseholdRewritten DEF UpdateHousehold, Save
  <1> QED BY <1>1, <1>2, <1>3, SaveKeeps DEF UpdateHousehold, Save

LEMMA UpdateListKeeps ==
    ASSUME CacheInv, NEW w \in Writers, UpdateList(w)
    PROVE  CacheInv'
  <1>1. PICK l \in Lists : l = writer[w].row /\ l \in Rows
    BY CopyHeld, Tables DEF UpdateList, Save
  <1>2. EvictOneList(l) \in Seq(Eviction) /\ {l} \in SUBSET Rows
    BY <1>1, OneListCovers
  <1>3. ASSUME NEW k \in Keys, Reachable(k)', Shows(k, {l}) \/ ~Reachable(k)
        PROVE  Covers(EvictOneList(l), k, rows') \/ Excuse(k)'
    <2>1. l \notin Houses /\ l \notin Items /\ l \notin Cats
      BY <1>1, SortOfRow
    <2>2. CASE Shows(k, {l})
      <3>1. \/ k[1] \in {"household", "item", "category", "list"} /\ k[2] = l
            \/ k[1] = "lists" /\ k[2] = HouseOf[l]
        BY <1>2, <2>1, <2>2, ShowsByKind
      <3>2. k[1] \in {"household", "item", "category", "list"} /\ k[2] = l => k[1] = "list"
        BY <2>1, KeyKinds
      <3> QED BY <3>1, <3>2, KeyIsPair, OneListCovers
    <2>3. CASE ~Reachable(k)
      <3>1. rows' = rows \cup {l}
        BY <1>1 DEF UpdateList, Save
      <3>2. k[1] \in {"list", "items"} /\ k[2] = l /\ l \notin rows
        BY <1>3, <2>1, <2>3, <3>1, ReachableByKind, KeyKinds, HouseOfRow
      <3>3. l \in raised'
        BY <1>1, <3>2 DEF UpdateList, Save
      <3> QED BY <3>2, <3>3, KeyIsPair, OneListCovers DEF Excuse
    <2> QED BY <1>3, <2>2, <2>3
  <1> QED BY <1>1, <1>2, <1>3, SaveKeeps DEF UpdateList, Save

(* An item's row changes the copies of the item, of its list and of the    *)
(* listing of its household, which the list is still there to name.        *)
LEMMA ItemRewritten ==
    ASSUME NEW i \in Items, NEW k \in Keys,
           ListOf[i] \in rows', Reachable(k)', rows' \subseteq rows \cup {i},
           Shows(k, {i}) \/ ~Reachable(k)
    PROVE  Covers(EvictItem(i), k, rows')
  <1>1. /\ i \in Rows /\ {i} \in SUBSET Rows
        /\ i \notin Houses /\ i \notin Lists /\ i \notin Cats
    BY SortOfRow DEF Rows
  <1>2. CASE Shows(k, {i})
    <2>1. \/ k[1] = "lists" /\ k[2] = HouseOf[ListOf[i]]
          \/ k[1] \in {"list", "items"} /\ k[2] = ListOf[i]
          \/ k[1] \in {"household", "item", "category", "list"} /\ k[2] = i
      BY <1>1, <1>2, ShowsByKind
    <2>2. k[1] \in {"household", "item", "category", "list"} /\ k[2] = i => k[1] = "item"
      BY <1>1, KeyKinds
    <2> QED BY <2>1, <2>2, KeyIsPair, ItemCovers
  <1>3. CASE ~Reachable(k)
    <2>1. k[1] = "item" /\ k[2] = i
      BY <1>1, <1>3, ReachableByKind, KeyKinds, HouseOfRow
    <2> QED BY <2>1, KeyIsPair, ItemCovers
  <1> QED BY <1>2, <1>3

LEMMA UpdateItemKeeps ==
    ASSUME CacheInv, NEW w \in Writers, UpdateItem(w) \/ RollOver(w)
    PROVE  CacheInv'
  <1>1. PICK i \in Items : i = writer[w].row /\ i \in Rows
    BY CopyHeld, Tables DEF UpdateItem, RollOver, Save
  <1>2. rows' = rows \cup {i} /\ ListOf[i] \in rows'
    BY <1>1 DEF UpdateItem, RollOver, Save, ParentExists
  <1>3. \A k \in Keys :
            Reachable(k)' /\ (Shows(k, {i}) \/ ~Reachable(k)) => Covers(EvictItem(i), k, rows')
    BY <1>2, ItemRewritten
  <1>4. CASE UpdateItem(w)
    BY <1>1, <1>3, <1>4, ItemCovers, SaveKeeps DEF UpdateItem, Save
  <1>5. CASE RollOver(w)
    <2> DEFINE todo == EvictItem(i) \o EvictListItems(ListOf[i])
    <2>1. EvictItem(i) \in Seq(Eviction) /\ EvictListItems(ListOf[i]) \in Seq(Eviction)
      BY HouseOfRow, ItemCovers, ListItemsCovers
    <2>2. todo \in Seq(Eviction)
      BY <2>1, CoversConcat
    <2>3. \A k \in Keys :
            Reachable(k)' /\ (Shows(k, {i}) \/ ~Reachable(k)) => Covers(todo, k, rows')
      BY <1>3, <2>1, CoversConcat
    <2>4. Save(w, Items, todo)
      BY <1>1, <1>5 DEF RollOver
    <2> HIDE DEF todo
    <2> QED BY <1>1, <2>2, <2>3, <2>4, SaveKeeps DEF Save
  <1> QED BY <1>4, <1>5

LEMMA UpdateCategoryKeeps ==
    ASSUME CacheInv, NEW w \in Writers, UpdateCategory(w)
    PROVE  CacheInv'
  <1>1. PICK c \in Cats : c = writer[w].row /\ c \in Rows
    BY CopyHeld, Tables DEF UpdateCategory, Save
  <1> DEFINE h == HouseOf[c]
  <1>2. h \in Houses /\ {c} \in SUBSET CatsOf(h) /\ <<"categories", h>> \in Keys
    BY HouseOfRow DEF CatsOf, Keys
  <1>3. EvictCategories(h) \in Seq(Eviction)
    BY <1>2, CategoriesCovers
  <1>4. \A k \in Keys :
              /\ Reachable(k)'
              /\ Shows(k, {c}) \/ ~Reachable(k)
              => Covers(EvictCategories(h), k, rows')
    BY <1>1, <1>2, CategoriesRewritten DEF UpdateCategory, Save
  <1> QED BY <1>1, <1>3, <1>4, SaveKeeps DEF UpdateCategory, Save

-----------------------------------------------------------------------------
(* The deletions.                                                          *)
LEMMA PendingShrinks ==
    ASSUME WriterTypes, NEW w \in Writers, NEW todo, NEW gone, NEW k \in Keys,
           writer[w].at # "evict", Schedule(w, todo), rows' = rows \ gone, Pending(k)
    PROVE  Pending(k)' \/ \E l \in Lists \cap gone : k = <<"lists", HouseOf[l]>>
  <1>1. PICK v \in Writers : Covers(writer[v].todo, k, rows)
    BY PendingCovers
  <1>2. PICK n \in DOMAIN writer[v].todo : k \in CoveredIn(writer[v].todo[n], rows)
    BY <1>1 DEF Covers
  <1>3. v # w /\ writer'[v] = writer[v] /\ writer[v].todo[n].of \in Lists \cup {NONE}
    <2>1. v # w
      BY <1>2 DEF WriterTypes
    <2>2. writer[v].todo \in Seq(Eviction)
      BY DEF WriterTypes
    <2>3. writer[v].todo[n] \in Eviction
      BY <1>2, <2>2
    <2>4. writer'[v] = writer[v]
      BY <2>1 DEF WriterTypes, Schedule
    <2> QED BY <2>1, <2>3, <2>4 DEF Eviction
  <1>4. CASE k \in CoveredIn(writer[v].todo[n], rows')
    BY <1>3, <1>4, PendingCovers DEF Covers
  <1>5. CASE k \notin CoveredIn(writer[v].todo[n], rows')
    BY <1>2, <1>3, <1>5 DEF CoveredIn
  <1> QED BY <1>4, <1>5

LEMMA RemoveKeeps ==
    ASSUME CacheInv, NEW w \in Writers, NEW gone \in SUBSET rows, NEW also,
           NEW todo \in Seq(Eviction), writer[w].at # "evict",
           rows' = rows \ gone,
           cached' = [k \in Keys |->
                    CASE cached[k] # NONE /\ Shows(k, gone) -> "stale"
                      [] cached[k] # NONE /\ ~Shows(k, gone) /\ Shows(k, also) ->
                            IF Pending(k) THEN "stale" ELSE "excused"
                      [] OTHER -> cached[k]],
           reader' = Overtaken(gone \cup also), Schedule(w, todo), UNCHANGED <<used, raised>>,
           \A r \in rows' : ParentExists(r)',
           \A k \in Keys : Shows(k, gone) /\ Reachable(k)' => Covers(todo, k, rows')
    PROVE  CacheInv'
  <1> USE DEF CacheInv
  <1>1. ASSUME NEW k \in Keys
        PROVE  /\ cached'[k] \in {NONE, "fresh", "stale", "excused"}
               /\ cached[k] = NONE => cached'[k] = NONE
               /\ cached'[k] = "stale" => Shows(k, gone) \/ cached[k] = "stale" \/ Pending(k)
    BY DEF Types
  <1>2. Types'
    <2>1. cached' \in [Keys -> {NONE, "fresh", "stale", "excused"}]
      BY <1>1
    <2> QED BY <2>1, OvertakenKeeps DEF Types
  <1>3. WriterTypes'
    BY ScheduleKeeps
  <1>4. UnusedUnread'
    BY <1>1, OvertakenKeeps DEF UnusedUnread
  <1>5. StaleOnlyIfExcused'
    <2> SUFFICES ASSUME NEW k \in Keys, cached'[k] = "stale", Reachable(k)'
                 PROVE  Pending(k)' \/ Excuse(k)'
      BY DEF StaleOnlyIfExcused, Excuse
    <2>1. Covers(todo, k, rows') => Pending(k)'
      BY PendingGrows
    <2>2. CASE Shows(k, gone)
      BY <2>1, <2>2
    <2>3. CASE Pending(k)
      <3>1. CASE \E l \in Lists \cap gone : k = <<"lists", HouseOf[l]>>
        <4>1. PICK l \in Lists \cap gone : k = <<"lists", HouseOf[l]>>
          BY <3>1
        <4>2. k[1] = "lists" /\ k[2] = HouseOf[l]
          BY <4>1
        <4>3. Reads[k] = ListsOf(k[2]) \cup ItemsIn(ListsOf(k[2]))
          BY <4>2, WhatIsRead
        <4>4. l \in Reads[k]
          BY <4>2, <4>3 DEF ListsOf
        <4>5. Shows(k, gone)
          BY <4>4 DEF Shows
        <4> QED BY <2>2, <4>5
      <3> QED BY <2>3, <3>1, PendingShrinks
    <2>4. CASE cached[k] = "stale"
      <3>1. Reachable(k)
        BY ReachableByKind
      <3>2. Pending(k) \/ Excuse(k)
        BY <2>4, <3>1 DEF StaleOnlyIfExcused, Excuse
      <3> QED BY <2>3, <3>2 DEF Excuse
    <2> QED BY <1>1, <2>2, <2>3, <2>4
  <1> QED BY <1>2, <1>3, <1>4, <1>5

(* No row that is left has lost the row it belongs to.                     *)
LEMMA DependentsGo ==
    ASSUME Types, NEW r \in Rows, rows' = rows \ WithDependents(r)
    PROVE  \A x \in rows' : ParentExists(x)'
  <1> SUFFICES ASSUME NEW x \in rows' PROVE ParentExists(x)'
    OBVIOUS
  <1>1. x \in rows /\ x \in Rows /\ x # r /\ ParentExists(x)
    BY DEF Types, WithDependents
  <1>2. ASSUME x \in Lists PROVE HouseOf[x] \in rows'
    <2>1. HouseOf[x] \in rows /\ HouseOf[x] \in Houses
      BY <1>1, <1>2, HouseOfRow DEF ParentExists
    <2>2. HouseOf[x] \notin Items /\ HouseOf[x] \notin Lists /\ HouseOf[x] \notin Cats
      BY <2>1, SortOfRow DEF Rows
    <2>3. ASSUME HouseOf[x] = r PROVE FALSE
      BY <1>2, <2>1, <2>3 DEF WithDependents, ListsOf
    <2>4. HouseOf[x] \notin WithDependents(r)
      BY <2>2, <2>3 DEF WithDependents, ListsOf, CatsOf, ItemsIn
    <2> QED BY <2>1, <2>4
  <1>3. ASSUME x \in Items PROVE ListOf[x] \in rows'
    <2>1. ListOf[x] \in rows /\ ListOf[x] \in Lists
      BY <1>1, <1>3, HouseOfRow DEF ParentExists
    <2>2. ListOf[x] \notin Items /\ ListOf[x] \notin Houses /\ ListOf[x] \notin Cats
      BY <2>1, SortOfRow DEF Rows
    <2>3. ASSUME ListOf[x] = r PROVE FALSE
      BY <1>3, <2>3 DEF WithDependents, ItemsIn
    <2>4. ASSUME r \in Houses, ListOf[x] \in ListsOf(r) PROVE FALSE
      BY <1>3, <2>4 DEF WithDependents, ItemsIn
    <2>5. ListOf[x] \notin WithDependents(r)
      BY <2>2, <2>3, <2>4 DEF WithDependents, CatsOf, ItemsIn
    <2> QED BY <2>1, <2>5
  <1> QED BY <1>2, <1>3 DEF ParentExists

(* What the four deletions have in common.                                 *)
LEMMA DeleteKeeps ==
    ASSUME CacheInv, NEW w \in Writers, NEW r \in Rows, NEW table, NEW also,
           NEW todo \in Seq(Eviction), writer[w].row = r, Remove(w, table, also, todo),
           \A k \in Keys :
              Shows(k, rows \cap WithDependents(r)) /\ Reachable(k)' => Covers(todo, k, rows')
    PROVE  CacheInv'
  <1>1. PICK gone : gone = rows \cap WithDependents(r)
    OBVIOUS
  <1>2. rows' = rows \ WithDependents(r)
    BY DEF Remove
  <1>3. \A x \in rows' : ParentExists(x)'
    BY <1>2, DependentsGo DEF CacheInv
  <1>4. gone \in SUBSET rows /\ rows' = rows \ gone
    BY <1>1, <1>2
  <1>5. /\ cached' = [k \in Keys |->
                    CASE cached[k] # NONE /\ Shows(k, gone) -> "stale"
                      [] cached[k] # NONE /\ ~Shows(k, gone) /\ Shows(k, also) ->
                            IF Pending(k) THEN "stale" ELSE "excused"
                      [] OTHER -> cached[k]]
        /\ reader' = Overtaken(gone \cup also)
        /\ writer[w].at # "evict" /\ Schedule(w, todo) /\ UNCHANGED <<used, raised>>
    BY <1>1 DEF Remove
  <1>6. \A k \in Keys : Shows(k, gone) /\ Reachable(k)' => Covers(todo, k, rows')
    BY <1>1
  <1> QED BY <1>3, <1>4, <1>5, <1>6, RemoveKeeps

LEMMA DeleteHouseholdKeeps ==
    ASSUME CacheInv, NEW w \in Writers, DeleteHousehold(w)
    PROVE  CacheInv'
  <1>1. PICK h \in Houses : h = writer[w].row /\ h \in Rows
    BY CopyHeld, Tables DEF DeleteHousehold, Remove
  <1>2. EvictHousehold(h) \in Seq(Eviction)
    BY <1>1, HouseholdCovers
  <1> DEFINE gone == rows \cap WithDependents(h)
  <1>3. ASSUME NEW k \in Keys, Shows(k, gone), Reachable(k)'
        PROVE  Covers(EvictHousehold(h), k, rows')
    <2>1. gone \in SUBSET Rows
      BY DEF CacheInv, Types
    <2>2. /\ \A l \in gone \cap Lists : HouseOf[l] = h
          /\ \A c \in gone \cap Cats : HouseOf[c] = h
          /\ \A g \in gone \cap Houses : g = h
          /\ \A i \in gone \cap Items : HouseOf[ListOf[i]] = h
      <3>1. \A x \in gone : x \in Rows
        BY <2>1
      <3>2. h \notin Lists /\ h \notin Items /\ h \notin Cats
        BY <1>1, SortOfRow
      <3>3. ASSUME NEW l \in gone \cap Lists PROVE HouseOf[l] = h
        BY <3>1, <3>2, SortOfRow DEF WithDependents, ListsOf, CatsOf, ItemsIn
      <3>4. ASSUME NEW c \in gone \cap Cats PROVE HouseOf[c] = h
        BY <3>1, <3>2, SortOfRow DEF WithDependents, ListsOf, CatsOf, ItemsIn
      <3>5. ASSUME NEW g \in gone \cap Houses PROVE g = h
        BY <3>1, <3>2, SortOfRow DEF WithDependents, ListsOf, CatsOf, ItemsIn
      <3>6. ASSUME NEW i \in gone \cap Items PROVE HouseOf[ListOf[i]] = h
        <4>1. i \notin Houses /\ i \notin Lists /\ i \notin Cats /\ i # h
          BY <3>1, <3>2, SortOfRow
        <4>2. ListOf[i] # h
          BY <3>2, HouseOfRow
        <4>3. ListOf[i] \in ListsOf(h)
          BY <4>1, <4>2 DEF WithDependents, ListsOf, CatsOf, ItemsIn
        <4> QED BY <4>3 DEF ListsOf
      <3> QED BY <3>3, <3>4, <3>5, <3>6
    <2>3. PICK G : G = gone
      OBVIOUS
    <2>4. G \in SUBSET Rows /\ Shows(k, G)
      BY <1>3, <2>1, <2>3
    <2>5. \/ k[1] = "mine"
          \/ k[1] \in {"household", "item", "category", "list"} /\ k[2] \in G
          \/ k[1] = "lists" /\ k[2] = h
          \/ k[1] \in {"list", "items"}
          \/ k[1] = "categories" /\ k[2] = h
      BY <2>2, <2>3, <2>4, ShowsByKind
    <2>6. \/ k[1] \in {"mine", "list", "items", "item"}
          \/ k[1] \in {"household", "lists", "categories"} /\ k[2] = h
          \/ k[1] = "category" /\ HouseOf[k[2]] = h
      BY <2>2, <2>3, <2>5, KeyKinds
    <2> QED BY <2>6, HouseholdCovers
  <1> QED BY <1>1, <1>2, <1>3, DeleteKeeps DEF DeleteHousehold

LEMMA DeleteListKeeps ==
    ASSUME CacheInv, NEW w \in Writers, DeleteList(w)
    PROVE  CacheInv'
  <1>1. PICK l \in Lists : l = writer[w].row /\ l \in Rows
    BY CopyHeld, Tables DEF DeleteList, Remove
  <1>2. EvictOneList(l) \in Seq(Eviction)
    BY <1>1, OneListCovers
  <1> DEFINE gone == rows \cap WithDependents(l)
  <1>3. ASSUME NEW k \in Keys, Shows(k, gone), Reachable(k)'
        PROVE  Covers(EvictOneList(l), k, rows')
    <2>1. gone \in SUBSET Rows
      BY DEF CacheInv, Types
    <2>2. l \notin Houses /\ l \notin Items /\ l \notin Cats
      BY <1>1, SortOfRow
    <2>3. \A x \in gone : x = l \/ (x \in Items /\ ListOf[x] = l)
      BY <2>2 DEF WithDependents, ItemsIn
    <2>4. PICK G : G = gone
      OBVIOUS
    <2>5. G \in SUBSET Rows /\ Shows(k, G)
      BY <1>3, <2>1, <2>4
    <2>6. \A x \in G : x \notin Houses /\ x \notin Cats /\ (x \in Lists => x = l)
      BY <2>1, <2>2, <2>3, <2>4, SortOfRow
    <2>7. \/ k[1] \in {"household", "item", "category", "list"} /\ k[2] \in G
          \/ k[1] = "lists" /\ k[2] = HouseOf[l]
          \/ k[1] \in {"list", "items"} /\ k[2] = l
      <3>1. \A x \in G : x \in Items => ListOf[x] = l
        BY <2>2, <2>3, <2>4
      <3> QED BY <2>5, <2>6, <3>1, ShowsByKind
    <2>8. k[1] \in {"household", "item", "list"} => k[2] \notin G
      <3>1. rows' = rows \ G
        BY <1>1, <2>4 DEF DeleteList, Remove
      <3> QED BY <1>3, <3>1, ReachableByKind
    <2>9. k[1] = "items" => k[2] # l
      BY <1>1, <1>3, ReachableByKind DEF DeleteList, Remove, WithDependents
    <2>10. \/ k[1] = "lists" /\ k[2] = HouseOf[l]
           \/ k[1] = "list" /\ k[2] = l
      BY <2>6, <2>7, <2>8, <2>9, KeyKinds
    <2> QED BY <2>10, KeyIsPair, OneListCovers
  <1> QED BY <1>1, <1>2, <1>3, DeleteKeeps DEF DeleteList

LEMMA DeleteItemKeeps ==
    ASSUME CacheInv, NEW w \in Writers, DeleteItem(w)
    PROVE  CacheInv'
  <1>1. PICK i \in Items : i = writer[w].row /\ i \in Rows
    BY CopyHeld, Tables DEF DeleteItem, Remove
  <1>2. EvictItem(i) \in Seq(Eviction)
    BY <1>1, ItemCovers
  <1> DEFINE gone == rows \cap WithDependents(i)
  <1>3. ASSUME NEW k \in Keys, Shows(k, gone), Reachable(k)'
        PROVE  Covers(EvictItem(i), k, rows')
    <2>1. i \notin Houses /\ i \notin Lists /\ i \notin Cats /\ ListOf[i] \in Lists
      BY <1>1, SortOfRow, HouseOfRow
    <2>2. gone \subseteq {i}
      <3>1. \A x \in Items : ListOf[x] # i
        BY <2>1, HouseOfRow
      <3> QED BY <2>1, <3>1 DEF WithDependents, ItemsIn
    <2>3. i \in gone
      BY <1>3, <2>2 DEF Shows
    <2>4. ListOf[i] \in rows /\ ListOf[i] # i
      BY <2>1, <2>3, <1>1 DEF CacheInv, Types, ParentExists
    <2>5. rows' = rows \ {i} /\ ListOf[i] \in rows'
      BY <1>1, <2>2, <2>3, <2>4 DEF DeleteItem, Remove
    <2>6. Shows(k, {i})
      BY <1>3, <2>2 DEF Shows
    <2>7. Reachable(k)
      BY <1>3, <2>5, ReachableByKind
    <2>8. {i} \in SUBSET Rows
      BY <1>1
    <2>9. \/ k[1] = "lists" /\ k[2] = HouseOf[ListOf[i]]
          \/ k[1] \in {"list", "items"} /\ k[2] = ListOf[i]
          \/ k[1] \in {"household", "item", "category", "list"} /\ k[2] = i
      BY <2>1, <2>6, <2>8, ShowsByKind
    <2>10. k[1] \in {"household", "item", "category", "list"} /\ k[2] = i => k[1] = "item"
      BY <2>1, KeyKinds
    <2> QED BY <2>5, <2>9, <2>10, KeyIsPair, ItemCovers
  <1> QED BY <1>1, <1>2, <1>3, DeleteKeeps DEF DeleteItem

LEMMA DeleteCategoryKeeps ==
    ASSUME CacheInv, NEW w \in Writers, DeleteCategory(w)
    PROVE  CacheInv'
  <1>1. PICK also : Remove(w, Cats, also, EvictCategories(HouseOf[writer[w].row]))
    BY DEF DeleteCategory
  <1>2. PICK c \in Cats : c = writer[w].row /\ c \in Rows
    BY <1>1, CopyHeld, Tables DEF Remove
  <1> DEFINE h == HouseOf[c]
             gone == rows \cap WithDependents(c)
  <1>3. h \in Houses /\ <<"categories", h>> \in Keys
    BY HouseOfRow DEF Keys
  <1>4. EvictCategories(h) \in Seq(Eviction)
    BY <1>3, CategoriesCovers
  <1>5. ASSUME NEW k \in Keys, Shows(k, gone), Reachable(k)'
        PROVE  Covers(EvictCategories(h), k, rows')
    <2>1. c \notin Houses /\ c \notin Lists /\ c \notin Items
      BY <1>2, SortOfRow
    <2>2. gone \subseteq {c}
      <3>1. \A x \in Items : ListOf[x] # c
        BY <2>1, HouseOfRow
      <3> QED BY <2>1, <3>1 DEF WithDependents, ItemsIn
    <2>3. PICK C : C = gone
      OBVIOUS
    <2>4. C \in SUBSET CatsOf(h) /\ Shows(k, C)
      BY <1>5, <2>2, <2>3 DEF CatsOf
    <2>5. rows' \subseteq rows \cup C
      BY <1>1 DEF Remove
    <2> QED BY <1>3, <1>5, <2>4, <2>5, CategoriesRewritten
  <1> QED BY <1>1, <1>2, <1>4, <1>5, DeleteKeeps

-----------------------------------------------------------------------------
(* Steps that write no row.                                                *)
LEMMA HeldBack ==
    ASSUME CacheInv, NEW w \in Writers,
           writer[w].todo = <<>>, UNCHANGED <<rows, used, raised, cached, reader>>,
           WriterTypes', \A v \in Writers \ {w} : writer'[v] = writer[v]
    PROVE  CacheInv'
  <1>1. Types' /\ UnusedUnread'
    BY DEF CacheInv, Types, UnusedUnread, ParentExists
  <1>2. ASSUME NEW k, Pending(k) PROVE Pending(k)'
    <2>1. PICK v \in Writers : Covers(writer[v].todo, k, rows)
      BY <1>2, PendingCovers
    <2>2. v # w
      BY <2>1 DEF Covers
    <2> QED BY <2>1, <2>2, PendingCovers
  <1>3. StaleOnlyIfExcused'
    BY <1>2, ReachableByKind DEF CacheInv, StaleOnlyIfExcused
  <1> QED BY <1>1, <1>3 DEF CacheInv

LEMMA IdleTyped ==
    ASSUME NEW S
    PROVE  Idle \in [at : {"idle", "save", "delete", "evict"},
                    row : S \cup {NONE}, todo : Seq(Eviction)]
  BY DEF Idle

LEMMA ReadKeeps ==
    ASSUME CacheInv, NEW w \in Writers, NEW r \in rows, NEW at \in {"save", "delete"},
           Read(w, r, at)
    PROVE  CacheInv'
  <1>1. r \in used
    BY DEF CacheInv, Types
  <1>2. WriterTypes'
    BY <1>1 DEF CacheInv, WriterTypes, Read
  <1>3. writer[w].todo = <<>> /\ \A v \in Writers \ {w} : writer'[v] = writer[v]
    BY DEF CacheInv, WriterTypes, Read
  <1> QED BY <1>2, <1>3, HeldBack DEF Read

LEMMA SaveRefusedKeeps ==
    ASSUME CacheInv, NEW w \in Writers, SaveRefused(w)
    PROVE  CacheInv'
  <1>1. WriterTypes'
    BY IdleTyped DEF CacheInv, WriterTypes, SaveRefused, Finish, Idle
  <1>2. writer[w].todo = <<>> /\ \A v \in Writers \ {w} : writer'[v] = writer[v]
    BY DEF CacheInv, WriterTypes, SaveRefused, Finish
  <1> QED BY <1>1, <1>2, HeldBack DEF SaveRefused

(* An eviction list loses nothing but what was removed from the cache.     *)
LEMMA EvictionKeeps ==
    ASSUME CacheInv, NEW w \in Writers, UNCHANGED <<rows, used, raised, reader>>,
           WriterTypes', \A v \in Writers \ {w} : writer'[v] = writer[v],
           cached' \in [Keys -> {NONE, "fresh", "stale", "excused"}],
           \A k \in Keys :
              /\ cached'[k] = "stale" => cached[k] = "stale"
              /\ cached[k] = NONE => cached'[k] = NONE
              /\ cached'[k] = "stale" /\ Covers(writer[w].todo, k, rows) =>
                    Covers(writer'[w].todo, k, rows)
    PROVE  CacheInv'
  <1>1. Types' /\ UnusedUnread'
    BY DEF CacheInv, Types, UnusedUnread, ParentExists
  <1>2. StaleOnlyIfExcused'
    <2> SUFFICES ASSUME NEW k \in Keys, cached'[k] = "stale", Reachable(k)'
                 PROVE  Pending(k)' \/ Excuse(k)'
      BY DEF StaleOnlyIfExcused, Excuse
    <2>1. Reachable(k) /\ cached[k] = "stale"
      BY ReachableByKind
    <2>2. Pending(k) \/ Excuse(k)
      BY <2>1 DEF CacheInv, StaleOnlyIfExcused, Excuse
    <2>3. ASSUME Pending(k) PROVE Pending(k)'
      <3>1. PICK v \in Writers : Covers(writer[v].todo, k, rows)
        BY <2>3, PendingCovers
      <3>2. CASE v = w
        BY <3>1, <3>2, PendingCovers
      <3>3. CASE v # w
        BY <3>1, <3>3, PendingCovers
      <3> QED BY <3>2, <3>3
    <2> QED BY <2>2, <2>3 DEF Excuse
  <1> QED BY <1>1, <1>2 DEF CacheInv

LEMMA HeadCovers ==
    ASSUME NEW t \in Seq(Eviction), t # <<>>, NEW k, NEW R
    PROVE  /\ Head(t) \in Eviction /\ Tail(t) \in Seq(Eviction)
           /\ Covers(t, k, R) <=> k \in CoveredIn(Head(t), R) \/ Covers(Tail(t), k, R)
  <1>1. Head(t) \in Eviction /\ Tail(t) \in Seq(Eviction) /\ t = <<Head(t)>> \o Tail(t)
    BY HeadTailProperties
  <1>2. <<Head(t)>> \in Seq(Eviction)
    BY <1>1, CoversOne
  <1>3. Covers(t, k, R) <=> Covers(<<Head(t)>>, k, R) \/ Covers(Tail(t), k, R)
    BY <1>1, <1>2, CoversConcat
  <1> QED BY <1>1, <1>3, CoversOne

LEMMA LookUpKeeps ==
    ASSUME CacheInv, NEW w \in Writers, LookUp(w)
    PROVE  CacheInv'
  <1>1. PICK t \in Seq(Eviction) : t = writer[w].todo
    BY DEF CacheInv, WriterTypes
  <1>2. t # <<>> /\ Head(t) \in Eviction /\ Tail(t) \in Seq(Eviction)
    BY <1>1, HeadCovers DEF LookUp
  <1>3. PICK l \in Lists : l = Head(t).of
    BY <1>1, <1>2 DEF LookUp, Eviction
  <1>4. PICK u : u = KeysOfList(l) \o Tail(t)
    OBVIOUS
  <1>5. u \in Seq(Eviction)
    BY <1>2, <1>4, KeysOfListCovers, CoversConcat
  <1>6. writer' = [writer EXCEPT ![w].todo = u]
    BY <1>1, <1>3, <1>4 DEF LookUp
  <1>7. WriterTypes'
    BY <1>1, <1>2, <1>5, <1>6 DEF CacheInv, WriterTypes, LookUp
  <1>8. ASSUME NEW k \in Keys, Covers(t, k, rows)
        PROVE  Covers(u, k, rows)
    <2>1. k \in CoveredIn(Head(t), rows) \/ Covers(Tail(t), k, rows)
      BY <1>2, <1>8, HeadCovers
    <2>2. l # NONE /\ Head(t).keys = {}
      BY <1>2, <1>3, RowsAssumption DEF Eviction, Rows
    <2>3. CoveredIn(Head(t), rows) = CoveredIn(Later(l), rows)
      BY <1>3, <2>2 DEF CoveredIn, Later
    <2>4. Covers(KeysOfList(l), k, rows) \/ Covers(Tail(t), k, rows)
      BY <2>1, <2>3, KeysOfListCovers
    <2>5. KeysOfList(l) \in Seq(Eviction)
      BY KeysOfListCovers
    <2>6. Covers(KeysOfList(l) \o Tail(t), k, rows)
      BY <1>2, <2>4, <2>5, CoversConcat
    <2> QED BY <1>4, <2>6
  <1>9. writer'[w].todo = u /\ \A v \in Writers \ {w} : writer'[v] = writer[v]
    BY <1>6 DEF CacheInv, WriterTypes
  <1>10. cached' \in [Keys -> {NONE, "fresh", "stale", "excused"}]
    BY DEF LookUp, CacheInv, Types
  <1> QED BY <1>1, <1>7, <1>8, <1>9, <1>10, EvictionKeeps DEF LookUp

(* Delete and DeleteByPattern, whose errors are an excuse for the copies   *)
(* they leave.                                                             *)
LEMMA RemainingKeeps ==
    ASSUME WriterTypes, NEW w \in Writers, NEW t \in Seq(Eviction), t = writer[w].todo,
           t # <<>>, Remaining(w, Tail(t)), UNCHANGED used
    PROVE  /\ WriterTypes'
           /\ writer'[w].todo = Tail(t)
           /\ \A v \in Writers \ {w} : writer'[v] = writer[v]
  <1>1. Tail(t) \in Seq(Eviction) /\ writer[w].at = "evict"
    BY HeadCovers DEF WriterTypes
  <1>2. CASE Tail(t) = <<>>
    <2>1. writer' = [writer EXCEPT ![w] = Idle]
      BY <1>2 DEF Remaining
    <2> QED BY <1>2, <2>1, IdleTyped DEF WriterTypes, Idle
  <1>3. CASE Tail(t) # <<>>
    <2>1. writer' = [writer EXCEPT ![w] = [@ EXCEPT !.todo = Tail(t)]]
      BY <1>3 DEF Remaining
    <2> QED BY <1>1, <2>1 DEF WriterTypes
  <1> QED BY <1>2, <1>3

LEMMA EvictKeeps ==
    ASSUME CacheInv, NEW w \in Writers, NEW K, Evict(w) \/ EvictFails(w, K)
    PROVE  CacheInv'
  <1>1. PICK t \in Seq(Eviction) : t = writer[w].todo
    BY DEF CacheInv, WriterTypes
  <1>2. /\ t # <<>> /\ Head(t).of = NONE /\ Remaining(w, Tail(t))
        /\ UNCHANGED <<rows, used, raised, reader>>
    BY <1>1 DEF Evict, EvictFails
  <1>3. ASSUME NEW k \in Keys
        PROVE  /\ cached'[k] \in {NONE, "fresh", "stale", "excused"}
               /\ cached'[k] = "stale" => cached[k] = "stale" /\ k \notin Head(t).keys
               /\ cached[k] = NONE => cached'[k] = NONE
    <2>1. CASE Evict(w)
      BY <1>1, <2>1, RowsAssumption DEF CacheInv, Types, Evict
    <2>2. CASE EvictFails(w, K)
      <3>1. cached'[k] = CASE k \in K -> NONE
                           [] k \in Head(t).keys \ K /\ cached[k] = "stale" -> "excused"
                           [] OTHER -> cached[k]
        BY <1>1, <2>2 DEF EvictFails
      <3>2. NONE \notin {"stale", "excused"} /\ K \subseteq Head(t).keys
        BY <1>1, <2>2, RowsAssumption DEF EvictFails
      <3> QED BY <3>1, <3>2 DEF CacheInv, Types
    <2> QED BY <2>1, <2>2
  <1>4. cached' = [k \in Keys |-> cached'[k]]
    BY DEF Evict, EvictFails
  <1>5. cached' \in [Keys -> {NONE, "fresh", "stale", "excused"}]
    BY <1>3, <1>4
  <1>6. /\ WriterTypes' /\ writer'[w].todo = Tail(t)
        /\ \A v \in Writers \ {w} : writer'[v] = writer[v]
    BY <1>1, <1>2, RemainingKeeps DEF CacheInv
  <1>7. ASSUME NEW k \in Keys, cached'[k] = "stale", Covers(t, k, rows)
        PROVE  Covers(Tail(t), k, rows)
    BY <1>2, <1>3, <1>7, HeadCovers DEF CoveredIn
  <1> QED BY <1>1, <1>2, <1>3, <1>5, <1>6, <1>7, EvictionKeeps

LEMMA StopKeeps ==
    ASSUME CacheInv, NEW w \in Writers, Stop(w)
    PROVE  CacheInv'
  <1> DEFINE lost == UNION {Covered(writer[w].todo[n]) : n \in DOMAIN writer[w].todo}
  <1>1. WriterTypes' /\ \A v \in Writers \ {w} : writer'[v] = writer[v]
    BY IdleTyped DEF CacheInv, WriterTypes, Stop, Finish, Idle
  <1>2. \A k \in Keys : Covers(writer[w].todo, k, rows) => k \in lost
    BY DEF Covers, Covered, CoveredIn
  <1>3. cached' = [k \in Keys |-> IF k \in lost /\ cached[k] = "stale" THEN "excused" ELSE cached[k]]
    BY DEF Stop
  <1> HIDE DEF lost
  <1>4. /\ cached' \in [Keys -> {NONE, "fresh", "stale", "excused"}]
        /\ \A k \in Keys :
              /\ cached'[k] = "stale" => cached[k] = "stale" /\ k \notin lost
              /\ cached[k] = NONE => cached'[k] = NONE
    BY <1>3, RowsAssumption DEF CacheInv, Types
  <1> QED BY <1>1, <1>2, <1>4, EvictionKeeps DEF Stop

-----------------------------------------------------------------------------
(* The readers.  A copy of a list or an item is asked for only when the    *)
(* row is, or has been, there.                                             *)
LEMMA ReaderKeeps ==
    ASSUME CacheInv, UNCHANGED <<rows, used, raised, writer>>,
           cached' \in [Keys -> {NONE, "fresh", "stale", "excused"}],
           reader' \in [Readers -> {NONE} \cup [key : Keys, fresh : BOOLEAN]],
           UnusedUnread',
           \A k \in Keys : cached'[k] = "stale" => cached[k] = "stale" \/ Pending(k)
    PROVE  CacheInv'
  <1>1. Types' /\ WriterTypes'
    BY DEF CacheInv, Types, WriterTypes, ParentExists
  <1>2. \A k : Pending(k) => Pending(k)'
    BY PendingCovers
  <1>3. StaleOnlyIfExcused'
    BY <1>2, ReachableByKind DEF CacheInv, StaleOnlyIfExcused
  <1> QED BY <1>1, <1>3 DEF CacheInv

LEMMA LoadKeeps ==
    ASSUME CacheInv, NEW r \in Readers, NEW k \in Keys, Load(r, k),
           k[1] \in {"list", "items", "item"} => k[2] \in used
    PROVE  CacheInv'
  <1>1. reader' \in [Readers -> {NONE} \cup [key : Keys, fresh : BOOLEAN]]
    BY DEF CacheInv, Types, Load
  <1>2. UnusedUnread'
    BY DEF CacheInv, Types, UnusedUnread, Load
  <1>3. cached' \in [Keys -> {NONE, "fresh", "stale", "excused"}]
    BY DEF CacheInv, Types, Load
  <1> QED BY <1>1, <1>2, <1>3, ReaderKeeps DEF Load

LEMMA FillKeeps ==
    ASSUME CacheInv, NEW r \in Readers, Fill(r) \/ FillFails(r)
    PROVE  CacheInv'
  <1>1. reader[r] # NONE /\ reader[r].key \in Keys /\ reader' = [reader EXCEPT ![r] = NONE]
    BY DEF CacheInv, Types, Fill, FillFails
  <1>2. PICK k \in Keys : k = reader[r].key
    BY <1>1
  <1>3. cached' = cached \/ \E c \in {"fresh", "stale", "excused"} :
            cached' = [cached EXCEPT ![k] = c] /\ (c = "stale" => Pending(k))
    BY <1>2 DEF Fill, FillFails
  <1>4. /\ cached' \in [Keys -> {NONE, "fresh", "stale", "excused"}]
        /\ \A x \in Keys : /\ cached'[x] = "stale" => cached[x] = "stale" \/ Pending(x)
                           /\ x # k => cached'[x] = cached[x]
    BY <1>3 DEF CacheInv, Types
  <1>5. reader' \in [Readers -> {NONE} \cup [key : Keys, fresh : BOOLEAN]]
    BY <1>1 DEF CacheInv, Types
  <1>6. UnusedUnread'
    BY <1>1, <1>2, <1>4 DEF CacheInv, Types, UnusedUnread, Fill, FillFails
  <1> QED BY <1>4, <1>5, <1>6, ReaderKeeps DEF Fill, FillFails

LEMMA ExpireKeeps ==
    ASSUME CacheInv, NEW k \in Keys, Expire(k)
    PROVE  CacheInv'
  <1>1. cached' \in [Keys -> {NONE, "fresh", "stale", "excused"}]
    BY DEF CacheInv, Types, Expire
  <1>2. \A x \in Keys : cached'[x] = cached[x] \/ cached'[x] = NONE
    BY DEF CacheInv, Types, Expire
  <1>3. UnusedUnread' /\ reader' \in [Readers -> {NONE} \cup [key : Keys, fresh : BOOLEAN]]
    BY <1>2 DEF CacheInv, Types, UnusedUnread, Expire
  <1> QED BY <1>1, <1>2, <1>3, RowsAssumption, ReaderKeeps DEF Expire

LEMMA ReadingKeeps ==
    ASSUME CacheInv, NEW r \in Readers, Reading(r)
    PROVE  CacheInv'
  <1>1. rows \subseteq used
    BY DEF CacheInv, Types
  <1>2. ASSUME NEW h \in Houses,
               GetHousehold(r, h) \/ ListByHouseholdID(r, h) \/ ListCategories(r, h)
        PROVE  CacheInv'
    <2>1. /\ <<"household", h>> \in Keys /\ <<"lists", h>> \in Keys
          /\ <<"categories", h>> \in Keys
      BY DEF Keys
    <2> QED BY <1>2, <2>1, LoadKeeps DEF GetHousehold, ListByHouseholdID, ListCategories
  <1>3. ASSUME NEW u \in Users, ListByUser(r, u)
        PROVE  CacheInv'
    <2>1. <<"mine", u>> \in Keys
      BY DEF Keys
    <2> QED BY <1>3, <2>1, LoadKeeps DEF ListByUser
  <1>4. ASSUME NEW l \in Lists, GetList(r, l) \/ ListByListID(r, l)
        PROVE  CacheInv'
    <2>1. <<"list", l>> \in Keys /\ <<"items", l>> \in Keys
      BY DEF Keys
    <2> QED BY <1>1, <1>4, <2>1, LoadKeeps DEF GetList, ListByListID
  <1>5. ASSUME NEW i \in Items, GetItem(r, i)
        PROVE  CacheInv'
    <2>1. <<"item", i>> \in Keys
      BY DEF Keys
    <2> QED BY <1>1, <1>5, <2>1, LoadKeeps DEF GetItem
  <1>6. ASSUME NEW c \in Cats, GetCategory(r, c)
        PROVE  CacheInv'
    <2>1. <<"category", c>> \in Keys
      BY DEF Keys
    <2> QED BY <1>6, <2>1, LoadKeeps DEF GetCategory
  <1> QED BY <1>2, <1>3, <1>4, <1>5, <1>6, FillKeeps DEF Reading

-----------------------------------------------------------------------------
LEMMA WritesKeep ==
    ASSUME CacheInv, NEW w \in Writers, Writes(w)
    PROVE  CacheInv'
  BY CreateHouseholdKeeps, ChangeMembersKeeps, ReorderKeeps, CreateListKeeps,
     CreateItemKeeps, CreateCategoryKeeps, ReadKeeps, UpdateHouseholdKeeps,
     UpdateListKeeps, UpdateItemKeeps, UpdateCategoryKeeps, SaveRefusedKeeps,
     DeleteHouseholdKeeps, DeleteListKeeps, DeleteItemKeeps, DeleteCategoryKeeps
  DEF Writes

LEMMA CacheInvInductive ==
    ASSUME CacheInv, [Next]_vars
    PROVE  CacheInv'
  <1>1. ASSUME NEW w \in Writers, Writes(w) PROVE CacheInv'
    BY <1>1, WritesKeep
  <1>2. ASSUME NEW w \in Writers, Evictions(w) PROVE CacheInv'
    BY <1>2, LookUpKeeps, EvictKeeps, StopKeeps DEF Evictions
  <1>3. ASSUME NEW r \in Readers, Reading(r) PROVE CacheInv'
    BY <1>3, ReadingKeeps
  <1>4. ASSUME NEW k \in Keys, Expire(k) PROVE CacheInv'
    BY <1>4, ExpireKeeps
  <1>5. CASE UNCHANGED vars
    <2>1. \A k : Pending(k) => Pending(k)'
      BY <1>5, PendingCovers DEF vars
    <2>2. StaleOnlyIfExcused'
      BY <1>5, <2>1, ReachableByKind DEF vars, CacheInv, StaleOnlyIfExcused
    <2> QED BY <1>5, <2>2 DEF vars, CacheInv, Types, WriterTypes, UnusedUnread, ParentExists
  <1> QED BY <1>1, <1>2, <1>3, <1>4, <1>5 DEF Next

LEMMA CacheInvInitially == Init => CacheInv
  <1> SUFFICES ASSUME Init PROVE CacheInv
    OBVIOUS
  <1>1. Types /\ UnusedUnread
    BY DEF Init, Types, UnusedUnread
  <1>2. WriterTypes
    BY IdleTyped DEF Init, WriterTypes, Idle
  <1>3. \A k \in Keys : cached[k] # "stale"
    BY RowsAssumption DEF Init
  <1> QED BY <1>1, <1>2, <1>3 DEF CacheInv, StaleOnlyIfExcused

(* Types, foreign keys included: whatever handlers write back after a      *)
(* deletion (shoppinglist, shoppingitem and household services).           *)
THEOREM CacheTypes == Spec => []TypeOK
  <1>1. CacheInv => TypeOK
    BY DEF CacheInv, Types, WriterTypes, TypeOK
  <1> QED BY <1>1, CacheInvInitially, CacheInvInductive, PTL DEF Spec

(* A reachable copy that a committed write has overtaken is still going to *)
(* be evicted, unless the eviction failed, the fill came after it or it is *)
(* the items of a list brought back from deletion: for any number of rows, *)
(* handlers and readers of the four services.                              *)
THEOREM CacheStaleness == Spec => []StaleOnlyIfExcused
  <1>1. CacheInv => StaleOnlyIfExcused
    BY DEF CacheInv
  <1> QED BY <1>1, CacheInvInitially, CacheInvInductive, PTL DEF Spec
=============================================================================
