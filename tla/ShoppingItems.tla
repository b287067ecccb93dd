---------------------------- MODULE ShoppingItems ----------------------------
(***************************************************************************)
(* internal/shoppingitem/service.go: the items of one shopping list and    *)
(* the history of their completions, as concurrent handlers see them.      *)
(* Every SQL statement is one step.  A handler that changes an item reads  *)
(* the whole row, changes its copy, and gorm's Save writes the whole copy  *)
(* back: an UPDATE of every column, or, if no row was there to update, an  *)
(* INSERT ... ON CONFLICT DO UPDATE of the copy.                           *)
(*                                                                         *)
(* Abstractions.  name, quantity and unit carry no rule and are left out;  *)
(* "every" stands for the four recurrence rules.  next_due_at is whether   *)
(* it is set, and a set one may be found to have passed at any time.  Of   *)
(* updated_at only what base_updated_at is for is kept: whether the row    *)
(* was written after a handler had compared them.  Cache eviction and      *)
(* notification, which follow each write, touch none of this state.        *)
(***************************************************************************)
EXTENDS Naturals, FiniteSets

CONSTANTS
    Items,        \* ids shopping_items may ever give out (a bound for TLC)
    HistIds,      \* entries shopping_history may hold at once (a bound)
    Cats,         \* categories, of this household and of others
    OwnCats,      \* those of the household the list belongs to
    Procs,        \* the handlers that may be running at once
    BaseGiven,    \* TRUE: update requests may give base_updated_at
    MayFail,      \* TRUE: a statement may fail, or the process crash
    NONE,         \* no row, no category
    KEEP          \* a field an update request leaves out

Rules == {"none", "every"}
Row == [done : BOOLEAN, rule : Rules, due : BOOLEAN, cat : Cats \cup {NONE}]
Entry == [item : Items \cup {NONE}, cat : Cats \cup {NONE}]

ASSUME CatsAssumption == OwnCats \subseteq Cats /\ NONE \notin Cats
ASSUME IdsAssumption == NONE \notin Items /\ NONE \notin HistIds
ASSUME NoneAssumption == NONE \notin Row /\ NONE \notin Entry
ASSUME KeepAssumption == KEEP \notin Rules /\ KEEP \notin BOOLEAN /\ KEEP \notin Cats \cup {NONE}
ASSUME SwitchAssumption == BaseGiven \in BOOLEAN /\ MayFail \in BOOLEAN

VARIABLES
    row,       \* shopping_items: id -> row, or NONE
    used,      \* the ids given out so far
    hist,      \* shopping_history: id -> entry, or NONE
    cats,      \* the categories that exist
    listUp,    \* the list exists
    pc,        \* the statement each handler executes next
    copy,      \* the rows it has read and will save: id -> row, or NONE
    new,       \* the row it is about to insert, or NONE
    base,      \* its base_updated_at: "none", "current", or "outdated" once
               \* the row was written after the comparison
    recorded,  \* history: the items a history entry was ever written for
    bornDone   \* history: the items created with is_completed set

tables == <<row, used, hist, cats, listUp>>
vars == <<row, used, hist, cats, listUp, pc, copy, new, base, recorded, bornDone>>
ghosts == <<recorded, bornDone>>

(* An update request: KEEP leaves a field out; cat NONE is category_id 0. *)
Request == [cat : Cats \cup {NONE, KEEP}, rule : Rules \cup {KEEP}, done : BOOLEAN \cup {KEEP}]
NoCopy == [i \in Items |-> NONE]

Init ==
    /\ row = [i \in Items |-> NONE] /\ used = {}
    /\ hist = [h \in HistIds |-> NONE]
    /\ cats = Cats /\ listUp = TRUE
    /\ pc = [p \in Procs |-> "idle"]
    /\ copy = [p \in Procs |-> NoCopy]
    /\ new = [p \in Procs |-> NONE]
    /\ base = [p \in Procs |-> "none"]
    /\ recorded = {} /\ bornDone = {}

-----------------------------------------------------------------------------
(* Pure parts. *)

(* Mutant: any category that exists will do. *)
ValidCategoryAnywhere(c) == c \in {NONE, KEEP} \cup cats
(* validateCategoryID: none asked for, or one of this household.          *)
ValidCategory(c) == c \in {NONE, KEEP} \cup (cats \cap OwnCats)

(* Foreign keys of a row or entry to be written (external: PostgreSQL).   *)
KeysHold(r) == listUp /\ r.cat \in cats \cup {NONE}

Completing(r, done) == done = TRUE /\ ~r.done

(* Mutant: reopening an item leaves next_due_at in place. *)
WithDoneNoReset(r, done) ==
    IF done = KEEP THEN r
    ELSE [r EXCEPT !.done = done, !.due = (Completing(r, done) /\ r.rule # "none") \/ @]
(* is_completed: completing a recurring item schedules it, reopening an   *)
(* item clears the schedule.                                              *)
WithDone(r, done) ==
    IF done = KEEP THEN r
    ELSE [r EXCEPT !.done = done,
                   !.due = IF Completing(r, done) /\ r.rule # "none" THEN TRUE ELSE @ /\ done]

(* Mutant: a rule given to a completed item schedules nothing. *)
WithRuleUnscheduled(r, rule) ==
    IF rule = KEEP THEN r
    ELSE [r EXCEPT !.rule = rule, !.due = rule # "none" /\ @]
(* recurrence_rule: clearing it clears the schedule, setting it on a      *)
(* completed item schedules the item.                                     *)
WithRule(r, rule) ==
    IF rule = KEEP THEN r
    ELSE [r EXCEPT !.rule = rule, !.due = rule # "none" /\ (r.done \/ @)]

WithCat(r, c) == IF c = KEEP THEN r ELSE [r EXCEPT !.cat = c]

(* Update's assignments, in the order of the code. *)
Updated(r, q) == WithDone(WithRule(WithCat(r, q.cat), q.rule), q.done)

(* rollOverDueItems' condition, next_due_at <= now apart. *)
MayBeDue(r) == r # NONE /\ r.done /\ r.rule # "none" /\ r.due

Goto(p, label, c) == pc' = [pc EXCEPT ![p] = label] /\ copy' = [copy EXCEPT ![p] = c]
Forget(p) == new' = [new EXCEPT ![p] = NONE] /\ base' = [base EXCEPT ![p] = "none"]
Return(p) == Goto(p, "idle", NoCopy) /\ Forget(p)

Holding(p) == {i \in Items : copy[p][i] # NONE}

-----------------------------------------------------------------------------
(* Statements that several handlers end with. *)

(* The sequence behind shopping_items.id. *)
Fresh(i) == i \notin used

(* The INSERT of new[p]. *)
Insert(p) ==
    \/ /\ KeysHold(new[p])
       /\ \E i \in Items :
           /\ Fresh(i)
           /\ row' = [row EXCEPT ![i] = new[p]]
           /\ used' = used \cup {i}
           /\ bornDone' = IF new[p].done THEN bornDone \cup {i} ELSE bornDone
    \/ /\ ~KeysHold(new[p])
       /\ UNCHANGED <<row, used, bornDone>>

(* The copy of item i written to the table by p, who is done with it.     *)
(* Another handler's comparison of base_updated_at is out of date now.    *)
SaveCopy(p, i) ==
    /\ row' = [row EXCEPT ![i] = copy[p][i]]
    /\ base' = [q \in Procs |->
          CASE q = p -> "none"
            [] q # p /\ base[q] = "current" /\ i \in Holding(q) -> "outdated"
            [] OTHER -> base[q]]

(* Mutant: Update and UpdateCompleted go straight to Save. *)
AfterApplyUnrecorded(r, done) == "save"
(* History is recorded first when the item is being completed. *)
AfterApply(r, done) == IF Completing(r, done) THEN "record" ELSE "save"

-----------------------------------------------------------------------------
(* Create and ReAddFromHistory. *)

(* next_due_at is not set, whatever the rule. *)
CreateRead(p, c, rule, done) ==
    /\ pc[p] = "idle" /\ c # KEEP /\ ValidCategory(c)
    /\ pc' = [pc EXCEPT ![p] = "create"]
    /\ new' = [new EXCEPT ![p] = [done |-> done, rule |-> rule, due |-> FALSE, cat |-> c]]
    /\ UNCHANGED <<tables, copy, base, ghosts>>

ReAddRead(p, h) ==
    /\ pc[p] = "idle" /\ hist[h] # NONE
    /\ pc' = [pc EXCEPT ![p] = "create"]
    /\ new' = [new EXCEPT ![p] = [done |-> FALSE, rule |-> "none", due |-> FALSE,
                                 cat |-> hist[h].cat]]
    /\ UNCHANGED <<tables, copy, base, ghosts>>

(* The INSERT of either. *)
Create(p) ==
    /\ pc[p] = "create"
    /\ Insert(p)
    /\ Return(p)
    /\ UNCHANGED <<hist, cats, listUp, recorded>>

-----------------------------------------------------------------------------
(* Update and UpdateCompleted: read, change the copy, record, save.       *)

(* The row is read; base_updated_at, if given, is the one it has.         *)
UpdateRead(p, i, given) ==
    /\ pc[p] = "idle" /\ row[i] # NONE
    /\ Goto(p, "apply", [NoCopy EXCEPT ![i] = row[i]])
    /\ base' = [base EXCEPT ![p] = IF given THEN "current" ELSE "none"]
    /\ UNCHANGED <<tables, new, ghosts>>

(* The category is validated and the fields are assigned. *)
UpdateApply(p, q) ==
    /\ pc[p] = "apply"
    /\ \/ /\ ValidCategory(q.cat)
          /\ \E i \in Holding(p) :
                Goto(p, AfterApply(copy[p][i], q.done), [copy[p] EXCEPT ![i] = Updated(@, q)])
          /\ UNCHANGED <<new, base>>
       \/ /\ ~ValidCategory(q.cat)
          /\ Return(p)
    /\ UNCHANGED <<tables, ghosts>>

(* UpdateCompleted validates nothing: read and assignment are one step.   *)
UpdateCompleted(p, i, done) ==
    /\ pc[p] = "idle" /\ row[i] # NONE
    /\ Goto(p, AfterApply(row[i], done), [NoCopy EXCEPT ![i] = WithDone(row[i], done)])
    /\ UNCHANGED <<tables, new, base, ghosts>>

(* history.Record: an INSERT whose keys are the list, the item and the    *)
(* category; an error ends the request.                                   *)
Record(p) ==
    /\ pc[p] = "record"
    /\ \E i \in Holding(p) :
        \/ /\ KeysHold(copy[p][i]) /\ row[i] # NONE
           /\ \E h \in HistIds :
               /\ hist[h] = NONE
               /\ hist' = [hist EXCEPT ![h] = [item |-> i, cat |-> copy[p][i].cat]]
           /\ recorded' = recorded \cup {i}
           /\ Goto(p, "save", copy[p])
           /\ UNCHANGED <<new, base>>
        \/ /\ ~(KeysHold(copy[p][i]) /\ row[i] # NONE)
           /\ Return(p)
           /\ UNCHANGED <<hist, recorded>>
    /\ UNCHANGED <<row, used, cats, listUp, bornDone>>

(* gorm's Save. One that violates a foreign key is an error.              *)
Save(p) ==
    /\ pc[p] = "save"
    /\ \E i \in Holding(p) :
        \/ KeysHold(copy[p][i]) /\ SaveCopy(p, i)
        \/ ~KeysHold(copy[p][i]) /\ base' = [base EXCEPT ![p] = "none"] /\ UNCHANGED row
    /\ Goto(p, "idle", NoCopy)
    /\ UNCHANGED <<used, hist, cats, listUp, new, ghosts>>

-----------------------------------------------------------------------------
(* ListByListID first rolls over what is due: one SELECT, then a Save of  *)
(* each row found; a Save that fails is skipped.                          *)

(* Mutant: the loop does not end with the last row. *)
LastDueNever(p, i) == FALSE
(* i is the last of the rows found due. *)
LastDue(p, i) == Holding(p) = {i}

RollOverRead(p, due) ==
    /\ pc[p] = "idle" /\ due # {}
    /\ \A i \in due : MayBeDue(row[i])
    /\ Goto(p, "roll", [i \in Items |->
          IF i \in due THEN [row[i] EXCEPT !.done = FALSE, !.due = FALSE] ELSE NONE])
    /\ UNCHANGED <<tables, new, base, ghosts>>

RollOverSave(p, i) ==
    /\ pc[p] = "roll" /\ i \in Holding(p)
    /\ \/ KeysHold(copy[p][i]) /\ SaveCopy(p, i)
       \/ (~KeysHold(copy[p][i]) \/ MayFail) /\ UNCHANGED <<row, base>>
    /\ Goto(p, IF LastDue(p, i) THEN "idle" ELSE "roll", [copy[p] EXCEPT ![i] = NONE])
    /\ UNCHANGED <<used, hist, cats, listUp, new, ghosts>>

-----------------------------------------------------------------------------
(* Deletions. ON DELETE SET NULL and CASCADE are PostgreSQL's.            *)

DeleteRead(p, i) ==
    /\ pc[p] = "idle" /\ row[i] # NONE
    /\ Goto(p, "delete", [NoCopy EXCEPT ![i] = row[i]])
    /\ UNCHANGED <<tables, new, base, ghosts>>

Delete(p) ==
    /\ pc[p] = "delete"
    /\ \E i \in Holding(p) :
        /\ row' = [row EXCEPT ![i] = NONE]
        /\ hist' = [h \in HistIds |->
              IF row[i] # NONE /\ hist[h] # NONE /\ hist[h].item = i
              THEN [hist[h] EXCEPT !.item = NONE] ELSE hist[h]]
    /\ Return(p)
    /\ UNCHANGED <<used, cats, listUp, ghosts>>

(* history.Service.Delete. *)
DeleteHistory(h) ==
    /\ hist[h] # NONE
    /\ hist' = [hist EXCEPT ![h] = NONE]
    /\ UNCHANGED <<row, used, cats, listUp, pc, copy, new, base, ghosts>>

(* category.Service.Delete. *)
DeleteCategory(c) ==
    /\ c \in cats
    /\ cats' = cats \ {c}
    /\ row' = [i \in Items |-> IF row[i] # NONE /\ row[i].cat = c
                               THEN [row[i] EXCEPT !.cat = NONE] ELSE row[i]]
    /\ hist' = [h \in HistIds |-> IF hist[h] # NONE /\ hist[h].cat = c
                                  THEN [hist[h] EXCEPT !.cat = NONE] ELSE hist[h]]
    /\ UNCHANGED <<used, listUp, pc, copy, new, base, ghosts>>

(* shoppinglist.Service.Delete, one transaction. *)
DeleteList ==
    /\ listUp
    /\ listUp' = FALSE
    /\ row' = [i \in Items |-> NONE]
    /\ hist' = [h \in HistIds |-> NONE]
    /\ UNCHANGED <<used, cats, pc, copy, new, base, ghosts>>

(* The next statement of p fails, or its process stops. Nothing it wrote  *)
(* is undone.                                                             *)
Abort(p) ==
    /\ MayFail /\ pc[p] # "idle"
    /\ Return(p)
    /\ UNCHANGED <<tables, ghosts>>

-----------------------------------------------------------------------------
Handler(p) ==
    \/ \E c \in Cats \cup {NONE}, rule \in Rules, done \in BOOLEAN : CreateRead(p, c, rule, done)
    \/ \E h \in HistIds : ReAddRead(p, h)
    \/ \E i \in Items, given \in {FALSE, BaseGiven} : UpdateRead(p, i, given)
    \/ \E q \in Request : UpdateApply(p, q)
    \/ \E i \in Items, done \in BOOLEAN : UpdateCompleted(p, i, done)
    \/ \E due \in SUBSET Items : RollOverRead(p, due)
    \/ \E i \in Items : DeleteRead(p, i) \/ RollOverSave(p, i)
    \/ Create(p) \/ Record(p) \/ Save(p) \/ Delete(p) \/ Abort(p)

Next ==
    \/ \E p \in Procs : Handler(p)
    \/ \E h \in HistIds : DeleteHistory(h)
    \/ \E c \in Cats : DeleteCategory(c)
    \/ DeleteList

Spec == Init /\ [][Next]_vars

-----------------------------------------------------------------------------
(* Properties. *)

(* Every variable holds the values its comment gives it; a handler about  *)
(* to save or delete holds the copy to do it with, an idle one holds none. *)
OneRow == {"apply", "record", "save", "delete"}
TypeOK ==
    /\ row \in [Items -> Row \cup {NONE}] /\ used \subseteq Items
    /\ \A i \in Items : row[i] # NONE => i \in used
    /\ hist \in [HistIds -> Entry \cup {NONE}]
    /\ cats \subseteq Cats /\ listUp \in BOOLEAN
    /\ pc \in [Procs -> {"idle", "create", "apply", "record", "save", "roll", "delete"}]
    /\ copy \in [Procs -> [Items -> Row \cup {NONE}]]
    /\ new \in [Procs -> Row \cup {NONE}]
    /\ base \in [Procs -> {"none", "current", "outdated"}]
    /\ \A p \in Procs :
          /\ pc[p] \in OneRow => \E i \in Items : Holding(p) = {i}
          /\ pc[p] = "roll" => Holding(p) # {}
          /\ pc[p] \in {"idle", "create"} => Holding(p) = {}
          /\ pc[p] = "create" <=> new[p] # NONE
          /\ base[p] # "none" => pc[p] \in {"apply", "record", "save"}
    /\ recorded \subseteq Items /\ bornDone \subseteq Items

(* An item is scheduled to reappear only while it is completed and        *)
(* recurring, in the table and in every copy a handler is about to save:  *)
(* no mix of updates, completions and roll-overs, each saving a row read  *)
(* at another time, leaves next_due_at set on an open or one-off item.    *)
Scheduled(r) == r.due => (r.done /\ r.rule # "none")
ScheduledOnlyIfCompleted ==
    /\ \A i \in Items : row[i] # NONE => Scheduled(row[i])
    /\ \A p \in Procs, i \in Items : copy[p][i] # NONE => Scheduled(copy[p][i])

(* The converse holds for every item not created already completed: a      *)
(* completed recurring one is scheduled, so rolling over will reset it.    *)
(* Create never sets next_due_at, whatever is_completed and the rule say.  *)
CompletedRecurringIsScheduled ==
    \A i \in Items :
        (row[i] # NONE /\ row[i].done /\ row[i].rule # "none") => row[i].due \/ i \in bornDone

(* An item, and the history a later re-add copies from, is only ever in a *)
(* category that exists and belongs to the household of the list, although *)
(* categories are validated one statement, or one request, before the row *)
(* is written.                                                            *)
CategoryOfOwnHousehold ==
    /\ \A i \in Items : row[i] # NONE => row[i].cat \in (cats \cap OwnCats) \cup {NONE}
    /\ \A h \in HistIds : hist[h] # NONE => hist[h].cat \in (cats \cap OwnCats) \cup {NONE}

(* No item, unless it was created completed, is completed without a        *)
(* history entry having been written for it first, whichever request       *)
(* completed it and whatever failed.                                       *)
CompletedItemsWereRecorded ==
    \A i \in Items : (row[i] # NONE /\ row[i].done) => i \in recorded \cup bornDone

-----------------------------------------------------------------------------
(* What a comment of the code says, and the code does not do.             *)

(* service.go:74-77: when base_updated_at "does not match the stored      *)
(* updated_at, the update is rejected with a conflict". It is compared    *)
(* with the row read, not with the row the Save overwrites.               *)
GuardedUpdateMatchesStored ==
    [][\A p \in Procs : base[p] = "outdated" /\ Save(p) => UNCHANGED row]_vars

=============================================================================
