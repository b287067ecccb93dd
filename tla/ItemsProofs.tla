---------------------------- MODULE ItemsProofs ----------------------------
(***************************************************************************)
(* Proofs about the shopping items, for any items, categories, handlers    *)
(* and history: the type invariant, the two sides of the schedule of a     *)
(* recurring item, that completions are recorded, and that no category of  *)
(* another household gets in.                                              *)
(***************************************************************************)
EXTENDS ShoppingItems, TLAPS

-----------------------------------------------------------------------------
(* What the assignments of an update do to a row.                         *)
LEMMA RowFields ==
    ASSUME NEW r \in Row
    PROVE  r.done \in BOOLEAN /\ r.due \in BOOLEAN /\ r.rule \in Rules /\ r.cat \in Cats \cup {NONE}
BY DEF Row

LEMMA WithCatRow ==
    ASSUME NEW r \in Row, NEW c \in Cats \cup {NONE, KEEP}
    PROVE  /\ WithCat(r, c) \in Row
           /\ WithCat(r, c).done = r.done /\ WithCat(r, c).due = r.due /\ WithCat(r, c).rule = r.rule
           /\ WithCat(r, c).cat \in {r.cat, c} \ {KEEP}
BY KeepAssumption DEF WithCat, Row

LEMMA WithRuleRow ==
    ASSUME NEW r \in Row, NEW rule \in Rules \cup {KEEP}
    PROVE  /\ WithRule(r, rule) \in Row
           /\ WithRule(r, rule).done = r.done /\ WithRule(r, rule).cat = r.cat
           /\ rule = KEEP => WithRule(r, rule) = r
           /\ rule # KEEP => /\ WithRule(r, rule).rule = rule
                             /\ WithRule(r, rule).due = (rule # "none" /\ (r.done \/ r.due))
<1>1. r = [done |-> r.done, rule |-> r.rule, due |-> r.due, cat |-> r.cat]
  BY DEF Row
<1>2. CASE rule = KEEP
  BY <1>2 DEF WithRule
<1>3. CASE rule # KEEP
  <2>1. (rule # "none" /\ (r.done \/ r.due)) \in BOOLEAN
    BY RowFields
  <2>2. WithRule(r, rule) = [r EXCEPT !.rule = rule, !.due = rule # "none" /\ (r.done \/ @)]
    BY <1>3 DEF WithRule
  <2> QED
    BY <1>3, <2>1, <2>2, RowFields DEF Row
<1> QED
  BY <1>2, <1>3

LEMMA WithDoneRow ==
    ASSUME NEW r \in Row, NEW done \in BOOLEAN \cup {KEEP}
    PROVE  /\ WithDone(r, done) \in Row
           /\ WithDone(r, done).rule = r.rule /\ WithDone(r, done).cat = r.cat
           /\ done = KEEP => WithDone(r, done) = r
           /\ done # KEEP => /\ WithDone(r, done).done = done
                             /\ WithDone(r, done).due =
                                  IF Completing(r, done) /\ r.rule # "none" THEN TRUE ELSE r.due /\ done
<1>2. CASE done = KEEP
  BY <1>2 DEF WithDone
<1>3. CASE done # KEEP
  <2>1. (IF Completing(r, done) /\ r.rule # "none" THEN TRUE ELSE r.due /\ done) \in BOOLEAN
    BY RowFields
  <2>2. WithDone(r, done) = [r EXCEPT !.done = done,
                   !.due = IF Completing(r, done) /\ r.rule # "none" THEN TRUE ELSE @ /\ done]
    BY <1>3 DEF WithDone
  <2>3. done \in BOOLEAN
    BY <1>3
  <2> QED
    BY <1>3, <2>1, <2>2, <2>3, RowFields DEF Row
<1> QED
  BY <1>2, <1>3

(* A completed recurring row is scheduled. *)
Due(r) == (r.done /\ r.rule # "none") => r.due

(* Given a rule: a row that is scheduled exactly when it should be stays   *)
(* so, and likewise when it is completed or reopened.                     *)
LEMMA RuleKeepsSchedule ==
    ASSUME NEW r \in Row, NEW rule \in Rules \cup {KEEP}
    PROVE  /\ Scheduled(r) => Scheduled(WithRule(r, rule))
           /\ Due(r) => Due(WithRule(r, rule))
<1> DEFINE n == WithRule(r, rule)
<1>1. n \in Row /\ n.done = r.done
  BY WithRuleRow
<1>2. CASE rule = KEEP
  BY <1>2, WithRuleRow
<1>3. CASE rule # KEEP
  <2>1. n.rule = rule /\ n.due = (rule # "none" /\ (r.done \/ r.due))
    BY <1>3, WithRuleRow
  <2> HIDE DEF n
  <2>2. ASSUME Scheduled(r) PROVE Scheduled(n)
    BY <1>1, <2>1, <2>2, RowFields DEF Scheduled
  <2>3. Due(n)
    BY <1>1, <2>1, RowFields DEF Due
  <2> QED
    BY <2>2, <2>3 DEF n
<1> QED
  BY <1>2, <1>3

LEMMA DoneKeepsSchedule ==
    ASSUME NEW r \in Row, NEW done \in BOOLEAN \cup {KEEP}
    PROVE  /\ Scheduled(r) => Scheduled(WithDone(r, done))
           /\ Due(r) => Due(WithDone(r, done))
           /\ WithDone(r, done).done => r.done \/ Completing(r, done)
<1> DEFINE n == WithDone(r, done)
<1>1. n \in Row /\ n.rule = r.rule
  BY WithDoneRow
<1>2. CASE done = KEEP
  BY <1>2, WithDoneRow
<1>3. CASE done # KEEP
  <2>1. n.done = done /\ n.due = IF Completing(r, done) /\ r.rule # "none" THEN TRUE ELSE r.due /\ done
    BY <1>3, WithDoneRow
  <2> HIDE DEF n
  <2>2. CASE done = TRUE
    <3>1. n.done /\ n.due = ((~r.done /\ r.rule # "none") \/ r.due)
      BY <2>1, <2>2, RowFields DEF Completing
    <3>2. Completing(r, done) <=> ~r.done
      BY <2>2 DEF Completing
    <3>3. r.done \in BOOLEAN /\ r.due \in BOOLEAN
      BY RowFields
    <3> QED
      BY <1>1, <3>1, <3>2, <3>3 DEF Scheduled, Due, n
  <2>3. CASE done = FALSE
    <3>1. ~n.done /\ ~n.due
      BY <2>1, <2>3 DEF Completing
    <3> QED
      BY <3>1 DEF Scheduled, Due, n
  <2> QED
    BY <1>3, <2>2, <2>3
<1> QED
  BY <1>2, <1>3

(* A whole update: it keeps both sides of the schedule, completes only     *)
(* what it then records, and takes its category from the row or request.  *)
LEMMA UpdatedRow ==
    ASSUME NEW r \in Row, NEW q \in Request
    PROVE  /\ Updated(r, q) \in Row
           /\ Scheduled(r) => Scheduled(Updated(r, q))
           /\ Due(r) => Due(Updated(r, q))
           /\ Updated(r, q).done => r.done \/ Completing(r, q.done)
           /\ Updated(r, q).cat \in {r.cat, q.cat} \ {KEEP}
<1> DEFINE a == WithCat(r, q.cat)
           b == WithRule(a, q.rule)
<1>1. q.cat \in Cats \cup {NONE, KEEP} /\ q.rule \in Rules \cup {KEEP} /\ q.done \in BOOLEAN \cup {KEEP}
  BY DEF Request
<1>2. /\ a \in Row /\ a.done = r.done /\ a.due = r.due /\ a.rule = r.rule
      /\ a.cat \in {r.cat, q.cat} \ {KEEP}
  BY <1>1, WithCatRow
<1>3. b \in Row /\ b.done = a.done /\ b.cat = a.cat /\ (Scheduled(a) => Scheduled(b)) /\ (Due(a) => Due(b))
  BY <1>1, <1>2, WithRuleRow, RuleKeepsSchedule
<1>4. Updated(r, q) = WithDone(b, q.done)
  BY DEF Updated
<1>5. (Scheduled(r) => Scheduled(a)) /\ (Due(r) => Due(a))
  BY <1>2 DEF Scheduled, Due
<1> HIDE DEF a, b
<1>6. /\ WithDone(b, q.done) \in Row /\ WithDone(b, q.done).cat = b.cat
      /\ (Scheduled(b) => Scheduled(WithDone(b, q.done))) /\ (Due(b) => Due(WithDone(b, q.done)))
      /\ WithDone(b, q.done).done => b.done \/ Completing(b, q.done)
  BY <1>1, <1>3, WithDoneRow, DoneKeepsSchedule
<1>7. Completing(b, q.done) = Completing(r, q.done)
  BY <1>2, <1>3 DEF Completing
<1> QED
  BY <1>2, <1>3, <1>4, <1>5, <1>6, <1>7

-----------------------------------------------------------------------------
(* The parts of TypeOK: the tables, the handlers' variables, and what a    *)
(* handler with this label holds.                                         *)
TablesOK ==
    /\ row \in [Items -> Row \cup {NONE}] /\ used \subseteq Items
    /\ \A i \in Items : row[i] # NONE => i \in used
    /\ hist \in [HistIds -> Entry \cup {NONE}]
    /\ cats \subseteq Cats /\ listUp \in BOOLEAN
    /\ recorded \subseteq Items /\ bornDone \subseteq Items

Labels == {"idle", "create", "apply", "record", "save", "roll", "delete"}
Copies == [Items -> Row \cup {NONE}]
Bases  == {"none", "current", "outdated"}

HandlersOK ==
    /\ pc \in [Procs -> Labels] /\ copy \in [Procs -> Copies]
    /\ new \in [Procs -> Row \cup {NONE}] /\ base \in [Procs -> Bases]

Held(c) == {i \in Items : c[i] # NONE}

Fits(label, c, n, b) ==
    /\ label \in OneRow => \E i \in Items : Held(c) = {i}
    /\ label = "roll" => Held(c) # {}
    /\ label \in {"idle", "create"} => Held(c) = {}
    /\ label = "create" <=> n # NONE
    /\ b # "none" => label \in {"apply", "record", "save"}

AllFit == \A p \in Procs : Fits(pc[p], copy[p], new[p], base[p])

Typed == TablesOK /\ HandlersOK /\ AllFit

(* One handler moves on; the others keep their place.                     *)
LEMMA HandlerStep ==
    ASSUME HandlersOK, AllFit, NEW p \in Procs, NEW label \in Labels, NEW c \in Copies,
           Goto(p, label, c),
           new' \in [Procs -> Row \cup {NONE}], base' \in [Procs -> Bases],
           \A q \in Procs \ {p} : new'[q] = new[q] /\ (base'[q] # "none" => base[q] # "none"),
           Fits(label, c, new'[p], base'[p])
    PROVE  HandlersOK' /\ AllFit'
<1>1. /\ pc'[p] = label /\ copy'[p] = c
      /\ \A q \in Procs \ {p} : pc'[q] = pc[q] /\ copy'[q] = copy[q]
      /\ pc' \in [Procs -> Labels] /\ copy' \in [Procs -> Copies]
  BY DEF Goto, HandlersOK
<1>2. ASSUME NEW q \in Procs PROVE Fits(pc'[q], copy'[q], new'[q], base'[q])
  <2>1. CASE q = p
    BY <1>1, <2>1
  <2>2. CASE q # p
    <3>1. Fits(pc[q], copy[q], new[q], base[q])
      BY DEF AllFit
    <3> QED
      BY <1>1, <2>2, <3>1 DEF Fits
  <2> QED
    BY <2>1, <2>2
<1> QED
  BY <1>1, <1>2 DEF HandlersOK, AllFit

(* A handler that forgets what it had. *)
LEMMA ReturnStep ==
    ASSUME HandlersOK, AllFit, NEW p \in Procs, Goto(p, "idle", NoCopy), Forget(p)
    PROVE  HandlersOK' /\ AllFit'
<1>1. NoCopy \in Copies /\ Held(NoCopy) = {}
  BY DEF NoCopy, Copies, Held
<1>2. /\ new' \in [Procs -> Row \cup {NONE}] /\ base' \in [Procs -> Bases]
      /\ new'[p] = NONE /\ base'[p] = "none"
      /\ \A q \in Procs \ {p} : new'[q] = new[q] /\ base'[q] = base[q]
  BY DEF Forget, HandlersOK, Bases
<1>3. Fits("idle", NoCopy, new'[p], base'[p])
  BY <1>1, <1>2 DEF Fits, OneRow
<1> QED
  BY <1>1, <1>2, <1>3, HandlerStep DEF Labels

(* A copy of one row. *)
LEMMA OneHeld ==
    ASSUME NEW i \in Items, NEW r \in Row
    PROVE  [NoCopy EXCEPT ![i] = r] \in Copies /\ Held([NoCopy EXCEPT ![i] = r]) = {i}
BY NoneAssumption DEF NoCopy, Copies, Held

(* The one row a handler is about. *)
LEMMA HeldRow ==
    ASSUME HandlersOK, AllFit, NEW p \in Procs, pc[p] \in OneRow, NEW i \in Holding(p)
    PROVE  i \in Items /\ Holding(p) = {i} /\ copy[p][i] \in Row /\ new[p] = NONE
<1>1. Fits(pc[p], copy[p], new[p], base[p])
  BY DEF AllFit
<1> QED
  BY <1>1 DEF Fits, OneRow, Held, Holding, HandlersOK, Copies

(* A step that leaves the handlers alone. *)
LEMMA HandlersFrame ==
    ASSUME HandlersOK, AllFit, UNCHANGED <<pc, copy, new, base>>
    PROVE  HandlersOK' /\ AllFit'
BY DEF HandlersOK, AllFit

LEMMA TablesFrame ==
    ASSUME TablesOK, UNCHANGED <<tables, ghosts>>
    PROVE  TablesOK'
BY DEF TablesOK, tables, ghosts

-----------------------------------------------------------------------------
(* Type correctness, action by action. *)
LEMMA NewRowTyped ==
    ASSUME NEW p \in Procs, NEW r \in Row, Typed, pc[p] = "idle",
           pc' = [pc EXCEPT ![p] = "create"], new' = [new EXCEPT ![p] = r],
           UNCHANGED <<tables, copy, base, ghosts>>
    PROVE  Typed'
<1>1. TablesOK'
  BY TablesFrame DEF Typed
<1>2. Fits("idle", copy[p], new[p], base[p])
  BY DEF Typed, AllFit
<1>3. copy[p] \in Copies /\ copy' = [copy EXCEPT ![p] = copy[p]]
  BY DEF Typed, HandlersOK
<1>4. /\ new' \in [Procs -> Row \cup {NONE}] /\ new'[p] = r /\ base'[p] = "none"
      /\ \A q \in Procs \ {p} : new'[q] = new[q]
      /\ base' \in [Procs -> Bases]
  BY <1>2 DEF Typed, HandlersOK, Fits, Bases
<1>5. Fits("create", copy[p], new'[p], base'[p])
  BY <1>2, <1>4, NoneAssumption DEF Fits, OneRow
<1> QED
  BY <1>1, <1>3, <1>4, <1>5, HandlerStep DEF Typed, Goto, Labels

LEMMA CreateReadTyped ==
    ASSUME NEW p \in Procs, NEW c \in Cats \cup {NONE}, NEW rule \in Rules, NEW done \in BOOLEAN,
           Typed, CreateRead(p, c, rule, done)
    PROVE  Typed'
<1>1. [done |-> done, rule |-> rule, due |-> FALSE, cat |-> c] \in Row
  BY DEF Row
<1> QED
  BY <1>1, NewRowTyped DEF CreateRead

LEMMA ReAddReadTyped ==
    ASSUME NEW p \in Procs, NEW h \in HistIds, Typed, ReAddRead(p, h) PROVE Typed'
<1>1. hist[h] \in Entry
  BY DEF ReAddRead, Typed, TablesOK
<1>2. [done |-> FALSE, rule |-> "none", due |-> FALSE, cat |-> hist[h].cat] \in Row
  BY <1>1 DEF Row, Rules, Entry
<1> QED
  BY <1>2, NewRowTyped DEF ReAddRead

LEMMA CreateTyped ==
    ASSUME NEW p \in Procs, Typed, Create(p) PROVE Typed'
<1>1. HandlersOK' /\ AllFit'
  BY ReturnStep DEF Create, Return, Typed
<1>2. new[p] \in Row
  BY DEF Create, Typed, AllFit, Fits, HandlersOK
<1>3. TablesOK'
  <2>1. CASE UNCHANGED <<row, used, bornDone>>
    BY <2>1 DEF Create, Typed, TablesOK
  <2>2. CASE \E i \in Items : /\ row' = [row EXCEPT ![i] = new[p]] /\ used' = used \cup {i}
                            /\ bornDone' = IF new[p].done THEN bornDone \cup {i} ELSE bornDone
    BY <1>2, <2>2 DEF Create, Typed, TablesOK
  <2> QED
    BY <2>1, <2>2 DEF Create, Insert
<1> QED
  BY <1>1, <1>3 DEF Typed

(* A handler that starts with, or goes on with, a copy of one row.        *)
LEMMA OneRowTyped ==
    ASSUME NEW p \in Procs, NEW i \in Items, NEW r \in Row, NEW label \in OneRow, NEW b \in Bases,
           HandlersOK, AllFit, pc[p] = "idle",
           Goto(p, label, [NoCopy EXCEPT ![i] = r]),
           base' = [base EXCEPT ![p] = b], b = "none" \/ label = "apply", UNCHANGED new
    PROVE  HandlersOK' /\ AllFit'
<1>1. [NoCopy EXCEPT ![i] = r] \in Copies /\ Held([NoCopy EXCEPT ![i] = r]) = {i}
  BY OneHeld
<1>2. new[p] = NONE
  BY DEF AllFit, Fits
<1>3. /\ base' \in [Procs -> Bases] /\ base'[p] = b
      /\ \A q \in Procs \ {p} : base'[q] = base[q]
      /\ new' \in [Procs -> Row \cup {NONE}]
  BY DEF HandlersOK
<1>4. Fits(label, [NoCopy EXCEPT ![i] = r], new'[p], base'[p])
  BY <1>1, <1>2, <1>3 DEF Fits, OneRow
<1> QED
  BY <1>1, <1>3, <1>4, HandlerStep DEF Labels, OneRow

LEMMA UpdateReadTyped ==
    ASSUME NEW p \in Procs, NEW i \in Items, NEW given \in BOOLEAN, Typed, UpdateRead(p, i, given)
    PROVE  Typed'
<1>1. TablesOK'
  BY TablesFrame DEF Typed, UpdateRead
<1>2. row[i] \in Row
  BY DEF UpdateRead, Typed, TablesOK
<1>3. (IF given THEN "current" ELSE "none") \in Bases /\ "apply" \in OneRow
  BY DEF Bases, OneRow
<1> QED
  BY <1>1, <1>2, <1>3, OneRowTyped DEF UpdateRead, Typed

LEMMA AfterApplyLabel == \A r, done : AfterApply(r, done) \in {"record", "save"}
BY DEF AfterApply

LEMMA UpdateCompletedTyped ==
    ASSUME NEW p \in Procs, NEW i \in Items, NEW done \in BOOLEAN, Typed, UpdateCompleted(p, i, done)
    PROVE  Typed'
<1>1. TablesOK'
  BY TablesFrame DEF Typed, UpdateCompleted
<1>2. row[i] \in Row /\ WithDone(row[i], done) \in Row
  BY WithDoneRow DEF UpdateCompleted, Typed, TablesOK
<1>3. AfterApply(row[i], done) \in OneRow
  BY AfterApplyLabel DEF OneRow
<1>4. base' = [base EXCEPT ![p] = "none"] /\ "none" \in Bases
  BY DEF UpdateCompleted, Typed, HandlersOK, AllFit, Fits, Bases
<1> QED
  BY <1>1, <1>2, <1>3, <1>4, OneRowTyped DEF UpdateCompleted, Typed

LEMMA DeleteReadTyped ==
    ASSUME NEW p \in Procs, NEW i \in Items, Typed, DeleteRead(p, i) PROVE Typed'
<1>1. TablesOK'
  BY TablesFrame DEF Typed, DeleteRead
<1>2. row[i] \in Row
  BY DEF DeleteRead, Typed, TablesOK
<1>4. base' = [base EXCEPT ![p] = "none"] /\ "none" \in Bases /\ "delete" \in OneRow
  BY DEF DeleteRead, Typed, HandlersOK, AllFit, Fits, Bases, OneRow
<1> QED
  BY <1>1, <1>2, <1>4, OneRowTyped DEF DeleteRead, Typed

LEMMA UpdateApplyTyped ==
    ASSUME NEW p \in Procs, NEW q \in Request, Typed, UpdateApply(p, q) PROVE Typed'
<1>1. TablesOK'
  BY TablesFrame DEF Typed, UpdateApply
<1>2. CASE Return(p)
  BY <1>1, <1>2, ReturnStep DEF Return, Typed
<1>3. ASSUME NEW i \in Holding(p), UNCHANGED <<new, base>>,
             Goto(p, AfterApply(copy[p][i], q.done), [copy[p] EXCEPT ![i] = Updated(@, q)])
      PROVE  Typed'
  <2> DEFINE c == [copy[p] EXCEPT ![i] = Updated(@, q)]
             label == AfterApply(copy[p][i], q.done)
  <2>1. i \in Items /\ Holding(p) = {i} /\ copy[p][i] \in Row /\ new[p] = NONE
    BY HeldRow DEF UpdateApply, OneRow, Typed
  <2>2. Updated(copy[p][i], q) \in Row
    BY <2>1, UpdatedRow
  <2>3. c \in Copies /\ Held(c) = {i}
    BY <2>1, <2>2, NoneAssumption DEF Typed, HandlersOK, Copies, Held, Holding
  <2>4. label \in {"record", "save"}
    BY AfterApplyLabel
  <2> HIDE DEF c, label
  <2>5. Fits(label, c, new'[p], base'[p])
    BY <1>3, <2>1, <2>3, <2>4 DEF Fits, OneRow
  <2>6. Goto(p, label, c)
    BY <1>3 DEF c, label
  <2>7. label \in Labels
    BY <2>4 DEF Labels
  <2> QED
    BY <1>1, <1>3, <2>3, <2>5, <2>6, <2>7, HandlerStep DEF Typed, HandlersOK
<1> QED
  BY <1>2, <1>3 DEF UpdateApply

LEMMA RecordTyped ==
    ASSUME NEW p \in Procs, Typed, Record(p) PROVE Typed'
<1>1. PICK i \in Holding(p) :
        \/ /\ \E h \in HistIds : hist' = [hist EXCEPT ![h] = [item |-> i, cat |-> copy[p][i].cat]]
           /\ recorded' = recorded \cup {i}
           /\ Goto(p, "save", copy[p]) /\ UNCHANGED <<new, base>>
        \/ Return(p) /\ UNCHANGED <<hist, recorded>>
  BY DEF Record
<1>2. i \in Items /\ Holding(p) = {i} /\ copy[p][i] \in Row /\ new[p] = NONE
  BY HeldRow DEF Record, OneRow, Typed
<1>3. UNCHANGED <<row, used, cats, listUp, bornDone>>
  BY DEF Record
<1>4. [item |-> i, cat |-> copy[p][i].cat] \in Entry
  BY <1>2 DEF Entry, Row
<1>5. CASE Return(p) /\ UNCHANGED <<hist, recorded>>
  <2>1. TablesOK'
    BY <1>3, <1>5 DEF Typed, TablesOK
  <2> QED
    BY <1>5, <2>1, ReturnStep DEF Return, Typed
<1>6. CASE /\ \E h \in HistIds : hist' = [hist EXCEPT ![h] = [item |-> i, cat |-> copy[p][i].cat]]
           /\ recorded' = recorded \cup {i}
           /\ Goto(p, "save", copy[p]) /\ UNCHANGED <<new, base>>
  <2>1. TablesOK'
    BY <1>2, <1>3, <1>4, <1>6 DEF Typed, TablesOK
  <2>2. Fits("save", copy[p], new'[p], base'[p])
    BY <1>2, <1>6 DEF Fits, OneRow, Held, Holding
  <2> QED
    BY <1>6, <2>1, <2>2, HandlerStep DEF Typed, HandlersOK, Labels
<1> QED
  BY <1>1, <1>5, <1>6

(* The ids of the copies handlers hold have been given out: so no Save     *)
(* puts back an item the sequence may still produce.                      *)
CopiesUsed == \A p \in Procs : Holding(p) \subseteq used

LEMMA SavedRow ==
    ASSUME NEW p \in Procs, NEW i \in Items, Typed, CopiesUsed, copy[p][i] \in Row,
           SaveCopy(p, i), UNCHANGED <<used, hist, cats, listUp, ghosts>>
    PROVE  /\ TablesOK'
           /\ base' \in [Procs -> Bases] /\ base'[p] = "none"
           /\ \A q \in Procs \ {p} : base'[q] # "none" => base[q] # "none"
<1>1. i \in used
  BY NoneAssumption DEF CopiesUsed, Holding
<1>2. row' = [row EXCEPT ![i] = copy[p][i]]
  BY DEF SaveCopy
<1>3. TablesOK'
  BY <1>1, <1>2 DEF Typed, TablesOK, ghosts
<1>4. base \in [Procs -> Bases]
  BY DEF Typed, HandlersOK
<1>5. base' = [q \in Procs |->
          CASE q = p -> "none"
            [] q # p /\ base[q] = "current" /\ i \in Holding(q) -> "outdated"
            [] OTHER -> base[q]]
  BY DEF SaveCopy
<1>6. base'[p] = "none"
  BY <1>5
<1>7. \A q \in Procs \ {p} : base'[q] = base[q] \/ (base'[q] = "outdated" /\ base[q] = "current")
  BY <1>5
<1>8. \A q \in Procs : base'[q] \in Bases
  BY <1>4, <1>6, <1>7 DEF Bases
<1>9. base' \in [Procs -> Bases]
  BY <1>5, <1>8
<1> QED
  BY <1>3, <1>6, <1>7, <1>9

LEMMA SaveTyped ==
    ASSUME NEW p \in Procs, Typed, CopiesUsed, Save(p) PROVE Typed'
<1>1. PICK i \in Holding(p) : SaveCopy(p, i) \/ (base' = [base EXCEPT ![p] = "none"] /\ UNCHANGED row)
  BY DEF Save
<1>2. i \in Items /\ copy[p][i] \in Row /\ new[p] = NONE
  BY HeldRow DEF Save, OneRow, Typed
<1>3. /\ TablesOK' /\ base' \in [Procs -> Bases] /\ base'[p] = "none"
      /\ \A q \in Procs \ {p} : base'[q] # "none" => base[q] # "none"
  <2>1. CASE SaveCopy(p, i)
    BY <1>2, <2>1, SavedRow DEF Save
  <2>2. CASE base' = [base EXCEPT ![p] = "none"] /\ UNCHANGED row
    BY <2>2 DEF Save, Typed, TablesOK, HandlersOK, Bases, ghosts
  <2> QED
    BY <1>1, <2>1, <2>2
<1>4. NoCopy \in Copies /\ Held(NoCopy) = {}
  BY DEF NoCopy, Copies, Held
<1>5. Fits("idle", NoCopy, new'[p], base'[p])
  BY <1>2, <1>3, <1>4 DEF Fits, OneRow, Save
<1> QED
  BY <1>3, <1>4, <1>5, HandlerStep DEF Save, Typed, HandlersOK, Labels

(* The row that is put back when it is due again. *)
Reset(r) == [r EXCEPT !.done = FALSE, !.due = FALSE]

LEMMA ResetRow ==
    ASSUME NEW r \in Row
    PROVE  /\ Reset(r) \in Row /\ ~Reset(r).done /\ ~Reset(r).due
           /\ Reset(r).rule = r.rule /\ Reset(r).cat = r.cat
BY DEF Reset, Row

LEMMA RollOverReadTyped ==
    ASSUME NEW p \in Procs, NEW due \in SUBSET Items, Typed, RollOverRead(p, due) PROVE Typed'
<1> DEFINE c == [i \in Items |-> IF i \in due THEN Reset(row[i]) ELSE NONE]
<1>1. TablesOK'
  BY TablesFrame DEF Typed, RollOverRead
<1>2. Goto(p, "roll", c)
  BY DEF RollOverRead, Reset
<1>3. \A i \in due : row[i] \in Row
  BY DEF RollOverRead, MayBeDue, Typed, TablesOK
<1>4. \A i \in due : Reset(row[i]) \in Row
  BY <1>3, ResetRow
<1>5. c \in Copies
  BY <1>4 DEF Copies
<1>6. Held(c) = due
  BY <1>4, NoneAssumption DEF Held
<1>7. Fits("roll", c, new'[p], base'[p])
  <2>1. Fits("idle", copy[p], new[p], base[p])
    BY DEF RollOverRead, Typed, AllFit
  <2>2. new'[p] = NONE /\ base'[p] = "none" /\ due # {}
    BY <2>1 DEF RollOverRead, Fits
  <2> HIDE DEF c
  <2> QED
    BY <1>6, <2>2 DEF Fits, OneRow
<1> HIDE DEF c
<1> QED
  BY <1>1, <1>2, <1>5, <1>7, HandlerStep DEF RollOverRead, Typed, HandlersOK, Labels

LEMMA RollOverSaveTyped ==
    ASSUME NEW p \in Procs, NEW i \in Items, Typed, CopiesUsed, RollOverSave(p, i) PROVE Typed'
<1> DEFINE c == [copy[p] EXCEPT ![i] = NONE]
           label == IF LastDue(p, i) THEN "idle" ELSE "roll"
<1>1. Fits("roll", copy[p], new[p], base[p]) /\ copy[p] \in Copies
  BY DEF RollOverSave, Typed, AllFit, HandlersOK
<1>2. copy[p][i] \in Row /\ new[p] = NONE /\ base[p] = "none"
  BY <1>1 DEF RollOverSave, Fits, Holding, Copies
<1>3. /\ TablesOK' /\ base' \in [Procs -> Bases] /\ base'[p] = "none"
      /\ \A q \in Procs \ {p} : base'[q] # "none" => base[q] # "none"
  <2>1. CASE SaveCopy(p, i)
    BY <1>2, <2>1, SavedRow DEF RollOverSave
  <2>2. CASE UNCHANGED <<row, base>>
    BY <1>2, <2>2 DEF RollOverSave, Typed, TablesOK, HandlersOK, ghosts
  <2> QED
    BY <2>1, <2>2 DEF RollOverSave
<1>4. c \in Copies /\ Held(c) = Holding(p) \ {i}
  BY <1>1 DEF Copies, Held, Holding
<1>5. label = "idle" => Held(c) = {}
  BY <1>4 DEF LastDue
<1>6. label = "roll" => Held(c) # {}
  <2>1. SUFFICES ASSUME ~LastDue(p, i) PROVE Holding(p) \ {i} # {}
    BY <1>4
  <2>2. i \in Holding(p)
    BY DEF RollOverSave
  <2> QED
    BY <2>1, <2>2 DEF LastDue
<1>7. label \in {"idle", "roll"}
  OBVIOUS
<1>8. Goto(p, label, c)
  BY DEF RollOverSave
<1>9. UNCHANGED new
  BY DEF RollOverSave
<1> HIDE DEF c, label
<1>10. Fits(label, c, new'[p], base'[p])
  BY <1>2, <1>3, <1>5, <1>6, <1>7, <1>9 DEF Fits, OneRow
<1> QED
  BY <1>3, <1>4, <1>7, <1>8, <1>9, <1>10, HandlerStep DEF Typed, HandlersOK, Labels

LEMMA DeleteTyped ==
    ASSUME NEW p \in Procs, Typed, Delete(p) PROVE Typed'
<1>1. HandlersOK' /\ AllFit'
  BY ReturnStep DEF Delete, Return, Typed
<1>2. PICK i \in Holding(p) :
        /\ row' = [row EXCEPT ![i] = NONE]
        /\ hist' = [h \in HistIds |->
              IF row[i] # NONE /\ hist[h] # NONE /\ hist[h].item = i
              THEN [hist[h] EXCEPT !.item = NONE] ELSE hist[h]]
  BY DEF Delete
<1>3. \A h \in HistIds : hist[h] # NONE => [hist[h] EXCEPT !.item = NONE] \in Entry
  BY DEF Typed, TablesOK, Entry
<1>4. hist' \in [HistIds -> Entry \cup {NONE}]
  BY <1>2, <1>3 DEF Typed, TablesOK
<1>5. TablesOK'
  BY <1>2, <1>4 DEF Delete, Typed, TablesOK, ghosts
<1> QED
  BY <1>1, <1>5 DEF Typed

LEMMA DeleteHistoryTyped ==
    ASSUME NEW h \in HistIds, Typed, DeleteHistory(h) PROVE Typed'
<1>1. TablesOK'
  BY DEF DeleteHistory, Typed, TablesOK, ghosts
<1> QED
  BY <1>1, HandlersFrame DEF DeleteHistory, Typed

LEMMA DeleteCategoryTyped ==
    ASSUME NEW c \in Cats, Typed, DeleteCategory(c) PROVE Typed'
<1>1. \A i \in Items : row[i] # NONE => [row[i] EXCEPT !.cat = NONE] \in Row
  BY DEF Typed, TablesOK, Row
<1>2. \A h \in HistIds : hist[h] # NONE => [hist[h] EXCEPT !.cat = NONE] \in Entry
  BY DEF Typed, TablesOK, Entry
<1>3. row' = [i \in Items |-> IF row[i] # NONE /\ row[i].cat = c
                              THEN [row[i] EXCEPT !.cat = NONE] ELSE row[i]]
  BY DEF DeleteCategory
<1>4. hist' = [h \in HistIds |-> IF hist[h] # NONE /\ hist[h].cat = c
                                 THEN [hist[h] EXCEPT !.cat = NONE] ELSE hist[h]]
  BY DEF DeleteCategory
<1>5. row' \in [Items -> Row \cup {NONE}] /\ \A i \in Items : row'[i] # NONE => row[i] # NONE
  BY <1>1, <1>3 DEF Typed, TablesOK
<1>6. hist' \in [HistIds -> Entry \cup {NONE}]
  BY <1>2, <1>4 DEF Typed, TablesOK
<1>7. TablesOK'
  BY <1>5, <1>6 DEF DeleteCategory, Typed, TablesOK, ghosts
<1> QED
  BY <1>7, HandlersFrame DEF DeleteCategory, Typed

LEMMA DeleteListTyped ==
    ASSUME Typed, DeleteList PROVE Typed'
<1>1. TablesOK'
  BY DEF DeleteList, Typed, TablesOK, ghosts
<1> QED
  BY <1>1, HandlersFrame DEF DeleteList, Typed

LEMMA AbortTyped ==
    ASSUME NEW p \in Procs, Typed, Abort(p) PROVE Typed'
BY ReturnStep, TablesFrame DEF Abort, Return, Typed

LEMMA StepTyped ==
    ASSUME Typed, CopiesUsed, [Next]_vars PROVE Typed'
<1>1. ASSUME NEW p \in Procs, Handler(p) PROVE Typed'
  <2>1. \A given \in {FALSE, BaseGiven} : given \in BOOLEAN
    BY SwitchAssumption
  <2> QED
    BY <1>1, <2>1, CreateReadTyped, ReAddReadTyped, UpdateReadTyped, UpdateApplyTyped,
       UpdateCompletedTyped, RollOverReadTyped, DeleteReadTyped, RollOverSaveTyped,
       CreateTyped, RecordTyped, SaveTyped, DeleteTyped, AbortTyped
    DEF Handler
<1>2. CASE UNCHANGED vars
  BY <1>2 DEF vars, Typed, TablesOK, HandlersOK, AllFit
<1> QED
  BY <1>1, <1>2, DeleteHistoryTyped, DeleteCategoryTyped, DeleteListTyped DEF Next

(* No id is taken back, and what a handler holds it held already or has    *)
(* just read: a row of the table, or one changed after reading it.        *)
LEMMA HeldCameFrom ==
    ASSUME Typed, [Next]_vars
    PROVE  /\ used \subseteq used'
           /\ \A p \in Procs, i \in Items : copy'[p][i] # NONE => copy[p][i] # NONE \/ row[i] # NONE
<1>0. copy \in [Procs -> Copies]
  BY DEF Typed, HandlersOK
<1>1. ASSUME NEW p \in Procs, Handler(p)
      PROVE  /\ used \subseteq used'
             /\ \A q \in Procs \ {p} : copy'[q] = copy[q]
             /\ \A i \in Items : copy'[p][i] # NONE => copy[p][i] # NONE \/ row[i] # NONE
  <2>1. CASE \/ \E c \in Cats \cup {NONE}, rule \in Rules, done \in BOOLEAN : CreateRead(p, c, rule, done)
             \/ \E h \in HistIds : ReAddRead(p, h)
    BY <2>1 DEF CreateRead, ReAddRead, tables
  <2>2. CASE \E i \in Items, given \in {FALSE, BaseGiven} : UpdateRead(p, i, given)
    BY <1>0, <2>2 DEF UpdateRead, tables, Goto, NoCopy
  <2>3. CASE \E q \in Request : UpdateApply(p, q)
    BY <1>0, <2>3 DEF UpdateApply, tables, Goto, Return, NoCopy, Holding, Copies
  <2>4. CASE \E i \in Items, done \in BOOLEAN : UpdateCompleted(p, i, done)
    BY <1>0, <2>4 DEF UpdateCompleted, tables, Goto, NoCopy
  <2>5. CASE \E due \in SUBSET Items : RollOverRead(p, due)
    <3>1. PICK due \in SUBSET Items : RollOverRead(p, due)
      BY <2>5
    <3>2. \A i \in due : row[i] # NONE
      BY <3>1 DEF RollOverRead, MayBeDue
    <3>3. copy' = [copy EXCEPT ![p] = [i \in Items |-> IF i \in due THEN Reset(row[i]) ELSE NONE]]
      BY <3>1 DEF RollOverRead, Goto, Reset
    <3>4. \A i \in Items : copy'[p][i] # NONE => i \in due
      BY <1>0, <3>3
    <3>5. UNCHANGED used
      BY <3>1 DEF RollOverRead, tables
    <3> QED
      BY <1>0, <3>2, <3>3, <3>4, <3>5
  <2>6. CASE \E i \in Items : DeleteRead(p, i)
    BY <1>0, <2>6 DEF DeleteRead, tables, Goto, NoCopy
  <2>7. CASE \E i \in Items : RollOverSave(p, i)
    BY <1>0, <2>7 DEF RollOverSave, Goto, Holding, Copies
  <2>8. CASE Create(p)
    BY <1>0, <2>8 DEF Create, Insert, Return, Goto, NoCopy
  <2>9. CASE Record(p)
    BY <1>0, <2>9 DEF Record, Return, Goto, NoCopy
  <2>10. CASE Save(p) \/ Delete(p) \/ Abort(p)
    BY <1>0, <2>10 DEF Save, Delete, Abort, Return, Goto, NoCopy, tables
  <2> QED
    BY <1>1, <2>1, <2>2, <2>3, <2>4, <2>5, <2>6, <2>7, <2>8, <2>9, <2>10 DEF Handler
<1>2. CASE UNCHANGED <<used, copy>>
  BY <1>2
<1>3. CASE \/ \E h \in HistIds : DeleteHistory(h)
           \/ \E c \in Cats : DeleteCategory(c)
           \/ DeleteList
  BY <1>2, <1>3 DEF DeleteHistory, DeleteCategory, DeleteList
<1> QED
  BY <1>1, <1>2, <1>3 DEF Next, vars

LEMMA InitTyped == Init => Typed /\ CopiesUsed
<1>1. SUFFICES ASSUME Init PROVE Typed /\ CopiesUsed
  OBVIOUS
<1>2. NoCopy \in Copies /\ Held(NoCopy) = {}
  BY DEF NoCopy, Copies, Held
<1>3. TablesOK /\ HandlersOK
  BY <1>1, <1>2 DEF Init, TablesOK, HandlersOK, Labels, Bases
<1>4. AllFit
  BY <1>1, <1>2 DEF Init, AllFit, Fits, OneRow
<1>5. CopiesUsed
  BY <1>1 DEF Init, CopiesUsed, Holding, NoCopy
<1> QED
  BY <1>3, <1>4, <1>5 DEF Typed

LEMMA StepCopiesUsed ==
    ASSUME Typed, CopiesUsed, [Next]_vars PROVE CopiesUsed'
<1>1. \A i \in Items : row[i] # NONE => i \in used
  BY DEF Typed, TablesOK
<1> QED
  BY <1>1, HeldCameFrom DEF CopiesUsed, Holding

LEMMA TypedIsTypeOK == Typed => TypeOK
BY DEF Typed, TypeOK, TablesOK, HandlersOK, AllFit, Fits, Held, Holding, Labels, Copies, Bases

LEMMA AlwaysTyped == Spec => [](Typed /\ CopiesUsed)
<1>1. Init => Typed /\ CopiesUsed
  BY InitTyped
<1>2. Typed /\ CopiesUsed /\ [Next]_vars => (Typed /\ CopiesUsed)'
  BY StepTyped, StepCopiesUsed
<1> QED
  BY <1>1, <1>2, PTL DEF Spec

(* Whatever handlers run at once and wherever they fail, each holds the    *)
(* copy its next statement needs, and a row only ever has an id that was  *)
(* given out for it.                                                      *)
THEOREM TypeCorrect == Spec => []TypeOK
BY AlwaysTyped, TypedIsTypeOK, PTL

-----------------------------------------------------------------------------
(* Where every value of a step comes from. The theorems below are about    *)
(* values that travel: out of the table into a copy, through an update,   *)
(* and back in, perhaps over a row that others have changed since.        *)

(* A row is what it was, lost its category, was saved or was inserted.     *)
RowFrom(i) ==
    \/ row'[i] = row[i]
    \/ row[i] # NONE /\ row'[i] = [row[i] EXCEPT !.cat = NONE]
    \/ \E p \in Procs : /\ copy[p][i] # NONE /\ KeysHold(copy[p][i])
                        /\ pc[p] \in {"save", "roll"} /\ row'[i] = copy[p][i]
    \/ \E p \in Procs : /\ new[p] # NONE /\ KeysHold(new[p]) /\ i \notin used
                        /\ row'[i] = new[p] /\ (new[p].done => i \in bornDone')

LEMMA RowsCameFrom ==
    ASSUME Typed, [Next]_vars, NEW i \in Items, row'[i] # NONE PROVE RowFrom(i)
<1>0. row \in [Items -> Row \cup {NONE}]
  BY DEF Typed, TablesOK
<1>1. CASE UNCHANGED row
  BY <1>1 DEF RowFrom
<1>2. ASSUME NEW p \in Procs, NEW j \in Holding(p), pc[p] \in {"save", "roll"},
             KeysHold(copy[p][j]), SaveCopy(p, j)
      PROVE  RowFrom(i)
  <2>1. j \in Items /\ copy[p][j] # NONE /\ row' = [row EXCEPT ![j] = copy[p][j]]
    BY <1>2 DEF Holding, SaveCopy
  <2> QED
    BY <1>0, <1>2, <2>1 DEF RowFrom
<1>3. ASSUME NEW p \in Procs, Create(p) PROVE RowFrom(i)
  <2>1. new[p] # NONE
    BY <1>3 DEF Create, Typed, AllFit, Fits
  <2>2. CASE /\ KeysHold(new[p])
             /\ \E j \in Items : /\ Fresh(j) /\ row' = [row EXCEPT ![j] = new[p]]
                                 /\ bornDone' = IF new[p].done THEN bornDone \cup {j} ELSE bornDone
    BY <1>0, <2>1, <2>2 DEF RowFrom, Fresh
  <2> QED
    BY <1>1, <1>3, <2>2 DEF Create, Insert
<1>4. ASSUME NEW p \in Procs, Delete(p) PROVE RowFrom(i)
  <2>1. PICK j \in Holding(p) : row' = [row EXCEPT ![j] = NONE]
    BY <1>4 DEF Delete
  <2> QED
    BY <1>0, <2>1 DEF RowFrom
<1>5. ASSUME NEW p \in Procs, Handler(p) PROVE RowFrom(i)
  <2>1. CASE Save(p)
    BY <1>1, <1>2, <2>1 DEF Save
  <2>2. CASE \E j \in Items : RollOverSave(p, j)
    BY <1>1, <1>2, <2>2 DEF RollOverSave
  <2>3. CASE \/ \E c \in Cats \cup {NONE}, rule \in Rules, done \in BOOLEAN : CreateRead(p, c, rule, done)
             \/ \E h \in HistIds : ReAddRead(p, h)
             \/ \E j \in Items, given \in {FALSE, BaseGiven} : UpdateRead(p, j, given)
             \/ \E q \in Request : UpdateApply(p, q)
             \/ \E j \in Items, done \in BOOLEAN : UpdateCompleted(p, j, done)
             \/ \E due \in SUBSET Items : RollOverRead(p, due)
             \/ \E j \in Items : DeleteRead(p, j)
             \/ Record(p) \/ Abort(p)
    BY <1>1, <2>3 DEF CreateRead, ReAddRead, UpdateRead, UpdateApply, UpdateCompleted,
                      RollOverRead, DeleteRead, Record, Abort, tables
  <2> QED
    BY <1>3, <1>4, <1>5, <2>1, <2>2, <2>3 DEF Handler
<1>6. CASE \E h \in HistIds : DeleteHistory(h)
  BY <1>1, <1>6 DEF DeleteHistory
<1>7. CASE \E c \in Cats : DeleteCategory(c)
  BY <1>7 DEF DeleteCategory, RowFrom
<1>8. CASE DeleteList
  BY <1>8 DEF DeleteList
<1> QED
  BY <1>1, <1>5, <1>6, <1>7, <1>8 DEF Next, vars

(* A copy is what it was, was read, or was read or held and then changed;  *)
(* a handler that completes an item goes on to record it.                 *)
CopyFrom(p, i) ==
    \/ copy'[p][i] = copy[p][i] /\ (pc[p] = "record" => pc'[p] = "record" \/ i \in recorded')
    \/ row[i] # NONE /\ copy'[p][i] = row[i]
    \/ row[i] # NONE /\ copy'[p][i] = Reset(row[i])
    \/ /\ row[i] # NONE
       /\ \E done \in BOOLEAN : copy'[p][i] = WithDone(row[i], done) /\ pc'[p] = AfterApply(row[i], done)
    \/ /\ copy[p][i] # NONE /\ pc[p] = "apply"
       /\ \E q \in Request : /\ ValidCategory(q.cat) /\ copy'[p][i] = Updated(copy[p][i], q)
                             /\ pc'[p] = AfterApply(copy[p][i], q.done)

LEMMA CopiesCameFrom ==
    ASSUME Typed, [Next]_vars, NEW p \in Procs, NEW i \in Items, copy'[p][i] # NONE PROVE CopyFrom(p, i)
<1>0. copy \in [Procs -> Copies] /\ pc \in [Procs -> Labels] /\ NoCopy[i] = NONE
  BY DEF Typed, HandlersOK, NoCopy
<1>1. CASE copy'[p] = copy[p] /\ pc'[p] = pc[p]
  BY <1>1 DEF CopyFrom
<1>2. ASSUME NEW r \in Procs, r # p, NEW label, NEW c, Goto(r, label, c) PROVE CopyFrom(p, i)
  BY <1>0, <1>1, <1>2 DEF Goto
<1>3. ASSUME NEW label, Goto(p, label, NoCopy) PROVE FALSE
  BY <1>0, <1>3 DEF Goto
<1>4. ASSUME NEW j \in Items, NEW r, NEW label, Goto(p, label, [NoCopy EXCEPT ![j] = r])
      PROVE  j = i /\ copy'[p][i] = r /\ pc'[p] = label
  BY <1>0, <1>4 DEF Goto, NoCopy
<1>5. ASSUME NEW r \in Procs, Handler(r) PROVE CopyFrom(p, i)
  <2>1. CASE \/ \E c \in Cats \cup {NONE}, rule \in Rules, done \in BOOLEAN : CreateRead(r, c, rule, done)
             \/ \E h \in HistIds : ReAddRead(r, h)
    <3>1. pc[r] = "idle" /\ pc' = [pc EXCEPT ![r] = "create"] /\ UNCHANGED copy
      BY <2>1 DEF CreateRead, ReAddRead
    <3> QED
      BY <1>0, <3>1 DEF CopyFrom
  <2>2. CASE Create(r) \/ Save(r) \/ Delete(r) \/ Abort(r)
    BY <1>2, <1>3, <2>2 DEF Create, Save, Delete, Abort, Return
  <2>3. ASSUME NEW j \in Items, NEW given, UpdateRead(r, j, given) PROVE CopyFrom(p, i)
    BY <1>2, <1>4, <2>3 DEF UpdateRead, CopyFrom
  <2>4. ASSUME NEW j \in Items, DeleteRead(r, j) PROVE CopyFrom(p, i)
    BY <1>2, <1>4, <2>4 DEF DeleteRead, CopyFrom
  <2>5. ASSUME NEW j \in Items, NEW done \in BOOLEAN, UpdateCompleted(r, j, done) PROVE CopyFrom(p, i)
    BY <1>2, <1>4, <2>5 DEF UpdateCompleted, CopyFrom
  <2>6. ASSUME NEW due \in SUBSET Items, RollOverRead(r, due) PROVE CopyFrom(p, i)
    <3>1. \A j \in due : row[j] # NONE
      BY <2>6 DEF RollOverRead, MayBeDue
    <3>2. Goto(r, "roll", [j \in Items |-> IF j \in due THEN Reset(row[j]) ELSE NONE])
      BY <2>6 DEF RollOverRead, Reset
    <3>3. CASE r = p
      <4>1. copy'[p][i] = IF i \in due THEN Reset(row[i]) ELSE NONE
        BY <1>0, <3>2, <3>3 DEF Goto
      <4> QED
        BY <3>1, <4>1 DEF CopyFrom
    <3> QED
      BY <1>2, <3>2, <3>3
  <2>7. ASSUME NEW j \in Items, RollOverSave(r, j) PROVE CopyFrom(p, i)
    <3>1. PICK label : Goto(r, label, [copy[r] EXCEPT ![j] = NONE])
      BY <2>7 DEF RollOverSave
    <3>2. CASE r = p
      <4>1. copy'[p] = [copy[p] EXCEPT ![j] = NONE]
        BY <1>0, <3>1, <3>2 DEF Goto
      <4>2. copy'[p][i] = copy[p][i] /\ pc[p] = "roll"
        BY <1>0, <2>7, <3>2, <4>1 DEF Copies, RollOverSave
      <4> QED
        BY <4>2 DEF CopyFrom
    <3> QED
      BY <1>2, <3>1, <3>2
  <2>8. CASE Record(r)
    <3>1. PICK j \in Holding(r) : (recorded' = recorded \cup {j} /\ Goto(r, "save", copy[r])) \/ Goto(r, "idle", NoCopy)
      BY <2>8 DEF Record, Return
    <3>2. CASE r = p /\ recorded' = recorded \cup {j} /\ Goto(r, "save", copy[r])
      <4>1. Holding(p) = {j}
        BY <2>8, <3>2, HeldRow DEF Record, OneRow, Typed
      <4>2. copy'[p] = copy[p]
        BY <1>0, <3>2 DEF Goto
      <4>3. i = j
        BY <4>1, <4>2 DEF Holding
      <4> QED
        BY <3>2, <4>2, <4>3 DEF CopyFrom
    <3> QED
      BY <1>2, <1>3, <3>1, <3>2
  <2>9. ASSUME NEW q \in Request, UpdateApply(r, q) PROVE CopyFrom(p, i)
    <3>1. CASE Return(r)
      BY <1>2, <1>3, <3>1 DEF Return
    <3>2. ASSUME ValidCategory(q.cat), NEW j \in Holding(r),
                 Goto(r, AfterApply(copy[r][j], q.done), [copy[r] EXCEPT ![j] = Updated(@, q)])
          PROVE  CopyFrom(p, i)
      <4>1. CASE r = p
        <5>1. Holding(p) = {j} /\ j \in Items
          BY <2>9, <3>2, <4>1, HeldRow DEF UpdateApply, OneRow, Typed
        <5>2. copy'[p] = [copy[p] EXCEPT ![j] = Updated(@, q)] /\ pc'[p] = AfterApply(copy[p][j], q.done)
          BY <1>0, <3>2, <4>1 DEF Goto
        <5>3. i = j
          BY <1>0, <5>1, <5>2 DEF Holding, Copies
        <5>4. copy'[p][i] = Updated(copy[p][i], q) /\ copy[p][i] # NONE /\ pc[p] = "apply"
          BY <1>0, <2>9, <4>1, <5>1, <5>2, <5>3 DEF Holding, Copies, UpdateApply
        <5> QED
          BY <3>2, <5>2, <5>3, <5>4 DEF CopyFrom
      <4> QED
        BY <1>2, <3>2, <4>1
    <3> QED
      BY <2>9, <3>1, <3>2 DEF UpdateApply
  <2> QED
    BY <1>5, <2>1, <2>2, <2>3, <2>4, <2>5, <2>6, <2>7, <2>8, <2>9 DEF Handler
<1>6. CASE UNCHANGED <<pc, copy>>
  BY <1>1, <1>6
<1>7. CASE \/ \E h \in HistIds : DeleteHistory(h)
           \/ \E c \in Cats : DeleteCategory(c)
           \/ DeleteList
  BY <1>6, <1>7 DEF DeleteHistory, DeleteCategory, DeleteList
<1> QED
  BY <1>5, <1>6, <1>7 DEF Next, vars

(* What was recorded, or created completed, stays so. *)
LEMMA HistoryGrows == [Next]_vars => recorded \subseteq recorded' /\ bornDone \subseteq bornDone'
<1>1. ASSUME NEW p \in Procs, Handler(p) PROVE recorded \subseteq recorded' /\ bornDone \subseteq bornDone'
  <2>1. CASE Create(p)
    BY <2>1 DEF Create, Insert
  <2>2. CASE Record(p)
    BY <2>2 DEF Record
  <2>3. CASE UNCHANGED <<recorded, bornDone>>
    BY <2>3
  <2> QED
    BY <1>1, <2>1, <2>2, <2>3 DEF Handler, CreateRead, ReAddRead, UpdateRead, UpdateApply, UpdateCompleted,
       RollOverRead, DeleteRead, RollOverSave, Save, Delete, Abort, ghosts
<1>2. CASE UNCHANGED <<recorded, bornDone>>
  BY <1>2
<1> QED
  BY <1>1, <1>2 DEF Next, vars, DeleteHistory, DeleteCategory, DeleteList, ghosts

(* A row to be inserted is unscheduled, in a validated category or in that *)
(* of a history entry.                                                    *)
NewFrom(p) ==
    \/ new'[p] = new[p]
    \/ ~new'[p].due /\ new'[p].cat # KEEP /\ ValidCategory(new'[p].cat)
    \/ ~new'[p].due /\ \E h \in HistIds : hist[h] # NONE /\ new'[p].cat = hist[h].cat

LEMMA NewCameFrom ==
    ASSUME Typed, [Next]_vars, NEW p \in Procs, new'[p] # NONE PROVE NewFrom(p)
<1>0. new \in [Procs -> Row \cup {NONE}]
  BY DEF Typed, HandlersOK
<1>1. CASE UNCHANGED new
  BY <1>1 DEF NewFrom
<1>2. ASSUME NEW r \in Procs, Forget(r) PROVE NewFrom(p)
  BY <1>0, <1>2 DEF Forget, NewFrom
<1>3. ASSUME NEW r \in Procs, Handler(r) PROVE NewFrom(p)
  <2>1. ASSUME NEW c \in Cats \cup {NONE}, NEW rule \in Rules, NEW done \in BOOLEAN,
               CreateRead(r, c, rule, done)
        PROVE  NewFrom(p)
    BY <1>0, <2>1 DEF CreateRead, NewFrom
  <2>2. ASSUME NEW h \in HistIds, ReAddRead(r, h) PROVE NewFrom(p)
    BY <1>0, <2>2 DEF ReAddRead, NewFrom
  <2>3. CASE Create(r) \/ Record(r) \/ Delete(r) \/ Abort(r) \/ \E q \in Request : UpdateApply(r, q)
    BY <1>1, <1>2, <2>3 DEF Create, Record, Delete, Abort, UpdateApply, Return
  <2> QED
    BY <1>1, <1>3, <2>1, <2>2, <2>3 DEF Handler, UpdateRead, UpdateCompleted, RollOverRead, DeleteRead,
       RollOverSave, Save
<1> QED
  BY <1>1, <1>3 DEF Next, vars, DeleteHistory, DeleteCategory, DeleteList

-----------------------------------------------------------------------------
(* The schedule of a recurring item. *)

(* No roll-over, update or completion, each saving a row read at another   *)
(* time, leaves an open or one-off item scheduled: the schedule travels   *)
(* with the row it belongs to, in every copy and every row inserted.      *)
SchedulesOK ==
    ScheduledOnlyIfCompleted /\ \A p \in Procs : new[p] # NONE => Scheduled(new[p])

LEMMA StepSchedules ==
    ASSUME Typed, SchedulesOK, [Next]_vars PROVE SchedulesOK'
<1>1. ASSUME NEW i \in Items, row[i] # NONE PROVE row[i] \in Row /\ Scheduled(row[i])
  BY <1>1 DEF Typed, TablesOK, SchedulesOK, ScheduledOnlyIfCompleted
<1>2. ASSUME NEW p \in Procs, NEW i \in Items, copy[p][i] # NONE
      PROVE  copy[p][i] \in Row /\ Scheduled(copy[p][i])
  BY <1>2 DEF Typed, HandlersOK, Copies, SchedulesOK, ScheduledOnlyIfCompleted
<1>3. ASSUME NEW p \in Procs, new[p] # NONE PROVE Scheduled(new[p])
  BY <1>3 DEF SchedulesOK
<1>4. ASSUME NEW i \in Items, row'[i] # NONE PROVE Scheduled(row'[i])
  <2>1. CASE row[i] # NONE /\ row'[i] = [row[i] EXCEPT !.cat = NONE]
    BY <1>1, <2>1 DEF Scheduled, Row
  <2> QED
    BY <1>1, <1>2, <1>3, <1>4, <2>1, RowsCameFrom DEF RowFrom
<1>5. ASSUME NEW p \in Procs, NEW i \in Items, copy'[p][i] # NONE PROVE Scheduled(copy'[p][i])
  <2>1. CASE row[i] # NONE /\ copy'[p][i] = Reset(row[i])
    BY <1>1, <2>1, ResetRow DEF Scheduled
  <2>2. CASE row[i] # NONE /\ \E done \in BOOLEAN : copy'[p][i] = WithDone(row[i], done)
    BY <1>1, <2>2, DoneKeepsSchedule
  <2>3. CASE copy[p][i] # NONE /\ \E q \in Request : copy'[p][i] = Updated(copy[p][i], q)
    BY <1>2, <2>3, UpdatedRow
  <2> QED
    BY <1>1, <1>2, <1>5, <2>1, <2>2, <2>3, CopiesCameFrom DEF CopyFrom
<1>6. ASSUME NEW p \in Procs, new'[p] # NONE PROVE Scheduled(new'[p])
  BY <1>3, <1>6, NewCameFrom DEF NewFrom, Scheduled
<1> QED
  BY <1>4, <1>5, <1>6 DEF SchedulesOK, ScheduledOnlyIfCompleted

(* next_due_at is set only on completed recurring items, whatever copies    *)
(* are saved over what: about every Save of Update, UpdateCompleted and    *)
(* rollOverDueItems.                                                       *)
THEOREM NeverScheduledOpen == Spec => []ScheduledOnlyIfCompleted
<1>1. Init => SchedulesOK
  BY DEF Init, SchedulesOK, ScheduledOnlyIfCompleted, NoCopy
<1>2. Typed /\ SchedulesOK /\ [Next]_vars => SchedulesOK'
  BY StepSchedules
<1>3. SchedulesOK => ScheduledOnlyIfCompleted
  BY DEF SchedulesOK
<1> QED
  BY <1>1, <1>2, <1>3, AlwaysTyped, PTL DEF Spec

(* Nor is a completed recurring item ever left unscheduled, so that it      *)
(* would never reappear, but for those created completed: the copies       *)
(* handlers hold keep to the same rule.                                   *)
DuesOK ==
    /\ CompletedRecurringIsScheduled
    /\ \A p \in Procs, i \in Items : copy[p][i] # NONE => Due(copy[p][i]) \/ i \in bornDone

LEMMA StepDues ==
    ASSUME Typed, DuesOK, [Next]_vars PROVE DuesOK'
<1>0. bornDone \subseteq bornDone'
  BY HistoryGrows
<1>1. ASSUME NEW i \in Items, row[i] # NONE PROVE row[i] \in Row /\ (Due(row[i]) \/ i \in bornDone)
  BY <1>1 DEF Typed, TablesOK, DuesOK, CompletedRecurringIsScheduled, Due
<1>2. ASSUME NEW p \in Procs, NEW i \in Items, copy[p][i] # NONE
      PROVE  copy[p][i] \in Row /\ (Due(copy[p][i]) \/ i \in bornDone)
  BY <1>2 DEF Typed, HandlersOK, Copies, DuesOK
<1>4. ASSUME NEW i \in Items, row'[i] # NONE PROVE Due(row'[i]) \/ i \in bornDone'
  <2>1. CASE row[i] # NONE /\ row'[i] = [row[i] EXCEPT !.cat = NONE]
    BY <1>0, <1>1, <2>1 DEF Due, Row
  <2>2. CASE \E p \in Procs : row'[i] = new[p] /\ (new[p].done => i \in bornDone')
    BY <2>2 DEF Due
  <2> QED
    BY <1>0, <1>1, <1>2, <1>4, <2>1, <2>2, RowsCameFrom DEF RowFrom
<1>5. ASSUME NEW p \in Procs, NEW i \in Items, copy'[p][i] # NONE
      PROVE  Due(copy'[p][i]) \/ i \in bornDone'
  <2>1. CASE row[i] # NONE /\ copy'[p][i] = Reset(row[i])
    BY <1>1, <2>1, ResetRow DEF Due
  <2>2. CASE row[i] # NONE /\ \E done \in BOOLEAN : copy'[p][i] = WithDone(row[i], done)
    BY <1>0, <1>1, <2>2, DoneKeepsSchedule
  <2>3. CASE copy[p][i] # NONE /\ \E q \in Request : copy'[p][i] = Updated(copy[p][i], q)
    BY <1>0, <1>2, <2>3, UpdatedRow
  <2> QED
    BY <1>0, <1>1, <1>2, <1>5, <2>1, <2>2, <2>3, CopiesCameFrom DEF CopyFrom
<1> QED
  BY <1>4, <1>5 DEF DuesOK, CompletedRecurringIsScheduled, Due

(* A completed recurring item has a time at which it reappears, unless it  *)
(* was created completed (Create computes none), through all lost updates. *)
THEOREM CompletedReappear == Spec => []CompletedRecurringIsScheduled
<1>1. Init => DuesOK
  BY DEF Init, DuesOK, CompletedRecurringIsScheduled, NoCopy
<1>2. Typed /\ DuesOK /\ [Next]_vars => DuesOK'
  BY StepDues
<1>3. DuesOK => CompletedRecurringIsScheduled
  BY DEF DuesOK
<1> QED
  BY <1>1, <1>2, <1>3, AlwaysTyped, PTL DEF Spec

-----------------------------------------------------------------------------
(* An item that is not created completed is only completed by a request    *)
(* that has written its history entry: until then the completion is in    *)
(* the copy of a handler about to record it, and nowhere else.            *)
CompletionsRecorded ==
    /\ CompletedItemsWereRecorded
    /\ \A p \in Procs, i \in Items :
          (copy[p][i] # NONE /\ copy[p][i].done) => i \in recorded \cup bornDone \/ pc[p] = "record"

LEMMA StepRecorded ==
    ASSUME Typed, CompletionsRecorded, [Next]_vars PROVE CompletionsRecorded'
<1>0. recorded \subseteq recorded' /\ bornDone \subseteq bornDone'
  BY HistoryGrows
<1> DEFINE Kept(i) == i \in recorded \cup bornDone
<1>1. ASSUME NEW i \in Items, row[i] # NONE PROVE row[i] \in Row /\ (row[i].done => Kept(i))
  BY <1>1 DEF Typed, TablesOK, CompletionsRecorded, CompletedItemsWereRecorded
<1>2. ASSUME NEW p \in Procs, NEW i \in Items, copy[p][i] # NONE
      PROVE  copy[p][i] \in Row /\ (copy[p][i].done => Kept(i) \/ pc[p] = "record")
  BY <1>2 DEF Typed, HandlersOK, Copies, CompletionsRecorded
<1>3. \A i \in Items : Kept(i) => Kept(i)'
  BY <1>0
<1> HIDE DEF Kept
<1>4. ASSUME NEW i \in Items, row'[i] # NONE, row'[i].done PROVE Kept(i)'
  <2>1. CASE row[i] # NONE /\ row'[i] = [row[i] EXCEPT !.cat = NONE]
    BY <1>1, <1>3, <1>4, <2>1 DEF Row
  <2>2. CASE \E p \in Procs : row'[i] = new[p] /\ (new[p].done => i \in bornDone')
    BY <1>4, <2>2 DEF Kept
  <2>3. CASE \E p \in Procs : copy[p][i] # NONE /\ pc[p] \in {"save", "roll"} /\ row'[i] = copy[p][i]
    BY <1>2, <1>3, <1>4, <2>3
  <2>4. CASE row'[i] = row[i]
    BY <1>1, <1>3, <1>4, <2>4
  <2> QED
    BY <1>4, <2>1, <2>2, <2>3, <2>4, RowsCameFrom DEF RowFrom
<1>5. ASSUME NEW p \in Procs, NEW i \in Items, copy'[p][i] # NONE, copy'[p][i].done
      PROVE  Kept(i)' \/ pc'[p] = "record"
  <2>1. CASE copy'[p][i] = copy[p][i] /\ (pc[p] = "record" => pc'[p] = "record" \/ i \in recorded')
    BY <1>2, <1>3, <1>5, <2>1 DEF Kept
  <2>2. CASE row[i] # NONE /\ copy'[p][i] = row[i]
    BY <1>1, <1>3, <1>5, <2>2
  <2>3. CASE row[i] # NONE /\ copy'[p][i] = Reset(row[i])
    BY <1>1, <1>5, <2>3, ResetRow
  <2>4. CASE /\ row[i] # NONE
             /\ \E done \in BOOLEAN : copy'[p][i] = WithDone(row[i], done) /\ pc'[p] = AfterApply(row[i], done)
    BY <1>1, <1>3, <1>5, <2>4, DoneKeepsSchedule DEF AfterApply
  <2>5. CASE /\ copy[p][i] # NONE /\ pc[p] = "apply"
             /\ \E q \in Request : /\ copy'[p][i] = Updated(copy[p][i], q)
                                   /\ pc'[p] = AfterApply(copy[p][i], q.done)
    BY <1>2, <1>3, <1>5, <2>5, UpdatedRow DEF AfterApply
  <2> QED
    BY <1>5, <2>1, <2>2, <2>3, <2>4, <2>5, CopiesCameFrom DEF CopyFrom
<1> QED
  BY <1>4, <1>5 DEF CompletionsRecorded, CompletedItemsWereRecorded, Kept

(* An item that was not created completed is completed only after          *)
(* history.Record wrote an entry for it: the Save comes after the record,  *)
(* and no stale copy completes an item that was never recorded.            *)
THEOREM CompletedWereRecorded == Spec => []CompletedItemsWereRecorded
<1>1. Init => CompletionsRecorded
  BY DEF Init, CompletionsRecorded, CompletedItemsWereRecorded, NoCopy
<1>2. Typed /\ CompletionsRecorded /\ [Next]_vars => CompletionsRecorded'
  BY StepRecorded
<1>3. CompletionsRecorded => CompletedItemsWereRecorded
  BY DEF CompletionsRecorded
<1> QED
  BY <1>1, <1>2, <1>3, AlwaysTyped, PTL DEF Spec

-----------------------------------------------------------------------------
(* Categories. *)

(* A history entry keeps its category, loses it, or is written with that   *)
(* of the item completed.                                                 *)
HistFrom(h) ==
    \/ hist[h] # NONE /\ hist'[h].cat \in {hist[h].cat, NONE}
    \/ \E p \in Procs, i \in Items : /\ copy[p][i] # NONE /\ KeysHold(copy[p][i])
                                     /\ hist'[h].cat = copy[p][i].cat

LEMMA HistoryCameFrom ==
    ASSUME Typed, [Next]_vars, NEW h \in HistIds, hist'[h] # NONE PROVE HistFrom(h)
<1>0. hist \in [HistIds -> Entry \cup {NONE}]
  BY DEF Typed, TablesOK
<1>1. CASE UNCHANGED hist
  BY <1>1 DEF HistFrom
<1>2. ASSUME NEW p \in Procs, Record(p) PROVE HistFrom(h)
  <2>1. PICK i \in Holding(p) :
          \/ /\ KeysHold(copy[p][i])
             /\ \E g \in HistIds : hist' = [hist EXCEPT ![g] = [item |-> i, cat |-> copy[p][i].cat]]
          \/ UNCHANGED hist
    BY <1>2 DEF Record
  <2>2. CASE /\ KeysHold(copy[p][i])
             /\ \E g \in HistIds : hist' = [hist EXCEPT ![g] = [item |-> i, cat |-> copy[p][i].cat]]
    BY <1>0, <2>2 DEF HistFrom, Holding
  <2> QED
    BY <1>1, <2>1, <2>2
<1>3. ASSUME NEW p \in Procs, Delete(p) PROVE HistFrom(h)
  <2>1. PICK i \in Holding(p) : hist' = [g \in HistIds |->
              IF row[i] # NONE /\ hist[g] # NONE /\ hist[g].item = i
              THEN [hist[g] EXCEPT !.item = NONE] ELSE hist[g]]
    BY <1>3 DEF Delete
  <2>2. hist[h] # NONE /\ hist[h] \in Entry
    BY <1>0, <2>1
  <2>3. hist'[h] \in {hist[h], [hist[h] EXCEPT !.item = NONE]}
    BY <2>1
  <2>4. hist'[h].cat = hist[h].cat
    BY <2>2, <2>3 DEF Entry
  <2> QED
    BY <2>2, <2>4 DEF HistFrom
<1>4. ASSUME NEW c \in Cats, DeleteCategory(c) PROVE HistFrom(h)
  <2>1. hist' = [g \in HistIds |-> IF hist[g] # NONE /\ hist[g].cat = c
                                   THEN [hist[g] EXCEPT !.cat = NONE] ELSE hist[g]]
    BY <1>4 DEF DeleteCategory
  <2>2. hist[h] # NONE /\ hist[h] \in Entry
    BY <1>0, <2>1
  <2>3. hist'[h] \in {hist[h], [hist[h] EXCEPT !.cat = NONE]}
    BY <2>1
  <2>4. hist'[h].cat \in {hist[h].cat, NONE}
    BY <2>2, <2>3 DEF Entry
  <2> QED
    BY <2>2, <2>4 DEF HistFrom
<1>5. ASSUME NEW g \in HistIds, DeleteHistory(g) PROVE HistFrom(h)
  BY <1>0, <1>5 DEF DeleteHistory, HistFrom
<1>6. CASE DeleteList
  BY <1>6 DEF DeleteList
<1>7. ASSUME NEW p \in Procs, Handler(p) PROVE HistFrom(h)
  BY <1>1, <1>2, <1>3, <1>7 DEF Handler, CreateRead, ReAddRead, Create, UpdateRead, UpdateApply, UpdateCompleted,
     RollOverRead, DeleteRead, RollOverSave, Save, Abort, tables
<1> QED
  BY <1>1, <1>4, <1>5, <1>6, <1>7 DEF Next, vars

(* Where an item, a history entry, a copy or a row to insert may be. *)
OwnCat(c) == c \in OwnCats \cup {NONE}

(* A category that goes takes every row and entry out of it. *)
LEMMA CategoriesStep ==
    ASSUME Typed, [Next]_vars
    PROVE  \/ cats' = cats
           \/ \E c \in Cats : /\ cats' = cats \ {c}
                              /\ \A i \in Items : row'[i] # NONE =>
                                    row[i] # NONE /\ (row'[i] = row[i] \/ row'[i].cat = NONE) /\ row'[i].cat # c
                              /\ \A h \in HistIds : hist'[h] # NONE =>
                                    hist[h] # NONE /\ (hist'[h] = hist[h] \/ hist'[h].cat = NONE) /\ hist'[h].cat # c
<1>0. row \in [Items -> Row \cup {NONE}] /\ hist \in [HistIds -> Entry \cup {NONE}]
  BY DEF Typed, TablesOK
<1>1. ASSUME NEW c \in Cats, DeleteCategory(c)
      PROVE  /\ cats' = cats \ {c}
             /\ \A i \in Items : row'[i] # NONE =>
                   row[i] # NONE /\ (row'[i] = row[i] \/ row'[i].cat = NONE) /\ row'[i].cat # c
             /\ \A h \in HistIds : hist'[h] # NONE =>
                   hist[h] # NONE /\ (hist'[h] = hist[h] \/ hist'[h].cat = NONE) /\ hist'[h].cat # c
  <2>1. c # NONE
    BY CatsAssumption
  <2>2. /\ cats' = cats \ {c}
        /\ row' = [i \in Items |-> IF row[i] # NONE /\ row[i].cat = c
                                   THEN [row[i] EXCEPT !.cat = NONE] ELSE row[i]]
        /\ hist' = [h \in HistIds |-> IF hist[h] # NONE /\ hist[h].cat = c
                                      THEN [hist[h] EXCEPT !.cat = NONE] ELSE hist[h]]
    BY <1>1 DEF DeleteCategory
  <2>3. \A r \in Row : [r EXCEPT !.cat = NONE].cat = NONE
    BY DEF Row
  <2>4. \A e \in Entry : [e EXCEPT !.cat = NONE].cat = NONE
    BY DEF Entry
  <2> QED
    BY <1>0, <2>1, <2>2, <2>3, <2>4
<1>2. ASSUME NEW p \in Procs, Handler(p) PROVE cats' = cats
  BY <1>2 DEF Handler, CreateRead, ReAddRead, Create, UpdateRead, UpdateApply, UpdateCompleted, Record, Delete,
     RollOverRead, DeleteRead, RollOverSave, Save, Abort, tables
<1> QED
  BY <1>1, <1>2 DEF Next, vars, DeleteHistory, DeleteList

(* A category of another household gets into no item and no history entry, *)
(* and a deleted one stays in none: what a handler carries is at worst a  *)
(* category of its own household that has gone, which the foreign key     *)
(* keeps out.                                                             *)
OwnCategories ==
    /\ CategoryOfOwnHousehold
    /\ \A p \in Procs : /\ new[p] # NONE => OwnCat(new[p].cat)
                        /\ \A i \in Items : copy[p][i] # NONE => OwnCat(copy[p][i].cat)

LEMMA StepOwnCategories ==
    ASSUME Typed, OwnCategories, [Next]_vars PROVE OwnCategories'
<1> DEFINE Good(c) == c \in (cats \cap OwnCats) \cup {NONE}
<1>1. ASSUME NEW i \in Items, row[i] # NONE PROVE row[i] \in Row /\ Good(row[i].cat)
  BY <1>1 DEF Typed, TablesOK, OwnCategories, CategoryOfOwnHousehold
<1>2. ASSUME NEW h \in HistIds, hist[h] # NONE PROVE Good(hist[h].cat)
  BY <1>2 DEF OwnCategories, CategoryOfOwnHousehold
<1>3. ASSUME NEW p \in Procs, NEW i \in Items, copy[p][i] # NONE PROVE copy[p][i] \in Row /\ OwnCat(copy[p][i].cat)
  BY <1>3 DEF Typed, HandlersOK, Copies, OwnCategories
<1>4. ASSUME NEW p \in Procs, new[p] # NONE PROVE OwnCat(new[p].cat)
  BY <1>4 DEF OwnCategories
<1>5. \A r : KeysHold(r) /\ OwnCat(r.cat) => Good(r.cat)
  BY DEF KeysHold, OwnCat
<1>6. Good(NONE) /\ \A c : Good(c) => OwnCat(c)
  BY DEF OwnCat
<1>7. \A c : ValidCategory(c) /\ c # KEEP => OwnCat(c)
  BY DEF ValidCategory, OwnCat
<1> HIDE DEF Good
<1>8. ASSUME NEW i \in Items, row'[i] # NONE PROVE Good(row'[i].cat)
  <2>1. CASE row[i] # NONE /\ row'[i] = [row[i] EXCEPT !.cat = NONE]
    BY <1>1, <1>6, <2>1 DEF Row
  <2>2. CASE \E p \in Procs : copy[p][i] # NONE /\ KeysHold(copy[p][i]) /\ row'[i] = copy[p][i]
    BY <1>3, <1>5, <2>2
  <2>3. CASE \E p \in Procs : new[p] # NONE /\ KeysHold(new[p]) /\ row'[i] = new[p]
    BY <1>4, <1>5, <2>3
  <2>4. CASE row'[i] = row[i]
    BY <1>1, <1>8, <2>4
  <2> QED
    BY <1>8, <2>1, <2>2, <2>3, <2>4, RowsCameFrom DEF RowFrom
<1>9. ASSUME NEW h \in HistIds, hist'[h] # NONE PROVE Good(hist'[h].cat)
  <2>1. CASE \E p \in Procs, i \in Items : /\ copy[p][i] # NONE /\ KeysHold(copy[p][i])
                                           /\ hist'[h].cat = copy[p][i].cat
    BY <1>3, <1>5, <2>1
  <2>2. CASE hist[h] # NONE /\ hist'[h].cat \in {hist[h].cat, NONE}
    BY <1>2, <1>6, <2>2
  <2> QED
    BY <1>9, <2>1, <2>2, HistoryCameFrom DEF HistFrom
<1>10. CategoryOfOwnHousehold'
  BY <1>8, <1>9, CategoriesStep DEF CategoryOfOwnHousehold, Good
<1>11. ASSUME NEW p \in Procs, NEW i \in Items, copy'[p][i] # NONE PROVE OwnCat(copy'[p][i].cat)
  <2>1. CASE row[i] # NONE /\ (copy'[p][i] = row[i] \/ copy'[p][i] = Reset(row[i]))
    BY <1>1, <1>6, <2>1, ResetRow
  <2>2. CASE row[i] # NONE /\ \E done \in BOOLEAN : copy'[p][i] = WithDone(row[i], done)
    <3>1. PICK done \in BOOLEAN : copy'[p][i] = WithDone(row[i], done)
      BY <2>2
    <3>2. WithDone(row[i], done).cat = row[i].cat
      BY <1>1, <2>2, WithDoneRow
    <3> QED
      BY <1>1, <1>6, <2>2, <3>1, <3>2
  <2>3. CASE /\ copy[p][i] # NONE
             /\ \E q \in Request : ValidCategory(q.cat) /\ copy'[p][i] = Updated(copy[p][i], q)
    BY <1>3, <1>7, <2>3, UpdatedRow
  <2>4. CASE copy'[p][i] = copy[p][i]
    BY <1>3, <1>11, <2>4
  <2> QED
    BY <1>11, <2>1, <2>2, <2>3, <2>4, CopiesCameFrom DEF CopyFrom
<1>12. ASSUME NEW p \in Procs, new'[p] # NONE PROVE OwnCat(new'[p].cat)
  BY <1>2, <1>4, <1>6, <1>7, <1>12, NewCameFrom DEF NewFrom
<1> QED
  BY <1>10, <1>11, <1>12 DEF OwnCategories, OwnCat

(* Items and entries are in a category of the list's own household that    *)
(* exists: validateCategoryID checks the household some statements before  *)
(* the write, the foreign key the existence.                               *)
THEOREM CategoriesStayHome == Spec => []CategoryOfOwnHousehold
<1>1. Init => OwnCategories
  BY DEF Init, OwnCategories, CategoryOfOwnHousehold, NoCopy
<1>2. Typed /\ OwnCategories /\ [Next]_vars => OwnCategories'
  BY StepOwnCategories
<1>3. OwnCategories => CategoryOfOwnHousehold
  BY DEF OwnCategories
<1> QED
  BY <1>1, <1>2, <1>3, AlwaysTyped, PTL DEF Spec

=============================================================================
