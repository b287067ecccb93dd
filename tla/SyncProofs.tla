----------------------------- MODULE SyncProofs -----------------------------
(***************************************************************************)
(* Proofs about offline synchronisation, for any lists, items, handlers    *)
(* and clients and without the bounds of the runs: the type invariant, and *)
(* that a delta misses no change but a late or a silent one.               *)
(***************************************************************************)
EXTENDS Sync, TLAPS, SequenceTheorems

(* Why a delta is complete: what a request has read is still what is       *)
(* stored, unless the row was written since, and then it is in unread.    *)
ReadIsCurrent ==
    \A c \in Clients, e \in Rows :
        (TableRead(c, e) /\ row[e] # NONE) =>
            got[c][e] = row[e] \/ e \in unread[c] \cup silent

AsksSince == \A c \in Clients : req[c].since \in {NONE, since[c]}

MissInv == ReadIsCurrent /\ AsksSince /\ MissedOnlyIfLate

(* The parts of TypeOK. *)
ReqType == [at : {"idle", "items", "stamp"}, since : Nat \cup {NONE}, told : Note \cup {NONE}]

RowsOK ==
    /\ now \in Nat
    /\ row \in [Rows -> Version \cup {NONE}]
    /\ writes \in [Rows -> Nat]
    /\ \A e \in Rows : row[e] # NONE => row[e].stamp <= now /\ row[e].ver \in 1 .. writes[e]

LogOK ==
    /\ log \in Seq(Note) /\ Len(log) <= HistoryLimit
    /\ \A n \in DOMAIN log : log[n].ver \in 0 .. writes[log[n].row]

HandlersOK ==
    /\ pc \in [Procs -> {"idle", "write", "notify"}]
    /\ loc \in [Procs -> [row : Rows \cup {NONE}, stamp : Nat, ver : Nat]]
    /\ \A p \in Procs : loc[p].stamp <= now /\ (pc[p] # "idle" <=> loc[p].row # NONE)

(* What a handler will notify of is something it wrote. *)
NotesOK == \A p \in Procs : pc[p] # "idle" => loc[p].ver <= writes[loc[p].row]

ClientsOK ==
    /\ held \in [Clients -> [Rows -> Nat \cup {NONE}]]
    /\ since \in [Clients -> Nat \cup {NONE}]
    /\ \A c \in Clients : since[c] # NONE => since[c] <= now
    /\ req \in [Clients -> ReqType]
    /\ got \in [Clients -> [Rows -> Version \cup {NONE}]]

HistoryOK ==
    /\ unread \in [Clients -> SUBSET Rows] /\ late \in [Clients -> SUBSET Rows]
    /\ silent \subseteq Rows /\ deleted \subseteq Rows

Typed == RowsOK /\ LogOK /\ HandlersOK /\ NotesOK /\ ClientsOK /\ HistoryOK

-----------------------------------------------------------------------------
(* What a push leaves in the history is a history within the limit.       *)
LEMMA PushedType ==
    ASSUME NEW n \in Note, log \in Seq(Note), Len(log) <= HistoryLimit
    PROVE  /\ Pushed(n) \in Seq(Note) /\ Len(Pushed(n)) <= HistoryLimit
           /\ \A k \in DOMAIN Pushed(n) : Pushed(n)[k] = n \/ \E m \in DOMAIN log : Pushed(n)[k] = log[m]
<1> DEFINE s == <<n>> \o log
           k == IF Len(log) < HistoryLimit THEN Len(log) + 1 ELSE HistoryLimit
<1>0. HistoryLimit \in Nat
  BY ShapeAssumption
<1>1. s \in Seq(Note) /\ Len(s) = Len(log) + 1 /\ Len(log) \in Nat
  OBVIOUS
<1>2. k \in 0 .. Len(s) /\ k <= HistoryLimit
  BY <1>0, <1>1
<1>3. \A j \in 1 .. Len(s) : s[j] = n \/ \E m \in DOMAIN log : s[j] = log[m]
  <2> SUFFICES ASSUME NEW j \in 1 .. Len(s) PROVE s[j] = n \/ \E m \in DOMAIN log : s[j] = log[m]
    OBVIOUS
  <2>1. CASE j = 1
    BY <2>1
  <2>2. CASE j # 1
    <3>1. j - 1 \in DOMAIN log /\ s[j] = log[j - 1]
      BY <1>1, <2>2
    <3> QED
      BY <3>1
  <2> QED
    BY <2>1, <2>2
<1>4. /\ SubSeq(s, 1, k) \in Seq(Note) /\ Len(SubSeq(s, 1, k)) = k
      /\ \A j \in 1 .. k : SubSeq(s, 1, k)[j] = s[j]
  BY <1>1, <1>2
<1>5. Pushed(n) = SubSeq(s, 1, k)
  BY DEF Pushed
<1> HIDE DEF s, k
<1>6. DOMAIN SubSeq(s, 1, k) = 1 .. k
  BY <1>4, <1>2
<1> QED
  BY <1>2, <1>3, <1>4, <1>5, <1>6, <1>1

-----------------------------------------------------------------------------
(* The steps of handlers. *)
LEMMA CallSaveTyped ==
    ASSUME NEW p \in Procs, NEW e \in Rows, Typed, CallSave(p, e) PROVE Typed'
<1> USE ShapeAssumption DEF Typed, CallSave, client, history, Rows
<1>1. RowsOK' /\ LogOK' /\ ClientsOK' /\ HistoryOK'
  BY DEF RowsOK, LogOK, ClientsOK, HistoryOK
<1>2. HandlersOK' /\ NotesOK'
  BY DEF RowsOK, HandlersOK, NotesOK
<1> QED
  BY <1>1, <1>2

(* More writes leave the history as good as it was. *)
LEMMA LogKept ==
    ASSUME RowsOK, LogOK, log' = log,
           \A f \in Rows : writes'[f] \in Nat /\ writes[f] <= writes'[f]
    PROVE  LogOK'
<1> SUFFICES ASSUME NEW k \in DOMAIN log PROVE log[k].ver \in 0 .. writes'[log[k].row]
  BY DEF LogOK
<1>1. log[k] \in Note /\ log[k].ver \in 0 .. writes[log[k].row]
  BY DEF LogOK
<1>2. log[k].row \in Rows /\ log[k].ver \in Nat
  BY <1>1 DEF Note
<1> QED
  BY <1>1, <1>2 DEF RowsOK

LEMMA WriteTyped ==
    ASSUME NEW p \in Procs, Typed, Write(p) PROVE Typed'
<1> USE ShapeAssumption DEF Typed
<1> DEFINE e == loc[p].row
<1>1. e \in Rows /\ loc[p].stamp \in Nat /\ loc[p].stamp <= now
  BY DEF Write, HandlersOK
<1>2. ClientsOK'
  BY DEF Write, ClientsOK, client, RowsOK
<1>3. now' = now /\ log' = log /\ deleted' = deleted
  BY DEF Write
<1>4. CASE KeysHold(e)
  <2> DEFINE new == [ver |-> writes[e] + 1, stamp |-> loc[p].stamp]
  <2>1. /\ row' = [row EXCEPT ![e] = new] /\ writes' = [writes EXCEPT ![e] = @ + 1]
        /\ pc' = [pc EXCEPT ![p] = "notify"]
        /\ loc' = [loc EXCEPT ![p] = [row |-> e, stamp |-> 0, ver |-> writes[e] + 1]]
        /\ silent' = silent \ {e}
    BY <1>4 DEF Write, WrittenStamp
  <2>2. /\ late' = [c \in Clients |->
              IF since[c] # NONE /\ loc[p].stamp <= since[c] THEN late[c] \cup {e} ELSE late[c] \ {e}]
        /\ unread' = [c \in Clients |->
              IF TableRead(c, e) THEN unread[c] \cup {e} ELSE unread[c]]
    BY <1>4 DEF Write
  <2>3. writes[e] \in Nat /\ new \in Version /\ new.ver = writes[e] + 1 /\ new.stamp = loc[p].stamp
    BY <1>1 DEF RowsOK, Version
  <2> HIDE DEF new
  <2>4. RowsOK'
    BY <1>1, <1>3, <2>1, <2>3 DEF RowsOK
  <2>5. LogOK'
    <3>1. \A f \in Rows : writes'[f] \in Nat /\ writes[f] <= writes'[f]
      BY <1>1, <2>1 DEF RowsOK
    <3> QED
      BY <3>1, <1>3, LogKept
  <2>6. HandlersOK' /\ NotesOK'
    BY <1>1, <1>3, <2>1, <2>3 DEF HandlersOK, RowsOK, NotesOK
  <2>7. HistoryOK'
    BY <1>1, <1>3, <2>1, <2>2 DEF HistoryOK
  <2> QED
    BY <1>2, <2>4, <2>5, <2>6, <2>7
<1>5. CASE ~KeysHold(e)
  <2>1. /\ pc' = [pc EXCEPT ![p] = "idle"] /\ loc' = [loc EXCEPT ![p] = NoLoc]
        /\ UNCHANGED <<row, writes, late, unread, silent>>
    BY <1>5 DEF Write
  <2>2. RowsOK' /\ LogOK' /\ HistoryOK'
    BY <1>3, <2>1 DEF RowsOK, LogOK, HistoryOK
  <2>3. HandlersOK' /\ NotesOK'
    BY <1>3, <2>1 DEF HandlersOK, RowsOK, NotesOK, NoLoc
  <2> QED
    BY <1>2, <2>2, <2>3
<1> QED
  BY <1>4, <1>5

LEMMA NotifyTyped ==
    ASSUME NEW p \in Procs, Typed, Notify(p) PROVE Typed'
<1> USE ShapeAssumption DEF Typed, Notify, client, history
<1> DEFINE n == [row |-> loc[p].row, ver |-> loc[p].ver]
<1>1. n \in Note /\ n.ver <= writes[n.row] /\ n.row \in Rows
  BY DEF HandlersOK, NotesOK, Note
<1>2. RowsOK' /\ ClientsOK' /\ HistoryOK'
  BY DEF RowsOK, ClientsOK, HistoryOK
<1>3. HandlersOK' /\ NotesOK'
  BY DEF HandlersOK, RowsOK, NotesOK, NoLoc
<1>4. LogOK'
  <2>1. log' = Pushed(n) /\ writes' = writes
    OBVIOUS
  <2>2. log \in Seq(Note) /\ Len(log) <= HistoryLimit
    BY DEF LogOK
  <2> HIDE DEF n
  <2>3. /\ Pushed(n) \in Seq(Note) /\ Len(Pushed(n)) <= HistoryLimit
        /\ \A k \in DOMAIN Pushed(n) : Pushed(n)[k] = n \/ \E m \in DOMAIN log : Pushed(n)[k] = log[m]
    BY <1>1, <2>2, PushedType
  <2>4. n.ver \in 0 .. writes[n.row]
    BY <1>1 DEF RowsOK, Note
  <2> QED
    BY <2>1, <2>3, <2>4 DEF LogOK
<1> QED
  BY <1>2, <1>3, <1>4

LEMMA DeleteTyped ==
    ASSUME NEW p \in Procs, NEW e \in Rows, Typed, Delete(p, e) PROVE Typed'
<1> USE ShapeAssumption DEF Typed, Delete, client
<1>1. RowsOK'
  BY DEF RowsOK
<1>2. LogOK' /\ ClientsOK'
  BY DEF LogOK, ClientsOK
<1>3. HandlersOK' /\ NotesOK'
  BY DEF HandlersOK, RowsOK, NotesOK
<1>4. HistoryOK'
  BY DEF HistoryOK, Rows
<1> QED
  BY <1>1, <1>2, <1>3, <1>4

LEMMA DeleteCategoryTyped ==
    ASSUME NEW i \in Items, Typed, DeleteCategory(i) PROVE Typed'
<1> USE ShapeAssumption DEF Typed, DeleteCategory, client
<1>0. i \in Rows
  BY DEF Rows
<1>1. RowsOK'
  BY <1>0 DEF RowsOK, Version
<1>2. LogOK'
  <2>1. \A f \in Rows : writes'[f] \in Nat /\ writes[f] <= writes'[f]
    BY <1>0 DEF RowsOK
  <2> QED
    BY <2>1, LogKept
<1>3. ClientsOK' /\ HistoryOK'
  BY <1>0 DEF ClientsOK, HistoryOK
<1>4. HandlersOK' /\ NotesOK'
  BY <1>0 DEF HandlersOK, RowsOK, NotesOK
<1> QED
  BY <1>1, <1>2, <1>3, <1>4

LEMMA AbortTyped ==
    ASSUME NEW p \in Procs, Typed, Abort(p) PROVE Typed'
<1> USE ShapeAssumption DEF Typed, Abort, client, history
<1>1. RowsOK' /\ LogOK' /\ ClientsOK' /\ HistoryOK'
  BY DEF RowsOK, LogOK, ClientsOK, HistoryOK
<1>2. HandlersOK' /\ NotesOK'
  BY DEF HandlersOK, RowsOK, NotesOK, NoLoc
<1> QED
  BY <1>1, <1>2

-----------------------------------------------------------------------------
(* The steps of clients, and of the environment.                          *)
LEMMA ReadTyped ==
    ASSUME NEW c \in Clients, NEW S, Typed, ReadInto(c, S)
    PROVE  got' \in [Clients -> [Rows -> Version \cup {NONE}]]
BY DEF Typed, RowsOK, ClientsOK, ReadInto

LEMMA ReadListsTyped ==
    ASSUME NEW c \in Clients, NEW from \in {NONE, since[c]}, NEW note \in Seen, Typed,
           ReadLists(c, from, note)
    PROVE  Typed'
<1> USE DEF Typed, ReadLists, writers, history
<1>1. note \in Note \cup {NONE}
  BY DEF Seen, LogOK
<1>2. from \in Nat \cup {NONE}
  BY DEF ClientsOK
<1>3. got' \in [Clients -> [Rows -> Version \cup {NONE}]]
  BY ReadTyped
<1>4. ClientsOK'
  <2>1. [at |-> "items", since |-> from, told |-> note] \in ReqType
    BY <1>1, <1>2 DEF ReqType
  <2>2. req' \in [Clients -> ReqType]
    BY <2>1 DEF ClientsOK
  <2> QED
    BY <1>3, <2>2 DEF ClientsOK
<1>5. RowsOK' /\ LogOK' /\ HandlersOK' /\ NotesOK' /\ HistoryOK'
  BY DEF RowsOK, LogOK, HandlersOK, NotesOK, HistoryOK
<1> QED
  BY <1>4, <1>5

LEMMA ReadItemsTyped ==
    ASSUME NEW c \in Clients, Typed, ReadItems(c) PROVE Typed'
<1> USE DEF Typed, ReadItems, writers, history
<1>1. got' \in [Clients -> [Rows -> Version \cup {NONE}]]
  BY ReadTyped
<1>2. req' \in [Clients -> ReqType]
  BY DEF ClientsOK, ReqType
<1>3. ClientsOK'
  BY <1>1, <1>2 DEF ClientsOK
<1>4. RowsOK' /\ LogOK' /\ HandlersOK' /\ NotesOK' /\ HistoryOK'
  BY DEF RowsOK, LogOK, HandlersOK, NotesOK, HistoryOK
<1> QED
  BY <1>3, <1>4

LEMMA EmptyRequestTyped == NoReq \in ReqType /\ NoRows \in [Rows -> Version \cup {NONE}]
BY DEF NoReq, NoRows, ReqType

LEMMA AnswerTyped ==
    ASSUME NEW c \in Clients, Typed, Answer(c) PROVE Typed'
<1> USE DEF Typed, Answer, writers
<1>1. req' \in [Clients -> ReqType] /\ got' \in [Clients -> [Rows -> Version \cup {NONE}]]
  BY EmptyRequestTyped DEF ClientsOK
<1>2. held' \in [Clients -> [Rows -> Nat \cup {NONE}]]
  <2>1. \A e \in Answered(c) : got[c][e].ver \in Nat
    BY DEF Answered, ClientsOK, Version
  <2> QED
    BY <2>1 DEF ClientsOK
<1>3. ClientsOK'
  BY <1>1, <1>2 DEF ClientsOK, RowsOK
<1>4. HistoryOK'
  BY DEF HistoryOK
<1>5. RowsOK' /\ LogOK' /\ HandlersOK' /\ NotesOK'
  BY DEF RowsOK, LogOK, HandlersOK, NotesOK
<1> QED
  BY <1>3, <1>4, <1>5

LEMMA NoAnswerTyped ==
    ASSUME NEW c \in Clients, Typed, NoAnswer(c) PROVE Typed'
<1> USE DEF Typed, NoAnswer, writers
<1>1. ClientsOK'
  BY EmptyRequestTyped DEF ClientsOK, RowsOK
<1>2. HistoryOK'
  BY DEF HistoryOK
<1>3. RowsOK' /\ LogOK' /\ HandlersOK' /\ NotesOK'
  BY DEF RowsOK, LogOK, HandlersOK, NotesOK
<1> QED
  BY <1>1, <1>2, <1>3

LEMMA EnvironmentTyped ==
    ASSUME Typed, LoseHistory \/ Tick PROVE Typed'
<1> USE ShapeAssumption DEF Typed, client, history
<1>1. CASE LoseHistory
  <2>1. LogOK'
    BY <1>1 DEF LoseHistory, LogOK
  <2> QED
    BY <1>1, <2>1 DEF LoseHistory, RowsOK, HandlersOK, NotesOK, ClientsOK, HistoryOK
<1>2. CASE Tick
  <2>1. RowsOK'
    BY <1>2 DEF Tick, RowsOK, Version
  <2>2. LogOK' /\ NotesOK' /\ HistoryOK'
    BY <1>2 DEF Tick, LogOK, NotesOK, HistoryOK
  <2>3. HandlersOK'
    BY <1>2 DEF Tick, HandlersOK, RowsOK
  <2>4. ClientsOK'
    BY <1>2 DEF Tick, ClientsOK, RowsOK
  <2> QED
    BY <2>1, <2>2, <2>3, <2>4
<1> QED
  BY <1>1, <1>2

LEMMA InitTyped == Init => Typed
<1> USE ShapeAssumption DEF Init, Typed
<1>1. Init => RowsOK /\ HandlersOK /\ NotesOK
  BY DEF RowsOK, HandlersOK, NotesOK, NoRows, NoLoc
<1>2. Init => LogOK /\ HistoryOK
  BY DEF LogOK, HistoryOK
<1>3. Init => ClientsOK
  BY EmptyRequestTyped DEF ClientsOK, NoRows
<1> QED
  BY <1>1, <1>2, <1>3

LEMMA StepTyped == Typed /\ [Next]_vars => Typed'
<1> SUFFICES ASSUME Typed, [Next]_vars PROVE Typed'
  OBVIOUS
<1>1. CASE \E p \in Procs : Handler(p)
  BY <1>1, CallSaveTyped, WriteTyped, NotifyTyped, DeleteTyped, AbortTyped DEF Handler
<1>2. CASE \E i \in Items : DeleteCategory(i)
  BY <1>2, DeleteCategoryTyped
<1>3. CASE \E c \in Clients : Client(c)
  BY <1>3, ReadListsTyped, ReadItemsTyped, AnswerTyped, NoAnswerTyped DEF Client
<1>4. CASE LoseHistory \/ Tick
  BY <1>4, EnvironmentTyped
<1>5. CASE UNCHANGED vars
  BY <1>5 DEF vars, Typed, RowsOK, LogOK, HandlersOK, NotesOK, ClientsOK, HistoryOK
<1> QED
  BY <1>1, <1>2, <1>3, <1>4, <1>5 DEF Next

LEMMA TypedAlways == Spec => []Typed
BY InitTyped, StepTyped, PTL DEF Spec

(* Type correctness: every reachable state has the shape of Sync, and no   *)
(* stamp is ahead of the clock.                                           *)
THEOREM TypeCorrect == Spec => []TypeOK
<1>1. Typed => TypeOK
  BY DEF Typed, RowsOK, LogOK, HandlersOK, ClientsOK, ReqType, HistoryOK, TypeOK
<1> QED
  BY <1>1, TypedAlways, PTL

-----------------------------------------------------------------------------
(* Steps that touch neither what is stored nor what a client has.         *)
LEMMA MissFrame ==
    ASSUME MissInv, UNCHANGED <<row, held, since, req, got, unread, late, silent>>
    PROVE  MissInv'
BY DEF MissInv, ReadIsCurrent, AsksSince, MissedOnlyIfLate, TableRead, Changed

(* A write puts its row in unread for the requests that are past its       *)
(* table, and in late for the clients whose since is not before it.       *)
LEMMA WriteMiss ==
    ASSUME NEW p \in Procs, Typed, MissInv, Write(p) PROVE MissInv'
<1> DEFINE e == loc[p].row
<1>1. CASE KeysHold(e)
  <2> DEFINE new == [ver |-> writes[e] + 1, stamp |-> loc[p].stamp]
  <2>1. /\ row' = [row EXCEPT ![e] = new] /\ silent' = silent \ {e}
        /\ late' = [c \in Clients |->
              IF since[c] # NONE /\ loc[p].stamp <= since[c] THEN late[c] \cup {e} ELSE late[c] \ {e}]
        /\ unread' = [c \in Clients |->
              IF TableRead(c, e) THEN unread[c] \cup {e} ELSE unread[c]]
        /\ UNCHANGED <<held, since, req, got>>
    BY <1>1 DEF Write, WrittenStamp, client
  <2>2. e \in Rows /\ new.stamp = loc[p].stamp /\ loc[p].stamp \in Nat
    BY DEF Write, Typed, HandlersOK
  <2>3. \A c \in Clients : since[c] # NONE => since[c] \in Nat
    BY DEF Typed, ClientsOK
  <2>4. row'[e] = new /\ \A f \in Rows \ {e} : row'[f] = row[f]
    BY <2>1, <2>2 DEF Typed, RowsOK
  <2> HIDE DEF new, e
  <2>5. AsksSince'
    BY <2>1 DEF MissInv, AsksSince
  <2>6. ASSUME NEW c \in Clients, NEW f \in Rows, TableRead(c, f), row'[f] # NONE
        PROVE  got[c][f] = row'[f] \/ f \in unread'[c] \cup silent'
    <3>1. CASE f = e
      BY <2>1, <2>6, <3>1
    <3>2. CASE f # e
      BY <2>1, <2>4, <2>6, <3>2 DEF MissInv, ReadIsCurrent
    <3> QED
      BY <3>1, <3>2
  <2>7. ReadIsCurrent'
    BY <2>1, <2>6 DEF ReadIsCurrent, TableRead
  <2>8. ASSUME NEW c \in Clients, NEW f \in Rows,
               since[c] # NONE, row'[f] # NONE, held[c][f] # row'[f].ver
        PROVE  row'[f].stamp > since[c] \/ f \in late'[c] \cup silent'
    <3>1. CASE f = e
      BY <2>1, <2>2, <2>3, <2>4, <2>8, <3>1
    <3>2. CASE f # e
      BY <2>1, <2>4, <2>8, <3>2 DEF MissInv, MissedOnlyIfLate, Changed
    <3> QED
      BY <3>1, <3>2
  <2>9. MissedOnlyIfLate'
    BY <2>1, <2>8 DEF MissedOnlyIfLate, Changed
  <2> QED
    BY <2>5, <2>7, <2>9 DEF MissInv
<1>2. CASE ~KeysHold(e)
  BY <1>2, MissFrame DEF Write, client
<1> QED
  BY <1>1, <1>2

LEMMA DeleteMiss ==
    ASSUME NEW p \in Procs, NEW e \in Rows, MissInv, Delete(p, e) PROVE MissInv'
<1>1. \A f \in Rows : row'[f] # NONE => row'[f] = row[f]
  BY DEF Delete
<1>2. UNCHANGED <<held, since, req, got, unread, late, silent>>
  BY DEF Delete, client
<1> QED
  BY <1>1, <1>2 DEF MissInv, ReadIsCurrent, AsksSince, MissedOnlyIfLate, TableRead, Changed

LEMMA DeleteCategoryMiss ==
    ASSUME NEW i \in Items, Typed, MissInv, DeleteCategory(i) PROVE MissInv'
<1>1. \A f \in Rows \ {i} : row'[f] = row[f]
  BY DEF DeleteCategory, Typed, RowsOK
<1>2. silent' = silent \cup {i} /\ UNCHANGED <<held, since, req, got, unread, late>>
  BY DEF DeleteCategory, client
<1> QED
  BY <1>1, <1>2 DEF MissInv, ReadIsCurrent, AsksSince, MissedOnlyIfLate, TableRead, Changed

(* A query brings its table up to date in got. *)
LEMMA ReadListsMiss ==
    ASSUME NEW c \in Clients, NEW from \in {NONE, since[c]}, NEW note \in Seen, Typed, MissInv,
           ReadLists(c, from, note)
    PROVE  MissInv'
<1> USE ShapeAssumption DEF ReadLists, writers, history
<1>1. MissedOnlyIfLate'
  BY DEF MissInv, MissedOnlyIfLate, Changed
<1>2. AsksSince'
  BY DEF MissInv, AsksSince, Typed, ClientsOK
<1>3. /\ req'[c].at = "items" /\ \A d \in Clients \ {c} : req'[d] = req[d] /\ got'[d] = got[d]
      /\ \A e \in Lists : row[e] # NONE => got'[c][e] = row[e]
  BY DEF Typed, ClientsOK, ReadInto, Rows
<1>4. ReadIsCurrent'
  BY <1>3 DEF MissInv, ReadIsCurrent, TableRead, Rows
<1> QED
  BY <1>1, <1>2, <1>4 DEF MissInv

LEMMA ReadItemsMiss ==
    ASSUME NEW c \in Clients, Typed, MissInv, ReadItems(c) PROVE MissInv'
<1> USE ShapeAssumption DEF ReadItems, writers, history
<1>1. MissedOnlyIfLate'
  BY DEF MissInv, MissedOnlyIfLate, Changed
<1>2. AsksSince'
  BY DEF MissInv, AsksSince, Typed, ClientsOK, ReqType
<1>3. /\ req[c].at = "items" /\ \A d \in Clients \ {c} : req'[d] = req[d] /\ got'[d] = got[d]
      /\ \A e \in Items : row[e] # NONE => got'[c][e] = row[e]
      /\ \A e \in Lists : got'[c][e] = got[c][e]
  BY DEF Typed, ClientsOK, ReadInto, Rows
<1>4. ReadIsCurrent'
  BY <1>3 DEF MissInv, ReadIsCurrent, TableRead, Rows
<1> QED
  BY <1>1, <1>2, <1>4 DEF MissInv

(* An answer leaves behind only what was written after its reads, which is *)
(* late from now on, and what the client missed before.                   *)
LEMMA AnswerMiss ==
    ASSUME NEW c \in Clients, Typed, MissInv, Answer(c) PROVE MissInv'
<1> USE ShapeAssumption
<1>1. /\ UNCHANGED <<row, silent>> /\ req[c].at = "stamp"
      /\ \A d \in Clients \ {c} : /\ req'[d] = req[d] /\ got'[d] = got[d] /\ held'[d] = held[d]
                                /\ since'[d] = since[d] /\ late'[d] = late[d] /\ unread'[d] = unread[d]
  BY DEF Answer, writers, Typed, ClientsOK, HistoryOK
<1>2. req'[c] = NoReq /\ since'[c] = now
  BY DEF Answer, Typed, ClientsOK
<1>3. AsksSince'
  BY <1>1, <1>2 DEF MissInv, AsksSince, NoReq
<1>4. ReadIsCurrent'
  BY <1>1, <1>2 DEF MissInv, ReadIsCurrent, TableRead, NoReq
<1>5. ASSUME NEW e \in Rows, row[e] # NONE, held'[c][e] # row[e].ver
      PROVE  e \in late'[c] \cup silent
  <2>1. late'[c] = (late[c] \ Answered(c)) \cup {f \in unread[c] : row[f] # NONE /\ row[f].stamp <= now}
    BY DEF Answer, Typed, HistoryOK
  <2>2. CASE e \in unread[c]
    BY <1>5, <2>1, <2>2 DEF Typed, RowsOK
  <2>3. CASE e \notin unread[c] \cup silent
    <3>1. TableRead(c, e)
      BY <1>1 DEF TableRead, Rows
    <3>2. got[c][e] = row[e]
      BY <1>5, <2>3, <3>1 DEF MissInv, ReadIsCurrent
    <3>3. e \notin Answered(c)
      BY <1>5, <3>2 DEF Answer, Typed, ClientsOK
    <3>4. req[c].since # NONE /\ ~(row[e].stamp > req[c].since)
      BY <1>5, <3>2, <3>3 DEF Answered, Changed
    <3>5. held'[c][e] = held[c][e]
      BY <3>3, <3>4 DEF Answer, Typed, ClientsOK
    <3>6. since[c] = req[c].since
      BY <3>4 DEF MissInv, AsksSince
    <3>7. e \in late[c] \cup silent
      BY <1>5, <3>4, <3>5, <3>6 DEF MissInv, MissedOnlyIfLate, Changed
    <3> QED
      BY <2>1, <3>3, <3>7
  <2> QED
    BY <2>2, <2>3
<1>6. MissedOnlyIfLate'
  BY <1>1, <1>5 DEF MissInv, MissedOnlyIfLate, Changed
<1> QED
  BY <1>3, <1>4, <1>6 DEF MissInv

LEMMA NoAnswerMiss ==
    ASSUME NEW c \in Clients, Typed, MissInv, NoAnswer(c) PROVE MissInv'
<1> USE ShapeAssumption DEF NoAnswer, writers
<1>1. req'[c] = NoReq /\ \A d \in Clients \ {c} : req'[d] = req[d] /\ got'[d] = got[d] /\ unread'[d] = unread[d]
  BY DEF Typed, ClientsOK, HistoryOK
<1>2. AsksSince' /\ ReadIsCurrent'
  BY <1>1 DEF MissInv, AsksSince, ReadIsCurrent, TableRead, NoReq
<1>3. MissedOnlyIfLate'
  BY DEF MissInv, MissedOnlyIfLate, Changed
<1> QED
  BY <1>2, <1>3 DEF MissInv

LEMMA StepMiss == Typed /\ MissInv /\ [Next]_vars => MissInv'
<1> SUFFICES ASSUME Typed, MissInv, [Next]_vars PROVE MissInv'
  OBVIOUS
<1>1. ASSUME NEW p \in Procs, Handler(p) PROVE MissInv'
  <2>1. ASSUME NEW e \in Rows, CallSave(p, e) PROVE MissInv'
    BY <2>1, MissFrame DEF CallSave, client, history
  <2>2. CASE Notify(p)
    BY <2>2, MissFrame DEF Notify, client, history
  <2>3. CASE Abort(p)
    BY <2>3, MissFrame DEF Abort, client, history
  <2> QED
    BY <1>1, <2>1, <2>2, <2>3, WriteMiss, DeleteMiss DEF Handler
<1>2. CASE \E i \in Items : DeleteCategory(i)
  BY <1>2, DeleteCategoryMiss
<1>3. CASE \E c \in Clients : Client(c)
  BY <1>3, ReadListsMiss, ReadItemsMiss, AnswerMiss, NoAnswerMiss DEF Client
<1>4. CASE LoseHistory \/ Tick
  BY <1>4, MissFrame DEF LoseHistory, Tick, client, history
<1>5. CASE UNCHANGED vars
  BY <1>5, MissFrame DEF vars
<1> QED
  BY <1>1, <1>2, <1>3, <1>4, <1>5 DEF Next

(* Over any number of deltas and lost answers, a client's next delta has   *)
(* every row it holds no current copy of, but the late and the silent.    *)
THEOREM MissesOnlyLate == Spec => []MissedOnlyIfLate
<1>1. Init => MissInv
  BY DEF Init, MissInv, ReadIsCurrent, AsksSince, MissedOnlyIfLate, NoReq, NoRows
<1>2. MissInv => MissedOnlyIfLate
  BY DEF MissInv
<1> QED
  BY <1>1, <1>2, StepMiss, TypedAlways, PTL DEF Spec

-----------------------------------------------------------------------------
(* Why a copy is never lost or set back: rows only get newer, a row that   *)
(* was written is there or was deleted, and so for what a request read.   *)
RowsGetNewer ==
    \A e \in Rows :
        /\ row[e] # NONE => row[e].ver = writes[e]
        /\ writes[e] > 0 => row[e] # NONE \/ e \in deleted

HeldWasWritten ==
    \A c \in Clients, e \in Rows : held[c][e] # NONE => held[c][e] \in 1 .. writes[e]

ReadNoOlder ==
    \A c \in Clients, e \in Rows : TableRead(c, e) =>
        /\ got[c][e] # NONE => got[c][e].ver \in 1 .. writes[e]
        /\ held[c][e] # NONE =>
              IF got[c][e] = NONE THEN e \in deleted ELSE held[c][e] <= got[c][e].ver

(* A client that has seen a notification reads what it is about. *)
ReadWhatTold ==
    \A c \in Clients : (req[c].told # NONE /\ req[c].told.ver > 0) =>
        LET e == req[c].told.row IN
        /\ req[c].told.ver <= writes[e]
        /\ TableRead(c, e) => e \in deleted \/ (got[c][e] # NONE /\ got[c][e].ver >= req[c].told.ver)

KeepInv == RowsGetNewer /\ HeldWasWritten /\ ReadNoOlder /\ ReadWhatTold

LEMMA KeepFrame ==
    ASSUME KeepInv, UNCHANGED <<row, writes, held, req, got, deleted>>
    PROVE  KeepInv'
BY DEF KeepInv, RowsGetNewer, HeldWasWritten, ReadNoOlder, ReadWhatTold, TableRead

(* A new version of one row. *)
LEMMA WrittenKeep ==
    ASSUME NEW e \in Rows, Typed, KeepInv,
           row'[e] # NONE, row'[e].ver = writes[e] + 1, writes' = [writes EXCEPT ![e] = @ + 1],
           \A f \in Rows \ {e} : row'[f] = row[f],
           UNCHANGED <<held, req, got, deleted>>
    PROVE  KeepInv'
<1>1. \A f \in Rows : writes[f] \in Nat /\ writes'[f] \in Nat /\ writes[f] <= writes'[f]
  BY DEF Typed, RowsOK
<1>2. writes'[e] = writes[e] + 1 /\ \A f \in Rows \ {e} : writes'[f] = writes[f]
  BY DEF Typed, RowsOK
<1>3. RowsGetNewer'
  BY <1>2 DEF KeepInv, RowsGetNewer
<1>4. HeldWasWritten'
  BY <1>1 DEF KeepInv, HeldWasWritten
<1>5. ReadNoOlder'
  BY <1>1 DEF KeepInv, ReadNoOlder, TableRead
<1>6. \A c \in Clients : req[c].told # NONE => req[c].told.row \in Rows /\ req[c].told.ver \in Nat
  BY DEF Typed, ClientsOK, ReqType, Note
<1>7. ReadWhatTold'
  BY <1>1, <1>6 DEF KeepInv, ReadWhatTold, TableRead
<1> QED
  BY <1>3, <1>4, <1>5, <1>7 DEF KeepInv

LEMMA WriteKeep ==
    ASSUME NEW p \in Procs, Typed, KeepInv, Write(p) PROVE KeepInv'
<1> DEFINE e == loc[p].row
<1>1. CASE KeysHold(e)
  <2> DEFINE new == [ver |-> writes[e] + 1, stamp |-> loc[p].stamp]
  <2>1. /\ row' = [row EXCEPT ![e] = new] /\ writes' = [writes EXCEPT ![e] = @ + 1]
        /\ UNCHANGED <<held, req, got, deleted>>
    BY <1>1 DEF Write, WrittenStamp, client
  <2>2. e \in Rows
    BY DEF Write, Typed, HandlersOK
  <2>3. new \in Version /\ new.ver = writes[e] + 1
    BY <2>2 DEF Typed, RowsOK, HandlersOK, Version
  <2>4. new # NONE
    BY <2>3, ShapeAssumption DEF Version
  <2>5. row'[e] = new /\ \A f \in Rows \ {e} : row'[f] = row[f]
    BY <2>1, <2>2 DEF Typed, RowsOK
  <2> HIDE DEF new, e
  <2> QED
    BY <2>1, <2>2, <2>3, <2>4, <2>5, WrittenKeep
<1>2. CASE ~KeysHold(e)
  BY <1>2, KeepFrame DEF Write, client
<1> QED
  BY <1>1, <1>2

LEMMA DeleteCategoryKeep ==
    ASSUME NEW i \in Items, Typed, KeepInv, DeleteCategory(i) PROVE KeepInv'
<1>0. i \in Rows
  BY DEF Rows
<1>1. row[i] \in Version
  BY <1>0 DEF DeleteCategory, Typed, RowsOK
<1>2. row'[i] = [row[i] EXCEPT !.ver = writes[i] + 1] /\ \A f \in Rows \ {i} : row'[f] = row[f]
  BY <1>0 DEF DeleteCategory, Typed, RowsOK
<1>3. row'[i] \in Version /\ row'[i].ver = writes[i] + 1
  BY <1>0, <1>1, <1>2 DEF Version, Typed, RowsOK
<1>4. row'[i] # NONE
  BY <1>3, ShapeAssumption DEF Version
<1> QED
  BY <1>0, <1>2, <1>3, <1>4, WrittenKeep DEF DeleteCategory, client

LEMMA DeleteKeep ==
    ASSUME NEW p \in Procs, NEW e \in Rows, KeepInv, Delete(p, e) PROVE KeepInv'
<1>1. /\ \A f \in Rows : row'[f] = row[f] \/ (row'[f] = NONE /\ (row[f] # NONE => f \in deleted'))
      /\ deleted \subseteq deleted' /\ UNCHANGED <<writes, held, req, got>>
  BY DEF Delete, client
<1>2. RowsGetNewer' /\ HeldWasWritten'
  BY <1>1 DEF KeepInv, RowsGetNewer, HeldWasWritten
<1>3. ReadNoOlder' /\ ReadWhatTold'
  BY <1>1 DEF KeepInv, ReadNoOlder, ReadWhatTold, TableRead
<1> QED
  BY <1>2, <1>3 DEF KeepInv

(* Whatever a query finds is the newest version. *)
LEMMA ReadKeep ==
    ASSUME Typed, KeepInv, NEW e \in Rows, NEW c \in Clients
    PROVE  /\ row[e] # NONE => row[e].ver \in 1 .. writes[e]
           /\ held[c][e] # NONE => IF row[e] = NONE THEN e \in deleted ELSE held[c][e] <= row[e].ver
BY DEF KeepInv, RowsGetNewer, HeldWasWritten, Typed, RowsOK

LEMMA ReadListsKeep ==
    ASSUME NEW c \in Clients, NEW from \in {NONE, since[c]}, NEW note \in Seen, Typed, KeepInv,
           ReadLists(c, from, note)
    PROVE  KeepInv'
<1> USE ShapeAssumption
<1>1. /\ UNCHANGED <<row, writes, held, deleted>>
      /\ \A d \in Clients \ {c} : req'[d] = req[d] /\ got'[d] = got[d]
      /\ req'[c] = [at |-> "items", since |-> from, told |-> note]
  BY DEF ReadLists, ReadInto, writers, history, Typed, ClientsOK
<1>2. \A e \in Lists : got'[c][e] = row[e]
  BY DEF ReadLists, ReadInto, Typed, ClientsOK, Rows
<1>3. \A d \in Clients, e \in Rows : TableRead(d, e)' =>
        (TableRead(d, e) /\ d # c) \/ (d = c /\ e \in Lists)
  BY <1>1 DEF TableRead
<1>4. RowsGetNewer' /\ HeldWasWritten'
  BY <1>1 DEF KeepInv, RowsGetNewer, HeldWasWritten
<1>5. ReadNoOlder'
  BY <1>1, <1>2, <1>3, ReadKeep DEF KeepInv, ReadNoOlder
<1>6. ASSUME note # NONE, note.ver > 0
      PROVE  /\ note.row \in Rows /\ note.ver <= writes[note.row]
             /\ note.row \in deleted \/ (row[note.row] # NONE /\ row[note.row].ver >= note.ver)
  <2>1. PICK n \in DOMAIN log : note = log[n]
    BY <1>6 DEF Seen
  <2>2. note \in Note /\ note.ver \in 0 .. writes[note.row]
    BY <2>1 DEF Typed, LogOK
  <2>3. note.row \in Rows /\ note.ver \in Nat
    BY <2>2 DEF Note
  <2> QED
    BY <1>6, <2>2, <2>3 DEF KeepInv, RowsGetNewer, Typed, RowsOK
<1>7. ReadWhatTold'
  <2>1. \A d \in Clients : req[d].told # NONE => req[d].told.row \in Rows
    BY DEF Typed, ClientsOK, ReqType, Note
  <2> DEFINE Good(d, e) ==
        /\ req'[d].told.ver <= writes[e]
        /\ (\/ e \in Lists /\ req'[d].at \in {"items", "stamp"}
            \/ e \in Items /\ req'[d].at = "stamp")
           => e \in deleted \/ (got'[d][e] # NONE /\ got'[d][e].ver >= req'[d].told.ver)
  <2> HIDE DEF Good
  <2>2. ASSUME note # NONE, note.ver > 0 PROVE Good(c, note.row)
    <3>1. req'[c].told = note
      BY <1>1
    <3> QED
      BY <1>1, <1>2, <1>6, <2>2, <3>1 DEF Good
  <2>3. ASSUME NEW d \in Clients \ {c}, req[d].told # NONE, req[d].told.ver > 0
        PROVE  Good(d, req[d].told.row)
    <3>1. req'[d] = req[d] /\ got'[d] = got[d]
      BY <1>1
    <3>2. req[d].told.row \in Rows
      BY <2>1, <2>3
    <3> QED
      BY <2>3, <3>1, <3>2, <1>1 DEF Good, KeepInv, ReadWhatTold, TableRead
  <2>4. \A d \in Clients \ {c} : req'[d] = req[d]
    BY <1>1
  <2>5. req'[c].told = note
    BY <1>1
  <2>6. ASSUME NEW d \in Clients, req'[d].told # NONE, req'[d].told.ver > 0
        PROVE  Good(d, req'[d].told.row)
    <3>1. CASE d = c
      BY <2>2, <2>5, <2>6, <3>1
    <3>2. CASE d # c
      BY <2>3, <2>4, <2>6, <3>2
    <3> QED
      BY <3>1, <3>2
  <2>7. writes' = writes /\ deleted' = deleted
    BY <1>1
  <2> QED
    BY <2>6, <2>7 DEF Good, ReadWhatTold, TableRead
<1> QED
  BY <1>4, <1>5, <1>7 DEF KeepInv

LEMMA ReadItemsKeep ==
    ASSUME NEW c \in Clients, Typed, KeepInv, ReadItems(c) PROVE KeepInv'
<1> USE ShapeAssumption
<1>1. /\ UNCHANGED <<row, writes, held, deleted>>
      /\ \A d \in Clients \ {c} : req'[d] = req[d] /\ got'[d] = got[d]
      /\ req[c].at = "items" /\ req'[c].told = req[c].told
  BY DEF ReadItems, ReadInto, writers, history, Typed, ClientsOK, ReqType
<1>2. /\ \A e \in Items : got'[c][e] = row[e]
      /\ \A e \in Lists : got'[c][e] = got[c][e] /\ TableRead(c, e)
  BY <1>1 DEF ReadItems, ReadInto, Typed, ClientsOK, Rows, TableRead
<1>3. \A d \in Clients \ {c}, e \in Rows : TableRead(d, e)' => TableRead(d, e)
  BY <1>1 DEF TableRead
<1>4. RowsGetNewer' /\ HeldWasWritten'
  BY <1>1 DEF KeepInv, RowsGetNewer, HeldWasWritten
<1>5. ReadNoOlder'
  BY <1>1, <1>2, <1>3, ReadKeep DEF KeepInv, ReadNoOlder, Rows
<1>6. ASSUME req[c].told # NONE, req[c].told.ver > 0
      PROVE  LET e == req[c].told.row IN
             /\ e \in Rows /\ req[c].told.ver <= writes[e]
             /\ e \in deleted \/ (got'[c][e] # NONE /\ got'[c][e].ver >= req[c].told.ver)
  <2> DEFINE e == req[c].told.row
  <2>1. e \in Rows /\ req[c].told.ver \in Nat
    BY <1>6 DEF Typed, ClientsOK, ReqType, Note
  <2>2. req[c].told.ver <= writes[e]
    BY <1>6 DEF KeepInv, ReadWhatTold
  <2>3. CASE e \in Lists
    BY <1>2, <1>6, <2>1, <2>2, <2>3 DEF KeepInv, ReadWhatTold
  <2>4. CASE e \in Items
    BY <1>2, <1>6, <2>1, <2>2, <2>4 DEF KeepInv, RowsGetNewer, Typed, RowsOK
  <2> QED
    BY <2>1, <2>2, <2>3, <2>4 DEF Rows
<1>7. ReadWhatTold'
  BY <1>1, <1>3, <1>6 DEF KeepInv, ReadWhatTold, Typed, ClientsOK, ReqType, Note
<1> QED
  BY <1>4, <1>5, <1>7 DEF KeepInv

LEMMA AnswerKeep ==
    ASSUME NEW c \in Clients, Typed, KeepInv, Answer(c) PROVE KeepInv'
<1> USE ShapeAssumption
<1>1. /\ UNCHANGED <<row, writes, deleted>> /\ req[c].at = "stamp" /\ req'[c] = NoReq
      /\ \A d \in Clients \ {c} : req'[d] = req[d] /\ got'[d] = got[d] /\ held'[d] = held[d]
  BY DEF Answer, writers, Typed, ClientsOK
<1>2. \A e \in Rows : held'[c][e] \in {NONE, held[c][e]} \/ (got[c][e] # NONE /\ held'[c][e] = got[c][e].ver)
  BY DEF Answer, Answered, Typed, ClientsOK
<1>3. \A e \in Rows : TableRead(c, e)
  BY <1>1 DEF TableRead, Rows
<1>4. RowsGetNewer' /\ HeldWasWritten'
  BY <1>1, <1>2, <1>3 DEF KeepInv, RowsGetNewer, HeldWasWritten, ReadNoOlder
<1>5. ReadNoOlder' /\ ReadWhatTold'
  BY <1>1 DEF KeepInv, ReadNoOlder, ReadWhatTold, TableRead, NoReq
<1> QED
  BY <1>4, <1>5 DEF KeepInv

LEMMA NoAnswerKeep ==
    ASSUME NEW c \in Clients, Typed, KeepInv, NoAnswer(c) PROVE KeepInv'
<1> USE ShapeAssumption
<1>1. /\ UNCHANGED <<row, writes, deleted, held>> /\ req'[c] = NoReq
      /\ \A d \in Clients \ {c} : req'[d] = req[d] /\ got'[d] = got[d]
  BY DEF NoAnswer, writers, Typed, ClientsOK
<1> QED
  BY <1>1 DEF KeepInv, RowsGetNewer, HeldWasWritten, ReadNoOlder, ReadWhatTold, TableRead, NoReq

LEMMA StepKeep == Typed /\ KeepInv /\ [Next]_vars => KeepInv'
<1> SUFFICES ASSUME Typed, KeepInv, [Next]_vars PROVE KeepInv'
  OBVIOUS
<1>1. ASSUME NEW p \in Procs, Handler(p) PROVE KeepInv'
  <2>1. ASSUME NEW e \in Rows, CallSave(p, e) PROVE KeepInv'
    BY <2>1, KeepFrame DEF CallSave, client, history
  <2>2. CASE Notify(p)
    BY <2>2, KeepFrame DEF Notify, client, history
  <2>3. CASE Abort(p)
    BY <2>3, KeepFrame DEF Abort, client, history
  <2> QED
    BY <1>1, <2>1, <2>2, <2>3, WriteKeep, DeleteKeep DEF Handler
<1>2. CASE \E i \in Items : DeleteCategory(i)
  BY <1>2, DeleteCategoryKeep
<1>3. CASE \E c \in Clients : Client(c)
  BY <1>3, ReadListsKeep, ReadItemsKeep, AnswerKeep, NoAnswerKeep DEF Client
<1>4. CASE LoseHistory \/ Tick
  BY <1>4, KeepFrame DEF LoseHistory, Tick, client, history
<1>5. CASE UNCHANGED vars
  BY <1>5, KeepFrame DEF vars
<1> QED
  BY <1>1, <1>2, <1>3, <1>4, <1>5 DEF Next

LEMMA KeepAlways == Spec => []KeepInv
<1>1. Init => KeepInv
  BY DEF Init, KeepInv, RowsGetNewer, HeldWasWritten, ReadNoOlder, ReadWhatTold,
         TableRead, NoReq, NoRows
<1> QED
  BY <1>1, StepKeep, TypedAlways, PTL DEF Spec

(* A row that a client holds and an answer without since does not have    *)
(* was deleted, whenever lists and items were read; and no step sets a     *)
(* client's copy back to an older version.                                *)
THEOREM NeverSetBack == Spec => AbsentMeansDeleted
<1>1. Typed /\ KeepInv /\ [Next]_vars =>
        [\A c \in Clients, e \in Rows : held[c][e] # NONE =>
            IF held'[c][e] = NONE THEN e \in deleted ELSE held'[c][e] >= held[c][e]]_vars
  <2> SUFFICES ASSUME Typed, KeepInv, [Next]_vars,
                      NEW c \in Clients, NEW e \in Rows, held[c][e] # NONE
               PROVE  IF held'[c][e] = NONE THEN e \in deleted ELSE held'[c][e] >= held[c][e]
    OBVIOUS
  <2>0. held[c][e] \in Nat
    BY DEF Typed, ClientsOK
  <2>1. CASE held' = held
    BY <2>0, <2>1
  <2>2. ASSUME NEW d \in Clients, Answer(d)
        PROVE  IF held'[c][e] = NONE THEN e \in deleted ELSE held'[c][e] >= held[c][e]
    <3>1. CASE c # d
      <4>1. held'[c] = held[c]
        BY <2>2, <3>1 DEF Answer, Typed, ClientsOK
      <4> QED
        BY <2>0, <4>1
    <3>2. CASE c = d
      <4>1. TableRead(c, e)
        BY <2>2, <3>2 DEF Answer, TableRead, Rows
      <4>2. IF got[c][e] = NONE THEN e \in deleted ELSE held[c][e] <= got[c][e].ver
        BY <4>1 DEF KeepInv, ReadNoOlder
      <4>3. CASE e \in Answered(c)
        <5>1. got[c][e] # NONE /\ held'[c][e] = got[c][e].ver
          BY <2>2, <3>2, <4>3 DEF Answer, Answered, Typed, ClientsOK
        <5>2. got[c][e].ver \in Nat
          BY <5>1 DEF Typed, ClientsOK, Version
        <5> QED
          BY <2>0, <4>2, <5>1, <5>2, ShapeAssumption
      <4>4. CASE e \notin Answered(c)
        <5>1. held'[c][e] = IF req[c].since = NONE THEN NONE ELSE held[c][e]
          BY <2>2, <3>2, <4>4 DEF Answer, Typed, ClientsOK
        <5>2. req[c].since = NONE => got[c][e] = NONE
          BY <4>4 DEF Answered, Changed
        <5> QED
          BY <2>0, <4>2, <5>1, <5>2
      <4> QED
        BY <4>3, <4>4
    <3> QED
      BY <3>1, <3>2
  <2>3. CASE UNCHANGED vars
    BY <2>1, <2>3 DEF vars
  <2>4. CASE Next
    <3>1. ASSUME NEW p \in Procs, Handler(p) PROVE held' = held
      BY <3>1 DEF Handler, CallSave, Delete, Write, Notify, Abort, client
    <3>2. ASSUME NEW i \in Items, DeleteCategory(i) PROVE held' = held
      BY <3>2 DEF DeleteCategory, client
    <3>3. ASSUME NEW d \in Clients, Client(d) PROVE held' = held \/ Answer(d)
      BY <3>3 DEF Client, ReadLists, ReadItems, NoAnswer
    <3>4. CASE LoseHistory \/ Tick
      BY <3>4, <2>1 DEF LoseHistory, Tick, client
    <3> QED
      BY <2>1, <2>2, <2>4, <3>1, <3>2, <3>3, <3>4 DEF Next
  <2> QED
    BY <2>3, <2>4
<1> QED
  BY <1>1, TypedAlways, KeepAlways, PTL DEF Spec, AbsentMeansDeleted

(* A client that saw a notification and then syncs has the change it was   *)
(* about when it is answered, unless a write was late, the database        *)
(* changed the row by itself, or it was deleted.                          *)
THEOREM ToldArrives == Spec => ToldChangesArrive
<1>1. Typed /\ KeepInv /\ MissInv /\ [Next]_vars =>
        [\A c \in Clients : (Answer(c) /\ req[c].told # NONE /\ req[c].told.ver > 0) =>
            LET e == req[c].told.row IN
                \/ held'[c][e] # NONE /\ held'[c][e] >= req[c].told.ver
                \/ e \in late'[c] \cup silent \cup deleted]_vars
  <2> SUFFICES ASSUME Typed, KeepInv, MissInv, NEW c \in Clients,
                      Answer(c), req[c].told # NONE, req[c].told.ver > 0
               PROVE  LET e == req[c].told.row IN
                      \/ held'[c][e] # NONE /\ held'[c][e] >= req[c].told.ver
                      \/ e \in late'[c] \cup silent \cup deleted
    OBVIOUS
  <2> DEFINE e == req[c].told.row
  <2>1. e \in Rows /\ req[c].told.ver \in Nat
    BY DEF Typed, ClientsOK, ReqType, Note
  <2> SUFFICES ASSUME e \notin deleted, e \notin silent
               PROVE  \/ held'[c][e] # NONE /\ held'[c][e] >= req[c].told.ver
                      \/ e \in late'[c]
    OBVIOUS
  <2>2. TableRead(c, e)
    BY <2>1 DEF Answer, TableRead, Rows
  <2>3. got[c][e] # NONE /\ got[c][e].ver >= req[c].told.ver
    BY <2>2 DEF KeepInv, ReadWhatTold
  <2>4. got[c][e].ver \in Nat /\ got[c][e].ver # NONE
    BY <2>1, <2>3, ShapeAssumption DEF Typed, ClientsOK, Version
  <2>5. row[e] # NONE
    BY <2>1, <2>2, <2>3 DEF KeepInv, RowsGetNewer, ReadNoOlder, Typed, RowsOK
  <2>6. late'[c] = (late[c] \ Answered(c)) \cup {f \in unread[c] : row[f] # NONE /\ row[f].stamp <= now}
    BY DEF Answer, Typed, HistoryOK
  <2> HIDE DEF e
  <2>7. CASE e \in Answered(c)
    <3>1. held'[c][e] = got[c][e].ver
      BY <2>1, <2>7 DEF Answer, Typed, ClientsOK
    <3> QED
      BY <2>3, <2>4, <3>1
  <2>8. CASE e \notin Answered(c) /\ e \in unread[c]
    BY <2>1, <2>5, <2>6, <2>8 DEF Typed, RowsOK
  <2>9. CASE e \notin Answered(c) /\ e \notin unread[c]
    <3>1. got[c][e] = row[e]
      BY <2>1, <2>2, <2>5, <2>9 DEF MissInv, ReadIsCurrent
    <3>2. req[c].since # NONE /\ ~(row[e].stamp > req[c].since)
      BY <2>1, <2>3, <2>9, <3>1 DEF Answered, Changed
    <3>3. held'[c][e] = held[c][e]
      BY <2>1, <2>9, <3>2 DEF Answer, Typed, ClientsOK
    <3>4. since[c] = req[c].since
      BY <3>2 DEF MissInv, AsksSince
    <3>5. held[c][e] = row[e].ver \/ e \in late[c]
      BY <2>1, <2>5, <3>2, <3>4 DEF MissInv, MissedOnlyIfLate, Changed
    <3> QED
      BY <2>3, <2>4, <2>6, <2>9, <3>1, <3>3, <3>5
  <2> QED
    BY <2>7, <2>8, <2>9
<1>2. Init => MissInv
  BY DEF Init, MissInv, ReadIsCurrent, AsksSince, MissedOnlyIfLate, NoReq, NoRows
<1> QED
  BY <1>1, <1>2, StepMiss, TypedAlways, KeepAlways, PTL DEF Spec, ToldChangesArrive

=============================================================================
