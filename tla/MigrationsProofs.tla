-------------------------- MODULE MigrationsProofs --------------------------
(***************************************************************************)
(* Proofs about the start-up migrations, for any number of instances and   *)
(* files, any mix of images and any number of failures: the type           *)
(* invariant, that whoever serves has its whole schema, and that only an   *)
(* interruption (or a debug database) leaves a file stuck.                 *)
(***************************************************************************)
EXTENDS Migrations, TLAPS

(* Why the order survives the races: an instance passes a file only when   *)
(* it read it as recorded or recorded it, and rows are never removed.     *)
PassedAreRecorded ==
    \A i \in Instances :
        /\ seen[i] \subseteq recorded
        /\ 1 .. next[i] - 1 \subseteq recorded
        /\ pc[i] = "record" => next[i] \in applied
        /\ pc[i] = "serving" => next[i] > Shipped[i]

RecordedInOrder == \A f \in recorded : 1 .. f \subseteq recorded \cap applied

ServeInv == PassedAreRecorded /\ RecordedInOrder

(* A file that cannot run again and is not recorded is about to be, unless *)
(* it was interrupted.                                                    *)
Accounted(f) ==
    f \in applied \ (recorded \cup ReRunnable) =>
        \/ \E i \in Instances : pc[i] = "record" /\ next[i] = f
        \/ f \in interrupted \/ debug

AllAccounted == \A f \in Files : Accounted(f)

-----------------------------------------------------------------------------
(* A process that ends keeps the shape of the state.                      *)
LEMMA ExitType ==
    ASSUME NEW i \in Instances, TypeOK, Exit(i)
    PROVE  /\ pc' \in [Instances -> {"down", "files", "record", "serving"}]
           /\ seen' \in [Instances -> SUBSET Files]
           /\ next' \in [Instances -> 1 .. NumFiles + 1]
           /\ \A j \in Instances : pc'[j] = "record" => next'[j] \in 1 .. Shipped[j]
<1>1. 1 \in 1 .. NumFiles + 1
  BY DeploymentAssumption
<1> QED
  BY <1>1 DEF Exit, TypeOK

(* Type correctness: every reachable state has the shape of Migrations.   *)
THEOREM TypeCorrect == Spec => []TypeOK
<1> USE DeploymentAssumption DEF TypeOK, Files
<1>1. Init => TypeOK
  <2> SUFFICES ASSUME Init PROVE TypeOK
    OBVIOUS
  <2>1. debug \in BOOLEAN
    BY DEF Init
  <2>2. applied \subseteq Files /\ recorded \subseteq Files
    <3>1. CASE debug
      BY <3>1 DEF Init
    <3>2. CASE ~debug
      <4>1. PICK k \in 0 .. NumFiles : applied = 1 .. k /\ recorded = 1 .. k
        BY <3>2 DEF Init
      <4> QED
        BY <4>1
    <3> QED
      BY <3>1, <3>2
  <2> QED
    BY <2>1, <2>2 DEF Init
<1>2. TypeOK /\ [Next]_vars => TypeOK'
  <2> SUFFICES ASSUME TypeOK, [Next]_vars PROVE TypeOK'
    OBVIOUS
  <2>1. ASSUME NEW i \in Instances, Start(i) PROVE TypeOK'
    BY <2>1 DEF Start
  <2>2. ASSUME NEW i \in Instances, Skip(i) PROVE TypeOK'
    <3>1. next[i] + 1 \in 1 .. NumFiles + 1 /\ pc[i] = "files"
      BY <2>2 DEF Skip, Pending
    <3> QED
      BY <2>2, <3>1 DEF Skip
  <2>3. ASSUME NEW i \in Instances, Apply(i) PROVE TypeOK'
    <3>1. next[i] \in 1 .. Shipped[i] /\ next[i] \in Files
      BY <2>3 DEF Apply, Pending
    <3>2. CASE Runs(next[i])
      BY <2>3, <3>1, <3>2 DEF Apply
    <3>3. CASE ~Runs(next[i])
      BY <2>3, <3>3, ExitType DEF Apply
    <3> QED
      BY <3>2, <3>3
  <2>4. ASSUME NEW i \in Instances, Record(i) PROVE TypeOK'
    <3>1. next[i] \in Files /\ next[i] + 1 \in 1 .. NumFiles + 1
      BY <2>4 DEF Record
    <3>2. CASE next[i] \notin recorded
      BY <2>4, <3>1, <3>2 DEF Record
    <3>3. CASE next[i] \in recorded
      BY <2>4, <3>3, ExitType DEF Record
    <3> QED
      BY <3>2, <3>3
  <2>5. ASSUME NEW i \in Instances, Serve(i) PROVE TypeOK'
    BY <2>5 DEF Serve
  <2>6. ASSUME NEW i \in Instances, Stop(i) PROVE TypeOK'
    <3>1. stops' \in 0 .. MaxStops
      BY <2>6 DEF Stop
    <3>2. interrupted' \subseteq Files
      <4>1. pc[i] = "record" => next[i] \in Files
        OBVIOUS
      <4>2. interrupted' = IF pc[i] = "record" THEN interrupted \cup {next[i]} ELSE interrupted
        BY <2>6 DEF Stop
      <4> QED
        BY <4>1, <4>2
    <3>3. Exit(i)
      BY <2>6 DEF Stop
    <3>4. /\ pc' \in [Instances -> {"down", "files", "record", "serving"}]
          /\ seen' \in [Instances -> SUBSET Files]
          /\ next' \in [Instances -> 1 .. NumFiles + 1]
          /\ \A j \in Instances : pc'[j] = "record" => next'[j] \in 1 .. Shipped[j]
      BY <3>3, ExitType
    <3>5. applied' = applied /\ recorded' = recorded /\ debug' = debug
      BY <2>6 DEF Stop
    <3> QED
      BY <3>1, <3>2, <3>4, <3>5
  <2>7. CASE UNCHANGED vars
    BY <2>7 DEF vars
  <2> QED
    BY <2>1, <2>2, <2>3, <2>4, <2>5, <2>6, <2>7 DEF Next, Step
<1> QED
  BY <1>1, <1>2, PTL DEF Spec

-----------------------------------------------------------------------------
(* At every moment, an instance that serves has the effect of every file   *)
(* of its image, and files are recorded in order and only once applied.   *)
THEOREM ServesComplete == Spec => []ServesOnFullSchema
<1> USE DeploymentAssumption DEF Files
<1>1. Init => ServeInv
  BY DEF Init, ServeInv, PassedAreRecorded, RecordedInOrder
<1>2. TypeOK /\ ServeInv /\ [Next]_vars => ServeInv'
  <2> SUFFICES ASSUME TypeOK, ServeInv, [Next]_vars PROVE ServeInv'
    OBVIOUS
  <2> USE DEF TypeOK, ServeInv, PassedAreRecorded, RecordedInOrder
  <2>1. ASSUME NEW i \in Instances, Start(i) PROVE ServeInv'
    BY <2>1 DEF Start
  <2>2. ASSUME NEW i \in Instances, Skip(i) PROVE ServeInv'
    <3>1. next[i] \in recorded /\ next'[i] = next[i] + 1
      BY <2>2 DEF Skip
    <3>2. 1 .. next'[i] - 1 \subseteq recorded
      BY <3>1
    <3> QED
      BY <2>2, <3>2 DEF Skip, Pending
  <2>3. ASSUME NEW i \in Instances, Apply(i) PROVE ServeInv'
    <3>1. CASE Runs(next[i])
      BY <2>3, <3>1 DEF Apply, Pending
    <3>2. CASE ~Runs(next[i])
      BY <2>3, <3>2 DEF Apply, Exit
    <3> QED
      BY <3>1, <3>2
  <2>4. ASSUME NEW i \in Instances, Record(i) PROVE ServeInv'
    <3>1. CASE next[i] \in recorded
      <4>1. Exit(i) /\ recorded' = recorded /\ applied' = applied
        BY <2>4, <3>1 DEF Record
      <4> QED
        BY <4>1 DEF Exit
    <3>2. CASE next[i] \notin recorded
      <4>1. /\ recorded' = recorded \cup {next[i]} /\ applied' = applied
            /\ next' = [next EXCEPT ![i] = @ + 1]
            /\ pc' = [pc EXCEPT ![i] = "files"] /\ seen' = seen
        BY <2>4, <3>2 DEF Record
      <4>2. next[i] \in applied /\ next[i] \in 1 .. NumFiles
        BY <2>4 DEF Record
      <4>3. 1 .. next[i] \subseteq recorded' \cap applied'
        <5>1. 1 .. next[i] - 1 \subseteq recorded \cap applied
          BY <4>2
        <5> QED
          BY <4>1, <4>2, <5>1
      <4>4. RecordedInOrder'
        BY <4>1, <4>3
      <4>5. 1 .. next'[i] - 1 \subseteq recorded'
        BY <4>1, <4>2, <4>3
      <4>6. PassedAreRecorded'
        BY <4>1, <4>5
      <4> QED
        BY <4>4, <4>6
    <3> QED
      BY <3>1, <3>2
  <2>5. ASSUME NEW i \in Instances, Serve(i) PROVE ServeInv'
    BY <2>5 DEF Serve
  <2>6. ASSUME NEW i \in Instances, Stop(i) PROVE ServeInv'
    BY <2>6 DEF Stop, Exit
  <2>7. CASE UNCHANGED vars
    BY <2>7 DEF vars
  <2> QED
    BY <2>1, <2>2, <2>3, <2>4, <2>5, <2>6, <2>7 DEF Next, Step
<1>3. TypeOK /\ ServeInv => ServesOnFullSchema
  <2> SUFFICES ASSUME TypeOK, ServeInv PROVE ServesOnFullSchema
    OBVIOUS
  <2> USE DEF TypeOK, ServeInv, PassedAreRecorded, RecordedInOrder
  <2>1. ASSUME NEW i \in Instances, pc[i] = "serving", NEW f \in 1 .. Shipped[i]
        PROVE  f \in applied
    <3>1. f \in 1 .. next[i] - 1
      BY <2>1
    <3> QED
      BY <3>1
  <2> QED
    BY <2>1 DEF ServesOnFullSchema
<1> QED
  BY <1>1, <1>2, <1>3, TypeCorrect, PTL DEF Spec

-----------------------------------------------------------------------------
(* However the instances race: a file that can neither run again nor be    *)
(* recorded by anyone was cut off between its two statements, or the       *)
(* database was made by a debug instance.                                 *)
THEOREM OnlyInterruptionsStick == Spec => []StuckOnlyIfInterrupted
<1> USE DEF Files
<1>1. Init => AllAccounted
  BY DEF Init, AllAccounted, Accounted
<1>2. TypeOK /\ AllAccounted /\ [Next]_vars => AllAccounted'
  <2> SUFFICES ASSUME TypeOK, AllAccounted, [Next]_vars, NEW f \in Files PROVE Accounted(f)'
    BY DEF AllAccounted
  <2>0. Accounted(f)
    BY DEF AllAccounted
  <2> USE <2>0 DEF Accounted, TypeOK
  <2>1. ASSUME NEW i \in Instances, Start(i) PROVE Accounted(f)'
    BY <2>1 DEF Start
  <2>2. ASSUME NEW i \in Instances, Skip(i) PROVE Accounted(f)'
    BY <2>2 DEF Skip, Pending
  <2>3. ASSUME NEW i \in Instances, Apply(i) PROVE Accounted(f)'
    <3>2. CASE Runs(next[i])
      BY <2>3, <3>2 DEF Apply, Pending
    <3>3. CASE ~Runs(next[i])
      BY <2>3, <3>3 DEF Apply, Pending, Exit
    <3> QED
      BY <3>2, <3>3
  <2>4. ASSUME NEW i \in Instances, Record(i) PROVE Accounted(f)'
    <3>1. CASE next[i] \in recorded
      <4>1. Exit(i) /\ recorded' = recorded
        BY <2>4, <3>1 DEF Record
      <4>2. /\ applied' = applied /\ interrupted' = interrupted /\ debug' = debug
            /\ pc[i] = "record" /\ next[i] \in recorded
        BY <2>4, <3>1 DEF Record
      <4> QED
        BY <4>1, <4>2 DEF Exit
    <3>2. CASE next[i] \notin recorded
      BY <2>4, <3>2 DEF Record
    <3> QED
      BY <3>1, <3>2
  <2>5. ASSUME NEW i \in Instances, Serve(i) PROVE Accounted(f)'
    BY <2>5 DEF Serve
  <2>6. ASSUME NEW i \in Instances, Stop(i) PROVE Accounted(f)'
    BY <2>6 DEF Stop, Exit
  <2>7. CASE UNCHANGED vars
    BY <2>7 DEF vars
  <2> QED
    BY <2>1, <2>2, <2>3, <2>4, <2>5, <2>6, <2>7 DEF Next, Step
<1>3. AllAccounted => StuckOnlyIfInterrupted
  BY DEF AllAccounted, Accounted, StuckOnlyIfInterrupted, Stuck
<1> QED
  BY <1>1, <1>2, <1>3, TypeCorrect, PTL DEF Spec

=============================================================================
