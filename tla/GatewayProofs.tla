---------------------------- MODULE GatewayProofs ----------------------------
(***************************************************************************)
(* Proofs about Gateway, for any number of slots, instances and keys and   *)
(* any allowances and thresholds.                                          *)
(*                                                                         *)
(* That a key takes effect once unless excused is not inductive: the count *)
(* is increased by a handler that looked the key up long before.  OneRun   *)
(* says what protects it: while a key is not excused, at most one request  *)
(* with it is past its lookup, none once an answer is stored, and until    *)
(* that request's handler returns the key has had no effect.               *)
(***************************************************************************)
EXTENDS Gateway, TLAPS

(* The type invariant, in the parts that the steps change together. *)
RequestsOK ==
    /\ pc \in [Slots -> Labels] /\ status \in [Slots -> Stored \cup {"none", "server"}]
    /\ \A r \in Slots : pc[r] = "store" => status[r] \in Stored /\ KeyOf[r] \in Keys
    /\ \A r \in Slots : pc[r] = "capture" => KeyOf[r] \in Keys
    /\ \A r \in Slots : pc[r] = "strict" => KeyOf[r] = NONE
    /\ \A r \in Slots : pc[r] = "record" => status[r] # "none"
Breaker == [state : {"closed", "open", "half-open"},
            failures : 0 .. Threshold, successes : 0 .. HalfOpenMax - 1]
Consistent(b) == b.state = "closed" <=> b.failures < Threshold
BreakersOK ==
    /\ breaker \in [Instances -> Breaker]
    /\ \A i \in Instances : Consistent(breaker[i])
    /\ waited \subseteq Instances
KeysOK ==
    /\ stored \in [Keys -> Stored \cup {NONE}]
    /\ effects \in [Keys -> 0 .. MaxEffects] /\ excused \subseteq Keys
RestOK == count \in 0 .. Counted /\ healthy \in BOOLEAN
Types == RequestsOK /\ BreakersOK /\ KeysOK /\ RestOK

-----------------------------------------------------------------------------
(* Types. *)

LEMMA GotoTypes ==
    ASSUME pc \in [Slots -> Labels], status \in [Slots -> Stored \cup {"none", "server"}],
           RequestsOK,
           NEW r \in Slots, NEW label \in Labels, NEW s \in Stored \cup {"none", "server"},
           label = "store" => s \in Stored /\ KeyOf[r] \in Keys,
           label = "capture" => KeyOf[r] \in Keys,
           label = "strict" => KeyOf[r] = NONE,
           label = "record" => s # "none",
           Goto(r, label, s)
    PROVE  RequestsOK'
<1>1. pc' \in [Slots -> Labels] /\ status' \in [Slots -> Stored \cup {"none", "server"}]
  BY DEF Goto
<1>2. ASSUME NEW q \in Slots
      PROVE  /\ pc'[q] = "store" => status'[q] \in Stored /\ KeyOf[q] \in Keys
             /\ pc'[q] = "capture" => KeyOf[q] \in Keys
             /\ pc'[q] = "strict" => KeyOf[q] = NONE
             /\ pc'[q] = "record" => status'[q] # "none"
  <2>1. CASE q = r
    <3>1. pc'[q] = label /\ status'[q] = s
      BY <2>1 DEF Goto
    <3>2. QED
      BY <2>1, <3>1
  <2>2. CASE q # r
    <3>1. pc'[q] = pc[q] /\ status'[q] = status[q]
      BY <2>2 DEF Goto
    <3>2. QED
      BY <2>2, <3>1 DEF RequestsOK
  <2>3. QED
    BY <2>1, <2>2
<1>3. QED
  BY <1>1, <1>2 DEF RequestsOK

LEMMA CountTypes ==
    ASSUME count \in 0 .. Counted
    PROVE  Least(count + 1, Counted) \in 0 .. Counted /\ 0 \in 0 .. Counted
BY LimitsAssumption DEF Least, Counted

(* Every breaker operation keeps a breaker well formed. *)
LEMMA BreakerOperations ==
    ASSUME NEW b \in Breaker, Consistent(b)
    PROVE  /\ AfterFailure(b) \in Breaker /\ Consistent(AfterFailure(b))
           /\ AfterSuccess(b) \in Breaker /\ Consistent(AfterSuccess(b))
<1>1. AfterFailure(b) \in Breaker /\ Consistent(AfterFailure(b))
  BY LimitsAssumption DEF AfterFailure, Breaker, Consistent, Least
<1>2. AfterSuccess(b) \in Breaker /\ Consistent(AfterSuccess(b))
  <2>1. CASE b.state = "half-open" /\ b.successes + 1 >= HalfOpenMax
    BY <2>1, LimitsAssumption DEF AfterSuccess, Breaker, Consistent
  <2>2. CASE b.state = "half-open" /\ b.successes + 1 < HalfOpenMax
    BY <2>2, LimitsAssumption DEF AfterSuccess, Breaker, Consistent
  <2>3. CASE b.state = "closed"
    BY <2>3, LimitsAssumption DEF AfterSuccess, Breaker, Consistent
  <2>4. CASE b.state = "open"
    BY <2>4, LimitsAssumption DEF AfterSuccess, Breaker, Consistent
  <2>5. QED
    BY <2>1, <2>2, <2>3, <2>4, LimitsAssumption DEF Breaker
<1>3. QED
  BY <1>1, <1>2

LEMMA CurrentTypes ==
    ASSUME BreakersOK, NEW i \in Instances
    PROVE  Current(i) \in Breaker /\ Consistent(Current(i))
<1>1. breaker[i] \in Breaker /\ Consistent(breaker[i])
  BY DEF BreakersOK
<1>2. QED
  BY <1>1, LimitsAssumption DEF Current, Breaker, Consistent

LEMMA EffectTypes ==
    ASSUME KeysOK, NEW r \in Slots, NEW o \in [s : Stored \cup {"server"}, effect : BOOLEAN],
           TakeEffect(r, o), UNCHANGED stored
    PROVE  KeysOK'
<1>1. KeyOf[r] # NONE => KeyOf[r] \in Keys
  BY SlotsAssumption
<1>2. \A n \in 0 .. MaxEffects : Least(n + 1, MaxEffects) \in 0 .. MaxEffects
  BY LimitsAssumption DEF Least
<1>3. effects' \in [Keys -> 0 .. MaxEffects]
  BY <1>1, <1>2 DEF TakeEffect, KeysOK
<1>4. excused' \subseteq Keys
  BY <1>1 DEF TakeEffect, KeysOK
<1>5. QED
  BY <1>3, <1>4 DEF KeysOK

LEMMA InitTypes == Init => Types
BY LimitsAssumption DEF Init, Types, RequestsOK, BreakersOK, KeysOK, RestOK, Labels, Stored,
   Breaker, Consistent, Counted

LEMMA StepTypes == Types /\ [Next]_vars => Types'
<1> SUFFICES ASSUME Types, [Next]_vars
             PROVE  Types'
  OBVIOUS
<1> USE DEF Types
<1>1. ASSUME NEW r \in Slots, Arrive(r)
      PROVE  Types'
  <2>1. RequestsOK'
    BY <1>1, GotoTypes DEF Arrive, RequestsOK, Labels
  <2>2. QED
    BY <1>1, <2>1 DEF Arrive, BreakersOK, KeysOK, RestOK
<1>2. ASSUME NEW r \in Slots, GlobalLimit(r)
      PROVE  Types'
  <2>1. RequestsOK'
    BY <1>2, GotoTypes DEF GlobalLimit, Allow, RequestsOK, Labels, Stored
  <2>2. RestOK'
    BY <1>2, CountTypes DEF GlobalLimit, Allow, RestOK
  <2>3. QED
    BY <1>2, <2>1, <2>2 DEF GlobalLimit, BreakersOK, KeysOK
<1>3. ASSUME NEW r \in Slots, StrictLimit(r)
      PROVE  Types'
  <2>1. RequestsOK'
    BY <1>3, GotoTypes DEF StrictLimit, Allow, RequestsOK, Labels, Stored
  <2>2. RestOK'
    BY <1>3, CountTypes DEF StrictLimit, Allow, RestOK
  <2>3. QED
    BY <1>3, <2>1, <2>2 DEF StrictLimit, BreakersOK, KeysOK
<1>4. ASSUME NEW r \in Slots, Admit(r)
      PROVE  Types'
  <2>1. RequestsOK'
    BY <1>4, SlotsAssumption, GotoTypes DEF Admit, RequestsOK, Labels
  <2>2. BreakersOK'
    <3>1. InstanceOf[r] \in Instances
      BY SlotsAssumption
    <3>2. Current(InstanceOf[r]) \in Breaker /\ Consistent(Current(InstanceOf[r]))
      BY <3>1, CurrentTypes
    <3>3. QED
      BY <1>4, <3>1, <3>2 DEF Admit, BreakersOK
  <2>3. QED
    BY <1>4, <2>1, <2>2 DEF Admit, KeysOK, RestOK
<1>5. ASSUME NEW r \in Slots, Unauthorized(r)
      PROVE  Types'
  <2>1. RequestsOK'
    BY <1>5, GotoTypes DEF Unauthorized, RequestsOK, Labels, Stored
  <2>2. QED
    BY <1>5, <2>1 DEF Unauthorized, BreakersOK, KeysOK, RestOK
<1>6. ASSUME NEW r \in Slots, Lookup(r)
      PROVE  Types'
  <2>1. KeyOf[r] # NONE => KeyOf[r] \in Keys
    BY SlotsAssumption
  <2>2. RequestsOK'
    <3>1. Replayed(KeyOf[r]) => stored[KeyOf[r]] \in Stored
      BY <2>1 DEF Replayed, KeysOK
    <3>2. QED
      BY <1>6, <2>1, <3>1, GotoTypes DEF Lookup, RequestsOK, Labels, Stored
  <2>3. KeysOK'
    BY <1>6, <2>1 DEF Lookup, KeysOK
  <2>4. QED
    BY <1>6, <2>2, <2>3 DEF Lookup, BreakersOK, RestOK
<1>7. ASSUME NEW r \in Slots, Handle(r)
      PROVE  Types'
  <2>1. PICK o \in [s : Stored \cup {"server"}, effect : BOOLEAN] :
          /\ TakeEffect(r, o)
          /\ Goto(r, IF pc[r] = "capture" /\ o.s # "server" THEN "store" ELSE "record", o.s)
    BY <1>7 DEF Handle, Outcomes, Failures, Misreported, Stored
  <2>2. RequestsOK'
    BY <2>1, GotoTypes DEF RequestsOK, Labels, Stored
  <2>3. KeysOK'
    BY <1>7, <2>1, EffectTypes DEF Handle
  <2>4. QED
    BY <1>7, <2>2, <2>3 DEF Handle, BreakersOK, RestOK
<1>8. ASSUME NEW r \in Slots, Panic(r)
      PROVE  Types'
  <2>1. PICK o \in [s : Stored \cup {"server"}, effect : BOOLEAN] : TakeEffect(r, o)
    BY <1>8 DEF Panic, Failures, Stored
  <2>2. RequestsOK'
    BY <1>8, GotoTypes DEF Panic, RequestsOK, Labels
  <2>3. KeysOK'
    BY <1>8, <2>1, EffectTypes DEF Panic
  <2>4. QED
    BY <1>8, <2>2, <2>3 DEF Panic, BreakersOK, RestOK
<1>9. ASSUME NEW r \in Slots, Store(r)
      PROVE  Types'
  <2>1. status[r] \in Stored /\ KeyOf[r] \in Keys
    BY <1>9 DEF Store, RequestsOK
  <2>2. RequestsOK'
    BY <1>9, <2>1, GotoTypes DEF Store, RequestsOK, Labels, Stored
  <2>3. KeysOK'
    BY <1>9, <2>1 DEF Store, AfterStore, KeysOK
  <2>4. QED
    BY <1>9, <2>2, <2>3 DEF Store, BreakersOK, RestOK
<1>10. ASSUME NEW r \in Slots, Record(r)
       PROVE  Types'
  <2>1. RequestsOK'
    BY <1>10, GotoTypes DEF Record, RequestsOK, Labels
  <2>2. BreakersOK'
    <3>1. InstanceOf[r] \in Instances
      BY SlotsAssumption
    <3>2. breaker[InstanceOf[r]] \in Breaker /\ Consistent(breaker[InstanceOf[r]])
      BY <3>1 DEF BreakersOK
    <3>3. PICK b \in Breaker : Consistent(b) /\ breaker' = [breaker EXCEPT ![InstanceOf[r]] = b]
      BY <1>10, <3>2, BreakerOperations DEF Record
    <3>4. waited' \subseteq waited
      BY <1>10 DEF Record
    <3>5. QED
      BY <3>1, <3>3, <3>4 DEF BreakersOK
  <2>3. QED
    BY <1>10, <2>1, <2>2 DEF Record, KeysOK, RestOK
<1>11. ASSUME NEW i \in Instances, Wait(i)
       PROVE  Types'
  BY <1>11 DEF Wait, RequestsOK, BreakersOK, KeysOK, RestOK
<1>12. ASSUME NEW i \in Instances, Restart(i)
       PROVE  Types'
  <2>1. RequestsOK'
    BY <1>12 DEF Restart, RequestsOK, Labels
  <2>2. BreakersOK'
    BY <1>12, LimitsAssumption DEF Restart, BreakersOK, Breaker, Consistent
  <2>3. \A q \in Slots : pc[q] = "store" => KeyOf[q] \in Keys
    BY DEF RequestsOK
  <2>4. KeysOK'
    BY <1>12, <2>3 DEF Restart, KeysOK
  <2>5. QED
    BY <1>12, <2>1, <2>2, <2>4 DEF Restart, RestOK
<1>13. ASSUME NEW k \in Keys, Purge(k)
       PROVE  Types'
  BY <1>13, LimitsAssumption DEF Purge, RequestsOK, BreakersOK, KeysOK, RestOK
<1>14. CASE NewWindow
  BY <1>14, CountTypes DEF NewWindow, RequestsOK, BreakersOK, KeysOK, RestOK
<1>15. CASE SetHealth
  BY <1>15 DEF SetHealth, RequestsOK, BreakersOK, KeysOK, RestOK
<1>16. CASE UNCHANGED vars
  BY <1>16 DEF vars, RequestsOK, BreakersOK, KeysOK, RestOK
<1>17. QED
  BY <1>1, <1>2, <1>3, <1>4, <1>5, <1>6, <1>7, <1>8, <1>9, <1>10, <1>11, <1>12, <1>13,
     <1>14, <1>15, <1>16 DEF Next, Serve

(* The gateway's types hold in every state, and a breaker is closed exactly *)
(* while its failures are below the threshold.                            *)
THEOREM TypeCorrect == Spec => []TypeOK
<1>1. Types => TypeOK
  BY DEF Types, RequestsOK, BreakersOK, KeysOK, RestOK, TypeOK, Breaker, Consistent
<1>2. QED
  BY <1>1, InitTypes, StepTypes, PTL DEF Spec

-----------------------------------------------------------------------------
(* A key takes effect once. *)

With(r, k) == KeyOf[r] = k
Within(r) == pc[r] \in {"capture", "store"}

(* What holds of a key that is not excused. *)
OneRunOf(k) ==
    /\ \A r, q \in Slots : (With(r, k) /\ With(q, k) /\ Within(r) /\ Within(q)) => r = q
    /\ \A r \in Slots : With(r, k) => pc[r] # "run"
    /\ \A r \in Slots : (With(r, k) /\ Within(r)) => stored[k] = NONE
    /\ \A r \in Slots : (With(r, k) /\ pc[r] = "capture") => effects[k] = 0
    /\ effects[k] # 0 =>
          /\ effects[k] = 1
          /\ stored[k] # NONE \/ \E r \in Slots : With(r, k) /\ pc[r] = "store"
OneRun == \A k \in Keys : k \notin excused => OneRunOf(k)

(* A step that leaves the key's record and effects alone, and in which no *)
(* request with the key goes past its lookup or leaves "store".           *)
LEMMA Undisturbed ==
    ASSUME NEW k \in Keys, OneRunOf(k),
           stored'[k] = stored[k], effects'[k] = effects[k],
           \A r \in Slots : With(r, k) =>
              \/ pc'[r] = pc[r]
              \/ pc'[r] \notin {"run", "capture", "store"} /\ pc[r] # "store"
    PROVE  OneRunOf(k)'
BY DEF OneRunOf, With, Within

LEMMA InitOneRun == Init => OneRun
BY LimitsAssumption DEF Init, OneRun, OneRunOf, With, Within

LEMMA StepOneRun == Types /\ OneRun /\ [Next]_vars => OneRun'
<1> SUFFICES ASSUME Types, OneRun, [Next]_vars,
                    NEW k \in Keys, k \notin excused'
             PROVE  OneRunOf(k)'
  BY DEF OneRun
<1>K. k # NONE /\ (k \notin excused => OneRunOf(k))
  BY SlotsAssumption DEF OneRun
<1>P. /\ pc \in [Slots -> Labels] /\ stored \in [Keys -> Stored \cup {NONE}]
      /\ effects \in [Keys -> 0 .. MaxEffects]
      /\ \A r \in Slots : pc[r] = "strict" => KeyOf[r] = NONE
      /\ \A r \in Slots : pc[r] = "store" => status[r] \in Stored
  BY DEF Types, RequestsOK, KeysOK
<1>1. ASSUME NEW r \in Slots, Arrive(r) \/ GlobalLimit(r) \/ Admit(r) \/ Unauthorized(r) \/ Record(r)
      PROVE  OneRunOf(k)'
  <2>1. /\ pc[r] \notin {"run", "capture", "store"}
        /\ UNCHANGED <<stored, effects, excused>>
    BY <1>1 DEF Arrive, GlobalLimit, Admit, Unauthorized, Record
  <2>2. PICK l \in Labels \ {"run", "capture", "store"} : pc' = [pc EXCEPT ![r] = l]
    BY <1>1 DEF Arrive, GlobalLimit, Admit, Unauthorized, Record, Allow, Goto, Labels
  <2>3. QED
    BY <1>K, <1>P, <2>1, <2>2, Undisturbed
<1>2. ASSUME NEW r \in Slots, StrictLimit(r)
      PROVE  OneRunOf(k)'
  <2>1. KeyOf[r] # k /\ UNCHANGED <<stored, effects, excused>>
    BY <1>2, <1>K, <1>P DEF StrictLimit
  <2>2. \A q \in Slots : q # r => pc'[q] = pc[q]
    BY <1>2, <1>P DEF StrictLimit, Allow, Goto
  <2>3. QED
    BY <1>K, <2>1, <2>2, Undisturbed DEF With
<1>3. ASSUME NEW r \in Slots, Lookup(r)
      PROVE  OneRunOf(k)'
  <2>1. /\ pc[r] = "lookup" /\ UNCHANGED <<stored, effects>> /\ k \notin excused
        /\ \A q \in Slots : q # r => pc'[q] = pc[q]
    BY <1>3, <1>P DEF Lookup, Goto
  <2>2. CASE KeyOf[r] # k
    BY <1>K, <2>1, <2>2, Undisturbed DEF With
  <2>3. CASE KeyOf[r] = k /\ pc'[r] = "record"
    BY <1>K, <2>1, <2>3, Undisturbed DEF With
  <2>4. CASE KeyOf[r] = k /\ pc'[r] # "record"
    <3>1. /\ stored[k] = NONE /\ pc'[r] = "capture"
          /\ \A q \in Slots : SameKey(r, q) => pc[q] \notin {"capture", "store", "run"}
      BY <1>3, <1>K, <1>P, <2>4 DEF Lookup, Goto, Replayed
    <3>2. \A q \in Slots : With(q, k) => pc[q] \notin {"capture", "store", "run"}
      BY <2>1, <2>4, <3>1 DEF SameKey, With
    <3>3. effects[k] = 0
      BY <1>K, <2>1, <3>1, <3>2 DEF OneRunOf
    <3>4. QED
      BY <2>1, <2>4, <3>1, <3>2, <3>3 DEF OneRunOf, With, Within
  <2>5. QED
    BY <2>2, <2>3, <2>4
<1>4. ASSUME NEW r \in Slots, Handle(r)
      PROVE  OneRunOf(k)'
  <2>1. PICK o \in Outcomes \cup Failures \cup Misreported :
          /\ TakeEffect(r, o)
          /\ Goto(r, IF pc[r] = "capture" /\ o.s # "server" THEN "store" ELSE "record", o.s)
    BY <1>4 DEF Handle
  <2>2. /\ pc[r] \in {"run", "capture"} /\ UNCHANGED stored /\ k \notin excused
        /\ \A q \in Slots : q # r => pc'[q] = pc[q]
    BY <1>4, <1>P, <2>1 DEF Handle, TakeEffect, Goto
  <2>3. CASE KeyOf[r] # k
    <3>1. effects'[k] = effects[k]
      BY <1>P, <2>1, <2>3 DEF TakeEffect
    <3>2. QED
      BY <1>K, <2>2, <2>3, <3>1, Undisturbed DEF With
  <2>4. CASE KeyOf[r] = k
    <3>1. /\ pc[r] = "capture" /\ effects[k] = 0 /\ stored[k] = NONE
          /\ \A q \in Slots : (With(q, k) /\ q # r) => pc[q] \notin {"run", "capture", "store"}
      BY <1>K, <2>2, <2>4 DEF OneRunOf, With, Within
    <3>2. CASE o.s = "server"
      <4>1. o.effect = FALSE
        BY <1>K, <2>1, <2>4, <3>2 DEF TakeEffect, Outcomes, Failures, Misreported
      <4>2. effects'[k] = effects[k] /\ pc'[r] = "record"
        BY <1>P, <2>1, <3>2, <4>1 DEF TakeEffect, Goto
      <4>3. QED
        BY <1>K, <2>2, <3>1, <4>2, Undisturbed DEF With
    <3>3. CASE o.s # "server"
      <4>1. pc'[r] = "store" /\ effects'[k] \in {0, 1}
        <5>1. Least(0 + 1, MaxEffects) = 1
          BY LimitsAssumption DEF Least
        <5>2. QED
          BY <1>P, <2>1, <2>4, <3>1, <3>3, <5>1 DEF TakeEffect, Goto
      <4>2. QED
        BY <2>2, <2>4, <3>1, <4>1 DEF OneRunOf, With, Within
    <3>4. QED
      BY <3>2, <3>3
  <2>5. QED
    BY <2>3, <2>4
<1>5. ASSUME NEW r \in Slots, Panic(r)
      PROVE  OneRunOf(k)'
  <2>1. PICK o \in Failures : TakeEffect(r, o)
    BY <1>5 DEF Panic
  <2>2. /\ pc[r] \in {"run", "capture"} /\ pc'[r] = "idle" /\ UNCHANGED stored
        /\ k \notin excused
        /\ \A q \in Slots : q # r => pc'[q] = pc[q]
    BY <1>5, <1>P, <2>1 DEF Panic, TakeEffect, Goto
  <2>3. effects'[k] = effects[k]
    BY <1>P, <1>K, <2>1 DEF TakeEffect, Failures
  <2>4. QED
    BY <1>K, <2>2, <2>3, Undisturbed
<1>6. ASSUME NEW r \in Slots, Store(r)
      PROVE  OneRunOf(k)'
  <2>1. /\ pc[r] = "store" /\ pc'[r] = "record" /\ UNCHANGED effects
        /\ k \notin excused
        /\ \A q \in Slots : q # r => pc'[q] = pc[q]
    BY <1>6, <1>P DEF Store, Goto
  <2>2. CASE KeyOf[r] # k
    <3>1. stored'[k] = stored[k]
      BY <1>6, <1>P, <2>2 DEF Store, AfterStore
    <3>2. QED
      BY <1>K, <2>1, <2>2, <3>1, Undisturbed DEF With
  <2>3. CASE KeyOf[r] = k
    <3>1. stored'[k] # NONE
      <4>1. stored' = AfterStore(r) /\ stored[k] = NONE /\ status[r] \in Stored
        BY <1>6, <1>K, <1>P, <2>1, <2>3 DEF Store, OneRunOf, With, Within
      <4>2. NONE \notin Stored
        BY NoneAssumption DEF Stored
      <4>3. QED
        BY <1>P, <2>3, <4>1, <4>2 DEF AfterStore
    <3>2. \A q \in Slots : (With(q, k) /\ q # r) => pc[q] \notin {"run", "capture", "store"}
      BY <1>K, <2>1, <2>3 DEF OneRunOf, With, Within
    <3>3. QED
      BY <1>K, <2>1, <3>1, <3>2 DEF OneRunOf, With, Within
  <2>4. QED
    BY <2>2, <2>3
<1>7. ASSUME NEW i \in Instances, Restart(i)
      PROVE  OneRunOf(k)'
  <2>1. /\ UNCHANGED <<stored, effects>> /\ k \notin excused
        /\ \A q \in Slots : With(q, k) =>
              pc'[q] = pc[q] \/ (pc'[q] = "idle" /\ pc[q] # "store")
    BY <1>7, <1>P DEF Restart, With
  <2>2. QED
    BY <1>K, <2>1, Undisturbed
<1>8. ASSUME NEW j \in Keys, Purge(j)
      PROVE  OneRunOf(k)'
  <2>1. CASE j = k
    BY <1>8, <1>P, <2>1 DEF Purge, OneRunOf, With, Within
  <2>2. CASE j # k
    <3>1. stored'[k] = stored[k] /\ effects'[k] = effects[k] /\ UNCHANGED pc /\ k \notin excused
      BY <1>8, <1>P, <2>2 DEF Purge
    <3>2. QED
      BY <1>K, <3>1, Undisturbed
  <2>3. QED
    BY <2>1, <2>2
<1>9. ASSUME UNCHANGED <<pc, stored, effects, excused>>
      PROVE  OneRunOf(k)'
  BY <1>K, <1>9, Undisturbed
<1>10. QED
  BY <1>1, <1>2, <1>3, <1>4, <1>5, <1>6, <1>7, <1>8, <1>9
  DEF Next, Serve, Wait, NewWindow, SetHealth, vars

(* Repeating a POST with its Idempotency-Key takes effect once, but for    *)
(* the cases the history variable excused collects.                       *)
THEOREM RepeatsTakeEffectOnce == Spec => []RepeatedOnlyIfExcused
<1>1. KeysOK /\ OneRun => RepeatedOnlyIfExcused
  BY DEF KeysOK, OneRun, OneRunOf, RepeatedOnlyIfExcused
<1>2. Types => KeysOK
  BY DEF Types
<1>3. QED
  BY <1>1, <1>2, InitTypes, StepTypes, InitOneRun, StepOneRun, PTL DEF Spec

-----------------------------------------------------------------------------
(* An answer, once stored, is the answer until it is purged. *)

AnswersKept == \A k \in Keys : stored[k] # NONE => stored'[k] \in {stored[k], NONE}

LEMMA StepAnswersKept == Types /\ [Next]_vars => AnswersKept
<1> SUFFICES ASSUME Types, [Next]_vars
             PROVE  AnswersKept
  OBVIOUS
<1>P. stored \in [Keys -> Stored \cup {NONE}]
  BY DEF Types, KeysOK
<1>1. ASSUME UNCHANGED stored
      PROVE  AnswersKept
  BY <1>1 DEF AnswersKept
<1>2. ASSUME NEW r \in Slots, Store(r)
      PROVE  AnswersKept
  <2>1. CASE stored' = AfterStore(r)
    BY <1>P, <2>1 DEF AfterStore, AnswersKept
  <2>2. CASE UNCHANGED stored
    BY <2>2, <1>1
  <2>3. QED
    BY <1>2, <2>1, <2>2 DEF Store
<1>3. ASSUME NEW k \in Keys, Purge(k)
      PROVE  AnswersKept
  BY <1>3, <1>P DEF Purge, AnswersKept
<1>4. ASSUME NEW r \in Slots, Arrive(r) \/ (Serve(r) /\ ~Store(r))
      PROVE  AnswersKept
  BY <1>1, <1>4 DEF Arrive, Serve, GlobalLimit, Admit, StrictLimit, Unauthorized, Lookup,
     Handle, Panic, Record
<1>5. ASSUME NEW i \in Instances, Wait(i) \/ Restart(i)
      PROVE  AnswersKept
  BY <1>1, <1>5 DEF Wait, Restart
<1>6. CASE NewWindow \/ SetHealth \/ UNCHANGED vars
  BY <1>1, <1>6 DEF NewWindow, SetHealth, vars
<1>7. QED
  BY <1>2, <1>3, <1>4, <1>5, <1>6 DEF Next, Serve

(* The INSERT of a later answer under a key never replaces the record: of  *)
(* two requests that both ran, the answer replayed is the first one stored, *)
(* until the purge of old records removes it.                             *)
THEOREM AnswersAreStable == Spec => FirstAnswerStays
<1>1. Types /\ [Next]_vars =>
        [\A k \in Keys : stored[k] # NONE => stored'[k] \in {stored[k], NONE}]_vars
  BY StepAnswersKept DEF AnswersKept
<1>2. QED
  BY <1>1, InitTypes, StepTypes, PTL DEF Spec, FirstAnswerStays

=============================================================================
