------------------------------- MODULE Gateway -------------------------------
(***************************************************************************)
(* The path of a request through an API instance, around the handlers the  *)
(* other modules describe: the fixed-window rate limiter                    *)
(* (middleware/ratelimit.go, counters in Redis), the circuit breaker of    *)
(* /api/v1 (middleware/circuitbreaker.go, one per instance, in memory),    *)
(* authentication, and the idempotency records of POST requests            *)
(* (internal/idempotency, a table all instances share).                    *)
(*                                                                         *)
(* A slot stands for the successive requests of one client to one kind of  *)
(* endpoint on one instance; all of them come from one address, and so     *)
(* count in one rate-limit counter.  A handler is one step, with the       *)
(* effect and the status it ended with.  healthy says that Redis and the   *)
(* database work and no handler fails or panics.                           *)
(***************************************************************************)
EXTENDS Naturals, FiniteSets

CONSTANTS
    Slots,         \* requests that may be in flight at once
    Instances,
    InstanceOf,    \* [Slots -> Instances]
    AuthSlots,     \* those sent to /auth, behind the strict limiter
    Keys,          \* Idempotency-Keys, with their user and route
    KeyOf,         \* [Slots -> Keys \cup {NONE}], NONE: no header
    Requests,      \* allowance of the global limiter
    StrictRequests,\* allowance of the strict one (10 in the code)
    Threshold,     \* failures before opening
    HalfOpenMax,   \* successes to close
    MaxEffects,    \* where counting the executions of a key stops (a bound)
    NONE

ASSUME SlotsAssumption ==
    /\ InstanceOf \in [Slots -> Instances] /\ AuthSlots \subseteq Slots
    /\ NONE \notin Keys
    /\ \A r \in Slots : KeyOf[r] \in Keys \cup {NONE}
    /\ \A r \in AuthSlots : KeyOf[r] = NONE
ASSUME NoneAssumption == NONE \notin {"ok", "client"}
ASSUME LimitsAssumption ==
    /\ Requests \in Nat \ {0} /\ StrictRequests \in Nat \ {0}
    /\ Threshold \in Nat \ {0} /\ HalfOpenMax \in Nat \ {0} /\ MaxEffects \in Nat \ {0}

VARIABLES
    pc,       \* where each request is
    status,   \* the status written so far: "none", "ok" (2xx), "client"
              \* (4xx) or "server" (5xx)
    count,    \* the limiter's counter for the present window
    breaker,  \* of each instance: state, failures, successes
    waited,   \* the instances with time.Since(lastFailureTime) > resetTimeout
    stored,   \* idempotency_keys: the status stored under each key, or NONE
    healthy,
    effects,  \* history: how often a request with the key took effect
    excused   \* history: keys for which that may be more than once

vars == <<pc, status, count, breaker, waited, stored, healthy, effects, excused>>

Labels == {"idle", "limit", "admit", "strict", "lookup", "run", "capture",
           "store", "record"}
Stored == {"ok", "client"}

Init ==
    /\ pc = [r \in Slots |-> "idle"] /\ status = [r \in Slots |-> "none"]
    /\ count = 0
    /\ breaker = [i \in Instances |-> [state |-> "closed", failures |-> 0, successes |-> 0]]
    /\ waited = {}
    /\ stored = [k \in Keys |-> NONE]
    /\ healthy = TRUE
    /\ effects = [k \in Keys |-> 0] /\ excused = {}

Least(m, n) == IF m < n THEN m ELSE n

Goto(r, label, s) ==
    /\ pc' = [pc EXCEPT ![r] = label]
    /\ status' = [status EXCEPT ![r] = s]

-----------------------------------------------------------------------------
(* The rate limiter. Counting stops one above both allowances (a bound).  *)

Counted == IF Requests < StrictRequests THEN StrictRequests + 1 ELSE Requests + 1

Arrive(r) ==
    /\ pc[r] = "idle"
    /\ Goto(r, "limit", "none")
    /\ UNCHANGED <<count, breaker, waited, stored, healthy, effects, excused>>

(* INCR, then the comparison. Without Redis the request is refused. *)
Allow(r, allowance, passed, refused, s) ==
    \/ /\ count' = Least(count + 1, Counted)
       /\ IF count + 1 <= allowance THEN Goto(r, passed, "none") ELSE Goto(r, refused, "client")
    \/ /\ ~healthy
       /\ Goto(r, refused, s)
       /\ UNCHANGED count

GlobalLimit(r) ==
    /\ pc[r] = "limit"
    /\ Allow(r, Requests, "admit", "idle", "server")
    /\ UNCHANGED <<breaker, waited, stored, healthy, effects, excused>>

(* Behind the breaker, on the same counter: the key is the address again. *)
StrictLimit(r) ==
    /\ pc[r] = "strict"
    /\ Allow(r, StrictRequests, "run", "record", "server")
    /\ UNCHANGED <<breaker, waited, stored, healthy, effects, excused>>

NewWindow ==
    /\ count > 0
    /\ count' = 0
    /\ UNCHANGED <<pc, status, breaker, waited, stored, healthy, effects, excused>>

-----------------------------------------------------------------------------
(* The circuit breaker. *)

(* State(): an open breaker that has waited long enough is half-open.     *)
Current(i) ==
    IF breaker[i].state = "open" /\ i \in waited
    THEN [state |-> "half-open", failures |-> breaker[i].failures, successes |-> 0]
    ELSE breaker[i]

Admit(r) ==
    LET i == InstanceOf[r] IN
    /\ pc[r] = "admit"
    /\ breaker' = [breaker EXCEPT ![i] = Current(i)]
    /\ IF Current(i).state = "open"
       THEN Goto(r, "idle", "server")
       ELSE Goto(r, IF r \in AuthSlots THEN "strict" ELSE "lookup", "none")
    /\ UNCHANGED <<count, waited, stored, healthy, effects, excused>>

(* Mutant: closing does not reset the count of failures. *)
AfterSuccessKeepFailures(b) ==
    CASE b.state = "half-open" /\ b.successes + 1 >= HalfOpenMax -> [b EXCEPT !.state = "closed", !.successes = 0]
      [] b.state = "half-open" /\ b.successes + 1 < HalfOpenMax -> [b EXCEPT !.successes = @ + 1]
      [] b.state = "closed" -> [b EXCEPT !.failures = 0]
      [] b.state = "open" -> b
(* Mutant: successes count for nothing in the half-open state. *)
AfterSuccessIgnored(b) == IF b.state = "closed" THEN [b EXCEPT !.failures = 0] ELSE b
(* RecordSuccess. *)
AfterSuccess(b) ==
    CASE b.state = "half-open" /\ b.successes + 1 >= HalfOpenMax -> [state |-> "closed", failures |-> 0, successes |-> 0]
      [] b.state = "half-open" /\ b.successes + 1 < HalfOpenMax -> [b EXCEPT !.successes = @ + 1]
      [] b.state = "closed" -> [b EXCEPT !.failures = 0]
      [] b.state = "open" -> b

(* RecordFailure. Counting stops at the threshold (a bound): the code only *)
(* compares failures with it.                                             *)
AfterFailure(b) ==
    [state |-> IF b.state = "half-open" \/ b.failures + 1 >= Threshold THEN "open" ELSE b.state,
     failures |-> Least(b.failures + 1, Threshold),
     successes |-> b.successes]

Record(r) ==
    LET i == InstanceOf[r] IN
    /\ pc[r] = "record"
    /\ IF status[r] = "server"
       THEN /\ breaker' = [breaker EXCEPT ![i] = AfterFailure(@)]
            /\ waited' = waited \ {i}
       ELSE /\ breaker' = [breaker EXCEPT ![i] = AfterSuccess(@)]
            /\ UNCHANGED waited
    /\ Goto(r, "idle", status[r])
    /\ UNCHANGED <<count, stored, healthy, effects, excused>>

(* resetTimeout passes. *)
Wait(i) ==
    /\ breaker[i].state = "open" /\ i \notin waited
    /\ waited' = waited \cup {i}
    /\ UNCHANGED <<pc, status, count, breaker, stored, healthy, effects, excused>>

-----------------------------------------------------------------------------
(* Authentication, idempotency, the handler. *)

(* AuthMiddleware answers 401; the breaker takes that for a success.      *)
Unauthorized(r) ==
    /\ pc[r] = "lookup"
    /\ Goto(r, "record", "client")
    /\ UNCHANGED <<count, breaker, waited, stored, healthy, effects, excused>>

SameKey(r, q) == q # r /\ KeyOf[q] = KeyOf[r]

(* Mutant: only the answers that report an error are replayed. *)
ReplayedErrors(k) == k # NONE /\ stored[k] = "client"
(* A record is found under the key. *)
Replayed(k) == k # NONE /\ stored[k] # NONE

Lookup(r) ==
    LET k == KeyOf[r] IN
    /\ pc[r] = "lookup"
    /\ \/ /\ Replayed(k)
          /\ Goto(r, "record", stored[k])
          /\ UNCHANGED excused
       \/ /\ k # NONE /\ ~Replayed(k)
          /\ Goto(r, "capture", "none")
          /\ excused' = IF \E q \in Slots : SameKey(r, q) /\ pc[q] \in {"capture", "store", "run"}
                        THEN excused \cup {k} ELSE excused
       \/ /\ k # NONE /\ ~healthy     \* "executing handler anyway"
          /\ Goto(r, "run", "none")
          /\ excused' = excused \cup {k}
       \/ /\ k = NONE
          /\ Goto(r, "run", "none")
          /\ UNCHANGED excused
    /\ UNCHANGED <<count, breaker, waited, stored, healthy, effects>>

(* The handler has an effect or not and writes a status. It fails with a  *)
(* 5xx only when something is broken, and may then have had its effect; so *)
(* may one that answers 400 to whatever went wrong, as AddMember does when *)
(* the query after its INSERT fails.                                      *)
Outcomes == {[s |-> "ok", effect |-> TRUE], [s |-> "client", effect |-> FALSE]}
Failures == [s : {"server"}, effect : BOOLEAN]
Misreported == {[s |-> "client", effect |-> TRUE]}

TakeEffect(r, o) ==
    LET k == KeyOf[r] IN
    /\ effects' = IF o.effect /\ k # NONE
                  THEN [effects EXCEPT ![k] = Least(@ + 1, MaxEffects)] ELSE effects
    /\ excused' = IF o.effect /\ o.s = "server" /\ k # NONE THEN excused \cup {k} ELSE excused

Handle(r) ==
    /\ pc[r] \in {"run", "capture"}
    /\ \E o \in Outcomes \cup (IF healthy THEN {} ELSE Failures \cup Misreported) :
        /\ TakeEffect(r, o)
        /\ Goto(r, IF pc[r] = "capture" /\ o.s # "server" THEN "store" ELSE "record", o.s)
    /\ UNCHANGED <<count, breaker, waited, stored, healthy>>

(* A panic is caught by gin.Recovery, outside of the breaker and of the   *)
(* idempotency middleware: nothing is stored and nothing recorded.        *)
Panic(r) ==
    /\ pc[r] \in {"run", "capture"} /\ ~healthy
    /\ \E o \in Failures : TakeEffect(r, o)
    /\ Goto(r, "idle", "server")
    /\ UNCHANGED <<count, breaker, waited, stored, healthy>>

(* Mutant: the record is replaced. *)
AfterStoreUpsert(r) == [stored EXCEPT ![KeyOf[r]] = status[r]]
(* INSERT; a duplicate key is no error, and an error is only logged.      *)
AfterStore(r) == [stored EXCEPT ![KeyOf[r]] = IF @ = NONE THEN status[r] ELSE @]

Store(r) ==
    /\ pc[r] = "store"
    /\ \/ stored' = AfterStore(r) /\ UNCHANGED excused
       \/ ~healthy /\ excused' = excused \cup {KeyOf[r]} /\ UNCHANGED stored
    /\ Goto(r, "record", status[r])
    /\ UNCHANGED <<count, breaker, waited, healthy, effects>>

-----------------------------------------------------------------------------
(* The rest of the world. *)

(* CleanupOlderThan, 24 h after the record was written: no request that   *)
(* met the record or its absence is still running.                        *)
Purge(k) ==
    /\ stored[k] # NONE
    /\ \A r \in Slots : KeyOf[r] = k => pc[r] = "idle"
    /\ stored' = [stored EXCEPT ![k] = NONE]
    /\ effects' = [effects EXCEPT ![k] = 0]
    /\ excused' = excused \ {k}
    /\ UNCHANGED <<pc, status, count, breaker, waited, healthy>>

SetHealth ==
    /\ healthy' = ~healthy
    /\ UNCHANGED <<pc, status, count, breaker, waited, stored, effects, excused>>

(* The process of instance i stops and starts: its requests and breaker   *)
(* are gone, what it wrote to the database is not.                        *)
Restart(i) ==
    LET here == {r \in Slots : InstanceOf[r] = i} IN
    /\ \E r \in here : pc[r] # "idle"
    /\ pc' = [r \in Slots |-> IF r \in here THEN "idle" ELSE pc[r]]
    /\ status' = [r \in Slots |-> IF r \in here THEN "none" ELSE status[r]]
    /\ breaker' = [breaker EXCEPT ![i] = [state |-> "closed", failures |-> 0, successes |-> 0]]
    /\ waited' = waited \ {i}
    /\ excused' = excused \cup {KeyOf[r] : r \in {q \in here : pc[q] = "store"}}
    /\ UNCHANGED <<count, stored, healthy, effects>>

(* The steps of a request once it has arrived. *)
Serve(r) ==
    \/ GlobalLimit(r) \/ Admit(r) \/ StrictLimit(r) \/ Unauthorized(r) \/ Lookup(r)
    \/ Handle(r) \/ Panic(r) \/ Store(r) \/ Record(r)

Next ==
    \/ \E r \in Slots : Arrive(r) \/ Serve(r)
    \/ \E i \in Instances : Wait(i) \/ Restart(i)
    \/ \E k \in Keys : Purge(k)
    \/ NewWindow \/ SetHealth

Spec == Init /\ [][Next]_vars

(* Goroutines are scheduled, time passes, and clients keep sending. *)
Fairness ==
    /\ \A r \in Slots : WF_vars(Arrive(r)) /\ WF_vars(Serve(r))
    /\ \A i \in Instances : WF_vars(Wait(i))
    /\ WF_vars(NewWindow)

FairSpec == Spec /\ Fairness

-----------------------------------------------------------------------------
(* Properties. *)

(* Every variable holds the values its comment gives it; a closed breaker *)
(* is below its threshold, one that is not has reached it, and a half-open *)
(* one has not yet seen the successes that close it.                      *)
TypeOK ==
    /\ pc \in [Slots -> Labels] /\ status \in [Slots -> Stored \cup {"none", "server"}]
    /\ \A r \in Slots : pc[r] = "store" => status[r] \in Stored /\ KeyOf[r] \in Keys
    /\ \A r \in Slots : pc[r] = "record" => status[r] # "none"
    /\ count \in 0 .. Counted
    /\ breaker \in [Instances -> [state : {"closed", "open", "half-open"},
                                  failures : 0 .. Threshold, successes : 0 .. HalfOpenMax - 1]]
    /\ \A i \in Instances : breaker[i].state = "closed" <=> breaker[i].failures < Threshold
    /\ waited \subseteq Instances
    /\ stored \in [Keys -> Stored \cup {NONE}] /\ healthy \in BOOLEAN
    /\ effects \in [Keys -> 0 .. MaxEffects] /\ excused \subseteq Keys

(* A request repeated with its key takes effect again only if two requests *)
(* with the key looked it up before either had stored its answer, if a    *)
(* lookup or an insert of the record failed, if the process stopped before *)
(* the insert, or if the handler took effect and then failed.  README.md:  *)
(* 516-518 names none of these: the key's retry "returns the original      *)
(* response [...] instead of executing again".                             *)
RepeatedOnlyIfExcused == \A k \in Keys : effects[k] > 1 => k \in excused

(* The answer replayed under a key is the one stored first, whatever other *)
(* requests with the key answered, until the record is purged.            *)
FirstAnswerStays ==
    [][\A k \in Keys : stored[k] # NONE => stored'[k] \in {stored[k], NONE}]_vars

(* Once Redis, the database and the handlers work for good, every breaker *)
(* closes and stays closed: late failures of requests admitted earlier,   *)
(* refusals by the limiters and probes that never reach a handler do not  *)
(* keep one open.                                                         *)
BreakersRecover ==
    \A i \in Instances : (<>[]healthy) => (<>[](breaker[i].state = "closed"))

=============================================================================
