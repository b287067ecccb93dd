----------------------------- MODULE Migrations -----------------------------
(***************************************************************************)
(* database.RunMigrations: the instances of a release deployment, started  *)
(* together or one after another, bring one database up to date before     *)
(* they serve.  An instance reads which files are recorded as applied and  *)
(* then walks through the files of its own image in order: the SQL of one  *)
(* that is not recorded runs (a single transaction, its text has several   *)
(* statements and no parameters), and a second statement records it.  Any  *)
(* error ends the process (main.go:52-55) and the container restarts.      *)
(*                                                                         *)
(* Abstractions.  A file is its number; its effect on the schema is there  *)
(* or not.  Every file has an Up section.  What a file that can be run     *)
(* again does the second time is not told apart from doing nothing.        *)
(***************************************************************************)
EXTENDS Naturals

CONSTANTS
    Instances,
    NumFiles,     \* files of the newest image
    Shipped,      \* how many of them the image of each instance has
    ReRunnable,   \* files whose SQL succeeds on a schema that has its effect
                  \* (IF NOT EXISTS; 9, 11 and 13-15 of the repository are not)
    InModels,     \* files whose tables and columns AutoMigrate makes by itself
                  \* (all but those of the reset, verification and idempotency keys)
    MaxStops      \* failures of the environment (a bound)

Files == 1 .. NumFiles

ASSUME DeploymentAssumption ==
    /\ NumFiles \in Nat /\ Shipped \in [Instances -> 0 .. NumFiles]
    /\ ReRunnable \subseteq Files /\ InModels \subseteq Files /\ MaxStops \in Nat

VARIABLES
    applied,      \* the schema: files whose effect it has
    recorded,     \* rows of the table migrations (version is unique)
    pc,           \* "down", "files", "record", "serving"
    seen,         \* appliedSet, as each instance read it
    next,         \* the file it looks at
    stops,        \* failures so far
    interrupted,  \* history: files applied whose recording was cut short
    debug         \* history: the database was created by a debug instance

vars == <<applied, recorded, pc, seen, next, stops, interrupted, debug>>

(* A database an earlier release brought some of the way, or one a debug   *)
(* instance created from the models (autoMigrate): the tables of most      *)
(* files are there and no file is recorded.                               *)
Init ==
    /\ debug \in BOOLEAN
    /\ IF debug THEN applied = InModels /\ recorded = {}
       ELSE \E k \in 0 .. NumFiles : applied = 1 .. k /\ recorded = 1 .. k
    /\ pc = [i \in Instances |-> "down"]
    /\ seen = [i \in Instances |-> {}]
    /\ next = [i \in Instances |-> 1]
    /\ stops = 0 /\ interrupted = {}

-----------------------------------------------------------------------------
(* os.Exit; what the process knew is gone. *)
Exit(i) ==
    /\ pc' = [pc EXCEPT ![i] = "down"]
    /\ seen' = [seen EXCEPT ![i] = {}] /\ next' = [next EXCEPT ![i] = 1]

(* The container starts; the applied versions are read.                   *)
Start(i) ==
    /\ pc[i] = "down"
    /\ pc' = [pc EXCEPT ![i] = "files"]
    /\ seen' = [seen EXCEPT ![i] = recorded]
    /\ UNCHANGED <<applied, recorded, next, stops, interrupted, debug>>

(* Mutant: one file too many. *)
PendingPastEnd(i) == pc[i] = "files" /\ next[i] <= Shipped[i] + 1
(* There is a file left to look at. *)
Pending(i) == pc[i] = "files" /\ next[i] <= Shipped[i]

(* The next file is in the applied set. *)
Skip(i) ==
    /\ Pending(i) /\ next[i] \in seen[i]
    /\ next' = [next EXCEPT ![i] = @ + 1]
    /\ UNCHANGED <<applied, recorded, pc, seen, stops, interrupted, debug>>

(* What its SQL needs: the tables of the earlier files; and that its own   *)
(* are not there, unless it says IF NOT EXISTS.                           *)
Runs(f) == 1 .. f - 1 \subseteq applied /\ (f \in applied => f \in ReRunnable)

(* Mutant: the file is recorded first, so that no other instance takes it. *)
RecordFirst(i) ==
    /\ Pending(i) /\ next[i] \notin seen[i]
    /\ IF next[i] \notin recorded
       THEN /\ recorded' = recorded \cup {next[i]}
            /\ pc' = [pc EXCEPT ![i] = "record"] /\ UNCHANGED <<seen, next>>
       ELSE Exit(i) /\ UNCHANGED recorded
    /\ UNCHANGED <<applied, stops, interrupted, debug>>
(* Its SQL runs. *)
Apply(i) ==
    /\ Pending(i) /\ next[i] \notin seen[i]
    /\ IF Runs(next[i])
       THEN /\ applied' = applied \cup {next[i]}
            /\ pc' = [pc EXCEPT ![i] = "record"] /\ UNCHANGED <<seen, next>>
       ELSE Exit(i) /\ UNCHANGED applied
    /\ UNCHANGED <<recorded, stops, interrupted, debug>>

(* Mutant: the insert is tried again until it succeeds. *)
RecordRetries(i) ==
    /\ pc[i] = "record" /\ next[i] \notin recorded
    /\ recorded' = recorded \cup {next[i]}
    /\ next' = [next EXCEPT ![i] = @ + 1]
    /\ pc' = [pc EXCEPT ![i] = "files"]
    /\ UNCHANGED <<applied, seen, stops, interrupted, debug>>
(* Mutant: only files that can be run twice are recorded. *)
RecordSome(i) ==
    /\ pc[i] = "record"
    /\ recorded' = IF next[i] \in ReRunnable THEN recorded \cup {next[i]} ELSE recorded
    /\ next' = [next EXCEPT ![i] = @ + 1]
    /\ pc' = [pc EXCEPT ![i] = "files"]
    /\ UNCHANGED <<applied, seen, stops, interrupted, debug>>
(* Its row is inserted; another instance may have inserted it.            *)
Record(i) ==
    /\ pc[i] = "record"
    /\ IF next[i] \notin recorded
       THEN /\ recorded' = recorded \cup {next[i]}
            /\ next' = [next EXCEPT ![i] = @ + 1]
            /\ pc' = [pc EXCEPT ![i] = "files"] /\ UNCHANGED seen
       ELSE Exit(i) /\ UNCHANGED recorded
    /\ UNCHANGED <<applied, stops, interrupted, debug>>

(* No file is left: the rest of main, and the server listens.             *)
Serve(i) ==
    /\ pc[i] = "files" /\ next[i] > Shipped[i]
    /\ pc' = [pc EXCEPT ![i] = "serving"]
    /\ UNCHANGED <<applied, recorded, seen, next, stops, interrupted, debug>>

(* The process is killed, or a statement of it fails; a stopped server too. *)
Stop(i) ==
    /\ stops < MaxStops /\ pc[i] # "down"
    /\ stops' = stops + 1
    /\ interrupted' = IF pc[i] = "record" THEN interrupted \cup {next[i]} ELSE interrupted
    /\ Exit(i)
    /\ UNCHANGED <<applied, recorded, debug>>

-----------------------------------------------------------------------------
Step(i) == Start(i) \/ Skip(i) \/ Apply(i) \/ Record(i) \/ Serve(i)

Next == \E i \in Instances : Step(i) \/ Stop(i)

Spec == Init /\ [][Next]_vars

(* A process runs on, and every service of docker-compose.prod.yml has     *)
(* "restart: unless-stopped".                                             *)
FairSpec == Spec /\ \A i \in Instances : WF_vars(Step(i))

-----------------------------------------------------------------------------
(* Properties. *)

(* Every variable holds the values its comment gives it. *)
TypeOK ==
    /\ applied \subseteq Files /\ recorded \subseteq Files
    /\ pc \in [Instances -> {"down", "files", "record", "serving"}]
    /\ seen \in [Instances -> SUBSET Files]
    /\ next \in [Instances -> 1 .. NumFiles + 1]
    /\ \A i \in Instances : pc[i] = "record" => next[i] \in 1 .. Shipped[i]
    /\ stops \in 0 .. MaxStops /\ interrupted \subseteq Files /\ debug \in BOOLEAN

(* Whatever instances raced, of whichever images, and wherever they        *)
(* stopped: one that serves has the effect of every file of its image in  *)
(* the schema, and no file is recorded before the ones in front of it     *)
(* ("applies any that haven't been run yet, in order",                    *)
(* database/postgres.go:93-95).                                           *)
ServesOnFullSchema ==
    /\ \A i \in Instances : pc[i] = "serving" => 1 .. Shipped[i] \subseteq applied
    /\ \A f \in recorded : 1 .. f \subseteq recorded \cap applied

(* A file whose SQL fails from now on, although nobody has recorded it: no *)
(* image that has it can start again until someone inserts the row.       *)
Stuck(f) ==
    /\ f \in applied \ (recorded \cup ReRunnable)
    /\ \A i \in Instances : ~(pc[i] = "record" /\ next[i] = f)

(* Races alone never get there: it takes a stop between the two statements *)
(* of the file (postgres.go:157-167), or a debug database put in release. *)
StuckOnlyIfInterrupted == \A f \in Files : Stuck(f) => f \in interrupted \/ debug

(* Every instance serves in the end, whoever lost a race for a file on the *)
(* way: unless a file of its image is stuck (docs/deployment.md:255: "now  *)
(* automatically applies pending SQL migrations").                        *)
ServesInTheEnd ==
    \A i \in Instances :
        (<>[](pc[i] = "serving")) \/ <>(\E f \in 1 .. Shipped[i] : Stuck(f))

=============================================================================
