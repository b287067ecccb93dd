-------------------------------- MODULE Sync --------------------------------
(***************************************************************************)
(* internal/sync and internal/notification: what a client that follows the *)
(* lists and items of one household ends up with.  GET .../sync is two     *)
(* queries, lists and then items, and a ServerTime taken afterwards; with  *)
(* ?since it keeps the rows whose updated_at is later.  gorm computes      *)
(* updated_at when a handler calls Create or Save, the row becomes visible *)
(* when the statement commits, and the handler then notifies the           *)
(* household: live (module Hub) and in a bounded history in Redis.         *)
(*                                                                         *)
(* Abstractions.  The contents of a row are the number of its write, and a *)
(* notification is the row and the write it is about (0: its deletion).    *)
(* All instances share one clock, whose ticks are long enough for several  *)
(* steps (PostgreSQL keeps microseconds, ServerTime has nanoseconds).      *)
(***************************************************************************)
EXTENDS Integers, Sequences

CONSTANTS
    Lists, Items,
    ListOf,       \* the list of each item
    Procs,        \* handlers that may be writing at once
    Clients,
    MaxTime,      \* the last tick (a bound for TLC)
    MaxVer,       \* writes of each row (bounds)
    HistoryLimit, \* notifications kept (cfg.HistoryLimit)
    MayFail,      \* TRUE: a statement may fail, or the process crash
    NONE

Rows == Lists \cup Items

ASSUME ShapeAssumption ==
    /\ ListOf \in [Items -> Lists] /\ Lists \cap Items = {}
    /\ MaxTime \in Nat /\ MaxVer \in [Rows -> Nat] /\ MayFail \in BOOLEAN
    /\ HistoryLimit \in Nat
    /\ NONE \notin Nat /\ NONE \notin Rows
    /\ NONE \notin [ver : Nat, stamp : Nat] \cup [row : Rows, ver : Nat]

VARIABLES
    now,      \* the clock
    row,      \* both tables: row id -> [ver, stamp] (updated_at), or NONE
    writes,   \* the writes of each row so far
    pc,       \* each handler: "idle", "write", "notify"
    loc,      \* the row it is about, the updated_at it will write, and the
              \* write it has made (0: a deletion)
    log,      \* notifications:<id>:history in Redis, the newest first
    held,     \* what each client holds of each row: a version, or NONE
    since,    \* the server_time it holds, or NONE
    req,      \* its request: which query is next, its ?since, and a
              \* notification the client had seen before, or NONE
    got,      \* the rows read for it so far
    unread,   \* history: rows written after its request had read their table
    late,     \* history: rows last written with an updated_at that is not
              \* after the client's since, and too late to be read for it
    silent,   \* history: rows the database itself changed since their last
              \* write by a handler
    deleted   \* history: rows that were ever deleted

writers  == <<now, row, writes, pc, loc, log>>
client   == <<held, since, req, got>>
history  == <<unread, late, silent, deleted>>
vars     == <<now, row, writes, pc, loc, log, held, since, req, got,
              unread, late, silent, deleted>>

Version == [ver : Nat, stamp : Nat]
Note    == [row : Rows, ver : Nat]
NoLoc   == [row |-> NONE, stamp |-> 0, ver |-> 0]
NoReq   == [at |-> "idle", since |-> NONE, told |-> NONE]
NoRows  == [e \in Rows |-> NONE]

Init ==
    /\ now = 0
    /\ row = NoRows
    /\ writes = [e \in Rows |-> 0]
    /\ pc = [p \in Procs |-> "idle"] /\ loc = [p \in Procs |-> NoLoc]
    /\ log = <<>>
    /\ held = [c \in Clients |-> NoRows] /\ since = [c \in Clients |-> NONE]
    /\ req = [c \in Clients |-> NoReq] /\ got = [c \in Clients |-> NoRows]
    /\ unread = [c \in Clients |-> {}] /\ late = [c \in Clients |-> {}]
    /\ silent = {} /\ deleted = {}

Tick ==
    /\ now < MaxTime
    /\ now' = now + 1
    /\ UNCHANGED <<row, writes, pc, loc, log, client, history>>

-----------------------------------------------------------------------------
(* The handlers of lists and items, as far as a snapshot can tell.        *)

(* The foreign key of an item (external: PostgreSQL). *)
KeysHold(e) == e \in Items => row[ListOf[e]] # NONE

(* Mutant: an update that leaves updated_at alone (UpdateColumns).        *)
StampKept(p) == LET e == loc[p].row IN IF row[e] # NONE THEN row[e].stamp ELSE loc[p].stamp
(* The updated_at the row gets: the one gorm took when Save was called.   *)
WrittenStamp(p) == loc[p].stamp

(* Requests of c that are past the query of e's table. *)
TableRead(c, e) ==
    \/ e \in Lists /\ req[c].at \in {"items", "stamp"}
    \/ e \in Items /\ req[c].at = "stamp"

(* Mutant: LPUSH alone. *)
PushedUntrimmed(n) == <<n>> \o log
(* LPUSH and LTRIM, in one MULTI. *)
Pushed(n) == SubSeq(<<n>> \o log, 1, IF Len(log) < HistoryLimit THEN Len(log) + 1 ELSE HistoryLimit)

(* Mutant: the household is notified before the write. *)
NotifyFirst(p, e) ==
    /\ pc[p] = "idle"
    /\ row[e] # NONE \/ (writes[e] = 0 /\ \A q \in Procs : loc[q].row # e)
    /\ pc' = [pc EXCEPT ![p] = "write"]
    /\ loc' = [loc EXCEPT ![p] = [row |-> e, stamp |-> now, ver |-> 0]]
    /\ log' = Pushed([row |-> e, ver |-> writes[e] + 1])
    /\ UNCHANGED <<now, row, writes, client, history>>
(* Create or Save is called: a new row, or one the handler has read.      *)
CallSave(p, e) ==
    /\ pc[p] = "idle"
    /\ row[e] # NONE \/ (writes[e] = 0 /\ \A q \in Procs : loc[q].row # e)
    /\ pc' = [pc EXCEPT ![p] = "write"]
    /\ loc' = [loc EXCEPT ![p] = [row |-> e, stamp |-> now, ver |-> 0]]
    /\ UNCHANGED <<now, row, writes, log, client, history>>

(* Its statement commits. A Save whose row is gone inserts it again; one   *)
(* without its list is an error.                                          *)
Write(p) ==
    LET e == loc[p].row IN
    /\ pc[p] = "write"
    /\ \/ /\ KeysHold(e) /\ writes[e] < MaxVer[e]
          /\ row' = [row EXCEPT ![e] = [ver |-> writes[e] + 1, stamp |-> WrittenStamp(p)]]
          /\ writes' = [writes EXCEPT ![e] = @ + 1]
          /\ late' = [c \in Clients |->
                IF since[c] # NONE /\ loc[p].stamp <= since[c]
                THEN late[c] \cup {e} ELSE late[c] \ {e}]
          /\ unread' = [c \in Clients |->
                IF TableRead(c, e) THEN unread[c] \cup {e} ELSE unread[c]]
          /\ silent' = silent \ {e}
          /\ pc' = [pc EXCEPT ![p] = "notify"]
          /\ loc' = [loc EXCEPT ![p] = [row |-> e, stamp |-> 0, ver |-> writes[e] + 1]]
       \/ /\ ~KeysHold(e)
          /\ pc' = [pc EXCEPT ![p] = "idle"] /\ loc' = [loc EXCEPT ![p] = NoLoc]
          /\ UNCHANGED <<row, writes, late, unread, silent>>
    /\ UNCHANGED <<now, log, client, deleted>>

(* NotifyHousehold, after the commit. *)
Notify(p) ==
    /\ pc[p] = "notify"
    /\ log' = Pushed([row |-> loc[p].row, ver |-> loc[p].ver])
    /\ pc' = [pc EXCEPT ![p] = "idle"] /\ loc' = [loc EXCEPT ![p] = NoLoc]
    /\ UNCHANGED <<now, row, writes, client, history>>

(* The history expires after a day without notifications, and every change *)
(* of the household or its members deletes it (invalidateHouseholdCache).  *)
LoseHistory ==
    /\ log # <<>> /\ log' = <<>>
    /\ UNCHANGED <<now, row, writes, pc, loc, client, history>>

(* An item, or a list and all its items in one transaction. *)
Delete(p, e) ==
    LET gone == {e} \cup {i \in Items : ListOf[i] = e} IN
    /\ pc[p] = "idle" /\ row[e] # NONE
    /\ row' = [f \in Rows |-> IF f \in gone THEN NONE ELSE row[f]]
    /\ deleted' = deleted \cup {f \in gone : row[f] # NONE}
    /\ pc' = [pc EXCEPT ![p] = "notify"]
    /\ loc' = [loc EXCEPT ![p] = [row |-> e, stamp |-> 0, ver |-> 0]]
    /\ UNCHANGED <<now, writes, log, client, unread, late, silent>>

(* The deletion of a category empties category_id in its items, by the     *)
(* foreign key's ON DELETE SET NULL: no hook runs, updated_at stays.      *)
DeleteCategory(i) ==
    /\ row[i] # NONE /\ writes[i] < MaxVer[i]
    /\ row' = [row EXCEPT ![i].ver = writes[i] + 1]
    /\ writes' = [writes EXCEPT ![i] = @ + 1]
    /\ silent' = silent \cup {i}
    /\ UNCHANGED <<now, pc, loc, log, client, unread, late, deleted>>

(* A statement of p fails or its process stops.                           *)
Abort(p) ==
    /\ MayFail /\ pc[p] # "idle"
    /\ pc' = [pc EXCEPT ![p] = "idle"] /\ loc' = [loc EXCEPT ![p] = NoLoc]
    /\ UNCHANGED <<now, row, writes, log, client, history>>

-----------------------------------------------------------------------------
(* A request of client c. *)

(* What SELECT finds of the rows S; NONE for those that are not there.    *)
ReadInto(c, S) == got' = [got EXCEPT ![c] = [e \in Rows |-> IF e \in S THEN row[e] ELSE @[e]]]

(* The client may have seen a notification of the history; it asks for     *)
(* everything or for what changed since; the lists are read.              *)
ReadLists(c, from, note) ==
    /\ req[c].at = "idle"
    /\ req' = [req EXCEPT ![c] = [at |-> "items", since |-> from, told |-> note]]
    /\ ReadInto(c, Lists)
    /\ UNCHANGED <<writers, held, since, history>>

ReadItems(c) ==
    /\ req[c].at = "items"
    /\ req' = [req EXCEPT ![c].at = "stamp"]
    /\ ReadInto(c, Items)
    /\ UNCHANGED <<writers, held, since, history>>

(* Mutant: without ?since, what changed in the current period. *)
RecentOnly(r, from) == r.stamp > (IF from = NONE THEN now - 1 ELSE from)
(* filterChanged: updatedAt(e).After(since). *)
Changed(r, from) == from = NONE \/ r.stamp > from

Answered(c) == {e \in Rows : got[c][e] # NONE /\ Changed(got[c][e], req[c].since)}

(* ServerTime is taken and the answer goes out. The client (external)      *)
(* replaces what it holds by a full answer, merges a delta into it, and    *)
(* keeps server_time for the next request. Nobody sees the answer on its   *)
(* way, so the client has it at once.                                     *)
Answer(c) ==
    LET full == req[c].since = NONE IN
    /\ req[c].at = "stamp"
    /\ held' = [held EXCEPT ![c] = [e \in Rows |->
          IF e \in Answered(c) THEN got[c][e].ver ELSE IF full THEN NONE ELSE @[e]]]
    /\ since' = [since EXCEPT ![c] = now]
    /\ late' = [late EXCEPT ![c] =
          (@ \ Answered(c)) \cup {e \in unread[c] : row[e] # NONE /\ row[e].stamp <= now}]
    /\ req' = [req EXCEPT ![c] = NoReq]
    /\ got' = [got EXCEPT ![c] = NoRows]
    /\ unread' = [unread EXCEPT ![c] = {}]
    /\ UNCHANGED <<writers, silent, deleted>>

(* A query fails, or the answer is lost: the client keeps its since.      *)
NoAnswer(c) ==
    /\ MayFail /\ req[c].at # "idle"
    /\ req' = [req EXCEPT ![c] = NoReq]
    /\ got' = [got EXCEPT ![c] = NoRows]
    /\ unread' = [unread EXCEPT ![c] = {}]
    /\ UNCHANGED <<writers, held, since, late, silent, deleted>>

-----------------------------------------------------------------------------
Handler(p) == (\E e \in Rows : CallSave(p, e) \/ Delete(p, e)) \/ Write(p) \/ Notify(p) \/ Abort(p)
(* HistoryByHousehold, and a client that did not look. *)
Seen == {log[n] : n \in DOMAIN log} \cup {NONE}
Client(c) == \/ \E from \in {NONE, since[c]}, note \in Seen : ReadLists(c, from, note)
             \/ ReadItems(c) \/ Answer(c) \/ NoAnswer(c)

Next ==
    \/ \E p \in Procs : Handler(p)
    \/ \E i \in Items : DeleteCategory(i)
    \/ \E c \in Clients : Client(c)
    \/ LoseHistory
    \/ Tick

Spec == Init /\ [][Next]_vars

-----------------------------------------------------------------------------
(* Properties. *)

(* Every variable holds the values its comment gives it; no updated_at and *)
(* no since is ahead of the clock.                                        *)
TypeOK ==
    /\ now \in Nat
    /\ row \in [Rows -> Version \cup {NONE}]
    /\ writes \in [Rows -> Nat]
    /\ log \in Seq(Note) /\ Len(log) <= HistoryLimit
    /\ \A e \in Rows : row[e] # NONE => row[e].stamp <= now /\ row[e].ver \in 1 .. writes[e]
    /\ \A n \in DOMAIN log : log[n].ver \in 0 .. writes[log[n].row]
    /\ pc \in [Procs -> {"idle", "write", "notify"}]
    /\ loc \in [Procs -> [row : Rows \cup {NONE}, stamp : Nat, ver : Nat]]
    /\ \A p \in Procs : loc[p].stamp <= now /\ (pc[p] # "idle" <=> loc[p].row # NONE)
    /\ held \in [Clients -> [Rows -> Nat \cup {NONE}]]
    /\ since \in [Clients -> Nat \cup {NONE}]
    /\ \A c \in Clients : since[c] # NONE => since[c] <= now
    /\ req \in [Clients -> [at : {"idle", "items", "stamp"}, since : Nat \cup {NONE},
                      told : Note \cup {NONE}]]
    /\ got \in [Clients -> [Rows -> Version \cup {NONE}]]
    /\ unread \in [Clients -> SUBSET Rows] /\ late \in [Clients -> SUBSET Rows]
    /\ silent \subseteq Rows /\ deleted \subseteq Rows

(* However many deltas a client has chained, whichever answers were lost:  *)
(* the next delta brings it every row it holds no current copy of, except *)
(* those whose last write committed after one of its answers had read the *)
(* table, with an updated_at no later than that answer's ServerTime, and  *)
(* those the database changed by itself (sync/service.go:61-67).          *)
MissedOnlyIfLate ==
    \A c \in Clients, e \in Rows :
        (since[c] # NONE /\ row[e] # NONE /\ held[c][e] # row[e].ver) =>
            Changed(row[e], since[c]) \/ e \in late[c] \cup silent

(* sync/service.go:24-26 for an answer without since: a row the client    *)
(* holds and the answer does not have was deleted, although lists and     *)
(* items are read at different moments; and no copy is ever replaced by   *)
(* an older one.                                                          *)
AbsentMeansDeleted ==
    [][\A c \in Clients, e \in Rows : held[c][e] # NONE =>
          IF held'[c][e] = NONE THEN e \in deleted ELSE held'[c][e] >= held[c][e]]_vars

(* A client that finds a change among the notifications and syncs then has *)
(* it, or a newer one, when it is answered: unless the change was late for *)
(* an earlier answer, overtaken by the database's own, or the row deleted. *)
(* (Every service commits first and calls NotifyHousehold afterwards.)    *)
ToldChangesArrive ==
    [][\A c \in Clients : (Answer(c) /\ req[c].told # NONE /\ req[c].told.ver > 0) =>
          LET e == req[c].told.row IN
              \/ held'[c][e] # NONE /\ held'[c][e] >= req[c].told.ver
              \/ e \in late'[c] \cup silent \cup deleted]_vars

=============================================================================
