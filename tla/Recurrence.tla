----------------------------- MODULE Recurrence ------------------------------
(***************************************************************************)
(* computeNextDue (shoppingitem/service.go) and the life of one recurring  *)
(* item on the calendar: it is completed, waits, and is put back by the    *)
(* first listing of its list once it is due.                              *)
(*                                                                         *)
(* Abstractions.  The clock shows days; a handler is one step, for what    *)
(* handlers do to each other is the matter of ShoppingItems.  The rest of  *)
(* the row is left out.                                                   *)
(***************************************************************************)
EXTENDS Integers, Sequences

CONSTANTS
    Starts,    \* dates the clock may start at
    MaxDays,   \* the days a behaviour lasts (a bound)
    NONE,      \* no next_due_at
    KEEP       \* a field an update request leaves out

Rules == {"", "daily", "weekly", "biweekly", "monthly"}

VARIABLES
    now,       \* the date, as [y, m, d]
    item,      \* is_completed, recurrence_rule, and the day of next_due_at
    first,     \* the day the clock started
    set        \* history: the day next_due_at was last computed

vars == <<now, item, first, set>>

-----------------------------------------------------------------------------
(* The calendar of package time. *)

Leap(y) == (y % 4 = 0 /\ y % 100 # 0) \/ y % 400 = 0
MonthLengths(y) == <<31, IF Leap(y) THEN 29 ELSE 28, 31, 30, 31, 30, 31, 31, 30, 31, 30, 31>>

(* Days before the month m of year y, in that year. *)
Before(y, m) ==
    LET sum[k \in 0 .. 11] == IF k = 0 THEN 0 ELSE sum[k - 1] + MonthLengths(y)[k]
    IN  sum[m - 1]

(* Days since the year 1; month 13 is the first of the next year, and a    *)
(* day past the end of its month falls into the next (time.Date).         *)
DayOf(y, m, d) ==
    LET year == y + ((m - 1) \div 12)
        past == year - 1
    IN  365 * past + (past \div 4) - (past \div 100) + (past \div 400)
          + Before(year, ((m - 1) % 12) + 1) + d - 1

AddDate(from, years, months, days) == DayOf(from.y + years, from.m + months, from.d + days)
Today == DayOf(now.y, now.m, now.d)

Tomorrow ==
    IF now.d < MonthLengths(now.y)[now.m] THEN [now EXCEPT !.d = @ + 1]
    ELSE IF now.m < 12 THEN [now EXCEPT !.m = @ + 1, !.d = 1]
    ELSE [y |-> now.y + 1, m |-> 1, d |-> 1]

-----------------------------------------------------------------------------
computeNextDue(rule, from) ==
    CASE rule = "daily"    -> AddDate(from, 0, 0, 1)
      [] rule = "weekly"   -> AddDate(from, 0, 0, 7)
      [] rule = "biweekly" -> AddDate(from, 0, 0, 14)
      [] rule = "monthly"  -> AddDate(from, 1, 0, 0)
      [] OTHER             -> AddDate(from, 0, 0, 0)

WithRule(r, rule) ==
    IF rule = KEEP THEN r
    ELSE [r EXCEPT !.rule = rule,
                   !.due = IF rule = "" THEN NONE ELSE IF r.done THEN computeNextDue(rule, now) ELSE @]

WithDone(r, done) ==
    IF done = KEEP THEN r
    ELSE [r EXCEPT !.done = done,
                   !.due = IF done /\ ~r.done /\ r.rule # "" THEN computeNextDue(r.rule, now)
                           ELSE IF done THEN @ ELSE NONE]

Init ==
    /\ now \in Starts /\ first = Today
    /\ item \in [done : {FALSE}, rule : Rules, due : {NONE}]
    /\ set = Today

(* computeNextDue is called: a rule for a completed item, or a completion. *)
Computes(rule, done) ==
    \/ rule \notin {"", KEEP} /\ item.done
    \/ done = TRUE /\ ~item.done /\ WithRule(item, rule).rule # ""

(* Update; with KEEP for the rule, also UpdateCompleted. *)
Update(rule, done) ==
    /\ item' = WithDone(WithRule(item, rule), done)
    /\ set' = IF Computes(rule, done) THEN Today ELSE set
    /\ UNCHANGED <<now, first>>

Due == item.done /\ item.rule # "" /\ item.due # NONE /\ item.due <= Today

(* ListByListID, with the roll-over in front. *)
ListByListID ==
    /\ item' = IF Due THEN [item EXCEPT !.done = FALSE, !.due = NONE] ELSE item
    /\ UNCHANGED <<now, first, set>>

Tick ==
    /\ Today - first < MaxDays
    /\ now' = Tomorrow
    /\ UNCHANGED <<item, first, set>>

Next ==
    \/ \E rule \in Rules \cup {KEEP}, done \in BOOLEAN \cup {KEEP} : Update(rule, done)
    \/ ListByListID
    \/ Tick

Spec == Init /\ [][Next]_vars

-----------------------------------------------------------------------------
(* What the documentation says, and the code does not do.                 *)

(* The longest a rule lets its item wait; no month is longer than 31 days. *)
Period == [daily |-> 1, weekly |-> 7, biweekly |-> 14, monthly |-> 31]

(* README.md:428: "Items can optionally recur (`daily`, `weekly`,          *)
(* `biweekly`, `monthly`)", and "once that time passes, the item           *)
(* automatically reappears": a scheduled item that has waited for the      *)
(* period of its rule is put back by the next listing.                    *)
ReappearsAfterItsPeriod ==
    (item.due # NONE /\ Today - set >= Period[item.rule]) => Due

=============================================================================
