--------------------------- MODULE ScheduleStore ---------------------------
(***************************************************************************)
(* The rows of the `schedules` table and the functions by which the store  *)
(* (src/scheduler/store.ts) computes a row from the previous one.  The     *)
(* store works on one SQLite connection from one event loop, so each of    *)
(* its methods is one atomic function of the table.                        *)
(*                                                                         *)
(* A trigger is an opaque value: a cron trigger is known by the instants   *)
(* at which it occurs, a once trigger by its instant `at`.  Two triggers   *)
(* have equivalent timing exactly when they are equal.                     *)
(***************************************************************************)
EXTENDS Naturals

CONSTANTS CronTriggers,  \* cron expressions
          OnceTriggers,  \* one-shot triggers
          Occurrences,   \* the instants at which each cron expression occurs
          At,            \* the instant of each one-shot trigger
          None,          \* SQL NULL
          NoRow          \* in place of a row: the id is not in the table

ASSUME TriggerAssumption ==
    /\ CronTriggers \cap OnceTriggers = {}
    /\ Occurrences \in [CronTriggers -> SUBSET Nat]
    /\ At \in [OnceTriggers -> Nat]
    /\ None \notin Nat \cup {"success", "failed"}

Triggers == CronTriggers \cup OnceTriggers
Statuses == {"active", "paused", "completed", "failed"}
FireStatuses == {"success", "failed"}

Row == [trigger          : Triggers,
        status           : Statuses,
        next_fire_at     : Nat \cup {None},
        last_fired_at    : Nat \cup {None},
        fire_count       : Nat,
        last_fire_status : FireStatuses \cup {None}]

ASSUME NoRowAssumption == NoRow \notin Row

---------------------------------------------------------------------------
(***************************************************************************)
(* Trigger arithmetic.  An expression such as "0 0 31 2 *" never occurs;   *)
(* every other expression occurs again after any instant.                  *)
(***************************************************************************)

\* o is the first occurrence of cron expression c strictly after t.
IsNextOccurrence(c, t, o) ==
    /\ o \in Occurrences[c]
    /\ o > t
    /\ \A p \in Occurrences[c] : p > t => o <= p

computeNextCronOccurrence(c, t) ==
    CHOOSE o \in Occurrences[c] : IsNextOccurrence(c, t, o)

\* An unsatisfiable expression makes the search throw, so no row can be
\* written "active" with it; the other statuses do not compute a next fire.
Computable(trigger, status) ==
    status = "active" /\ trigger \in CronTriggers => Occurrences[trigger] # {}

computeTriggerState(trigger, now, status, fallbackNextFireAt) ==
    CASE status = "completed"           -> None
      [] status \in {"paused", "failed"} -> fallbackNextFireAt
      [] status = "active" ->
            IF trigger \in OnceTriggers THEN At[trigger]
            ELSE computeNextCronOccurrence(trigger, now)

\* Faulty variant: an update that only changes the trigger keeps next_fire_at.
PreserveOnSameStatus(row, nextTrigger, nextStatus) == row.status = nextStatus

shouldPreserveNextFireAt(row, nextTrigger, nextStatus) ==
    /\ row.status = nextStatus
    /\ row.trigger = nextTrigger

---------------------------------------------------------------------------
(***************************************************************************)
(* What each method of the store writes.                                   *)
(***************************************************************************)

CreatedRow(trigger, status, now) ==
    [trigger          |-> trigger,
     status           |-> status,
     next_fire_at     |-> computeTriggerState(trigger, now, status, None),
     last_fired_at    |-> None,
     fire_count       |-> 0,
     last_fire_status |-> None]

UpdatedRow(row, trigger, status, now) ==
    [row EXCEPT
        !.trigger = trigger,
        !.status = status,
        !.next_fire_at =
            IF shouldPreserveNextFireAt(row, trigger, status)
            THEN row.next_fire_at
            ELSE computeTriggerState(trigger, now, status, row.next_fire_at)]

IsDue(row, now) ==
    /\ row # NoRow
    /\ row.status = "active"
    /\ row.next_fire_at # None
    /\ row.next_fire_at <= now

\* Faulty variant: a one-shot that fired stays armed.
AdvanceKeepsOnce(row, firedAt) ==
    IF row.trigger \in OnceTriggers
    THEN [status |-> "active", next_fire_at |-> row.next_fire_at]
    ELSE [status |-> "active",
          next_fire_at |-> computeNextCronOccurrence(row.trigger, firedAt)]

\* A one-shot trigger is done; a cron trigger moves on from the instant of the
\* tick, not from the occurrence it missed.
computeExecutionAdvance(row, firedAt) ==
    IF row.trigger \in OnceTriggers
    THEN [status |-> "completed", next_fire_at |-> None]
    ELSE [status |-> "active",
          next_fire_at |-> computeNextCronOccurrence(row.trigger, firedAt)]

\* Forgetting the previous outcome is part of the advance.
AdvancedRow(row, firedAt) ==
    LET advance == computeExecutionAdvance(row, firedAt)
    IN  [trigger          |-> row.trigger,
         status           |-> advance.status,
         next_fire_at     |-> advance.next_fire_at,
         last_fired_at    |-> firedAt,
         fire_count       |-> row.fire_count + 1,
         last_fire_status |-> None]

\* Faulty variant: only a success is written.
RecordSuccessOnly(row, outcome) ==
    IF row = NoRow \/ outcome = "failed" THEN row ELSE [row EXCEPT !.last_fire_status = outcome]

\* The result is recorded by schedule id alone: a schedule deleted meanwhile
\* stays deleted, and the row does not say which execution reported.
recordExecutionResult(row, outcome) ==
    IF row = NoRow THEN NoRow ELSE [row EXCEPT !.last_fire_status = outcome]

\* An execution was dispatched and its outcome is not known.
Unresolved(row) ==
    /\ row # NoRow
    /\ row.last_fired_at # None
    /\ row.last_fire_status = None

\* Faulty variant: a one-shot that completed by firing is forgotten.
ReconcileActiveOnly(rows) ==
    [id \in DOMAIN rows |->
        IF Unresolved(rows[id]) /\ rows[id].status = "active"
        THEN [rows[id] EXCEPT !.last_fire_status = "failed"]
        ELSE rows[id]]

reconcileInterruptedExecutions(rows) ==
    [id \in DOMAIN rows |->
        IF Unresolved(rows[id])
        THEN [rows[id] EXCEPT !.last_fire_status = "failed"]
        ELSE rows[id]]
=============================================================================
