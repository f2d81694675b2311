----------------------------- MODULE Scheduler -----------------------------
(***************************************************************************)
(* The scheduler of the daemon: the `schedules` table, the tick loop of    *)
(* src/scheduler/service.ts, the executions it dispatches, the schedule    *)
(* primitive through which sessions edit the table, and the life of the    *)
(* process (start, signal, exit, crash).                                   *)
(*                                                                         *)
(* The daemon is one event loop.  A tick contains no await, so while it is *)
(* in progress (due # {}) no other handler runs: only a crash, the passage *)
(* of time or an SQLite lock error can come in between two of its steps.   *)
(***************************************************************************)
EXTENDS ScheduleStore

CONSTANTS Ids,              \* schedule ids; a UUID is never used twice
          MaxTime,          \* bound on the clock
          MaxEdits,         \* bound on creates and updates
          MaxStops,         \* bound on crashes and shutdowns together
          MaxLockFailures   \* bound on statements SQLite gives up on

ASSUME BoundAssumption ==
    /\ MaxTime \in Nat
    /\ MaxEdits \in Nat
    /\ MaxStops \in Nat
    /\ MaxLockFailures \in Nat

\* An expression that occurs at all occurs again after every instant.
ASSUME CronAssumption ==
    \A c \in CronTriggers :
        Occurrences[c] # {} =>
            \A t \in 0..MaxTime : \E o \in Occurrences[c] : IsNextOccurrence(c, t, o)

VARIABLES
    clock,
    schedules,     \* the table: id -> row
    phase,         \* "down", "starting", "up" or "draining"
    due,           \* the ids the tick in progress has still to dispatch
    firedAt,       \* the instant that tick was started at
    runs,          \* executions in flight: <<id, the fire_count it was given>>
    usedIds,       \* ids handed out so far
    \* history and bounds
    arming,        \* id -> when it was last armed, and how often it fired since
    lost,          \* executions whose result the database refused
    edits, stops, lockFailures

bounds == <<edits, stops, lockFailures>>
vars == <<clock, schedules, phase, due, firedAt, runs, usedIds, arming, lost, bounds>>

Arming == [at : Nat, fires : Nat]
Present == {id \in Ids : schedules[id] # NoRow}

TypeOK ==
    /\ clock \in 0..MaxTime
    /\ schedules \in [Ids -> Row \cup {NoRow}]
    /\ phase \in {"down", "starting", "up", "draining"}
    /\ due \in SUBSET Ids
    /\ firedAt \in 0..MaxTime
    /\ runs \in SUBSET (Ids \X Nat)
    /\ usedIds \in SUBSET Ids
    /\ arming \in [Ids -> Arming]
    /\ lost \in SUBSET (Ids \X Nat)
    /\ edits \in 0..MaxEdits
    /\ stops \in 0..MaxStops
    /\ lockFailures \in 0..MaxLockFailures

Init ==
    /\ clock = 0
    /\ schedules = [id \in Ids |-> NoRow]
    /\ phase = "down"
    /\ due = {}
    /\ firedAt = 0
    /\ runs = {}
    /\ usedIds = {}
    /\ arming = [id \in Ids |-> [at |-> 0, fires |-> 0]]
    /\ lost = {}
    /\ edits = 0 /\ stops = 0 /\ lockFailures = 0

---------------------------------------------------------------------------
(***************************************************************************)
(* Time and the database.                                                  *)
(***************************************************************************)

PassTime ==
    /\ clock < MaxTime
    /\ clock' = clock + 1
    /\ UNCHANGED <<schedules, phase, due, firedAt, runs, usedIds, arming, lost, bounds>>

\* withSqliteLockRetry has used up its retries: the statement throws.
LockFailure ==
    /\ lockFailures < MaxLockFailures
    /\ lockFailures' = lockFailures + 1
    /\ UNCHANGED <<edits, stops>>

---------------------------------------------------------------------------
(***************************************************************************)
(* SchedulerService                                                        *)
(***************************************************************************)

Pending == {<<id, schedules[id].fire_count>> : id \in {i \in Ids : Unresolved(schedules[i])}}

\* start(): reconcile what the previous process left behind; the first tick
\* follows in the same turn of the event loop.  A reconcile that throws is
\* logged and skipped.
Start ==
    /\ phase = "down"
    /\ phase' = "starting"
    /\ \/ /\ schedules' = reconcileInterruptedExecutions(schedules)
          /\ UNCHANGED <<lost, bounds>>
       \/ /\ LockFailure
          /\ lost' = lost \cup Pending
          /\ UNCHANGED schedules
    /\ UNCHANGED <<clock, due, firedAt, runs, usedIds, arming>>

\* Faulty variant: start() ticks once and installs no interval.
TickOnlyAtStart ==
    /\ phase = "starting"
    /\ due = {}
    /\ phase' = "up"
    /\ firedAt' = clock
    /\ due' = {id \in Ids : IsDue(schedules[id], clock)}
    /\ UNCHANGED <<clock, schedules, runs, usedIds, arming, lost, bounds>>

\* performTick(): the ids due now, read once.
BeginTick ==
    /\ phase \in {"starting", "up"}
    /\ due = {}
    /\ phase' = "up"
    /\ firedAt' = clock
    /\ due' = {id \in Ids : IsDue(schedules[id], clock)}
    /\ UNCHANGED <<clock, schedules, runs, usedIds, arming, lost, bounds>>

\* One turn of the loop: advance the row in a transaction that looks at it
\* again, then dispatch the execution without waiting for it.
Dispatch(id) ==
    /\ id \in due
    /\ \A other \in due : schedules[id].next_fire_at <= schedules[other].next_fire_at
    /\ due' = due \ {id}
    /\ IF IsDue(schedules[id], firedAt)
       THEN /\ schedules' = [schedules EXCEPT ![id] = AdvancedRow(@, firedAt)]
            /\ runs' = runs \cup {<<id, schedules[id].fire_count + 1>>}
            /\ arming' = [arming EXCEPT ![id].fires = @ + 1]
       ELSE UNCHANGED <<schedules, runs, arming>>
    /\ UNCHANGED <<clock, phase, firedAt, usedIds, lost, bounds>>

\* advanceForExecution throws: runTick logs it and the rest of the tick is
\* dropped.
TickFails ==
    /\ due # {}
    /\ due' = {}
    /\ LockFailure
    /\ UNCHANGED <<clock, schedules, phase, firedAt, runs, usedIds, arming, lost>>

\* trackExecution: launchSchedule settles and its result is recorded, unless
\* the database refuses it, which is logged and forgotten.
Finish(run, outcome) ==
    /\ run \in runs
    /\ phase \in {"up", "draining"}
    /\ due = {}
    /\ runs' = runs \ {run}
    /\ \/ /\ schedules' =
                [schedules EXCEPT ![run[1]] = recordExecutionResult(@, outcome)]
          /\ UNCHANGED <<lost, bounds>>
       \/ /\ LockFailure
          /\ lost' = lost \cup {run}
          /\ UNCHANGED schedules
    /\ UNCHANGED <<clock, phase, due, firedAt, usedIds, arming>>

---------------------------------------------------------------------------
(***************************************************************************)
(* The schedule primitive, called by any session of a live process.        *)
(***************************************************************************)

CanEdit ==
    /\ phase \in {"up", "draining"}
    /\ due = {}

Create(id, trigger, status) ==
    /\ CanEdit
    /\ edits < MaxEdits
    /\ id \notin usedIds
    /\ Computable(trigger, status)
    /\ schedules' = [schedules EXCEPT ![id] = CreatedRow(trigger, status, clock)]
    /\ usedIds' = usedIds \cup {id}
    /\ arming' = [arming EXCEPT ![id] = [at |-> clock, fires |-> 0]]
    /\ edits' = edits + 1
    /\ UNCHANGED <<clock, phase, due, firedAt, runs, lost, stops, lockFailures>>

\* A field the call leaves out keeps its value, so the call is given by the
\* trigger and the status it ends with.
Update(id, trigger, status) ==
    /\ CanEdit
    /\ edits < MaxEdits
    /\ id \in Present
    /\ ~shouldPreserveNextFireAt(schedules[id], trigger, status) => Computable(trigger, status)
    /\ schedules' = [schedules EXCEPT ![id] = UpdatedRow(@, trigger, status, clock)]
    /\ arming' =
          IF status = "active" /\ ~shouldPreserveNextFireAt(schedules[id], trigger, status)
          THEN [arming EXCEPT ![id] = [at |-> clock, fires |-> 0]]
          ELSE arming
    /\ edits' = edits + 1
    /\ UNCHANGED <<clock, phase, due, firedAt, runs, usedIds, lost, stops, lockFailures>>

\* deleteById and deleteByGroup: group labels are free, so any set of rows can
\* go at once.
Delete(ids) ==
    /\ CanEdit
    /\ ids # {}
    /\ schedules' = [id \in Ids |-> IF id \in ids THEN NoRow ELSE schedules[id]]
    /\ UNCHANGED <<clock, phase, due, firedAt, runs, usedIds, arming, lost, bounds>>

---------------------------------------------------------------------------
(***************************************************************************)
(* The process.                                                            *)
(***************************************************************************)

\* SIGINT or SIGTERM: scheduler.stop() clears the interval and no tick starts.
Stop ==
    /\ phase = "up"
    /\ due = {}
    /\ stops < MaxStops
    /\ phase' = "draining"
    /\ stops' = stops + 1
    /\ UNCHANGED <<clock, schedules, due, firedAt, runs, usedIds, arming, lost, edits, lockFailures>>

\* Every session ended, or the 30 seconds are over: the database is closed, so
\* the result of an execution still in flight goes nowhere.
Exit ==
    /\ phase = "draining"
    /\ phase' = "down"
    /\ runs' = {}
    /\ UNCHANGED <<clock, schedules, due, firedAt, usedIds, arming, lost, bounds>>

Crash ==
    /\ phase # "down"
    /\ stops < MaxStops
    /\ stops' = stops + 1
    /\ phase' = "down"
    /\ due' = {}
    /\ runs' = {}
    /\ UNCHANGED <<clock, schedules, firedAt, usedIds, arming, lost, edits, lockFailures>>

Next ==
    \/ PassTime
    \/ Start
    \/ BeginTick
    \/ \E id \in Ids : Dispatch(id)
    \/ TickFails
    \/ \E run \in runs, outcome \in FireStatuses : Finish(run, outcome)
    \/ \E id \in Ids, trigger \in Triggers, status \in Statuses :
            Create(id, trigger, status) \/ Update(id, trigger, status)
    \/ \E ids \in SUBSET Present : Delete(ids)
    \/ Stop
    \/ Exit
    \/ Crash

Spec == Init /\ [][Next]_vars

\* The interval timer keeps ticking and a tick runs to its end; sessions end
\* (their model calls and their iterations are bounded); a shutdown ends after
\* at most 30 seconds; and whoever runs the daemon starts it again.
Fairness ==
    /\ WF_vars(Start)
    /\ WF_vars(BeginTick)
    /\ WF_vars(\E id \in Ids : Dispatch(id))
    /\ \A id \in Ids : WF_vars(\E run \in runs, outcome \in FireStatuses :
                                   run[1] = id /\ Finish(run, outcome))
    /\ WF_vars(Exit)

FairSpec == Spec /\ Fairness

---------------------------------------------------------------------------
(***************************************************************************)
(* Properties                                                              *)
(***************************************************************************)

\* The instant after which the next fire of a schedule counts: that of its last
\* fire or, if it has not fired since it was armed, that of the arming.
Since(id) == IF arming[id].fires = 0 THEN arming[id].at ELSE schedules[id].last_fired_at

\* An active schedule waits for the right instant of its current trigger: a
\* one-shot for its `at`, not having fired since it was armed, a recurring one
\* for the first occurrence after its last fire or arming.  A stale
\* next_fire_at kept across an update, or one computed from the wrong base,
\* would fire the schedule at the wrong time, twice, or for every occurrence
\* missed while the daemon was down.
ArmedForNextInstant ==
    \A id \in Present :
        LET row == schedules[id] IN
        row.status = "active" =>
            IF row.trigger \in OnceTriggers
            THEN row.next_fire_at = At[row.trigger] /\ arming[id].fires = 0
            ELSE /\ Since(id) # None
                 /\ IsNextOccurrence(row.trigger, Since(id), row.next_fire_at)

\* The outcome of the last execution may be missing from a row only while that
\* execution is in flight, while the daemon is down, or because the database
\* refused the write: a start resolves what a crash interrupted, also in rows
\* that are no longer active.
OutcomeAccounted ==
    \A id \in Present :
        Unresolved(schedules[id]) =>
            \/ phase = "down"
            \/ <<id, schedules[id].fire_count>> \in runs \cup lost

\* This step dispatches an execution of id.
Dispatched(id) ==
    /\ schedules[id] # NoRow
    /\ <<id, schedules[id].fire_count + 1>> \in runs' \ runs

\* Missed occurrences are caught up once: two dispatches of a recurring
\* schedule are always separated by an occurrence of its trigger, and a
\* one-shot is never dispatched twice without being armed in between.
NoDuplicateDispatch ==
    [][\A id \in Ids : Dispatched(id) =>
         LET row == schedules[id] IN
         IF row.trigger \in OnceTriggers
         THEN At[row.trigger] <= clock /\ arming[id].fires = 0
         ELSE \E o \in Occurrences[row.trigger] :
                 o <= clock /\ (row.last_fired_at # None => row.last_fired_at < o)]_vars

\* The alarms a client of the schedule primitive sees: only an active schedule
\* is set.
Alarm == INSTANCE ScheduleAlarm WITH
    now   <- clock,
    at    <- [id \in Ids |-> IF schedules[id] # NoRow /\ schedules[id].status = "active"
                             THEN schedules[id].next_fire_at ELSE None],
    rings <- [id \in Ids |-> arming[id].fires]

\* The store, the tick loop and the restarts together implement the alarms.
ImplementsAlarm == Alarm!Spec

\* A schedule that is due is dispatched (or edited so that it is not due any
\* more), across shutdowns, crashes and ticks cut short by a lock error.
DueIsServed ==
    \A id \in Ids : IsDue(schedules[id], clock) ~> ~IsDue(schedules[id], clock)

\* The outcome of every dispatch is eventually settled, by its execution or by
\* the reconciliation of the next start, unless its write was refused.
OutcomeResolved ==
    \A id \in Ids :
        Unresolved(schedules[id]) ~>
            \/ ~Unresolved(schedules[id])
            \/ <<id, schedules[id].fire_count>> \in lost

=============================================================================
