-------------------------- MODULE SchedulerProofs --------------------------
(***************************************************************************)
(* Proofs about the scheduler, for any set of ids, triggers and bounds.    *)
(***************************************************************************)
EXTENDS Scheduler, TLAPS

(***************************************************************************)
(* The functions of the store                                              *)
(***************************************************************************)

\* The search for the next occurrence finds the first one after t.
LEMMA NextOccurrence ==
    ASSUME NEW c \in CronTriggers, Occurrences[c] # {}, NEW t \in 0..MaxTime
    PROVE  /\ IsNextOccurrence(c, t, computeNextCronOccurrence(c, t))
           /\ computeNextCronOccurrence(c, t) \in Nat
  <1>1. PICK o \in Occurrences[c] : IsNextOccurrence(c, t, o)
    BY CronAssumption
  <1>2. computeNextCronOccurrence(c, t) \in Occurrences[c]
        /\ IsNextOccurrence(c, t, computeNextCronOccurrence(c, t))
    BY <1>1 DEF computeNextCronOccurrence
  <1>3. Occurrences[c] \in SUBSET Nat
    BY TriggerAssumption
  <1> QED
    BY <1>2, <1>3

\* The trigger state of a row is an instant or NULL.
LEMMA TriggerStateType ==
    ASSUME NEW trigger \in Triggers, NEW status \in Statuses, NEW now \in 0..MaxTime,
           NEW fallback \in Nat \cup {None}, Computable(trigger, status)
    PROVE  computeTriggerState(trigger, now, status, fallback) \in Nat \cup {None}
  <1>1. CASE status # "active"
    BY <1>1 DEF computeTriggerState, Statuses
  <1>2. CASE status = "active" /\ trigger \in OnceTriggers
    BY <1>2, TriggerAssumption DEF computeTriggerState
  <1>3. CASE status = "active" /\ trigger \notin OnceTriggers
    <2>1. trigger \in CronTriggers /\ Occurrences[trigger] # {}
      BY <1>3 DEF Triggers, Computable
    <2> QED
      BY <1>3, <2>1, NextOccurrence DEF computeTriggerState
  <1> QED
    BY <1>1, <1>2, <1>3

LEMMA CreatedRowType ==
    ASSUME NEW trigger \in Triggers, NEW status \in Statuses, NEW now \in 0..MaxTime,
           Computable(trigger, status)
    PROVE  CreatedRow(trigger, status, now) \in Row
  <1>1. computeTriggerState(trigger, now, status, None) \in Nat \cup {None}
    BY TriggerStateType
  <1> QED
    BY <1>1 DEF CreatedRow, Row

LEMMA UpdatedRowType ==
    ASSUME NEW row \in Row, NEW trigger \in Triggers, NEW status \in Statuses,
           NEW now \in 0..MaxTime,
           ~shouldPreserveNextFireAt(row, trigger, status) => Computable(trigger, status)
    PROVE  UpdatedRow(row, trigger, status, now) \in Row
  <1>1. row.next_fire_at \in Nat \cup {None}
    BY DEF Row
  <1>2. ~shouldPreserveNextFireAt(row, trigger, status) =>
            computeTriggerState(trigger, now, status, row.next_fire_at) \in Nat \cup {None}
    BY <1>1, TriggerStateType
  <1> QED
    BY <1>1, <1>2 DEF UpdatedRow, Row

LEMMA AdvancedRowType ==
    ASSUME NEW row \in Row, NEW firedTime \in 0..MaxTime,
           row.trigger \in CronTriggers => Occurrences[row.trigger] # {}
    PROVE  AdvancedRow(row, firedTime) \in Row
  <1> DEFINE advance == computeExecutionAdvance(row, firedTime)
  <1>1. advance.status \in Statuses
    BY DEF computeExecutionAdvance, Statuses
  <1>2. advance.next_fire_at \in Nat \cup {None}
    <2>1. CASE row.trigger \in OnceTriggers
      BY <2>1 DEF computeExecutionAdvance
    <2>2. CASE row.trigger \notin OnceTriggers
      <3>1. row.trigger \in CronTriggers
        BY <2>2 DEF Row, Triggers
      <3>2. computeNextCronOccurrence(row.trigger, firedTime) \in Nat
        BY <3>1, NextOccurrence
      <3> QED
        BY <2>2, <3>2 DEF computeExecutionAdvance
    <2> QED
      BY <2>1, <2>2
  <1>3. firedTime \in Nat
    BY BoundAssumption
  <1>4. row.trigger \in Triggers /\ row.fire_count \in Nat
    BY DEF Row
  <1> QED
    BY <1>1, <1>2, <1>3, <1>4 DEF AdvancedRow, Row

LEMMA RecordedRowType ==
    ASSUME NEW row \in Row \cup {NoRow}, NEW outcome \in FireStatuses
    PROVE  recordExecutionResult(row, outcome) \in Row \cup {NoRow}
  BY DEF recordExecutionResult, Row

LEMMA ReconciledRowsType ==
    ASSUME NEW rows \in [Ids -> Row \cup {NoRow}]
    PROVE  reconcileInterruptedExecutions(rows) \in [Ids -> Row \cup {NoRow}]
  <1>1. SUFFICES ASSUME NEW id \in Ids
                 PROVE  reconcileInterruptedExecutions(rows)[id] \in Row \cup {NoRow}
    BY DEF reconcileInterruptedExecutions
  <1>2. rows[id] \in Row => [rows[id] EXCEPT !.last_fire_status = "failed"] \in Row
    BY DEF Row, FireStatuses
  <1> QED
    BY <1>2 DEF reconcileInterruptedExecutions, Unresolved

---------------------------------------------------------------------------
(***************************************************************************)
(* The inductive invariant.  ArmedForNextInstant is not inductive without  *)
(* the order of the recorded instants: a fire recorded after the present   *)
(* or after the arming that follows it would move the base from which the  *)
(* next occurrence is computed.                                            *)
(***************************************************************************)
ClockOrder ==
    /\ firedAt <= clock
    /\ \A id \in Ids : arming[id].at <= clock
    /\ \A id \in Ids : schedules[id] # NoRow =>
         /\ schedules[id].last_fired_at # None => schedules[id].last_fired_at <= clock
         /\ arming[id].fires # 0 => schedules[id].last_fired_at # None
         /\ arming[id].fires = 0 /\ schedules[id].last_fired_at # None =>
                schedules[id].last_fired_at <= arming[id].at

Armed(id) ==
    schedules[id] # NoRow /\ schedules[id].status = "active" =>
        IF schedules[id].trigger \in OnceTriggers
        THEN schedules[id].next_fire_at = At[schedules[id].trigger] /\ arming[id].fires = 0
        ELSE /\ Since(id) # None
             /\ IsNextOccurrence(schedules[id].trigger, Since(id), schedules[id].next_fire_at)

Inv ==
    /\ TypeOK
    /\ ClockOrder
    /\ \A id \in Ids : Armed(id)
    /\ OutcomeAccounted

\* An active recurring schedule has an expression that occurs.
LEMMA ActiveSatisfiable ==
    ASSUME Inv, NEW id \in Ids, schedules[id] # NoRow, schedules[id].status = "active",
           schedules[id].trigger \in CronTriggers
    PROVE  Occurrences[schedules[id].trigger] # {}
  BY TriggerAssumption DEF Inv, Armed, IsNextOccurrence

LEMMA InitInv == Init => Inv
  <1> SUFFICES ASSUME Init PROVE Inv
    OBVIOUS
  <1>1. TypeOK
    BY BoundAssumption DEF Init, TypeOK, Arming
  <1>2. ClockOrder /\ (\A id \in Ids : Armed(id)) /\ OutcomeAccounted
    BY DEF Init, ClockOrder, Armed, OutcomeAccounted, Present
  <1> QED
    BY <1>1, <1>2 DEF Inv

\* Every step keeps every variable in its type.
LEMMA NextType == ASSUME Inv, [Next]_vars PROVE TypeOK'
  <1> USE DEF Inv
  <1>1. CASE PassTime
    BY <1>1, BoundAssumption DEF PassTime, TypeOK, bounds
  <1>2. CASE Start
    <2>1. reconcileInterruptedExecutions(schedules) \in [Ids -> Row \cup {NoRow}]
      BY ReconciledRowsType DEF TypeOK
    <2>2. Pending \in SUBSET (Ids \X Nat)
      BY DEF Pending, TypeOK, Unresolved, Row
    <2> QED
      BY <1>2, <2>1, <2>2, BoundAssumption DEF Start, TypeOK, bounds, LockFailure
  <1>3. CASE BeginTick
    BY <1>3 DEF BeginTick, TypeOK, bounds
  <1>4. ASSUME NEW id \in Ids, Dispatch(id) PROVE TypeOK'
    <2>1. CASE IsDue(schedules[id], firedAt)
      <3>1. schedules[id] \in Row /\ schedules[id].status = "active"
        BY <2>1 DEF IsDue, TypeOK
      <3>2. AdvancedRow(schedules[id], firedAt) \in Row
        BY <3>1, AdvancedRowType, ActiveSatisfiable, NoRowAssumption DEF TypeOK
      <3>3. schedules' \in [Ids -> Row \cup {NoRow}]
        BY <1>4, <2>1, <3>2 DEF Dispatch, TypeOK
      <3>4. <<id, schedules[id].fire_count + 1>> \in Ids \X Nat
        BY <3>1 DEF Row
      <3>5. arming[id].fires + 1 \in Nat
        BY DEF TypeOK, Arming
      <3>6. arming' \in [Ids -> Arming]
        BY <1>4, <2>1, <3>5 DEF Dispatch, TypeOK, Arming
      <3> QED
        BY <1>4, <2>1, <3>3, <3>4, <3>6 DEF Dispatch, TypeOK, bounds
    <2>2. CASE ~IsDue(schedules[id], firedAt)
      BY <1>4, <2>2 DEF Dispatch, TypeOK, bounds
    <2> QED
      BY <2>1, <2>2
  <1>5. CASE TickFails
    BY <1>5, BoundAssumption DEF TickFails, TypeOK, LockFailure
  <1>6. ASSUME NEW run \in runs, NEW outcome \in FireStatuses, Finish(run, outcome)
        PROVE  TypeOK'
    <2>1. run \in Ids \X Nat /\ run[1] \in Ids
      BY DEF TypeOK
    <2>2. recordExecutionResult(schedules[run[1]], outcome) \in Row \cup {NoRow}
      BY <2>1, RecordedRowType DEF TypeOK
    <2> QED
      BY <1>6, <2>1, <2>2, BoundAssumption DEF Finish, TypeOK, bounds, LockFailure
  <1>7. ASSUME NEW id \in Ids, NEW trigger \in Triggers, NEW status \in Statuses,
               Create(id, trigger, status)
        PROVE  TypeOK'
    <2>1. CreatedRow(trigger, status, clock) \in Row
      BY <1>7, CreatedRowType DEF Create, TypeOK
    <2>2. [at |-> clock, fires |-> 0] \in Arming
      BY BoundAssumption DEF TypeOK, Arming
    <2> QED
      BY <1>7, <2>1, <2>2, BoundAssumption DEF Create, TypeOK, bounds
  <1>8. ASSUME NEW id \in Ids, NEW trigger \in Triggers, NEW status \in Statuses,
               Update(id, trigger, status)
        PROVE  TypeOK'
    <2>1. UpdatedRow(schedules[id], trigger, status, clock) \in Row
      BY <1>8, UpdatedRowType DEF Update, TypeOK, Present
    <2>2. [at |-> clock, fires |-> 0] \in Arming
      BY BoundAssumption DEF TypeOK, Arming
    <2> QED
      BY <1>8, <2>1, <2>2, BoundAssumption DEF Update, TypeOK, bounds
  <1>9. ASSUME NEW ids \in SUBSET Present, Delete(ids) PROVE TypeOK'
    BY <1>9 DEF Delete, TypeOK, bounds
  <1>10. CASE Stop
    BY <1>10, BoundAssumption DEF Stop, TypeOK
  <1>11. CASE Exit
    BY <1>11 DEF Exit, TypeOK, bounds
  <1>12. CASE Crash
    BY <1>12, BoundAssumption DEF Crash, TypeOK
  <1>13. CASE UNCHANGED vars
    BY <1>13 DEF vars, bounds, TypeOK
  <1> QED
    BY <1>1, <1>2, <1>3, <1>4, <1>5, <1>6, <1>7, <1>8, <1>9, <1>10, <1>11, <1>12, <1>13
       DEF Next

\* What an edit of the row of id leaves as it is.
SameTiming(id) ==
    /\ schedules'[id] # NoRow => schedules[id] # NoRow
    /\ schedules'[id] # NoRow =>
         /\ schedules'[id].trigger = schedules[id].trigger
         /\ schedules'[id].status = schedules[id].status
         /\ schedules'[id].next_fire_at = schedules[id].next_fire_at
         /\ schedules'[id].last_fired_at = schedules[id].last_fired_at
    /\ arming'[id] = arming[id]

\* The clock part of the invariant, for one id.
Ordered(id) ==
    /\ arming[id].at <= clock
    /\ schedules[id] # NoRow =>
         /\ schedules[id].last_fired_at # None => schedules[id].last_fired_at <= clock
         /\ arming[id].fires # 0 => schedules[id].last_fired_at # None
         /\ arming[id].fires = 0 /\ schedules[id].last_fired_at # None =>
                schedules[id].last_fired_at <= arming[id].at

LEMMA ClockOrderSplit == ClockOrder <=> firedAt <= clock /\ \A id \in Ids : Ordered(id)
  BY DEF ClockOrder, Ordered

\* A schedule whose timing is left alone keeps its part of the invariant.
LEMMA SameTimingKeeps ==
    ASSUME Inv, NEW id \in Ids, SameTiming(id), TypeOK', clock <= clock'
    PROVE  Ordered(id)' /\ Armed(id)'
  <1>1. Ordered(id) /\ Armed(id)
    BY ClockOrderSplit DEF Inv
  <1>2. Ordered(id)'
    <2>1. schedules[id] # NoRow => schedules[id].last_fired_at \in Nat \cup {None}
      BY DEF Inv, TypeOK, Row
    <2>2. arming[id].at \in Nat /\ clock \in Nat /\ clock' \in Nat
      BY BoundAssumption DEF Inv, TypeOK, Arming
    <2> QED
      BY <1>1, <2>1, <2>2 DEF Ordered, SameTiming
  <1>3. Armed(id)'
    BY <1>1 DEF Armed, SameTiming, Since
  <1> QED
    BY <1>2, <1>3

\* Every step keeps the order of instants and the next instants right.
LEMMA NextArmed ==
    ASSUME Inv, [Next]_vars, TypeOK'
    PROVE  ClockOrder' /\ \A id \in Ids : Armed(id)'
  <1> USE DEF Inv
  <1> DEFINE Goal == firedAt' <= clock' /\ \A id \in Ids : Ordered(id)' /\ Armed(id)'
  <1> SUFFICES Goal
    BY DEF ClockOrder, Ordered
  <1>0. firedAt \in Nat /\ clock \in Nat /\ firedAt <= clock
    BY BoundAssumption DEF TypeOK, ClockOrder
  <1>1. CASE PassTime
    <2>1. \A id \in Ids : SameTiming(id)
      BY <1>1 DEF PassTime, SameTiming
    <2> QED
      BY <1>0, <1>1, <2>1, SameTimingKeeps DEF PassTime
  <1>2. CASE Start
    <2>1. \A id \in Ids : SameTiming(id)
      BY <1>2, NoRowAssumption
         DEF Start, SameTiming, reconcileInterruptedExecutions, TypeOK, Row, Unresolved
    <2> QED
      BY <1>0, <1>2, <2>1, SameTimingKeeps DEF Start
  <1>3. CASE BeginTick
    <2>1. \A id \in Ids : SameTiming(id)
      BY <1>3 DEF BeginTick, SameTiming
    <2> QED
      BY <1>0, <1>3, <2>1, SameTimingKeeps DEF BeginTick
  <1>4. ASSUME NEW id \in Ids, Dispatch(id) PROVE Goal
    <2>1. clock' = clock /\ firedAt' = firedAt
      BY <1>4 DEF Dispatch
    <2>2. ASSUME NEW other \in Ids, other # id \/ ~IsDue(schedules[id], firedAt)
          PROVE  SameTiming(other)
      BY <1>4, <2>2 DEF Dispatch, SameTiming, TypeOK
    <2>3. CASE IsDue(schedules[id], firedAt)
      <3> DEFINE row == schedules[id]
      <3>1. row \in Row /\ row # NoRow /\ row.status = "active"
        BY <2>3 DEF IsDue, TypeOK
      <3>2. /\ schedules'[id] = AdvancedRow(row, firedAt)
            /\ arming'[id] = [arming[id] EXCEPT !.fires = @ + 1]
        BY <1>4, <2>3 DEF Dispatch, TypeOK
      <3>3. arming'[id].fires # 0 /\ arming'[id].at = arming[id].at
        BY <3>2 DEF TypeOK, Arming
      <3>4. schedules'[id].last_fired_at = firedAt /\ firedAt # None
        BY <1>0, <3>2, TriggerAssumption DEF AdvancedRow
      <3>5. Ordered(id)'
        BY <1>0, <2>1, <3>3, <3>4 DEF Ordered, ClockOrder
      <3>6. Armed(id)'
        <4>1. CASE row.trigger \in OnceTriggers
          BY <3>2, <4>1 DEF Armed, AdvancedRow, computeExecutionAdvance
        <4>2. CASE row.trigger \notin OnceTriggers
          <5>1. row.trigger \in CronTriggers /\ Occurrences[row.trigger] # {}
            BY <3>1, <4>2, ActiveSatisfiable DEF Row, Triggers
          <5>2. IsNextOccurrence(row.trigger, firedAt,
                                 computeNextCronOccurrence(row.trigger, firedAt))
            BY <5>1, NextOccurrence DEF TypeOK
          <5>3. /\ schedules'[id].trigger = row.trigger
                /\ schedules'[id].next_fire_at = computeNextCronOccurrence(row.trigger, firedAt)
            BY <3>2, <4>2 DEF AdvancedRow, computeExecutionAdvance
          <5>4. Since(id)' = firedAt
            BY <3>3, <3>4 DEF Since
          <5> QED
            BY <3>4, <4>2, <5>2, <5>3, <5>4 DEF Armed
        <4> QED
          BY <4>1, <4>2
      <3>7. ASSUME NEW other \in Ids PROVE Ordered(other)' /\ Armed(other)'
        <4>1. CASE other = id
          BY <3>5, <3>6, <4>1
        <4>2. CASE other # id
          BY <1>0, <2>1, <2>2, <4>2, SameTimingKeeps
        <4> QED
          BY <4>1, <4>2
      <3> QED
        BY <1>0, <2>1, <3>7
    <2>4. CASE ~IsDue(schedules[id], firedAt)
      BY <1>0, <2>1, <2>2, <2>4, SameTimingKeeps
    <2> QED
      BY <2>3, <2>4
  <1>5. CASE TickFails
    <2>1. \A id \in Ids : SameTiming(id)
      BY <1>5 DEF TickFails, SameTiming
    <2> QED
      BY <1>0, <1>5, <2>1, SameTimingKeeps DEF TickFails
  <1>6. ASSUME NEW run \in runs, NEW outcome \in FireStatuses, Finish(run, outcome)
        PROVE  Goal
    <2>1. \A id \in Ids : SameTiming(id)
      BY <1>6, NoRowAssumption DEF Finish, SameTiming, recordExecutionResult, TypeOK, Row
    <2> QED
      BY <1>0, <1>6, <2>1, SameTimingKeeps DEF Finish
  <1>7. ASSUME NEW id \in Ids, NEW trigger \in Triggers, NEW status \in Statuses,
               Create(id, trigger, status)
        PROVE  Goal
    <2>1. clock' = clock /\ firedAt' = firedAt
      BY <1>7 DEF Create
    <2>2. ASSUME NEW other \in Ids, other # id PROVE SameTiming(other)
      BY <1>7, <2>2 DEF Create, SameTiming, TypeOK
    <2>3. /\ schedules'[id] = CreatedRow(trigger, status, clock)
          /\ arming'[id] = [at |-> clock, fires |-> 0]
          /\ Computable(trigger, status)
      BY <1>7 DEF Create, TypeOK
    <2>4. Ordered(id)'
      BY <1>0, <2>1, <2>3 DEF Ordered, CreatedRow
    <2>5. Armed(id)'
      <3>1. SUFFICES ASSUME status = "active"
                     PROVE  Armed(id)'
        BY <2>3 DEF Armed, CreatedRow
      <3>2. CASE trigger \in OnceTriggers
        BY <2>3, <3>1, <3>2 DEF Armed, CreatedRow, computeTriggerState
      <3>3. CASE trigger \notin OnceTriggers
        <4>1. IsNextOccurrence(trigger, clock, computeNextCronOccurrence(trigger, clock))
          BY <2>3, <3>1, <3>3, NextOccurrence DEF Computable, Triggers, TypeOK
        <4>2. /\ schedules'[id].trigger = trigger
              /\ schedules'[id].next_fire_at = computeNextCronOccurrence(trigger, clock)
              /\ Since(id)' = clock
          BY <2>3, <3>1, <3>3 DEF CreatedRow, computeTriggerState, Since
        <4> QED
          BY <1>0, <3>3, <4>1, <4>2, TriggerAssumption DEF Armed
      <3> QED
        BY <3>2, <3>3
    <2>6. ASSUME NEW other \in Ids PROVE Ordered(other)' /\ Armed(other)'
      BY <1>0, <2>1, <2>2, <2>4, <2>5, SameTimingKeeps
    <2> QED
      BY <1>0, <2>1, <2>6
  <1>8. ASSUME NEW id \in Ids, NEW trigger \in Triggers, NEW status \in Statuses,
               Update(id, trigger, status)
        PROVE  Goal
    <2>1. clock' = clock /\ firedAt' = firedAt
      BY <1>8 DEF Update
    <2>2. ASSUME NEW other \in Ids, other # id PROVE SameTiming(other)
      BY <1>8, <2>2 DEF Update, SameTiming, TypeOK
    <2> DEFINE row == schedules[id]
               rearmed == status = "active" /\ ~shouldPreserveNextFireAt(row, trigger, status)
    <2>3. row \in Row /\ row # NoRow
      BY <1>8 DEF Update, TypeOK, Present
    <2>4. /\ schedules'[id] = UpdatedRow(row, trigger, status, clock)
          /\ arming'[id] = IF rearmed THEN [at |-> clock, fires |-> 0] ELSE arming[id]
          /\ ~shouldPreserveNextFireAt(row, trigger, status) => Computable(trigger, status)
      BY <1>8 DEF Update, TypeOK
    <2>5. /\ schedules'[id].trigger = trigger
          /\ schedules'[id].status = status
          /\ schedules'[id].last_fired_at = row.last_fired_at
      BY <2>3, <2>4 DEF UpdatedRow, Row
    <2>6. schedules'[id].next_fire_at =
            IF shouldPreserveNextFireAt(row, trigger, status) THEN row.next_fire_at
            ELSE computeTriggerState(trigger, clock, status, row.next_fire_at)
      BY <2>3, <2>4 DEF UpdatedRow, Row
    <2>7. Ordered(id)'
      <3>1. Ordered(id)
        BY ClockOrderSplit
      <3>2. row.last_fired_at \in Nat \cup {None} /\ arming[id].at \in Nat
        BY <2>3 DEF Row, TypeOK, Arming
      <3> QED
        BY <1>0, <2>1, <2>3, <2>4, <2>5, <3>1, <3>2 DEF Ordered
    <2>8. Armed(id)'
      <3>1. CASE rearmed /\ trigger \in OnceTriggers
        BY <2>4, <2>5, <2>6, <3>1 DEF Armed, computeTriggerState
      <3>2. CASE rearmed /\ trigger \notin OnceTriggers
        <4>1. IsNextOccurrence(trigger, clock, computeNextCronOccurrence(trigger, clock))
          BY <2>4, <3>2, NextOccurrence DEF Computable, Triggers, TypeOK
        <4>2. schedules'[id].next_fire_at = computeNextCronOccurrence(trigger, clock)
          BY <2>6, <3>2 DEF computeTriggerState
        <4>3. Since(id)' = clock
          BY <2>4, <3>2 DEF Since
        <4> QED
          BY <1>0, <2>5, <3>2, <4>1, <4>2, <4>3, TriggerAssumption DEF Armed
      <3>3. CASE status # "active"
        BY <2>5, <3>3 DEF Armed
      <3>4. CASE shouldPreserveNextFireAt(row, trigger, status)
        <4>1. SameTiming(id)
          BY <2>3, <2>4, <2>5, <2>6, <3>4 DEF SameTiming, shouldPreserveNextFireAt
        <4> QED
          BY <1>0, <2>1, <4>1, SameTimingKeeps
      <3> QED
        BY <3>1, <3>2, <3>3, <3>4
    <2>9. ASSUME NEW other \in Ids PROVE Ordered(other)' /\ Armed(other)'
      BY <1>0, <2>1, <2>2, <2>7, <2>8, SameTimingKeeps
    <2> QED
      BY <1>0, <2>1, <2>9
  <1>9. ASSUME NEW ids \in SUBSET Present, Delete(ids) PROVE Goal
    <2>1. \A id \in Ids : SameTiming(id)
      BY <1>9 DEF Delete, SameTiming
    <2> QED
      BY <1>0, <1>9, <2>1, SameTimingKeeps DEF Delete
  <1>10. CASE Stop \/ Exit \/ Crash \/ UNCHANGED vars
    <2>1. \A id \in Ids : SameTiming(id)
      BY <1>10 DEF Stop, Exit, Crash, vars, SameTiming
    <2>2. clock' = clock /\ firedAt' = firedAt
      BY <1>10 DEF Stop, Exit, Crash, vars
    <2> QED
      BY <1>0, <2>1, <2>2, SameTimingKeeps
  <1> QED
    BY <1>1, <1>2, <1>3, <1>4, <1>5, <1>6, <1>7, <1>8, <1>9, <1>10 DEF Next

\* Every step accounts for the outcome of every last execution.
LEMMA NextAccounted ==
    ASSUME Inv, [Next]_vars
    PROVE  OutcomeAccounted'
  <1> USE DEF Inv
  <1> DEFINE Accounted(id) ==
               schedules[id] # NoRow /\ Unresolved(schedules[id]) =>
                   phase = "down" \/ <<id, schedules[id].fire_count>> \in runs \cup lost
             Goal == \A id \in Ids : Accounted(id)'
  <1>a. \A id \in Ids : Accounted(id)
    BY DEF OutcomeAccounted, Present
  <1> SUFFICES Goal
    BY DEF OutcomeAccounted, Present
  <1>1. CASE PassTime \/ TickFails \/ Stop \/ UNCHANGED vars
    BY <1>1, <1>a DEF PassTime, TickFails, Stop, vars
  <1>2. CASE Start
    <2>1. CASE schedules' = reconcileInterruptedExecutions(schedules)
      BY <2>1, TriggerAssumption DEF reconcileInterruptedExecutions, Unresolved, TypeOK, Row
    <2>2. CASE schedules' = schedules /\ lost' = lost \cup Pending
      BY <2>2 DEF Pending
    <2> QED
      BY <1>2, <2>1, <2>2 DEF Start
  <1>3. CASE BeginTick
    BY <1>3, <1>a DEF BeginTick
  <1>4. ASSUME NEW id \in Ids, Dispatch(id) PROVE Goal
    <2>1. CASE IsDue(schedules[id], firedAt)
      <3>1. /\ schedules'[id].fire_count = schedules[id].fire_count + 1
            /\ \A other \in Ids : other # id => schedules'[other] = schedules[other]
            /\ runs' = runs \cup {<<id, schedules[id].fire_count + 1>>}
            /\ phase' = phase /\ lost' = lost
        BY <1>4, <2>1 DEF Dispatch, TypeOK, AdvancedRow
      <3> QED
        BY <1>a, <3>1
    <2>2. CASE ~IsDue(schedules[id], firedAt)
      BY <1>4, <1>a, <2>2 DEF Dispatch
    <2> QED
      BY <2>1, <2>2
  <1>5. ASSUME NEW run \in runs, NEW outcome \in FireStatuses, Finish(run, outcome)
        PROVE  Goal
    <2>1. run \in Ids \X Nat /\ outcome # None
      BY TriggerAssumption DEF TypeOK, FireStatuses
    <2>2. ASSUME NEW id \in Ids, id # run[1], schedules'[id] = schedules[id]
          PROVE  Accounted(id)'
      BY <1>5, <1>a, <2>1, <2>2 DEF Finish
    <2>3. CASE schedules' = [schedules EXCEPT ![run[1]] =
                                recordExecutionResult(schedules[run[1]], outcome)]
      <3>1. Accounted(run[1])'
        BY <2>1, <2>3 DEF recordExecutionResult, Unresolved, TypeOK, Row
      <3> QED
        BY <2>1, <2>2, <2>3, <3>1 DEF TypeOK
    <2>4. CASE schedules' = schedules /\ lost' = lost \cup {run}
      BY <1>5, <1>a, <2>4 DEF Finish
    <2> QED
      BY <1>5, <2>3, <2>4 DEF Finish
  <1>6. ASSUME NEW id \in Ids, NEW trigger \in Triggers, NEW status \in Statuses,
               Create(id, trigger, status)
        PROVE  Goal
    <2>1. ~Unresolved(schedules'[id])
      BY <1>6 DEF Create, TypeOK, CreatedRow, Unresolved
    <2> QED
      BY <1>6, <1>a, <2>1 DEF Create, TypeOK
  <1>7. ASSUME NEW id \in Ids, NEW trigger \in Triggers, NEW status \in Statuses,
               Update(id, trigger, status)
        PROVE  Goal
    <2>1. schedules[id] \in Row /\ schedules[id] # NoRow
      BY <1>7 DEF Update, TypeOK, Present
    <2>2. schedules'[id] = UpdatedRow(schedules[id], trigger, status, clock)
      BY <1>7 DEF Update, TypeOK
    <2>3. /\ schedules'[id].last_fired_at = schedules[id].last_fired_at
          /\ schedules'[id].last_fire_status = schedules[id].last_fire_status
          /\ schedules'[id].fire_count = schedules[id].fire_count
      BY <2>1, <2>2 DEF UpdatedRow, Row
    <2>4. Accounted(id)'
      BY <1>7, <1>a, <2>1, <2>3 DEF Update, Unresolved
    <2>5. \A other \in Ids : other # id => schedules'[other] = schedules[other]
      BY <1>7 DEF Update, TypeOK
    <2> QED
      BY <1>7, <1>a, <2>4, <2>5 DEF Update
  <1>8. ASSUME NEW ids \in SUBSET Present, Delete(ids) PROVE Goal
    BY <1>8, <1>a DEF Delete
  <1>9. CASE Exit \/ Crash
    BY <1>9 DEF Exit, Crash
  <1> QED
    BY <1>1, <1>2, <1>3, <1>4, <1>5, <1>6, <1>7, <1>8, <1>9 DEF Next

\* The inductive invariant holds in every reachable state.
THEOREM Invariance == Spec => []Inv
  <1>1. Init => Inv
    BY InitInv
  <1>2. Inv /\ [Next]_vars => Inv'
    <2> SUFFICES ASSUME Inv, [Next]_vars PROVE Inv'
      OBVIOUS
    <2>1. TypeOK'
      BY NextType
    <2>2. ClockOrder' /\ \A id \in Ids : Armed(id)'
      BY <2>1, NextArmed
    <2>3. OutcomeAccounted'
      BY NextAccounted
    <2> QED
      BY <2>1, <2>2, <2>3 DEF Inv
  <1> QED
    BY <1>1, <1>2, PTL DEF Spec

---------------------------------------------------------------------------
(***************************************************************************)
(* The theorems a reader should know of.                                   *)
(***************************************************************************)

\* Rows, ticks and executions keep their types: in particular no update or
\* advance ever writes a next_fire_at that is neither an instant nor NULL.
THEOREM TypeCorrect == Spec => []TypeOK
  <1>1. Inv => TypeOK
    BY DEF Inv
  <1> QED
    BY <1>1, Invariance, PTL

\* An active schedule always waits for the right instant of its own trigger,
\* whatever edits, ticks, lock errors and restarts came before.
THEOREM ActiveIsArmed == Spec => []ArmedForNextInstant
  <1>1. Inv => ArmedForNextInstant
    BY DEF Inv, Armed, ArmedForNextInstant, Present
  <1> QED
    BY <1>1, Invariance, PTL

\* A missing outcome is always explained: the execution is in flight, the
\* daemon is down, or the database refused the write.
THEOREM OutcomesAreAccounted == Spec => []OutcomeAccounted
  <1>1. Inv => OutcomeAccounted
    BY DEF Inv
  <1> QED
    BY <1>1, Invariance, PTL

\* Only a turn of the tick loop dispatches, and only a schedule that is due.
LEMMA DispatchedIsDue ==
    ASSUME Inv, Next, NEW id \in Ids, Dispatched(id)
    PROVE  Dispatch(id) /\ IsDue(schedules[id], firedAt)
  <1>1. PICK new \in runs' \ runs : new = <<id, schedules[id].fire_count + 1>>
    BY DEF Dispatched
  <1>2. PICK other \in Ids : Dispatch(other)
    BY <1>1 DEF Next, PassTime, Start, BeginTick, TickFails, Finish, Create, Update, Delete,
                Stop, Exit, Crash
  <1>3. IsDue(schedules[other], firedAt) /\ new = <<other, schedules[other].fire_count + 1>>
    BY <1>1, <1>2 DEF Dispatch
  <1> QED
    BY <1>1, <1>2, <1>3

\* Two dispatches of a recurring schedule are separated by an occurrence of its
\* trigger, so a catch-up is one dispatch, and a one-shot is dispatched once per
\* arming.
THEOREM DispatchesAreDistinct == Spec => NoDuplicateDispatch
  <1> DEFINE Justified(id) ==
        LET row == schedules[id] IN
        IF row.trigger \in OnceTriggers
        THEN At[row.trigger] <= clock /\ arming[id].fires = 0
        ELSE \E o \in Occurrences[row.trigger] :
                o <= clock /\ (row.last_fired_at # None => row.last_fired_at < o)
  <1>1. Inv /\ [Next]_vars => [\A id \in Ids : Dispatched(id) => Justified(id)]_vars
    <2> SUFFICES ASSUME Inv, Next, NEW id \in Ids, Dispatched(id)
                 PROVE  Justified(id)
      BY DEF vars
    <2> DEFINE row == schedules[id]
    <2>1. IsDue(row, firedAt)
      BY DispatchedIsDue
    <2>2. row \in Row /\ row # NoRow /\ row.status = "active"
      BY <2>1 DEF IsDue, Inv, TypeOK
    <2>3. row.next_fire_at <= clock
      <3>1. row.next_fire_at \in Nat /\ firedAt \in Nat /\ clock \in Nat
        BY <2>1, <2>2, BoundAssumption DEF IsDue, Row, Inv, TypeOK
      <3> QED
        BY <2>1, <3>1 DEF IsDue, Inv, ClockOrder
    <2>4. Armed(id)
      BY DEF Inv
    <2>5. CASE row.trigger \in OnceTriggers
      BY <2>2, <2>3, <2>4, <2>5 DEF Armed
    <2>6. CASE row.trigger \notin OnceTriggers
      <3>1. IsNextOccurrence(row.trigger, Since(id), row.next_fire_at)
        BY <2>2, <2>4, <2>6 DEF Armed
      <3>2. row.last_fired_at # None => row.last_fired_at <= Since(id)
        <4>1. Ordered(id)
          BY ClockOrderSplit DEF Inv
        <4>2. row.last_fired_at \in Nat \cup {None} /\ arming[id].at \in Nat
          BY <2>2 DEF Row, Inv, TypeOK, Arming
        <4> QED
          BY <2>2, <4>1, <4>2 DEF Ordered, Since
      <3>3. row.last_fired_at # None =>
              row.last_fired_at \in Nat /\ Since(id) \in Nat /\ row.next_fire_at \in Nat
        BY <2>1, <2>2 DEF Row, Inv, TypeOK, Arming, Since, IsDue
      <3>4. /\ row.next_fire_at \in Occurrences[row.trigger]
            /\ row.next_fire_at > Since(id)
        BY <3>1 DEF IsNextOccurrence
      <3>5. row.last_fired_at # None => row.last_fired_at < row.next_fire_at
        BY <3>2, <3>3, <3>4
      <3> QED
        BY <2>3, <2>6, <3>4, <3>5
    <2> QED
      BY <2>5, <2>6
  <1> QED
    BY <1>1, Invariance, PTL DEF Spec, NoDuplicateDispatch

---------------------------------------------------------------------------
(***************************************************************************)
(* The scheduler implements the alarms of ScheduleAlarm.                   *)
(***************************************************************************)

AlarmAt(id) == IF schedules[id] # NoRow /\ schedules[id].status = "active"
               THEN schedules[id].next_fire_at ELSE None

\* An alarm whose schedule keeps its timing is kept or, if the row is deleted,
\* cancelled.
LEMMA SameTimingStep ==
    ASSUME NEW id \in Ids, SameTiming(id), Inv
    PROVE  \/ AlarmAt(id)' = AlarmAt(id) /\ arming'[id] = arming[id]
           \/ AlarmAt(id)' = None /\ arming'[id] = arming[id]
  BY DEF SameTiming, AlarmAt

LEMMA AlarmStepOfNext ==
    ASSUME Inv, Inv', Next, NEW id \in Ids
    PROVE  \/ AlarmAt(id)' = AlarmAt(id) /\ arming'[id].fires = arming[id].fires
           \/ AlarmAt(id)' \in Nat /\ arming'[id].fires = 0
           \/ AlarmAt(id)' = None /\ arming'[id].fires = arming[id].fires
           \/ AlarmAt(id)' = None /\ arming'[id].fires = 0
           \/ /\ AlarmAt(id) # None /\ AlarmAt(id) <= clock
              /\ arming'[id].fires = arming[id].fires + 1
              /\ AlarmAt(id)' = None \/ (AlarmAt(id)' \in Nat /\ AlarmAt(id)' > AlarmAt(id))
  <1>1. CASE SameTiming(id)
    BY <1>1, SameTimingStep
  <1>2. CASE Dispatch(id) /\ IsDue(schedules[id], firedAt)
    <2> DEFINE row == schedules[id]
    <2>1. row \in Row /\ row # NoRow /\ row.status = "active"
      BY <1>2 DEF IsDue, Inv, TypeOK
    <2>2. /\ schedules'[id] = AdvancedRow(row, firedAt)
          /\ arming'[id].fires = arming[id].fires + 1
      BY <1>2 DEF Dispatch, Inv, TypeOK, Arming
    <2>3. /\ AlarmAt(id) = row.next_fire_at /\ row.next_fire_at \in Nat
          /\ row.next_fire_at <= firedAt /\ firedAt <= clock
          /\ firedAt \in Nat /\ clock \in Nat
      BY <1>2, <2>1, BoundAssumption DEF AlarmAt, IsDue, Row, Inv, TypeOK, ClockOrder
    <2>4. CASE row.trigger \in OnceTriggers
      <3>1. AlarmAt(id)' = None
        BY <2>2, <2>4 DEF AlarmAt, AdvancedRow, computeExecutionAdvance
      <3> QED
        BY <2>1, <2>2, <2>3, <3>1, TriggerAssumption
    <2>5. CASE row.trigger \notin OnceTriggers
      <3>1. row.trigger \in CronTriggers /\ Occurrences[row.trigger] # {}
        BY <2>1, <2>5, ActiveSatisfiable DEF Row, Triggers
      <3> DEFINE next == computeNextCronOccurrence(row.trigger, firedAt)
      <3>2. next \in Nat /\ next > firedAt
        BY <3>1, NextOccurrence DEF IsNextOccurrence, Inv, TypeOK
      <3>3. schedules'[id].status = "active" /\ schedules'[id].next_fire_at = next
        BY <2>2, <2>5 DEF AdvancedRow, computeExecutionAdvance
      <3>4. schedules'[id] # NoRow
        BY <2>1, <2>2, <3>1, AdvancedRowType, NoRowAssumption DEF Inv, TypeOK
      <3>5. AlarmAt(id)' = next
        BY <3>3, <3>4 DEF AlarmAt
      <3> HIDE DEF next
      <3> QED
        BY <2>2, <2>3, <3>2, <3>5, TriggerAssumption
    <2> QED
      BY <2>4, <2>5
  <1>3. ASSUME NEW trigger \in Triggers, NEW status \in Statuses, Create(id, trigger, status)
        PROVE  (AlarmAt(id)' = None \/ AlarmAt(id)' \in Nat) /\ arming'[id].fires = 0
    <2>1. arming'[id].fires = 0
      BY <1>3 DEF Create, Inv, TypeOK
    <2>2. schedules'[id] \in Row \cup {NoRow}
      BY DEF Inv, TypeOK
    <2> QED
      BY <2>1, <2>2 DEF AlarmAt, Row
  <1>4. ASSUME NEW trigger \in Triggers, NEW status \in Statuses, Update(id, trigger, status)
        PROVE  \/ SameTiming(id)
               \/ AlarmAt(id)' = None /\ arming'[id].fires = arming[id].fires
               \/ (AlarmAt(id)' = None \/ AlarmAt(id)' \in Nat) /\ arming'[id].fires = 0
    <2> DEFINE row == schedules[id]
    <2>1. row \in Row /\ row # NoRow
      BY <1>4 DEF Update, Inv, TypeOK, Present
    <2>2. schedules'[id] = UpdatedRow(row, trigger, status, clock)
      BY <1>4 DEF Update, Inv, TypeOK
    <2>3. /\ schedules'[id].trigger = trigger
          /\ schedules'[id].status = status
          /\ schedules'[id].last_fired_at = row.last_fired_at
      BY <2>1, <2>2 DEF UpdatedRow, Row
    <2>4. CASE shouldPreserveNextFireAt(row, trigger, status)
      <3>1. arming' = arming /\ schedules'[id].next_fire_at = row.next_fire_at
        BY <1>4, <2>1, <2>2, <2>4 DEF Update, UpdatedRow, Row
      <3> QED
        BY <2>1, <2>3, <2>4, <3>1 DEF SameTiming, shouldPreserveNextFireAt
    <2>5. CASE status # "active" /\ ~shouldPreserveNextFireAt(row, trigger, status)
      BY <1>4, <2>3, <2>5 DEF Update, AlarmAt
    <2>6. CASE status = "active" /\ ~shouldPreserveNextFireAt(row, trigger, status)
      <3>1. arming'[id].fires = 0
        BY <1>4, <2>6 DEF Update, Inv, TypeOK
      <3>2. schedules'[id] \in Row \cup {NoRow}
        BY DEF Inv, TypeOK
      <3> QED
        BY <3>1, <3>2 DEF AlarmAt, Row
    <2> QED
      BY <2>4, <2>5, <2>6
  <1>5. \/ SameTiming(id)
        \/ Dispatch(id) /\ IsDue(schedules[id], firedAt)
        \/ \E trigger \in Triggers, status \in Statuses :
              Create(id, trigger, status) \/ Update(id, trigger, status)
    <2> USE DEF Inv
    <2>1. CASE PassTime \/ BeginTick \/ TickFails \/ Stop \/ Exit \/ Crash
      BY <2>1 DEF PassTime, BeginTick, TickFails, Stop, Exit, Crash, SameTiming
    <2>2. CASE Start
      BY <2>2, NoRowAssumption
         DEF Start, SameTiming, reconcileInterruptedExecutions, TypeOK, Row, Unresolved
    <2>3. ASSUME NEW other \in Ids, Dispatch(other),
                 other # id \/ ~IsDue(schedules[other], firedAt)
          PROVE  SameTiming(id)
      BY <2>3 DEF Dispatch, SameTiming, TypeOK
    <2>4. ASSUME NEW run \in runs, NEW outcome \in FireStatuses, Finish(run, outcome)
          PROVE  SameTiming(id)
      BY <2>4, NoRowAssumption DEF Finish, SameTiming, recordExecutionResult, TypeOK, Row
    <2>5. ASSUME NEW other \in Ids, other # id, NEW trigger \in Triggers, NEW status \in Statuses,
                 Create(other, trigger, status) \/ Update(other, trigger, status)
          PROVE  SameTiming(id)
      BY <2>5 DEF Create, Update, SameTiming, TypeOK
    <2>6. ASSUME NEW ids \in SUBSET Present, Delete(ids) PROVE SameTiming(id)
      BY <2>6 DEF Delete, SameTiming
    <2> QED
      BY <2>1, <2>2, <2>3, <2>4, <2>5, <2>6 DEF Next
  <1> QED
    BY <1>1, <1>2, <1>3, <1>4, <1>5, SameTimingStep

\* The table, the tick loop, the lock errors and the restarts together
\* implement a set of alarms.
THEOREM SchedulerImplementsAlarm == Spec => ImplementsAlarm
  <1>1. Init => Alarm!Init
    BY DEF Init, Alarm!Init
  <1>2. Inv /\ Inv' /\ [Next]_vars => [Alarm!Next]_(Alarm!alarmVars)
    <2>1. CASE UNCHANGED vars
      BY <2>1 DEF vars, Alarm!alarmVars
    <2>2. ASSUME Inv, Inv', Next PROVE Alarm!Next
      <3>1. clock' \in {clock, clock + 1}
        BY <2>2 DEF Next, PassTime, Start, BeginTick, Dispatch, TickFails, Finish, Create,
                    Update, Delete, Stop, Exit, Crash
      <3>2. ASSUME NEW id \in Ids PROVE Alarm!AlarmStep(id)
        BY <2>2, <3>2, AlarmStepOfNext
           DEF AlarmAt, Alarm!AlarmStep, Alarm!Keep, Alarm!Set, Alarm!Cancel, Alarm!Renew,
               Alarm!Ring
      <3> QED
        BY <3>1, <3>2 DEF Alarm!Next
    <2> QED
      BY <2>1, <2>2
  <1> QED
    BY <1>1, <1>2, Invariance, PTL DEF Spec, ImplementsAlarm, Alarm!Spec
=============================================================================
