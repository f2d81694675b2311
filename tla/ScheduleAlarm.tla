--------------------------- MODULE ScheduleAlarm ---------------------------
(***************************************************************************)
(* What schedules promise the sessions that create them, with the table,   *)
(* the tick loop and the process left out: a set of alarms.  An alarm      *)
(* rings only when its time has come, and a ring either ends it or moves   *)
(* it to a later time.  Between two rings at the same time it was set      *)
(* again.                                                                  *)
(***************************************************************************)
EXTENDS Naturals

CONSTANTS Ids,    \* the alarms
          None    \* no time: the alarm is off

VARIABLES now,     \* the time
          at,      \* alarm -> when it rings next, or None
          rings    \* alarm -> how often it rang since it was set

alarmVars == <<now, at, rings>>

Init ==
    /\ now = 0
    /\ at = [id \in Ids |-> None]
    /\ rings = [id \in Ids |-> 0]

Keep(id) == at'[id] = at[id] /\ rings'[id] = rings[id]

\* An alarm may be set to a time in the past: it then rings at once.
Set(id) == at'[id] \in Nat /\ rings'[id] = 0

Cancel(id) == at'[id] = None /\ rings'[id] = rings[id]

\* The alarm is replaced by a new one that is not set.
Renew(id) == at'[id] = None /\ rings'[id] = 0

Ring(id) ==
    /\ at[id] # None
    /\ at[id] <= now
    /\ rings'[id] = rings[id] + 1
    /\ at'[id] = None \/ (at'[id] \in Nat /\ at'[id] > at[id])

AlarmStep(id) == Keep(id) \/ Set(id) \/ Cancel(id) \/ Renew(id) \/ Ring(id)

Next ==
    /\ now' \in {now, now + 1}
    /\ DOMAIN at' = Ids /\ DOMAIN rings' = Ids
    /\ \A id \in Ids : AlarmStep(id)

Spec == Init /\ [][Next]_alarmVars
=============================================================================
