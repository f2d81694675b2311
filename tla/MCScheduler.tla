---------------------------- MODULE MCScheduler ----------------------------
(***************************************************************************)
(* Two schedules over a short day: an expression that occurs at every odd  *)
(* instant, one that never occurs, and a one-shot at instant 1.            *)
(***************************************************************************)
EXTENDS Scheduler, TLC

CONSTANTS s1, s2

MCOccurrences == [c \in CronTriggers |->
                    IF c = "odd" THEN {2 * n + 1 : n \in 0..MaxTime} ELSE {}]
MCAt == [o \in OnceTriggers |-> 1]
Symmetry == Permutations({s1, s2})
=============================================================================
