------------------------------ MODULE Questions ------------------------------
(***************************************************************************)
(* What the lane of prompts promises the sessions that ask and the user    *)
(* who is asked, with messages, buffers, timers and connections left out:  *)
(* a queue of questions.  Only the one in front can be settled, but for   *)
(* the shutdown that settles all; no question is put before its turn, and  *)
(* none times out that was never put.                                      *)
(***************************************************************************)
EXTENDS Naturals, Sequences

CONSTANTS Questions,
          Verdicts        \* what may become of a question in front

VARIABLES waiting,        \* the questions not settled, in the order of the asking
          verdict,        \* question -> what became of it
          put,            \* the questions that were put to the user
          closed

questionVars == <<waiting, verdict, put, closed>>

InLine(q) == \E i \in 1..Len(waiting) : waiting[i] = q

Init ==
    /\ waiting = <<>>
    /\ verdict = [q \in Questions |-> "none"]
    /\ put = {}
    /\ closed = FALSE

\* Questions are put when it is their turn, or later, and put once.
Put ==
    /\ put \subseteq put' /\ put' \subseteq Questions
    /\ \A q \in put' \ put :
          verdict'[q] # "none" \/ (waiting' # <<>> /\ q = Head(waiting'))

Ask(q) ==
    /\ ~closed
    /\ verdict[q] = "none" /\ ~InLine(q)
    /\ waiting' = Append(waiting, q)
    /\ UNCHANGED <<verdict, closed>>
    /\ Put

\* Of the question in front; the next one takes its place.
Settle(how) ==
    /\ waiting # <<>>
    /\ how = "timeout" => Head(waiting) \in put
    /\ how = "undelivered" => Head(waiting) \notin put
    /\ waiting' = Tail(waiting)
    /\ verdict' = [verdict EXCEPT ![Head(waiting)] = how]
    /\ UNCHANGED closed
    /\ Put

Close ==
    /\ ~closed
    /\ closed' = TRUE
    /\ waiting' = <<>>
    /\ verdict' = [q \in Questions |-> IF InLine(q) THEN "shutdown" ELSE verdict[q]]
    /\ UNCHANGED put

Next ==
    \/ \E q \in Questions : Ask(q)
    \/ \E how \in Verdicts : Settle(how)
    \/ Close
    \/ Put /\ UNCHANGED <<waiting, verdict, closed>>

Spec == Init /\ [][Next]_questionVars
=============================================================================
