------------------------------ MODULE Prompts ------------------------------
(***************************************************************************)
(* The single conversation lane of src/runtime/agent.ts: sessions ask the  *)
(* user (a question, an approval, an authorization code), one prompt at a  *)
(* time is pending, the others queue, and each request is settled by a     *)
(* reply, a timeout, a lost message or the shutdown.                       *)
(*                                                                         *)
(* A session that waits for a prompt is never terminal, since only its own *)
(* processing ends it: the check that drops the prompts of ended sessions  *)
(* is always passed.                                                       *)
(***************************************************************************)
EXTENDS Outbox

CONSTANTS Prompts    \* requests; the message of a request is an event

ASSUME PromptAssumption == Prompts \subseteq Events /\ None \notin Events

VARIABLES
    queued,         \* queuedUserResponseRequests
    pending,        \* pendingUserResponseRequest, or None
    delivering,     \* requests whose delivery is being awaited
    timers,         \* requests whose timeout is running
    shuttingDown,
    outcome,        \* request -> how its promise was settled
    \* history
    asked,          \* the requests made, in their order
    answeredBy      \* request -> the prompt id on the message that answered it

promptVars == <<queued, pending, delivering, timers, shuttingDown, outcome, asked, answeredBy>>
vars == <<outboxVars, promptVars>>

Outcomes == {"answered", "empty", "timeout", "undelivered", "shutdown"}

PromptsTypeOK ==
    /\ OutboxTypeOK
    /\ queued \in Seq(Prompts)
    /\ pending \in Prompts \cup {None}
    /\ delivering \in SUBSET Prompts
    /\ timers \in SUBSET Prompts
    /\ shuttingDown \in BOOLEAN
    /\ outcome \in [Prompts -> Outcomes \cup {"none"}]
    /\ asked \in Seq(Prompts)
    /\ answeredBy \in [Prompts -> Prompts \cup {None}]

Init ==
    /\ OutboxInit
    /\ queued = <<>>
    /\ pending = None
    /\ delivering = {}
    /\ timers = {}
    /\ shuttingDown = FALSE
    /\ outcome = [p \in Prompts |-> "none"]
    /\ asked = <<>>
    /\ answeredBy = [p \in Prompts |-> None]

---------------------------------------------------------------------------
(***************************************************************************)
(* The lane.                                                               *)
(***************************************************************************)

\* No request is pending: the first of those queued becomes pending and its
\* message is sent, or queued in the outbox; nobody waits for that here.
activateNextUserResponseRequest(requests, awaited) ==
    IF requests = <<>> \/ shuttingDown
    THEN /\ pending' = None
         /\ queued' = requests
         /\ delivering' = awaited
         /\ UNCHANGED outboxVars
    ELSE /\ pending' = Head(requests)
         /\ queued' = Tail(requests)
         /\ delivering' = awaited \cup {Head(requests)}
         /\ enqueueOrSend(Head(requests))

\* Faulty variant: the message is sent with the request, whether or not another
\* one is pending.
AskSendsAtOnce(p) ==
    /\ ~shuttingDown
    /\ p \notin Firsts(asked, Len(asked))
    /\ asked' = Append(asked, p)
    /\ enqueueOrSend(p)
    /\ IF pending = None
       THEN pending' = p /\ delivering' = delivering \cup {p} /\ UNCHANGED queued
       ELSE queued' = Append(queued, p) /\ UNCHANGED <<pending, delivering>>
    /\ UNCHANGED <<timers, shuttingDown, outcome, answeredBy>>

\* awaitUserResponse
Ask(p) ==
    /\ ~shuttingDown
    /\ p \notin Firsts(asked, Len(asked))
    /\ asked' = Append(asked, p)
    /\ IF pending = None
       THEN activateNextUserResponseRequest(Append(queued, p), delivering)
       ELSE queued' = Append(queued, p) /\ UNCHANGED <<pending, delivering, outboxVars>>
    /\ UNCHANGED <<timers, shuttingDown, outcome, answeredBy>>

\* The pending request p is settled, its timer cleared, and the lane moves on.
SettlePending(p, how, awaited) ==
    /\ outcome' = [outcome EXCEPT ![p] = how]
    /\ timers' = timers \ {p}
    /\ activateNextUserResponseRequest(queued, awaited)

\* Faulty variant: the outcome of the delivery is applied without looking
\* whether the request is still the pending one.
SettleStaleDelivery(p) ==
    /\ p \in delivering
    /\ delivery[p] \in Settled
    /\ IF delivery[p] = "sent"
       THEN /\ timers' = timers \cup {p}
            /\ delivering' = delivering \ {p}
            /\ UNCHANGED <<outcome, pending, queued, outboxVars>>
       ELSE SettlePending(p, "undelivered", delivering \ {p})
    /\ UNCHANGED <<shuttingDown, asked, answeredBy>>

\* deliverPendingUserResponseRequest goes on after one of its awaits: the
\* message was sent, or will not be.
DeliverySettles(p) ==
    /\ p \in delivering
    /\ delivery[p] \in Settled
    /\ IF pending = p /\ delivery[p] # "sent"
       THEN SettlePending(p, "undelivered", delivering \ {p})
       ELSE /\ timers' = IF pending = p THEN timers \cup {p} ELSE timers
            /\ delivering' = delivering \ {p}
            /\ UNCHANGED <<outcome, pending, queued, outboxVars>>
    /\ UNCHANGED <<shuttingDown, asked, answeredBy>>

\* Faulty variant: the request is rejected and the lane stays empty.
TimerStallsLane(p) ==
    /\ p \in timers
    /\ pending = p
    /\ outcome' = [outcome EXCEPT ![p] = "timeout"]
    /\ timers' = timers \ {p}
    /\ pending' = None
    /\ UNCHANGED <<queued, delivering, shuttingDown, asked, answeredBy, outboxVars>>

\* The timer of startOrResumeUserResponseTimer.
TimerFires(p) ==
    /\ p \in timers
    /\ pending = p
    /\ SettlePending(p, "timeout", delivering)
    /\ UNCHANGED <<shuttingDown, asked, answeredBy>>

\* Faulty variant: any message answers the pending request.
ConsumesAnyMessage(id) == pending # None

\* shouldConsumePendingUserResponseRequest: a message that carries the id of
\* another prompt is not an answer; it goes to the interactive session.
shouldConsumePendingUserResponseRequest(id) == pending # None /\ id \in {None, pending}

\* A client, connected now or just replaced, sends a message: with the id of a
\* prompt it was shown, or with none.
Reply(id, isEmpty) ==
    /\ ~shuttingDown
    /\ open # {}
    /\ id # None => delivery[id] = "sent"
    /\ shouldConsumePendingUserResponseRequest(id)
    /\ answeredBy' = [answeredBy EXCEPT ![pending] = id]
    /\ SettlePending(pending, IF isEmpty THEN "empty" ELSE "answered", delivering)
    /\ UNCHANGED <<shuttingDown, asked>>

\* Faulty variant: shutdown() rejects the pending request only.
ShutdownLeavesQueued ==
    /\ ~shuttingDown
    /\ shuttingDown' = TRUE
    /\ outcome' = [p \in Prompts |-> IF p = pending THEN "shutdown" ELSE outcome[p]]
    /\ pending' = None
    /\ timers' = {}
    /\ UNCHANGED <<queued, delivering, asked, answeredBy, outboxVars>>

\* shutdown(): rejectAllUserResponseRequests.
Shutdown ==
    /\ ~shuttingDown
    /\ shuttingDown' = TRUE
    /\ outcome' = [p \in Prompts |-> IF p = pending \/ p \in Firsts(queued, Len(queued))
                                     THEN "shutdown" ELSE outcome[p]]
    /\ pending' = None
    /\ queued' = <<>>
    /\ timers' = {}
    /\ UNCHANGED <<delivering, asked, answeredBy, outboxVars>>

---------------------------------------------------------------------------
(***************************************************************************)
(* The lane on top of the outbox.                                          *)
(***************************************************************************)

\* Notifications and stream chunks of any session.
Notify(e) == enqueueOrSend(e) /\ UNCHANGED promptVars

\* index.ts stops the adapter once the runtime was shut down.
StopAdapter == shuttingDown /\ Stop /\ UNCHANGED promptVars

Next ==
    \/ \E p \in Prompts : Ask(p) \/ DeliverySettles(p) \/ TimerFires(p)
    \/ \E id \in Prompts \cup {None}, isEmpty \in BOOLEAN : Reply(id, isEmpty)
    \/ Shutdown
    \/ \E e \in Events \ Prompts : Notify(e)
    \/ ConnectionStep /\ UNCHANGED promptVars
    \/ StopAdapter

Spec == Init /\ [][Next]_vars

\* Timers expire and awaited promises are resumed.
DaemonFairness ==
    \A p \in Prompts : WF_vars(DeliverySettles(p)) /\ WF_vars(TimerFires(p))

\* The user's client comes back again and again, and sometimes stays long
\* enough to take what is queued; a replaced connection is closed.
ClientReturns == \E c \in Connections : OpenAndFlush(c, Len(outboundQueue)) /\ UNCHANGED promptVars
ReplacedIsClosed == \E c \in Connections \ {newest} : Close(c) /\ UNCHANGED promptVars

FairSpec == Spec /\ DaemonFairness /\ SF_vars(ClientReturns) /\ WF_vars(ReplacedIsClosed)

---------------------------------------------------------------------------
(***************************************************************************)
(* Properties                                                              *)
(***************************************************************************)

Unsettled == {p \in Firsts(asked, Len(asked)) : outcome[p] = "none"}

\* Every request that is not settled is the pending one or still queued, in
\* the order of the asking; none waits while the lane is free, and none
\* survives a shutdown.  A request activated over another one, or forgotten,
\* would block its session for ever.
NoPromptLost ==
    /\ Unsettled = Firsts(queued, Len(queued)) \cup ({pending} \ {None})
    /\ queued = Rest(asked, Len(asked) - Len(queued))
    /\ queued # <<>> => pending # None
    /\ shuttingDown => Unsettled = {}

\* The timeout runs for the pending request alone, from the delivery of its
\* message; and once that message is sent, and the await on it resumed, it
\* does run.
TimerFollowsDelivery ==
    /\ timers \subseteq {pending}
    /\ \A p \in timers : delivery[p] = "sent"
    /\ pending # None /\ pending \notin delivering => pending \in timers

\* A reply that names a prompt settles that prompt and no other, also when it
\* comes late: after that prompt timed out and the next one took its place.
ReplyReachesItsPrompt ==
    \A p \in Prompts :
        answeredBy[p] # None =>
            answeredBy[p] = p /\ delivery[p] = "sent" /\ outcome[p] \in {"answered", "empty"}

\* A request that was settled stays as it was settled: the answer and the
\* timeout, the lost message and the shutdown never both count.
OutcomeIsFinal ==
    [][\A p \in Prompts : outcome[p] # "none" => outcome'[p] = outcome[p]]_vars

\* The questions as the sessions and the user see them.
Waiting == IF pending = None THEN <<>> ELSE <<pending>> \o queued
Sent == {p \in Prompts : delivery[p] = "sent"}

Lane == INSTANCE Questions WITH
    Questions <- Prompts,
    Verdicts  <- Outcomes \ {"shutdown"},
    waiting   <- Waiting,
    verdict   <- outcome,
    put       <- Sent,
    closed    <- shuttingDown

\* The lane, the timers and the adapter together implement the queue of
\* questions: whatever is delayed, dropped or answered late, the sessions are
\* served in the order in which they asked, and no question reaches the user
\* before its turn.
ImplementsQuestions == Lane!Spec

\* Every session that asks gets an answer or an error, and so does every one
\* queued behind it.  docs/architecture.md:855, of a session that asks while
\* the user is away: "The session cannot block forever."
PromptSettles == \A p \in Prompts : p \in Unsettled ~> p \notin Unsettled
=============================================================================
