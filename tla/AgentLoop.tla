----------------------------- MODULE AgentLoop -----------------------------
(***************************************************************************)
(* How the runtime runs its sessions: the queue of the user's messages and *)
(* the one drain loop that takes them, the sessions of triggered           *)
(* schedules beside it, the session manager, and the wait for all of them  *)
(* at shutdown.  src/runtime/agent.ts, src/session/manager.ts.             *)
(*                                                                         *)
(* What a session does between its start and its end is Conversation; here *)
(* it stays active for a while and then waits for the user or ends.        *)
(***************************************************************************)
EXTENDS Integers, Sequences

CONSTANTS Sessions,            \* session ids; a fresh one is the next number
          InactivityTimeout,
          MaxMessages,         \* bound on the messages of the user
          MaxTime,             \* bound on the clock
          None, Ended

ASSUME LoopAssumption ==
    /\ InactivityTimeout \in Nat
    /\ MaxMessages \in Nat
    /\ MaxTime \in Nat
    /\ Sessions \subseteq Nat

VARIABLES
    clock,
    inboundQueue,     \* messages: their number and the time they arrived
    drain,            \* "none", "taking", "creating", "processing", "ended"
    current,          \* the message the drain loop works on, or None
    session,          \* id -> session object, None before it is there,
                      \* Ended once it completed or failed
    registered,       \* the ids in the session manager's map
    interactive,      \* interactiveSessionId
    tasks,            \* activeBackgroundTasks, by session
    shuttingDown,
    waited,           \* what waitForIdle returned to shutdown()
    \* history
    received,         \* how many messages arrived
    handled,          \* messages taken to their end, in that order
    dropped           \* messages for which no session could be created

loopVars == <<inboundQueue, drain, current, received, handled, dropped>>
managerVars == <<session, registered, interactive>>
vars == <<clock, loopVars, managerVars, tasks, shuttingDown, waited>>

SessionObject == [triggerSource : {"user", "schedule"},
                  status : {"busy", "waiting_for_user"},
                  lastActivityAt : 0..MaxTime]
InboundMessage == [number : 1..MaxMessages, timestamp : 0..MaxTime]

\* Neither of the two is a session, a message or a session id.
ASSUME NoneAssumption ==
    /\ None \notin Sessions \cup SessionObject \cup InboundMessage
    /\ Ended \notin SessionObject \cup {None}

isTerminal(s) == session[s] = Ended

TypeOK ==
    /\ clock \in 0..MaxTime
    /\ inboundQueue \in Seq(InboundMessage)
    /\ drain \in {"none", "taking", "creating", "processing", "ended"}
    /\ current \in InboundMessage \cup {None}
    /\ session \in [Sessions -> SessionObject \cup {None, Ended}]
    /\ registered \in SUBSET Sessions
    /\ interactive \in Sessions \cup {None}
    /\ tasks \in SUBSET Sessions
    /\ shuttingDown \in BOOLEAN
    /\ waited \in {"no", "idle", "timeout"}
    /\ received \in 0..MaxMessages
    /\ handled \in Seq(1..MaxMessages)
    /\ dropped \in SUBSET (1..MaxMessages)

Init ==
    /\ clock = 0
    /\ inboundQueue = <<>>
    /\ drain = "none"
    /\ current = None
    /\ session = [s \in Sessions |-> None]
    /\ registered = {}
    /\ interactive = None
    /\ tasks = {}
    /\ shuttingDown = FALSE
    /\ waited = "no"
    /\ received = 0
    /\ handled = <<>>
    /\ dropped = {}

PassTime ==
    /\ clock < MaxTime
    /\ clock' = clock + 1
    /\ UNCHANGED <<loopVars, managerVars, tasks, shuttingDown, waited>>

---------------------------------------------------------------------------
(***************************************************************************)
(* The session manager.                                                    *)
(***************************************************************************)

NewSession(triggerSource, at) ==
    [triggerSource |-> triggerSource, status |-> "busy", lastActivityAt |-> at]

IsFresh(s) ==
    LET unused == {t \in Sessions : session[t] = None /\ t \notin tasks} IN
    s \in unused /\ \A t \in unused : s <= t

\* completeSession, failSession and the expiry: the session gets its last
\* status and leaves the map.
EndSession(s) ==
    /\ session' = [session EXCEPT ![s] = Ended]
    /\ registered' = registered \ {s}
    /\ interactive' = IF interactive = s THEN None ELSE interactive

KeepBusy(s) ==
    /\ session' = [session EXCEPT ![s].status = "busy", ![s].lastActivityAt = clock]
    /\ UNCHANGED <<registered, interactive>>

\* The interactive session is silent for too long by the time of the message.
isExpired(message) ==
    message.timestamp - session[interactive].lastActivityAt > InactivityTimeout

---------------------------------------------------------------------------
(***************************************************************************)
(* The drain loop.                                                         *)
(***************************************************************************)

\* onMessage, for a message that answers no prompt; ensureDrainLoop starts
\* the loop if there is none.
Receive ==
    /\ ~shuttingDown
    /\ received < MaxMessages
    /\ received' = received + 1
    /\ inboundQueue' = Append(inboundQueue, [number |-> received + 1, timestamp |-> clock])
    /\ drain' = IF drain = "none" THEN "taking" ELSE drain
    /\ UNCHANGED <<clock, current, managerVars, tasks, shuttingDown, waited, handled, dropped>>

\* The loop shifts a message and calls getOrCreateInteractiveSession, which
\* first ends a session that expired.
TakeMessage ==
    /\ drain = "taking"
    /\ inboundQueue # <<>> /\ ~shuttingDown
    /\ inboundQueue' = Tail(inboundQueue)
    /\ current' = Head(inboundQueue)
    /\ IF interactive = None
       THEN drain' = "creating" /\ UNCHANGED managerVars
       ELSE IF isExpired(current')
       THEN drain' = "creating" /\ EndSession(interactive)
       ELSE drain' = "processing" /\ KeepBusy(interactive)
    /\ UNCHANGED <<clock, tasks, shuttingDown, waited, received, handled, dropped>>

\* Nothing is left, or the runtime shuts down: the loop returns.
LoopEnds ==
    /\ drain = "taking"
    /\ inboundQueue = <<>> \/ shuttingDown
    /\ drain' = "ended"
    /\ UNCHANGED <<clock, inboundQueue, current, managerVars, tasks, shuttingDown, waited,
                   received, handled, dropped>>

\* The finally callback of ensureDrainLoop.
DrainSettles ==
    /\ drain = "ended"
    /\ drain' = IF inboundQueue # <<>> /\ ~shuttingDown THEN "taking" ELSE "none"
    /\ UNCHANGED <<clock, inboundQueue, current, managerVars, tasks, shuttingDown, waited,
                   received, handled, dropped>>

\* The system prompt is built and the session registered, dated by the message.
CreateInteractive(s) ==
    /\ drain = "creating"
    /\ IsFresh(s)
    /\ session' = [session EXCEPT ![s] = NewSession("user", current.timestamp)]
    /\ registered' = registered \cup {s}
    /\ interactive' = s
    /\ drain' = "processing"
    /\ UNCHANGED <<clock, inboundQueue, current, tasks, shuttingDown, waited,
                   received, handled, dropped>>

\* Faulty variant: the message is queued again, behind those that came since.
RequeueFailed ==
    /\ drain = "creating"
    /\ inboundQueue' = Append(inboundQueue, current)
    /\ drain' = "taking"
    /\ current' = None
    /\ UNCHANGED <<clock, managerVars, tasks, shuttingDown, waited,
                   received, handled, dropped>>

\* Faulty variant: the message is put back in front and tried again.
RetryFailed ==
    /\ drain = "creating"
    /\ inboundQueue' = <<current>> \o inboundQueue
    /\ drain' = "taking"
    /\ current' = None
    /\ UNCHANGED <<clock, managerVars, tasks, shuttingDown, waited,
                   received, handled, dropped>>

\* Building the system prompt fails: the message is logged and dropped.
CreateFails ==
    /\ drain = "creating"
    /\ dropped' = dropped \cup {current.number}
    /\ drain' = "taking"
    /\ current' = None
    /\ UNCHANGED <<clock, inboundQueue, managerVars, tasks, shuttingDown, waited,
                   received, handled>>

\* Faulty variant: the interactive session ends and stays in the manager.
FinishUnpruned(outcome) ==
    /\ drain = "processing"
    /\ handled' = Append(handled, current.number)
    /\ drain' = "taking"
    /\ current' = None
    /\ session' = [session EXCEPT ![interactive] = Ended]
    /\ UNCHANGED <<clock, inboundQueue, registered, interactive, tasks, shuttingDown,
                   waited, received, dropped>>

\* processSession returned: the session waits for the next message, or ended
\* at the context limit; or it failed.
FinishMessage(outcome) ==
    /\ drain = "processing"
    /\ handled' = Append(handled, current.number)
    /\ drain' = "taking"
    /\ current' = None
    /\ IF outcome = "waiting_for_user"
       THEN /\ session' = [session EXCEPT ![interactive].status = outcome,
                                          ![interactive].lastActivityAt = clock]
            /\ UNCHANGED <<registered, interactive>>
       ELSE EndSession(interactive)
    /\ UNCHANGED <<clock, inboundQueue, tasks, shuttingDown, waited, received, dropped>>

---------------------------------------------------------------------------
(***************************************************************************)
(* Triggered sessions.                                                     *)
(***************************************************************************)

\* launchTriggeredSchedule
Launch(s) ==
    /\ ~shuttingDown
    /\ IsFresh(s)
    /\ tasks' = tasks \cup {s}
    /\ UNCHANGED <<clock, loopVars, managerVars, shuttingDown, waited>>

\* createTriggeredSession, once the system prompt is built.
CreateTriggered(s) ==
    /\ s \in tasks
    /\ session[s] = None
    /\ session' = [session EXCEPT ![s] = NewSession("schedule", clock)]
    /\ registered' = registered \cup {s}
    /\ UNCHANGED <<clock, loopVars, interactive, tasks, shuttingDown, waited>>

\* Building the system prompt fails: startTriggeredScheduleTask logs it.
LaunchFails(s) ==
    /\ s \in tasks
    /\ session[s] = None
    /\ tasks' = tasks \ {s}
    /\ UNCHANGED <<clock, loopVars, managerVars, shuttingDown, waited>>

\* runTriggeredSession and the finally callback of its task.
FinishTriggered(s) ==
    /\ s \in tasks
    /\ session[s] # None
    /\ EndSession(s)
    /\ tasks' = tasks \ {s}
    /\ UNCHANGED <<clock, loopVars, shuttingDown, waited>>

---------------------------------------------------------------------------
(***************************************************************************)
(* Shutdown.                                                               *)
(***************************************************************************)

Shutdown ==
    /\ ~shuttingDown
    /\ shuttingDown' = TRUE
    /\ UNCHANGED <<clock, loopVars, managerVars, tasks, waited>>

\* Faulty variant: only the drain loop is waited for.
WaitForLoopOnly ==
    /\ shuttingDown
    /\ waited = "no"
    /\ drain = "none"
    /\ waited' = "idle"
    /\ UNCHANGED <<clock, loopVars, managerVars, tasks, shuttingDown>>

\* waitForIdle finds nothing running.
WaitEnds ==
    /\ shuttingDown
    /\ waited = "no"
    /\ drain = "none" /\ tasks = {}
    /\ waited' = "idle"
    /\ UNCHANGED <<clock, loopVars, managerVars, tasks, shuttingDown>>

\* It gives up after 30 seconds, with sessions still running.
WaitTimesOut ==
    /\ shuttingDown
    /\ waited = "no"
    /\ waited' = "timeout"
    /\ UNCHANGED <<clock, loopVars, managerVars, tasks, shuttingDown>>

LoopStep == TakeMessage \/ LoopEnds \/ DrainSettles

Outcomes == {"waiting_for_user", "ended"}

Next ==
    \/ PassTime
    \/ Receive
    \/ LoopStep
    \/ \E s \in Sessions : CreateInteractive(s)
    \/ CreateFails
    \/ \E outcome \in Outcomes : FinishMessage(outcome)
    \/ \E s \in Sessions :
          Launch(s) \/ CreateTriggered(s) \/ LaunchFails(s) \/ FinishTriggered(s)
    \/ Shutdown
    \/ WaitEnds
    \/ WaitTimesOut

Spec == Init /\ [][Next]_vars

\* Promises are resumed, system prompts get built or fail, and the processing
\* of a message ends (TurnEnds of Conversation).
Fairness ==
    /\ WF_vars(LoopStep)
    /\ WF_vars(CreateFails \/ \E s \in Sessions : CreateInteractive(s))
    /\ WF_vars(\E outcome \in Outcomes : FinishMessage(outcome))
    /\ \A s \in Sessions :
          WF_vars(CreateTriggered(s) \/ LaunchFails(s) \/ FinishTriggered(s))

FairSpec == Spec /\ Fairness

---------------------------------------------------------------------------
(***************************************************************************)
(* Properties                                                              *)
(***************************************************************************)

\* A message waits in the queue only while a drain loop is there to take it,
\* or will start again; no message is lost between the return of one loop and
\* the start of the next.
SomeoneDrains == inboundQueue # <<>> => drain # "none" \/ shuttingDown

\* The session manager holds exactly the sessions in use: those of the running
\* triggered tasks and the one interactive session, which no second one joins.
\* A session that ended is reachable by no message, and none is leaked.
OneInteractiveSession ==
    /\ registered = {s \in Sessions : session[s] # None /\ ~isTerminal(s)}
    /\ {s \in registered : session[s].triggerSource = "user"} = {interactive} \ {None}
    /\ {s \in registered : session[s].triggerSource = "schedule"} \subseteq tasks
    /\ drain = "processing" => interactive \in registered

\* The user's messages are taken to their end one by one, in the order in
\* which they arrived; only those are skipped for which no session could be
\* created.
MessagesInOrder ==
    /\ \A i, j \in 1..Len(handled) : i < j => handled[i] < handled[j]
    /\ \A n \in 1..received :
          \/ \E i \in 1..Len(handled) : handled[i] = n
          \/ n \in dropped
          \/ current # None /\ current.number = n
          \/ \E i \in 1..Len(inboundQueue) : inboundQueue[i].number = n

\* Once shutdown() was told that the runtime is idle no session runs, and none
\* starts any more: the database is closed next.
IdleIsIdle == waited = "idle" => drain = "none" /\ tasks = {}

\* Every message is processed, dropped with an error or cut off by a shutdown.
MessageIsHandled ==
    \A n \in 1..MaxMessages :
        received >= n ~> \/ shuttingDown
                         \/ n \in dropped
                         \/ \E i \in 1..Len(handled) : handled[i] = n
=============================================================================
