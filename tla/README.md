# jaag in TLA+

jaag is a local agent daemon: a language model in a loop, a handful of
primitives it may call (HTTP, files, commands, memory, schedules, talking to the
user), a policy gate in front of them, and a scheduler that wakes the agent up.
It is one Bun process with one event loop, an SQLite database and a WebSocket on
which a single client sits, usually the terminal program of `src/packages/cli`.

The modules here are translated from `src/src/` (paths below are relative to it)
and, for the client, `src/packages/cli/src/`. Each definition stands for the lines `PROJECT.json` gives under `map`.

## The system

| Component | State | Operations | Interacts with |
|---|---|---|---|
| schedule store `scheduler/store.ts` | table `schedules` | create, update, delete, listDue, advanceForExecution, recordExecutionResult, reconcileInterruptedExecutions | called by the service and the primitive |
| scheduler service `scheduler/service.ts` | interval, activeTick, executions in flight | start, tick, stop, trackExecution | launches triggered sessions, records their result in a later turn of the event loop |
| agent runtime, lane `runtime/agent.ts` 577-760 | pending prompt, queued prompts, timers | ask, deliver, time out, reply, reject on shutdown | awaits `whenDelivered` of the adapter; called by the gate and by `interact` |
| WebSocket adapter `communication/websocket.ts` | current connection, bounded queue | send, flush on open, close, stop | resolves the deliveries, calls `onMessage` |
| agent runtime, loop `runtime/agent.ts` 98-201, 759-831 | inbound queue, drain promise, background tasks | onMessage, drain, launch, shutdown, waitForIdle | session manager |
| session manager `session/manager.ts` | sessions, interactive session | get or create, complete, fail, expire | builds the system prompt (awaited, may fail) |
| session and turns `session/session.ts`, `context/budget.ts`, `runtime/agent.ts` 203-464 | history, token estimate, iterations, status | append, compact, ask the model, dispatch calls | provider, dispatcher, adapter |
| policy gate `policy/engine.ts`, `rate-limiter.ts`, `receipts.ts` | table `rate_limits`, receipts of a session | enforce, check, record | awaits the user through the lane |
| PID file `runtime/pid.ts` | `agent.pid`, `agent.pid.lock` | acquire, release | other processes |
| tool calls `interpreter/pipeline.ts`, `http-executor.ts`, `auth.ts` | stored OAuth token, locals of each call | authenticate, refresh, send, retry | memory table, OAuth provider, the lane for an authorization code |
| CLI client `packages/cli/src/hooks/use-daemon.ts` | current socket, reconnect timer, connection state, pending prompt | connect, reconnect, the four socket events, send, clear, unmount | the adapter over a connection that may break |
| tool registry, spec tools `specs/registry.ts` | files by tier and tool, specs in memory, two indexes of operations | seed, load, register, promote, look up | gate and pipeline look a name up each for itself |
| execute primitive `primitives/execute/handler.ts` | process group, timer, captured output | parse, spawn, capture, kill, await | processes that fork, hang, leave the group or hold the output |
| the rest of memory, files, loaders, validators | see "Not modelled" | | |

What is hard about it:

* *Interleavings.* One event loop, but every `await` is a place where another
  session, a timer, a client message, the scheduler or a signal comes in: the
  approval awaited between the check and the recording of a rate limit, the
  delivery awaited between a prompt's activation and its timer, the system
  prompt awaited while a message was already taken from the queue, a tool
  registered again between the check of a call and its execution. In the client
  the events of a socket arrive after it was replaced.
* *Crashes and restarts.* Only the database and the files survive: a schedule
  advanced but not run, a rate limit window, a lock file left behind, a
  registration that got as far as its file.
* *Failing calls.* A send throws, SQLite stays locked after the retries, the
  provider fails, a client replaces another, a connection breaks with messages
  under way, a command hangs.
* *Time.* Timeouts racing answers, occurrences missed while the daemon was down,
  sessions that expire.
* *Limits.* Buffer, iterations, context window, rate limits.

`PROJECT.json` lists each such place as a hazard with the properties that look
at it, or the reason why none does.

What makes each component right, in one line each: a schedule fires at the right
instants, once, also after a crash, and its row tells what became of it; every
prompt is settled once, by its own answer, and the next one follows; outgoing
events arrive in order and an overflow costs the oldest; every message is handled
in order by one loop in one session; a history stays consistent, counted and
within its limits, and every turn ends; a tool keeps the authorization it was given,
and its calls retry a bounded number of times; a call passes the gate only if the rules,
the limits and the user let it; one daemon runs at a time; a client shows what it is
sent, in order, and always finds its way back; the registry's files, specs and indexes
tell the same story; and a command is read as it was meant and ends within its limits.

## The modules

| Module | Models | Level |
|---|---|---|
| `ScheduleStore` | rows of the table and what each store method writes, as functions of the row | data |
| `Scheduler` (extends it) | tick loop, executions, primitive, start, signal, exit, crash | state machine |
| `ScheduleAlarm` | what schedules promise: alarms that are set, ring and are cancelled | abstract specification |
| `SchedulerProofs` | theorems about `Scheduler` | proofs |
| `Outbox` | connections and outgoing queue of the adapter | state machine (open: its events come from above) |
| `OutboxProofs` | what every step of `Outbox` keeps | lemmas |
| `Prompts` (extends `Outbox`) | the lane on top of the outbox | composition |
| `Questions` | what the lane promises those who ask: a queue of questions, each settled once and put in its turn | abstract specification |
| `PromptsProofs` (extends `OutboxProofs`) | theorems about `Prompts` and the outbox in it | proofs |
| `AgentLoop` | inbound queue, drain loop, session manager, triggered tasks, shutdown | state machine |
| `Conversation` | one session: turns, tool calls, compaction, limits | state machine |
| `PolicyGate` | rules, limits, receipts and approvals of concurrent sessions | state machine |
| `PidFile` | several launches racing on the file system | state machine |
| `DaemonProofs` | theorems about `AgentLoop`, `Conversation` and `PidFile` | proofs |
| `ToolCalls` | concurrent calls of a tool, its OAuth token, the retries | state machine |
| `Client` (extends `Outbox`) | CLI clients, their sockets and the connections to the adapter, each end with its own view | composition |
| `ClientProofs` (extends `OutboxProofs`) | theorems about `Client` and the outbox in it | proofs |
| `Registry` | files, specs in memory and indexes over registrations, promotions and restarts, and calls that look their operation up | state machine |
| `RegistryProofs` | theorems about `Registry` | proofs |
| `Execute` | the parser of commands; one call of execute with its processes, timer and output | algorithm and state machine |
| `CallProofs` | theorems about `ToolCalls`, `PolicyGate` and `Execute` | proofs |
| `Sums` | the sum of a sequence of sizes, for the buffer of `Outbox` and the history of `Conversation` | data |
| `SequenceLemmas` | induction up to a number, recursive functions, sums, sequences | lemmas |
| `MC*` | instances for TLC | |

Correspondence, where it is not one operation, one action:

* **Scheduler.** A tick contains no `await`, so `due # {}` stands for a tick in
  progress and excludes all other handlers; it is split into one `Dispatch` per
  schedule because a crash or a lock error can end it between two of them.
  `Start` covers reconciliation and `phase = "starting"` the turn up to the
  first tick. A lock error is one `withSqliteLockRetry` that used up its
  retries. `arming` (when was the schedule armed last, how often did it fire
  since) and `lost` (results the database refused) are history.
* **Outbox.** No handler awaits, so each is one action. `trimQueueToFit` is
  given by its result, the least number of events shifted off, instead of by its
  loop. `newest`, `stamp` and `submitted` are history.
* **Prompts.** `delivering` holds the requests whose
  `deliverPendingUserResponseRequest` is suspended; `DeliverySettles` is its
  resumption, which may come after the request was settled. The loop over ended
  sessions in `activateNextUserResponseRequest` never finds one: a session that
  awaits a prompt is ended only by its own processing.
* **AgentLoop.** `drain` is where the loop is suspended; `"ended"` is between the
  return of `drainQueue` and its `finally`. The loop's synchronous steps are kept
  apart (a message may be queued and taken in two steps), which only adds
  interleavings. In the code only microtasks run while `drain` is `"ended"`, so the
  adapter delivers no message there and the test for one in `DrainSettles` is a
  precaution. What happens inside `processSession` is `Conversation`; here it
  is `FinishMessage` with any outcome. A session that ended is forgotten but for
  that (`Ended`): no code of the loop or the manager looks at it again.
* **Conversation.** A message is its role, the calls it makes or answers, and its
  size. `quiet` stands for a successful `interact` in mode notify. Indices are
  those of the code, shifted by one where TLA+ sequences start at 1. `Returns` and
  `Throws` are the two ends of `processSession`, with what `runTriggeredSession`
  makes of them.
* **PolicyGate.** A call is one action up to its decision or to the await for the
  user, and `Answer` is the rest. The lane is reduced to a queue of requests, its
  detail being `Prompts`. Which operations a rule matches is a set. A session
  starts with its first call. `said` and `allowed` are history.
* **PidFile.** One action per file operation of `acquirePidFile` and
  `withAcquireLock`; creating a file with `wx` and writing the pid to it are two,
  and what is written goes to the file that was created even if it was removed
  meanwhile. A file carries its creator so that this can be told. `overlapped`
  is history.

* **ToolCalls.** Between two awaits of the network, the user or a timer only
  microtasks run, and the memory handler is synchronous, so what is done there is
  one action. A token is the number of the grant that issued it; `answer` is a
  response of the token endpoint that has not been stored yet. `End` also clears
  the locals of a call. What the provider issues, and whether a refresh replaces
  the refresh token, is chosen at the start. `refused` and `forfeited` are history.

* **Client.** One action per handler of either end. A connection is `link` (what the
  network and the adapter's end make of it), what is under way on it in each
  direction (`wire`, `texts`), and the client's socket (`readyState`, `owner`). A
  socket closed by its client keeps delivering until its close event, as sockets do;
  the guards `socketRef.current !== socket` of the hook are `Current`. A connection
  that breaks loses what is under way, and each end finds out for itself: `OnError` and
  `OnClose` of the client, `ServerSeesClose` or a send that throws of the adapter. An
  id of a connection is used again once both ends have forgotten it. The lane is
  reduced to the prompt it awaits; `Consumes` is its rule for replies
  (`runtime/agent.ts`). `shown` is history.
* **Registry.** Nothing in a registration waits, so `Register` is one action and its
  crash points are another, `CrashInRegister`; likewise `Start`, `StartFails` and
  `SeedIsCut`. A spec is what it is compared by: its tool and its operations with their
  two names. A file is named after its tool, as the registry names it; the user
  promotes a tool by moving its file (`docs/architecture.md`), which is `Promote`, and
  only when these are all the files of the tool. A call is its two lookups and the
  requests built from the second. The microtasks between the end of the policy check
  and `executeOperation` are no place for a registration of their own; the step is
  kept apart all the same, which only adds interleavings. `renewed` and `sent` are
  history.
* **Execute.** `parseCommand` applies `ParseChar` to one character of the text after the other (`Read`); the initial states
  are all short lists of words, each written in one of four ways, so that "read as
  meant" can be said without a second parser. What the processes do (fork, leave the
  group, close the output, exit or not) is free. Both streams are captured alike and
  the model follows one.

Each module keeps, next to the definitions they replace, the faulty variants of
its operations ("Faulty variant: ..."). No specification uses them: they are the
plausible bugs against which the properties are tested, one for each property
(`mutants` in `PROJECT.json`).

## The runs

| Run | Instance | Checks |
|---|---|---|
| `scheduler` | two schedules; an expression at every odd instant, one that never occurs, a one-shot; 4 instants, 2 edits, 1 stop or crash, 1 lock error | `ArmedForNextInstant`, `OutcomeAccounted`, refinement of `ScheduleAlarm` (`ImplementsAlarm`), `DueIsServed`, `OutcomeResolved` |
| `prompts` | two requests, a notification that fills the buffer, two connections, a buffer of 2 | `NoOvertaking`, `BufferAccounted`, `LosesOldestOnly`, `NoPromptLost`, `ReplyReachesItsPrompt`, refinement of `Questions` (`ImplementsQuestions`), `PromptSettles` |
| `conversation` | 5 iterations, kept window of 3, context of 16, results of size 1 or 5, summaries of 1 or 3, two calls a turn, two user messages | `ConversationTypeOK`, `EstimateIsExact`, `CallsAreAnswered`, `CeilingRespected`, `CurrentExchangeKept`, `TurnEnds` |
| `conversation_report` | the same with 4 iterations | `FailedRunIsReported` is violated |
| `agent_loop` | two messages, three sessions, expiry after 1, 3 instants | `OneInteractiveSession`, `MessagesInOrder`, `IdleIsIdle`, `MessageIsHandled` |
| `policy_gate` | two sessions, three calls, four operations under seven rules with three overlapping limits, 3 instants | `LimitUpToPendingApprovals`, `AllowedIsCounted`, `ApprovedByUser` |
| `pid_file` | three launches | `LaunchesInTurn`, `LaunchEnds` |
| `tool_calls` | two calls, two attempts, three tokens; static authentication and both OAuth flows, with or without refresh tokens, rotating or not | `RefreshTokenKept`, `RetryUsesNewToken`, `CallSettles` |
| `client` | two clients, two connections, a prompt and another event, a buffer of 1, one text under way; one break, stop, exit or reconnect by hand | `OneWayToTheDaemon`, `ShownInOrder`, `StaysConnected`, `PromptIsAnswered` |
| `registry` | the seeded tool and another, two specs each that compete for three provider names, one call, 4 registrations, 2 stops or crashes | `IndexesAgree`, `RestartSucceeds`, `RunsCheckedSpec` |
| `registry_restart` | the same | `RegisteredForFutureSessions` is violated |
| `execute` | all commands of one or two words of at most two characters in four ways to write them; a command and two descendants; 4 bytes of output, 2 of them kept | `ParsedAsMeant`, `LimitsHold`, `CommandReturns` |

The type invariants of the other modules are proved (see below) or are a part of
another invariant here (`LimitsHold`).

### What the violated ones show

* `conversation_report`: at the iteration limit the session is failed but
  `processSession` returns normally, so the scheduler records a success.
* `registry_restart`: a tool of a reviewed tier that is registered again has two files,
  and the next load refuses both: the daemon does not start any more.

### Seen without a run

Some things were seen while modelling and are stated by no run; where a property would
be violated, it is weakened to what holds, and named here.

* *Overlapping executions* (`scheduler/store.ts:328`). Results are recorded by schedule
  id. When two executions of one recurring schedule overlap, the late result of the
  earlier one becomes the outcome of the later attempt, still in flight, although
  `docs/architecture.md:820` defines it as the "outcome of the most recent execution
  attempt".
* *Rate limits and approvals* (`policy/engine.ts:208`). A limit is checked on arrival and
  recorded after the approval, so calls whose approvals are pending together all pass
  (against `docs/architecture.md:2011`, `docs/implementation/04-policy-enforcement.md:164`).
  `LimitUpToPendingApprovals` says by how much at most: one call per further session,
  and none for a limit none of whose operations needs approval.
* *Prompts without a client* (`runtime/agent.ts:663`). The timeout of a prompt starts with
  its delivery. With no client, a scheduled session that asks waits for ever, and so does
  every prompt queued behind it. `PromptSettles` assumes a client that comes back.
* *Two launches at once* (`runtime/pid.ts:60`). A lock or PID file that was just created
  and is still empty reads as stale and is removed by another launch, so both may win
  (against `docs/architecture.md:1239`). `LaunchesInTurn` speaks of launches that do not
  overlap.
* *Two clients* (`communication/websocket.ts:89`). Each connection closes the one before,
  and a client that was closed connects again two seconds later: two clients replace each
  other without end. `StaysConnected` speaks of one that runs alone in the end.
* *Messages on a broken connection.* What was sent on it and not received is lost, both
  ways; the adapter counts it as delivered. `ShownInOrder` says that the rest is in
  order, `PromptIsAnswered` that a lost prompt is answered by the next text all the same.
* *A stream cut short* (`use-daemon.ts:632`). The text streamed so far is not reset when
  the socket closes, and the chunks of the next stream are appended to it. Streams are
  not modelled.
* *Output held open* (`primitives/execute/handler.ts:334`). The timer is cleared when the
  command ends, and then the captures are awaited. A descendant that holds the output
  holds the call, for any time, also within the timeout of
  `docs/architecture.md:1555-1570`. `CommandReturns` excepts it.
* *An escaped space at the end* (`primitives/execute/handler.ts:80`). The command is trimmed
  before it is parsed, so the space is lost and the escape before it is refused as a
  trailing one. `ParsedAsMeant` excepts it (`EndsInSpace`).
* *A torn seed* (`specs/registry.ts:320-327`). The seeded spec is written in place and only
  if there is no such file: cut short it is never written again, and no start succeeds.
  `RestartSucceeds` excepts it (`SeedWhole`).
* *A tool registered again while its call awaits approval* (`interpreter/pipeline.ts:42`).
  The name is looked up again after the gate, so the call runs the new definition, which
  the user was not asked about. `RunsCheckedSpec` excepts it (`renewed`).
* *A refused refresh* (`Throws` from `"exchanging"`). The call throws, while
  `docs/architecture.md:1520` has it ask the user again ("If no token or refresh fails ->
  trigger interact for re-authorization"). The refused refresh token stays stored, so
  every later call of the tool fails in the same way until the entry is deleted. Two
  calls that refresh a rotating token at the same time meet the same error, once: the one
  whose refresh token was just replaced throws although a good token is stored by then.

### Bounds

Times, edits, stops, lock errors, messages, calls and tokens are bounded by
constants, each named in a guard or in the instance; nothing else is bounded. The
instances are small but each interesting case happens in them (the disjuncts are
all taken, and each property is broken by its mutant): two schedules are needed
for a tick cut short between them, and one stop for a crash with an execution in
flight followed by a recovery; two requests for one pending and one queued, or one
whose delivery is stale while the other is pending; a buffer of two for both kinds of overflow; two messages
and three sessions for an interactive session that expires and is replaced beside
a triggered one; two sessions for pending approvals and two limits on one
operation for a partly recorded call; three launches so that two may fight over
what a third left behind; two calls for one that refreshes under the other, and
three tokens for one stored and one on its way to each call; two clients for one that
replaces the other, two connections for an old socket beside its successor, and a
buffer of one for a queue that is flushed and one that overflows; two tools for a clash
of names between tools, two specs of each for a replacement, four registrations for one
that is undone and a restart after it; two descendants for one that left the group
beside one that did not, and words of two characters for every pair of an escape, a
quote, a space or an operator with another.
The theorems hold for every bound. Only in `client` do disturbances come one at a time
(further replacements and closes follow from two clients without any). Its two safety
properties are proved for the rest, and all four hold too with one client and three
disturbances (`Clients = {a}`, `MaxDisturbances = 3`: 113,548 states) and with two of
each (554,918 states, too long for every run).

CHECK_DEADLOCK is off where the bounded history runs out (messages, calls, launches,
disturbances), the command has returned, or the adapter is stopped for good; `scheduler` checks deadlock, which
its restarts rule out.

### Fairness

* `Scheduler`: the interval keeps ticking while the process is up and a tick runs
  to its end (WF on `BeginTick`, `Dispatch`); each execution ends, because its
  iterations, provider calls and prompts are bounded (`TurnEnds`; for the
  exception see "Prompts without a client"); a shutdown exits after 30 seconds at
  the latest; and whoever runs the daemon starts it again (`Start`). Without the
  last, nothing is served after a crash, which is as it should be.
* `Prompts`: timers fire and awaits resume (WF). The client comes back again and
  again and stays long enough to take the queue (SF on `ClientReturns`, since it
  is enabled only between connections), and a replaced connection is closed. This
  is an assumption about the user.
* `AgentLoop`: promises are resumed, a system prompt is built or fails, and
  processing ends. Receiving, launching and shutting down are not fair.
* `Conversation`: the provider and the primitives answer or fail, between user
  messages. The user need not write.
* `ToolCalls`: a fetch ends after 30 seconds at the latest, and timers fire. Nothing
  is assumed of a user who is asked for a code: `CallSettles` stops there.
* `PidFile`: file operations end. Nobody has to crash, stop, or give up the wait
  for the lock.

* `Client` (`LinkFairness`): requests for a connection are answered, the events of a
  socket are delivered, timers fire, and whoever runs the daemon starts it again. For
  `PromptIsAnswered` a user who is connected again and again types something now and
  then (SF on `TypesConnected`, since a connection may come and go). Nobody has to break,
  leave, reconnect or send.
* `Execute`: promises are resumed and timers fire. Nothing is assumed of the command or
  of what it starts: it may hang for ever.

`PolicyGate` and `Registry` have safety properties only: that the calls of the first end
is `PromptSettles`, and the second waits for nothing.

## The proofs

The proof modules prove, for any sets of schedules, prompts, events, connections,
sessions and processes and for any bounds, what the runs check on an instance.

**Scheduler** (`TypeCorrect`, `ActiveIsArmed`, `OutcomesAreAccounted`,
`DispatchesAreDistinct`, `SchedulerImplementsAlarm`). The assumptions are those the
modules name: triggers are cron or one-shot with their instants, NULL is neither a
number nor a status, an expression that occurs occurs again after any instant (the
contract of `scheduler/cron.ts`), bounds are numbers. None of the properties is
inductive. The invariant `Inv` adds what the code relies on without saying so:
`ClockOrder`: nothing was armed or fired later than now, nor is the tick in progress
dated later; a schedule that fired since it was armed has a last fire; and a fire
before the arming lies before it in time. Without it an advance or an arming
might compute the next occurrence from the wrong instant. `Invariance` is proved action by
action: types first, then arming, then accounting, with one lemma for each function
of the store. The action property and the refinement follow from the invariant
and one case per action: `Dispatch` of a row that is still due is `Ring`, an update
that re-arms is `Set` or `Renew`, and everything else keeps or cancels.

**PidFile** (`PidFileTypeCorrect`, `LaunchesInTurnHold`). `LaunchesInTurn` is not an
invariant of the file system alone. The invariant says that as long as launches
have not overlapped at most one process acquires, that a PID file was created by a
process that got as far as creating it, that the pid in it is that of the daemon
that runs, and that each step after the test for a running daemon still finds what
the test established. The assumption is that `Nothing` is neither a process nor a file.

**Prompts and Outbox** (`PromptsAreKept`, `TimersFollowDelivery`,
`RepliesReachTheirPrompts`, `OutcomesAreFinal`, `ConnectedQueueIsEmpty`,
`EventsKeepTheirOrder`, `LatestClientStaysServed`, `BufferStaysAccounted`,
`OnlyOldestAreLost`, `PromptsImplementQuestions`). The proof follows the
composition. `OutboxProofs` knows only the adapter: `OutboxStep` is any of its
steps, whoever takes it; `OutboxInv` says that the queue holds the buffered events
by age, that what was sent is older than what waits, and the two properties of the
connection; every `OutboxStep` keeps it and leaves a settled delivery as it is
(`DeliveryIsFinal`). `PromptsProofs` shows that every step of `Prompts` is an
`OutboxStep`, and adds `LaneInv`: the queue of requests is the end of the sequence
of those asked, without repetition, and together with the pending one it holds just
those without an outcome. That a request waits at most once is what makes a late
delivery, timer or reply harmless, and no property says it. One lemma,
`SettleKeeps`, serves the four ways in which a pending request is settled; another,
`LaneMovesOn`, the activation of the next. The assumptions are that requests are
events, that `None` is neither an event nor a connection, and that sizes and limits
are numbers. The byte count is kept apart (`BytesInv`): it is the sum over the queue,
events are added and removed at the ends of it, and the sum of a sequence is that of
its parts (`TotalOfParts`). What `trimQueueToFit` drops is the shortest front without
which the rest fits, so the event before the cut did not fit. For the refinement the
pending request stands in front of the queued ones (`Waiting`), and `TurnInv` says that
the message of a request is submitted when it becomes pending and not before; then one
lemma (`PutInTurn`) covers what every step puts to the user, `SettlesQuestion` the ways
of settling, and everything else leaves the questions as they are. `OutcomeIsFinal`,
which no run checks by itself, is a consequence of the refinement.

**AgentLoop** (`TypeCorrect`, `MessagesAreDrained`, `SessionsAreManaged`,
`MessagesAreInOrder`, `NothingRunsOnceIdle`). `ManagerInv` says of each session id
what the manager knows of it: it is in the map as long as its session has not ended,
a session of the user in the map is the interactive one, and a task whose session
exists runs a triggered one; so the loop creates a session only when there is no
interactive one, and the expiry of an interactive session cannot hit a triggered
one. `LoopInv` says that the loop has a message in hand exactly while it works on
it, and `OrderInv` that the messages handled, in hand and queued are numbered in
this order. The assumptions are that session ids and bounds are numbers and that
`None` and `Ended` are nothing else.

**ToolCalls** (`TypeCorrect`, `StoredRefreshTokenIsGood`, `RefusedTokenIsReplaced`,
`UserIsNotAskedAgain`). The stored refresh token is good because of what holds of the
answers under way: each bears a number that is new, its refresh token is known to no
other call and is good (`AnswersAreFresh`, `AnswersAreGood`), and a call that gets no
new refresh token sent one that was not replaced. Were two calls able to hold the
same successor, one could replace it while the other stores it. The number of
requests needs that whoever is not awaiting a response has an attempt left
(`AttemptsAreLeft`), since the refresh after a 401 does not look at the limit. The
assumptions are that `None` is no token and that the bounds are numbers.

**Client** (`AlwaysOneWay`, `AlwaysShownInOrder`). `HookInv` ties the two ends together:
a socket that lives is the current one of its owner, a connection that is up has a living
socket, and a client has either a socket that is not closed yet or its timer, never both.
From it `OneWayToTheDaemon` follows at once. The order needs `OutboxInv` of
`OutboxProofs` (what waits is younger than all that was sent) and `ShowInv`: what is under
way on any connection and what any client shows was sent and is sorted by age, and what
is under way to the current socket of a client is younger than all it shows. The last
holds when a socket is opened because nothing is under way on it yet, and when the queue
is flushed because of `OutboxInv`. Every adapter step of `Client` is an `OutboxStep`
(`AdapterStepIs`) or the start of the daemon. The assumptions are that prompts are events
and that `None` is no connection, event or client.

**Registry** (`Typed`, `IndexesAlwaysAgree`, `CallsRunWhatWasChecked`, `StartsAgain`).
`IndexInv` says for each name what is found under it and why: the entry of a registered
spec that has such an operation, or nothing. It needs that a provider name is used by one
registered tool at most, which a registration checks in memory and a load in the files.
`CallInv` says of each call that its first lookup is still what the index holds, unless its
tool was renewed. `DiskInv` says that what the daemon runs with is what the files say, that
the latest files of two tools share no name, and that nothing but the seed can be torn;
every step keeps it, a crash in a registration included. That the last of several
operations exists (`Max`) is proved from the well-founded order of the subsets of a finite
set, since the induction over finite sets is out of reach. The assumptions are those of the
constants: a spec has operations, finitely many, and those of different tools differ.

**Conversation** (`ConversationTypeCorrect`, `EstimateStaysExact`, `CallsAlwaysAnswered`,
`CeilingAlwaysRespected`, `ExchangeAlwaysKept`). The invariant follows the calls through a
turn: those still to dispatch are distinct and have no result yet, every other call in the
history has one after it and no two results answer the same call (`AnswersInv`); nothing is
left to dispatch while the model is asked (`CallsInv`). A compaction keeps this because it
keeps a whole end of the history: what it drops are the oldest messages, and a call that
stays keeps its result behind it (`AnswersSurviveCompaction`). That the system prompt is
first (`BeginsWithPrompt`) is what gives a compaction something to put the summary after.
The latest message of the user is the greatest index of its kind (`LastUserIndexIs`), and
a compaction starts no later (`KeepStartIs`). The assumptions are that sizes and limits are
numbers and that windows and limits are at least one.

**PolicyGate** (`GateTypeCorrect`, `LimitsHoldUpToApprovals`, `LetThroughStaysCounted`,
`OnlyWhatTheUserApproved`). That a limit holds needs more than a count: each call that was
let through has a row of its own, dated no earlier than the call (`CountedBy`, an
injection), and the calls of a window together with those of it that await the user stay
within the bound (`WithinBound`, for every window and not only the present one). A call
that finds room sees a row for each call of the window; at most the other sessions, one
call each, have one pending, and none if no operation of the limit needs approval
(`RoomForCall`, `SlackIsEnough`); an approval then moves one from pending to through. A
sweep removes only rows that are past every window of their rule, and
`recordRateLimits` finds a free millisecond (`FreeTimeExists`), so no two calls share
a row. Every receipt goes back to a yes of the user (`HistoryInv`). The assumptions are
those of the constants and that the sessions are finitely many, without which "one each"
bounds nothing.

**Execute** (`WordsAreReadAsMeant`, `LimitsAlwaysHold`). The first is about the parser and
holds for words of any length and number, over the characters the parser tells apart. What is written for a
character, quoted or escaped, is read as that character (`ChunksAreRead`, one lemma for
each way of writing); what is written for a word leads from the state between words to the
state after it with the word added, whatever came before (`WordIsRead`); and so for the
text of all words (`TextReads`). A word with a bare operator leads to a refusal, and
refused stays refused. `trim` takes nothing away, since a text begins and ends in what is
written for a word, except for an escaped space at the end (`TrimKeeps`, `TextEnds`;
`EndsInSpace` in the property). For the second, `RunInv` says that after the timeout
nobody is left in the group at all, running or not, and that the command is not begun
after the time is over. The assumptions are that the ordinary character is not one of
those that mean something, that words consist of characters, and that limits are numbers.

**Data.** The induction theorems of the library take an operator and cannot be used here.
Three lemmas of `SequenceLemmas` stand in for them. `InductionUpTo` is induction over a
*set* up to a given number, derived from the greatest element of a finite set
(`MaxIsIn`), which itself comes from the well-founded order of its subsets;
`IterationExists` gives the values of a function that is computed step by step, so that
the recursive functions of the modules (`Read`, `Escape`, `Text`, `PartialSums`) can be
unfolded; `TotalOfParts` is what sums need.

All invariants, action properties and refinements that the passing runs check are
proved. Out of reach of the prover, and left to TLC, is liveness: `DueIsServed`, `OutcomeResolved`,
`PromptSettles`, `TurnEnds`, `MessageIsHandled`, `LaunchEnds`, `CallSettles`,
`StaysConnected`, `PromptIsAnswered`, `CommandReturns`.

## What is assumed

* The wall clock does not go back. (The daemon takes `Date.now()` at its word.)
* Cron: an expression has no occurrence at all, or one after every instant.
* In `Prompts` a `send` that does not throw delivers; the code has no acknowledgement
  either. `Client` drops this.
* The user moves the files of tools, and writes none by hand.
* An OAuth provider accepts a refresh token until it replaces it or it is revoked.
* Process ids are not reused, and file operations are atomic except that a file is
  created before it is filled. A rename is atomic.
* SQLite statements are atomic, and transactions all or nothing.

## Not modelled

* Conversions without state: `policy/loader.ts`, `specs/validator.ts`,
  `config/`, request building and response mapping, `sanitize.ts`, the text of the
  system prompt and of the continuity block, logging, the read-only commands, building
  the declarations of tools for the model.
* `file_read` and `file_write`: one awaited operation each, without state between them.
* Of memory all but the keyed entry of an OAuth token: unkeyed rows, access counts and
  the search index, which are single SQL statements.
* Of the CLI the rendering, the streams and the commands; the manual client is a tool for
  trying the daemon by hand.
* The environment of a command and the resolution of paths in `primitives/execute`.
* The search over the calendar in `cron.ts` (its contract is assumed), the retry loop for
  locks (a lock error is one that used it up), migrations, and the startup sequence of
  `index.ts`.

## Plan

Done, in this order: `ScheduleStore`, `Scheduler`, `ScheduleAlarm` and their proofs;
`Outbox`, `Prompts` and their proofs; `Conversation`; `AgentLoop` and its proofs;
`PolicyGate`; `PidFile` and its proofs; `ToolCalls` and its proofs; `Client` and its
proofs; `Registry` and its proofs; `Execute`; the proofs of `Conversation`, `PolicyGate`,
`Execute` and of the byte count; `Questions` and its refinement by `Prompts`.

Next, by weight:

1. `Cron`: the search over the calendar against a reference definition, by TLC
   only, to discharge the contract `Scheduler` assumes.
2. `Memory` with the lock retry: unkeyed rows, access counts, the search index.

The refinements worth stating: `PolicyGate` with `Prompts` in place of its queue, and
`Registry` as a map from tool to spec that survives a restart.
