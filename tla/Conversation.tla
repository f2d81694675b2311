---------------------------- MODULE Conversation ----------------------------
(***************************************************************************)
(* One session of the agent: its message history, its token budget and     *)
(* iteration limit, and the loop of model turns and tool calls that        *)
(* processes it.  src/session/session.ts, src/context/budget.ts, and       *)
(* processSession with ensureSessionWithinContextBudget of                 *)
(* src/runtime/agent.ts.                                                   *)
(*                                                                         *)
(* Messages are reduced to their role, the tool calls they make or answer, *)
(* and their size in tokens.  Indices are those of the code: 0 is the      *)
(* system prompt.                                                          *)
(***************************************************************************)
EXTENDS Integers, Sequences, SequencesExt, FiniteSetsExt, Sums

CONSTANTS MaxIterations,     \* tool calls a session may make (50)
          KeepWindow,        \* messages a compaction keeps at least (8)
          ContextLimit,      \* in tokens
          ToolTokens,        \* size of the tool declarations
          RequestOverhead,   \* what a summary request adds to the messages
          ResultSizes,       \* sizes of tool results
          SummarySizes,
          MaxCalls,          \* bound on the tool calls of one turn
          MaxUserMessages    \* bound on the messages of the user

ASSUME ConversationAssumption ==
    /\ MaxIterations \in Nat \ {0}
    /\ KeepWindow \in Nat \ {0}
    /\ ContextLimit \in Nat \ {0}
    /\ ToolTokens \in Nat /\ RequestOverhead \in Nat
    /\ ResultSizes \subseteq Nat /\ SummarySizes \subseteq Nat
    /\ MaxCalls \in Nat \ {0} /\ MaxUserMessages \in Nat

VARIABLES
    triggerSource,     \* "user" or "schedule"
    messages,
    tokenEstimate,     \* messageTokenEstimate
    iterationCount,
    status,
    step,              \* where processSession is, "idle" between messages
    calls,             \* ids of the tool calls of this turn still to dispatch
    noteDue,           \* one of them registered a spec
    result,            \* what runTriggeredSession returned, or "none"
    \* history
    nextCall,          \* the next tool call id of the model
    userMessages,      \* how many messages of the user were taken
    ended              \* why the session ended, or "none"

conversationVars == <<triggerSource, messages, tokenEstimate, iterationCount, status, step,
          calls, noteDue, result, nextCall, userMessages, ended>>

Message(role, made, answers, quiet, tokens) ==
    [role |-> role, made |-> made, answers |-> answers, quiet |-> quiet, tokens |-> tokens]
SystemMessage(tokens) == Message("system", {}, 0, FALSE, tokens)

MessageRecord == [role : {"system", "user", "assistant", "tool_result"},
                  made : SUBSET Nat, answers : Nat, quiet : BOOLEAN, tokens : Nat]

Statuses == {"active", "waiting_for_llm", "waiting_for_user", "completed", "failed"}
Terminal == status \in {"completed", "failed"}

ConversationTypeOK ==
    /\ triggerSource \in {"user", "schedule"}
    /\ messages \in Seq(MessageRecord)
    /\ tokenEstimate \in Nat
    /\ iterationCount \in 0..MaxIterations
    /\ status \in Statuses
    /\ step \in {"idle", "turn", "summarizing", "llm", "tools", "over"}
    /\ calls \in Seq(1..nextCall - 1)
    /\ noteDue \in BOOLEAN
    /\ result \in {"none", "success", "failed"}
    /\ nextCall \in Nat \ {0}
    /\ userMessages \in 0..MaxUserMessages
    /\ ended \in {"none", "answer", "iterations", "context", "error"}

ConversationInit ==
    /\ triggerSource \in {"user", "schedule"}
    /\ messages = <<SystemMessage(1)>>
    /\ tokenEstimate = 1
    /\ iterationCount = 0
    /\ status = "waiting_for_user"
    /\ step = IF triggerSource = "schedule" THEN "turn" ELSE "idle"
    /\ calls = <<>>
    /\ noteDue = FALSE
    /\ result = "none"
    /\ nextCall = 1
    /\ userMessages = 0
    /\ ended = "none"

---------------------------------------------------------------------------
(***************************************************************************)
(* The context budget.                                                     *)
(***************************************************************************)

TokensOf(history) == Total([i \in 1..Len(history) |-> history[i].tokens])

\* Faulty variant: compacts only when the context is full.
CompactsWhenFull(tokens) == tokens >= ContextLimit

shouldCompact(tokens) == 4 * tokens >= 3 * ContextLimit
exceedsHardCeiling(tokens) == 10 * tokens > 9 * ContextLimit

\* The index of the last message of the user, or -1.
LastUserIndex(history) ==
    Max({i \in 1..Len(history)-1 : history[i + 1].role = "user"} \cup {-1})

\* Faulty variant: keeps the shorter of the two.
KeepShorter(history) ==
    LET window == Max({1, Len(history) - KeepWindow}) IN
    IF LastUserIndex(history) = -1 THEN window
    ELSE Max({window, LastUserIndex(history)})

\* The last KeepWindow messages are kept, or all from the latest message of
\* the user, whichever is more.
selectCompactionKeepStartIndex(history) ==
    LET window == Max({1, Len(history) - KeepWindow}) IN
    IF LastUserIndex(history) = -1 THEN window
    ELSE Min({window, LastUserIndex(history)})

CompactedPart(history) == SubSeq(history, 2, selectCompactionKeepStartIndex(history))

\* planHistoryCompaction returns a plan.
Compactable(history) ==
    /\ Len(history) > 2
    /\ selectCompactionKeepStartIndex(history) > 1
    /\ selectCompactionKeepStartIndex(history) < Len(history)

buildCompactedMessageHistory(history, summaryTokens) ==
    <<history[1], SystemMessage(summaryTokens)>>
       \o SubSeq(history, selectCompactionKeepStartIndex(history) + 1, Len(history))

canSafelyAttemptCompactionRequest(history) ==
    ~exceedsHardCeiling(TokensOf(CompactedPart(history)) + RequestOverhead)

---------------------------------------------------------------------------
(***************************************************************************)
(* Ends.  runTriggeredSession reports success unless processSession threw. *)
(***************************************************************************)

Returns(reason) ==
    /\ step' = "over"
    /\ ended' = reason
    /\ result' = IF triggerSource = "schedule" THEN "success" ELSE result

\* processSession threw: handleSessionFailure.
Throws ==
    /\ step' = "over"
    /\ status' = "failed"
    /\ ended' = "error"
    /\ result' = IF triggerSource = "schedule" THEN "failed" ELSE result

\* Faulty variant: the estimate is not raised.
AppendUncounted(added) ==
    /\ messages' = messages \o added
    /\ UNCHANGED tokenEstimate

\* appendMessage
AppendMessages(added) ==
    /\ messages' = messages \o added
    /\ tokenEstimate' = tokenEstimate + TokensOf(added)

---------------------------------------------------------------------------
(***************************************************************************)
(* processSession                                                          *)
(***************************************************************************)

\* appendUserMessage, with a message taken from the inbound queue.
UserMessage ==
    /\ step = "idle"
    /\ userMessages < MaxUserMessages
    /\ userMessages' = userMessages + 1
    /\ AppendMessages(<<Message("user", {}, 0, FALSE, 1)>>)
    /\ status' = "active"
    /\ step' = "turn"
    /\ UNCHANGED <<triggerSource, iterationCount, calls, noteDue, result, nextCall, ended>>

\* What ensureSessionWithinContextBudget decides after a compaction attempt.
AfterCompaction(tokens) ==
    IF exceedsHardCeiling(tokens + ToolTokens)
    THEN Returns("context") /\ status' = "completed"
    ELSE step' = "llm" /\ status' = "waiting_for_llm" /\ UNCHANGED <<ended, result>>

\* The top of the loop: the model is asked, or the history compacted first.
BeginTurn ==
    /\ step = "turn"
    /\ IF shouldCompact(tokenEstimate + ToolTokens) /\ Compactable(messages)
       THEN IF canSafelyAttemptCompactionRequest(messages)
            THEN /\ step' = "summarizing"
                 /\ status' = "waiting_for_llm"
                 /\ UNCHANGED <<ended, result>>
            ELSE AfterCompaction(tokenEstimate)
       ELSE /\ step' = "llm"
            /\ status' = "waiting_for_llm"
            /\ UNCHANGED <<ended, result>>
    /\ UNCHANGED <<triggerSource, messages, tokenEstimate, iterationCount, calls,
                   noteDue, nextCall, userMessages>>

\* The model summarizes the older part.  The summary is also kept in memory, or
\* not: only the notice at the context limit tells.
Summarize(summaryTokens) ==
    /\ step = "summarizing"
    /\ messages' = buildCompactedMessageHistory(messages, summaryTokens)
    /\ tokenEstimate' = TokensOf(messages')
    /\ AfterCompaction(tokenEstimate')
    /\ UNCHANGED <<triggerSource, iterationCount, calls, noteDue, nextCall, userMessages>>

\* The provider fails, or the summary is empty or a tool call.
ModelFails ==
    /\ step \in {"summarizing", "llm"}
    /\ Throws
    /\ UNCHANGED <<triggerSource, messages, tokenEstimate, iterationCount, calls,
                   noteDue, nextCall, userMessages>>

AnswersWithText ==
    /\ step = "llm"
    /\ AppendMessages(<<Message("assistant", {}, 0, FALSE, 1)>>)
    /\ IF triggerSource = "schedule"
       THEN Returns("answer") /\ status' = "completed"
       ELSE step' = "idle" /\ status' = "waiting_for_user" /\ UNCHANGED <<result, ended>>
    /\ UNCHANGED <<triggerSource, iterationCount, calls, noteDue, nextCall, userMessages>>

AnswersWithCalls(n) ==
    /\ step = "llm"
    /\ LET ids == nextCall..nextCall + n - 1 IN
       /\ AppendMessages(<<Message("assistant", ids, 0, FALSE, 1)>>)
       /\ calls' = [i \in 1..n |-> nextCall + i - 1]
    /\ nextCall' = nextCall + n
    /\ step' = "tools"
    /\ status' = "active"
    /\ noteDue' = FALSE
    /\ UNCHANGED <<triggerSource, iterationCount, result, userMessages, ended>>

\* canCompleteTriggeredSessionWithoutAssistantText: the history ends with the
\* successful results of a turn that only sent notifications.
OnlyNotified ==
    \E n \in 1..Len(messages)-1 :
        LET asked == messages[Len(messages) - n] IN
        /\ \A i \in Len(messages)-n+1..Len(messages) :
              messages[i].role = "tool_result" /\ messages[i].quiet
        /\ asked.role = "assistant"
        /\ asked.made = {messages[i].answers : i \in Len(messages)-n+1..Len(messages)}

\* Faulty variant: an empty answer makes the loop ask again.
RetriesEmptyAnswer ==
    /\ step = "llm"
    /\ step' = "turn"
    /\ UNCHANGED <<triggerSource, messages, tokenEstimate, iterationCount, status, calls,
                   noteDue, result, nextCall, userMessages, ended>>

AnswersWithNothing ==
    /\ step = "llm"
    /\ IF triggerSource = "schedule" /\ OnlyNotified
       THEN Returns("answer") /\ status' = "completed"
       ELSE Throws
    /\ UNCHANGED <<triggerSource, messages, tokenEstimate, iterationCount, calls,
                   noteDue, nextCall, userMessages>>

\* Faulty variant: a batch of calls is checked against the limit only once.
ToolBatchUnchecked(quiet, tokens, registersSpec) ==
    /\ step = "tools"
    /\ iterationCount' = iterationCount + 1
    /\ AppendMessages(<<Message("tool_result", {}, Head(calls), quiet, tokens)>>)
    /\ calls' = Tail(calls)
    /\ noteDue' = (noteDue \/ registersSpec)
    /\ step' = IF Len(calls) = 1 THEN "turn" ELSE step
    /\ UNCHANGED <<triggerSource, status, result, nextCall, userMessages, ended>>

\* Faulty variant: at the limit the last call is dispatched all the same, and
\* the session goes on without its result.
ToolResultSkipped(quiet, tokens, registersSpec) ==
    /\ step = "tools"
    /\ iterationCount' = IF iterationCount < MaxIterations THEN iterationCount + 1
                         ELSE iterationCount
    /\ IF iterationCount + 1 >= MaxIterations
       THEN UNCHANGED <<messages, tokenEstimate>>
       ELSE AppendMessages(<<Message("tool_result", {}, Head(calls), quiet, tokens)>>)
    /\ calls' = Tail(calls)
    /\ noteDue' = (noteDue \/ registersSpec)
    /\ step' = IF Len(calls) = 1 THEN "turn" ELSE step
    /\ UNCHANGED <<triggerSource, status, result, nextCall, userMessages, ended>>

\* One tool call.  The call that reaches the limit is not dispatched: the
\* session fails, which processSession does not report as an error.
ToolCall(quiet, tokens, registersSpec) ==
    /\ step = "tools"
    /\ iterationCount' = iterationCount + 1
    /\ IF iterationCount' >= MaxIterations
       THEN /\ status' = "failed"
            /\ Returns("iterations")
            /\ UNCHANGED <<messages, tokenEstimate, calls, noteDue>>
       ELSE /\ calls' = Tail(calls)
            /\ LET note == calls' = <<>> /\ (noteDue \/ registersSpec) IN
               /\ AppendMessages(<<Message("tool_result", {}, Head(calls), quiet, tokens)>>
                                    \o (IF note THEN <<SystemMessage(1)>> ELSE <<>>))
               /\ noteDue' = (~note /\ (noteDue \/ registersSpec))
            /\ step' = IF calls' = <<>> THEN "turn" ELSE "tools"
            /\ UNCHANGED <<status, result, ended>>
    /\ UNCHANGED <<triggerSource, nextCall, userMessages>>

ConversationNext ==
    \/ UserMessage
    \/ BeginTurn
    \/ \E tokens \in SummarySizes : Summarize(tokens)
    \/ ModelFails
    \/ AnswersWithText
    \/ \E n \in 1..MaxCalls : AnswersWithCalls(n)
    \/ AnswersWithNothing
    \/ \E quiet, registersSpec \in BOOLEAN, tokens \in ResultSizes :
            ToolCall(quiet, tokens, registersSpec)

ConversationSpec == ConversationInit /\ [][ConversationNext]_conversationVars

\* The provider answers or times out, and so does every primitive.
ConversationFairSpec == ConversationSpec /\ WF_conversationVars(ConversationNext /\ step # "idle")

---------------------------------------------------------------------------
(***************************************************************************)
(* Properties                                                              *)
(***************************************************************************)

\* The running token estimate is that of the history, after any number of
\* appends and compactions: drift would compact too late, or end sessions that
\* still fit.
EstimateIsExact == tokenEstimate = TokensOf(messages)

\* When the model is asked, every tool call in the history is followed by its
\* result, once: a provider refuses a history in which one is missing.
CallsAreAnswered ==
    step \in {"llm", "summarizing"} =>
        \A i \in 1..Len(messages) : \A id \in messages[i].made :
            \E j \in i+1..Len(messages) :
                /\ messages[j].answers = id
                /\ \A k \in 1..Len(messages) : messages[k].answers = id => k = j

\* The model is asked above the hard ceiling only if the history cannot be
\* compacted any further.
CeilingRespected ==
    step = "llm" /\ exceedsHardCeiling(tokenEstimate + ToolTokens) => ~Compactable(messages)

\* A compaction never takes the system prompt, the latest message of the user
\* or anything after it.
CurrentExchangeKept ==
    [][step = "summarizing" /\ step' # "over" =>
          /\ messages'[1] = messages[1]
          /\ LastUserIndex(messages) # -1 =>
                IsSuffix(SubSeq(messages, LastUserIndex(messages) + 1, Len(messages)),
                         messages')]_conversationVars

\* The processing of a message, or of a triggered session, always comes to an
\* end: no session asks the model for ever.  The drain loop and the scheduler
\* rely on it.
TurnEnds == step # "idle" ~> step \in {"idle", "over"}

\* docs/architecture.md:1418 of the status 'failed': "terminated due to error
\* or iteration limit"; docs/architecture.md:828: an execution that fails is
\* recorded as failed.
FailedRunIsReported == result = "success" => status # "failed"
=============================================================================
