------------------------------- MODULE Execute -------------------------------
(***************************************************************************)
(* A call of the execute primitive, primitives/execute/handler.ts: its     *)
(* command is split into arguments without a shell, then run in a process  *)
(* group of its own under a timer, with its output captured.               *)
(*                                                                         *)
(* The call is written by someone who has certain words in mind and one    *)
(* way to write them, so that what the parser makes of the text can be     *)
(* compared with what was meant.  The command may start further processes, *)
(* which may leave the group and may close the output they inherited.      *)
(* Both output streams are captured alike; the model follows one.  The     *)
(* environment of the command is left out.                                 *)
(***************************************************************************)
EXTENDS Integers, SequencesExt

CONSTANTS Words,              \* what an argument may be: sequences of characters
          MaxWords,
          Ordinary,           \* a character without meaning to the parser
          Blocked,            \* BLOCKED_EXECUTABLES
          Leader,             \* the process of the command
          Descendants,        \* processes it starts, and they start
          Limit,              \* EXECUTE_OUTPUT_LIMIT_BYTES
          MaxChunk, MaxOutput,
          NoArguments

UNSUPPORTED_SHELL_SYNTAX == {"|"}
Meaningful == {" ", "'", "\"", "\\"} \cup UNSUPPORTED_SHELL_SYNTAX
Characters == {Ordinary} \cup Meaningful

ASSUME ExecuteAssumption ==
    /\ Ordinary \notin Meaningful
    /\ Words \subseteq Seq(Characters) /\ Blocked \subseteq Words
    /\ Leader \notin Descendants
    /\ Limit \in Nat /\ MaxChunk \in Nat /\ MaxOutput \in Nat /\ MaxWords \in Nat

Processes == {Leader} \cup Descendants
Styles == {"plain", "single", "double", "escaped"}

VARIABLES
    words, style,        \* what the call means, and how that is written
    argv,                \* what parseCommand returns
    phase,
    process,             \* process -> "none", "running", "exited"
    group,               \* the processes in the group of the command
    writers,             \* the processes that hold the output open
    timeoutId,           \* the timer is set
    timedOut,
    totalBytes, storedBytes

processVars == <<process, group, writers>>
captureVars == <<totalBytes, storedBytes>>
executeVars == <<words, style, argv, phase, processVars, timeoutId, timedOut, captureVars>>

ExecuteTypeOK ==
    /\ words \in Seq(Words)
    /\ style \in Styles
    /\ argv \in Seq(Seq(Characters)) \cup {NoArguments}
    /\ phase \in {"parsed", "running", "draining", "returned", "failed"}
    /\ process \in [Processes -> {"none", "running", "exited"}]
    /\ group \subseteq Processes
    /\ writers \subseteq Processes
    /\ timeoutId \in BOOLEAN
    /\ timedOut \in BOOLEAN
    /\ totalBytes \in 0..MaxOutput
    /\ storedBytes \in 0..Limit

---------------------------------------------------------------------------
(***************************************************************************)
(* Writing a command.                                                      *)
(***************************************************************************)

\* The words that can be written in a style.
Writable(w, how) ==
    CASE how = "plain"   -> w # <<>> /\ ToSet(w) \subseteq {Ordinary} \cup UNSUPPORTED_SHELL_SYNTAX
      [] how = "single"  -> "'" \notin ToSet(w)
      [] how = "double"  -> TRUE
      [] how = "escaped" -> w # <<>>

\* Each of the characters in escaped is preceded by a backslash.
EscapeChar(char, escaped) == IF char \in escaped THEN <<"\\", char>> ELSE <<char>>

Escape(w, escaped) ==
    LET upTo[i \in 0..Len(w)] ==
            IF i = 0 THEN <<>> ELSE upTo[i - 1] \o EscapeChar(w[i], escaped)
    IN upTo[Len(w)]

Write(w, how) ==
    CASE how = "plain"   -> w
      [] how = "single"  -> <<"'">> \o w \o <<"'">>
      [] how = "double"  -> <<"\"">> \o Escape(w, {"\"", "\\"}) \o <<"\"">>
      [] how = "escaped" -> Escape(w, Meaningful)

\* The words with a space between them.
Text(ws, how) ==
    LET upTo[i \in 0..Len(ws)] ==
            IF i = 0 THEN <<>>
            ELSE (IF i = 1 THEN <<>> ELSE upTo[i - 1] \o <<" ">>) \o Write(ws[i], how)
    IN upTo[Len(ws)]

---------------------------------------------------------------------------
(***************************************************************************)
(* Reading it: requireString and parseCommand.                             *)
(***************************************************************************)

\* trim(): no space at either end.
Trim(text) ==
    LET kept == {i \in DOMAIN text : text[i] # " "}
    IN IF kept = {} THEN <<>> ELSE SubSeq(text, Min(kept), Max(kept))

Start == [argv |-> <<>>, currentToken |-> <<>>, tokenStarted |-> FALSE,
          quoteState |-> "unquoted", escaped |-> FALSE, refused |-> FALSE]

\* Faulty variant: a token that got no character is dropped.
pushTokenWithCharacters(st) ==
    IF st.currentToken = <<>> THEN [st EXCEPT !.tokenStarted = FALSE]
    ELSE [st EXCEPT !.argv = Append(@, st.currentToken), !.currentToken = <<>>,
                    !.tokenStarted = FALSE]

pushToken(st) ==
    IF ~st.tokenStarted THEN st
    ELSE [st EXCEPT !.argv = Append(@, st.currentToken), !.currentToken = <<>>,
                    !.tokenStarted = FALSE]

\* One character.
ParseChar(st, char) ==
    LET taken == [st EXCEPT !.currentToken = Append(@, char), !.tokenStarted = TRUE]
        quote(q) == [st EXCEPT !.quoteState = q, !.tokenStarted = TRUE]
    IN IF st.refused THEN st
       ELSE IF st.quoteState = "single" THEN IF char = "'" THEN quote("unquoted") ELSE taken
       ELSE IF st.escaped THEN [taken EXCEPT !.escaped = FALSE]
       ELSE IF char = "\\" THEN [st EXCEPT !.escaped = TRUE, !.tokenStarted = TRUE]
       ELSE IF st.quoteState = "double" THEN IF char = "\"" THEN quote("unquoted") ELSE taken
       ELSE CASE char = "'" -> quote("single")
              [] char = "\"" -> quote("double")
              [] char = " " -> pushToken(st)
              [] char \in UNSUPPORTED_SHELL_SYNTAX -> [st EXCEPT !.refused = TRUE]
              [] OTHER -> taken

\* The loop over the characters.
Read(text) ==
    LET upTo[i \in 0..Len(text)] == IF i = 0 THEN Start ELSE ParseChar(upTo[i - 1], text[i])
    IN upTo[Len(text)]

\* parseCommand: the arguments, or NoArguments for an error.
parseCommand(text) ==
    LET read == Read(text)
        end == pushToken(read)
    IN IF read.refused \/ read.escaped \/ read.quoteState # "unquoted" \/ end.argv = <<>>
       THEN NoArguments ELSE end.argv

---------------------------------------------------------------------------
\* The handler begins with the parsing.  A command of spaces only is refused like
\* one without a token.
ExecuteInit ==
    /\ style \in Styles
    /\ words \in UNION {[1..n -> {w \in Words : Writable(w, style)}] : n \in 1..MaxWords}
    /\ argv = parseCommand(Trim(Text(words, style)))
    /\ phase = "parsed"
    /\ process = [p \in Processes |-> "none"]
    /\ group = {} /\ writers = {}
    /\ timeoutId = FALSE /\ timedOut = FALSE
    /\ totalBytes = 0 /\ storedBytes = 0

\* What was meant is not looked at any more.
ForgetCommand == words' = <<>> /\ style' = "plain" /\ argv' = NoArguments

\* The command cannot be parsed or is blocked, the directory is not in the
\* workspace or not there, or there is no such executable.
Fail ==
    /\ phase = "parsed"
    /\ ForgetCommand
    /\ phase' = "failed"
    /\ UNCHANGED <<processVars, timeoutId, timedOut, captureVars>>

\* Faulty variant: the timer is not set.
SpawnUntimed ==
    /\ phase = "parsed"
    /\ argv # NoArguments /\ argv[1] \notin Blocked
    /\ ForgetCommand
    /\ phase' = "running"
    /\ process' = [process EXCEPT ![Leader] = "running"]
    /\ group' = {Leader}
    /\ writers' = {Leader}
    /\ UNCHANGED <<timeoutId, timedOut, captureVars>>

\* Bun.spawn and the timer.
Spawn ==
    /\ phase = "parsed"
    /\ argv # NoArguments /\ argv[1] \notin Blocked
    /\ ForgetCommand
    /\ phase' = "running"
    /\ process' = [process EXCEPT ![Leader] = "running"]
    /\ group' = {Leader}
    /\ writers' = {Leader}
    /\ timeoutId' = TRUE
    /\ UNCHANGED <<timedOut, captureVars>>

\* Process p starts process d, which inherits its group and its output.
Fork(p, d) ==
    /\ process[p] = "running" /\ process[d] = "none"
    /\ process' = [process EXCEPT ![d] = "running"]
    /\ group' = IF p \in group THEN group \cup {d} ELSE group
    /\ writers' = IF p \in writers THEN writers \cup {d} ELSE writers
    /\ UNCHANGED <<words, style, argv, phase, timeoutId, timedOut, captureVars>>

\* It makes a group of its own; the leader of a group cannot.
LeaveGroup(d) ==
    /\ process[d] = "running" /\ d \in group
    /\ group' = group \ {d}
    /\ UNCHANGED <<words, style, argv, phase, process, writers, timeoutId, timedOut, captureVars>>

CloseOutput(p) ==
    /\ process[p] = "running" /\ p \in writers
    /\ writers' = writers \ {p}
    /\ UNCHANGED <<words, style, argv, phase, process, group, timeoutId, timedOut, captureVars>>

Exit(p) ==
    /\ process[p] = "running"
    /\ process' = [process EXCEPT ![p] = "exited"]
    /\ writers' = writers \ {p}
    /\ group' = group \ {p}
    /\ UNCHANGED <<words, style, argv, phase, timeoutId, timedOut, captureVars>>

store(n) == IF storedBytes >= Limit THEN storedBytes
            ELSE storedBytes + Min({n, Limit - storedBytes})

\* captureStream reads a chunk.
ReadChunk(n) ==
    /\ phase \in {"running", "draining"}
    /\ writers # {}
    /\ totalBytes + n <= MaxOutput
    /\ totalBytes' = totalBytes + n
    /\ storedBytes' = store(n)
    /\ UNCHANGED <<words, style, argv, phase, processVars, timeoutId, timedOut>>

\* Faulty variant: only the process of the command itself.
KilledAlone == {Leader} \cap group

\* killSubprocess: the whole group.  Without one there is nothing left to kill,
\* since the leader stays in it while it runs.
Killed == group

\* The timer's callback.
Timeout ==
    /\ timeoutId
    /\ timeoutId' = FALSE
    /\ timedOut' = TRUE
    /\ process' = [p \in Processes |-> IF p \in Killed THEN "exited" ELSE process[p]]
    /\ group' = group \ Killed
    /\ writers' = writers \ Killed
    /\ UNCHANGED <<words, style, argv, phase, captureVars>>

\* After the await of subprocess.exited.
Exited ==
    /\ phase = "running"
    /\ process[Leader] = "exited"
    /\ phase' = "draining"
    /\ timeoutId' = FALSE
    /\ UNCHANGED <<words, style, argv, processVars, timedOut, captureVars>>

\* Both captures have ended: nobody holds the output open any more.
Return ==
    /\ phase = "draining"
    /\ writers = {}
    /\ phase' = "returned"
    /\ UNCHANGED <<words, style, argv, processVars, timeoutId, timedOut, captureVars>>

HandlerStep == Fail \/ Spawn \/ Timeout \/ Exited \/ Return

ProcessStep ==
    \/ \E p \in Processes : CloseOutput(p) \/ Exit(p) \/ \E d \in Descendants : Fork(p, d)
    \/ \E d \in Descendants : LeaveGroup(d)
    \/ \E n \in 1..MaxChunk : ReadChunk(n)

ExecuteNext == HandlerStep \/ ProcessStep

\* Promises are resumed and timers fire; nothing is assumed of the processes.
ExecuteSpec ==
    /\ ExecuteInit /\ [][ExecuteNext]_executeVars
    /\ WF_executeVars(Fail \/ Spawn)
    /\ WF_executeVars(Timeout) /\ WF_executeVars(Exited) /\ WF_executeVars(Return)

---------------------------------------------------------------------------
(***************************************************************************)
(* Properties                                                              *)
(***************************************************************************)

\* An escaped space at the end of the command is lost to trim().
EndsInSpace == style = "escaped" /\ Last(words) # <<>> /\ Last(Last(words)) = " "

\* The parser is the inverse of quoting: whatever words, empty ones and ones full
\* of quotes and backslashes included, are read as they were meant in every way
\* to write them; an operator of the shell that is not quoted is refused.
ParsedAsMeant ==
    (phase = "parsed" /\ ~EndsInSpace) =>
        argv = IF style = "plain" /\ \E i \in DOMAIN words :
                      ToSet(words[i]) \cap UNSUPPORTED_SHELL_SYNTAX # {}
               THEN NoArguments ELSE words

TimeoutKillsGroup ==
    timedOut => \A p \in Processes : process[p] = "running" => p \notin group

OutputIsPrefix == storedBytes = Min({totalBytes, Limit})

\* The limits of a call hold.  Once its time is over nothing of the command's
\* group runs any more, also if the command had started processes and ended
\* itself, and none is started; and what is captured is exactly the first Limit
\* bytes, in whatever chunks they come.
LimitsHold == ExecuteTypeOK /\ TimeoutKillsGroup /\ OutputIsPrefix

\* The output is held open by others than the command.
Held == process[Leader] = "exited" /\ writers # {}

\* A command that hangs, and whatever it started in its group, does not hold up
\* the call: it returns, unless the command is gone and one of its descendants
\* keeps the output open for ever.
CommandReturns == []<>~Held => []<>(phase \in {"returned", "failed"})
=============================================================================
