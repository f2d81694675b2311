------------------------------- MODULE Client -------------------------------
(***************************************************************************)
(* The command line client, packages/cli/src/hooks/use-daemon.ts, and its  *)
(* connections to the adapter of the daemon (Outbox).  A client keeps one  *)
(* socket, opens another two seconds after it was closed, and lets go of   *)
(* the old one at once when its user asks to reconnect; the adapter closes *)
(* a connection when another one opens.                                    *)
(*                                                                         *)
(* A handler of the client or of the adapter is one action.  Between the   *)
(* two ends a connection carries events and texts in order and may break,  *)
(* which loses those under way.  The lane of the runtime is reduced to the *)
(* prompt it awaits.  What is on the screen apart from the events received *)
(* and the prompt to reply to is left out, and so are the hello and the    *)
(* commands, which change nothing else.                                    *)
(***************************************************************************)
EXTENDS Outbox

CONSTANTS Clients,            \* programs, each run again after it was left
          Prompts,            \* the events that ask for a reply
          MaxTexts,           \* texts under way on a connection
          MaxDisturbances     \* broken connections, stops, reconnects by hand, exits

ASSUME ClientAssumption ==
    /\ Prompts \subseteq Events
    /\ None \notin Events \cup Clients
    /\ MaxTexts \in Nat
    /\ MaxDisturbances \in Nat

VARIABLES
    link,                \* connection -> how far it is established
    wire,                \* connection -> events under way to the client
    texts,               \* connection -> texts under way: the prompt each replies to
    owner,               \* connection -> the client whose socket it is, until closed
    readyState,          \* of that socket; "CLOSING" until its close event
    awaiting,            \* the prompt the runtime awaits a reply to, or None
    mounted,             \* not manuallyClosedRef
    socketRef,
    reconnectTimeout,    \* reconnectTimeoutRef is set
    connectionState,
    pendingPrompt,       \* pendingPromptRef
    disturbances,
    \* history
    shown                \* client -> the events it received, in their order

linkVars == <<link, wire, texts, owner, readyState>>
hookVars == <<mounted, socketRef, reconnectTimeout, connectionState, pendingPrompt>>
vars == <<outboxVars, linkVars, awaiting, hookVars, disturbances, shown>>

Live == {"CONNECTING", "OPEN"}

TypeOK ==
    /\ OutboxTypeOK
    /\ link \in [Connections -> {"none", "request", "up", "closed", "broken"}]
    /\ wire \in [Connections -> Seq(Events)]
    /\ texts \in [Connections -> Seq(Prompts \cup {None})]
    /\ owner \in [Connections -> Clients \cup {None}]
    /\ readyState \in [Connections -> Live \cup {"CLOSING", "CLOSED"}]
    /\ awaiting \in Prompts \cup {None}
    /\ mounted \in [Clients -> BOOLEAN]
    /\ socketRef \in [Clients -> Connections \cup {None}]
    /\ reconnectTimeout \in [Clients -> BOOLEAN]
    /\ connectionState \in [Clients -> {"disconnected", "connecting", "connected"}]
    /\ pendingPrompt \in [Clients -> Prompts \cup {None}]
    /\ disturbances \in 0..MaxDisturbances
    /\ shown \in [Clients -> Seq(Events)]

Init ==
    /\ OutboxInit
    /\ link = [s \in Connections |-> "none"]
    /\ wire = [s \in Connections |-> <<>>]
    /\ texts = [s \in Connections |-> <<>>]
    /\ owner = [s \in Connections |-> None]
    /\ readyState = [s \in Connections |-> "CLOSED"]
    /\ awaiting = None
    /\ mounted = [c \in Clients |-> FALSE]
    /\ socketRef = [c \in Clients |-> None]
    /\ reconnectTimeout = [c \in Clients |-> FALSE]
    /\ connectionState = [c \in Clients |-> "disconnected"]
    /\ pendingPrompt = [c \in Clients |-> None]
    /\ disturbances = 0
    /\ shown = [c \in Clients |-> <<>>]

Disturb == disturbances < MaxDisturbances /\ disturbances' = disturbances + 1

---------------------------------------------------------------------------
(***************************************************************************)
(* The adapter's end.                                                      *)
(***************************************************************************)

\* A connection is forgotten once both ends are done with it.
Over(s, ready, opened, how) ==
    IF ready = "CLOSED" /\ s \notin opened /\ how # "request" THEN "none" ELSE how

\* Connection s breaks: what is under way on it is lost.
Breaks(s) ==
    /\ link' = [link EXCEPT ![s] = Over(s, readyState[s], open, "broken")]
    /\ wire' = [wire EXCEPT ![s] = <<>>]
    /\ texts' = [texts EXCEPT ![s] = <<>>]

\* The adapter takes a connection: what is queued goes out on it, and the one
\* it replaces is closed.  The client may have given it up meanwhile.
Accept(s) ==
    /\ link[s] = "request"
    /\ \E sent \in 0..Len(outboundQueue) :
          /\ OpenAndFlush(s, sent)
          /\ wire' = [wire EXCEPT ![s] =
                         IF readyState[s] = "CONNECTING" /\ sent = Len(outboundQueue)
                         THEN outboundQueue ELSE <<>>]
          /\ IF sent = Len(outboundQueue) THEN UNCHANGED disturbances ELSE Disturb
          /\ link' = [r \in Connections |->
                         IF r = s
                         THEN IF readyState[s] # "CONNECTING" THEN "closed"
                              ELSE IF sent = Len(outboundQueue) THEN "up" ELSE "broken"
                         ELSE IF r = socket /\ link[r] = "up" THEN "closed"
                         ELSE link[r]]
    /\ UNCHANGED <<texts, owner, readyState, awaiting, hookVars, shown>>

\* Nobody listens.
Refuse(s) ==
    /\ link[s] = "request"
    /\ server = "stopped"
    /\ Breaks(s)
    /\ UNCHANGED <<outboxVars, owner, readyState, awaiting, hookVars,
                   disturbances, shown>>

\* The runtime sends an event, a prompt only if it awaits no other.  A send
\* that throws finds the connection broken; one on a connection that is, and
\* that nobody noticed yet, is lost.
Emit(e) ==
    /\ server = "up"
    /\ e \in Prompts => awaiting = None
    /\ enqueueOrSend(e)
    /\ awaiting' = IF e \in Prompts THEN e ELSE awaiting
    /\ IF delivery'[e] # "sent" /\ socket # None
       THEN Disturb /\ Breaks(socket)
       ELSE /\ wire' = IF delivery'[e] = "sent" /\ link[socket] = "up"
                       THEN [wire EXCEPT ![socket] = Append(@, e)] ELSE wire
            /\ UNCHANGED <<disturbances, link, texts>>
    /\ UNCHANGED <<owner, readyState, hookVars, shown>>

\* Faulty variant: a text answers the awaited prompt only if it names it.
ConsumesNamedOnly(id) == awaiting # None /\ id = awaiting

\* shouldConsumePendingUserResponseRequest
Consumes(id) == awaiting # None /\ id \in {None, awaiting}

\* A text reaches the runtime: as the reply to the awaited prompt, or as a
\* message for the session.
TextArrives(s) ==
    /\ s \in open
    /\ texts[s] # <<>>
    /\ texts' = [texts EXCEPT ![s] = Tail(@)]
    /\ awaiting' = IF Consumes(Head(texts[s])) THEN None ELSE awaiting
    /\ UNCHANGED <<outboxVars, link, wire, owner, readyState, hookVars, disturbances, shown>>

\* The awaited prompt times out, or its session ends.
PromptTimesOut ==
    /\ awaiting # None
    /\ awaiting' = None
    /\ UNCHANGED <<outboxVars, linkVars, hookVars, disturbances, shown>>

\* The close event of the adapter.
ServerSeesClose(s) ==
    /\ link[s] \in {"closed", "broken"}
    /\ texts[s] = <<>>
    /\ Close(s)
    /\ link' = [link EXCEPT ![s] = Over(s, readyState[s], open \ {s}, @)]
    /\ UNCHANGED <<wire, texts, owner, readyState, awaiting, hookVars, disturbances, shown>>

\* The daemon stops or crashes, and with it every connection.
DaemonStops ==
    /\ Stop
    /\ Disturb
    /\ link' = [s \in Connections |->
                   Over(s, readyState[s], {},
                        IF link[s] \in {"up", "closed"} THEN "broken" ELSE link[s])]
    /\ wire' = [s \in Connections |-> <<>>]
    /\ texts' = [s \in Connections |-> <<>>]
    /\ awaiting' = None
    /\ UNCHANGED <<owner, readyState, hookVars, shown>>

DaemonStarts ==
    /\ server = "stopped"
    /\ server' = "up"
    /\ UNCHANGED <<socket, outboundQueue, outboundQueueBytes, delivery, open, failed, newest,
                   stamp, submitted, linkVars, awaiting, hookVars, disturbances, shown>>

\* The network fails.
Break(s) ==
    /\ link[s] \in {"request", "up"}
    /\ Disturb
    /\ Breaks(s)
    /\ UNCHANGED <<outboxVars, owner, readyState, awaiting, hookVars, shown>>

---------------------------------------------------------------------------
(***************************************************************************)
(* The client's end.                                                       *)
(***************************************************************************)

Free(s) == readyState[s] = "CLOSED" /\ link[s] = "none"

\* new WebSocket(...), by connect() of client c.
OpenSocket(c, s, ready) ==
    /\ Free(s)
    /\ link' = [link EXCEPT ![s] = "request"]
    /\ readyState' = [ready EXCEPT ![s] = "CONNECTING"]
    /\ owner' = [owner EXCEPT ![s] = c]
    /\ socketRef' = [socketRef EXCEPT ![c] = s]
    /\ connectionState' = [connectionState EXCEPT ![c] = "connecting"]

\* The effect of the component: connect().  A new run starts with a new hook.
Mount(c) ==
    /\ ~mounted[c]
    /\ mounted' = [mounted EXCEPT ![c] = TRUE]
    /\ pendingPrompt' = [pendingPrompt EXCEPT ![c] = None]
    /\ \E s \in Connections : OpenSocket(c, s, readyState)
    /\ UNCHANGED <<outboxVars, wire, texts, reconnectTimeout, awaiting, disturbances, shown>>

\* close() of a socket that is connecting or open.
CloseSocket(s) == [readyState EXCEPT ![s] = IF @ \in Live THEN "CLOSING" ELSE @]
LinkOfClosed(s) == IF readyState[s] \in Live /\ link[s] = "up" THEN "closed" ELSE link[s]

\* The cleanup of the effect; what the hook remembers ends with it.
Unmount(c) ==
    /\ mounted[c]
    /\ Disturb
    /\ mounted' = [mounted EXCEPT ![c] = FALSE]
    /\ reconnectTimeout' = [reconnectTimeout EXCEPT ![c] = FALSE]
    /\ socketRef' = [socketRef EXCEPT ![c] = None]
    /\ connectionState' = [connectionState EXCEPT ![c] = "disconnected"]
    /\ pendingPrompt' = [pendingPrompt EXCEPT ![c] = None]
    /\ IF socketRef[c] = None
       THEN UNCHANGED <<readyState, link>>
       ELSE /\ readyState' = CloseSocket(socketRef[c])
            /\ link' = [link EXCEPT ![socketRef[c]] = LinkOfClosed(socketRef[c])]
    /\ UNCHANGED <<outboxVars, wire, texts, owner, awaiting, shown>>

\* connect() of client c, with the socket it has now: returns at once if that
\* one is alive.
connect(c, ref, ready) ==
    IF ref # None /\ ready[ref] \in Live
    THEN /\ readyState' = ready
         /\ socketRef' = [socketRef EXCEPT ![c] = ref]
         /\ UNCHANGED <<link, owner, connectionState>>
    ELSE \E s \in Connections : OpenSocket(c, s, ready)

\* The callback of scheduleReconnect.
ReconnectTimerFires(c) ==
    /\ reconnectTimeout[c]
    /\ reconnectTimeout' = [reconnectTimeout EXCEPT ![c] = FALSE]
    /\ connect(c, socketRef[c], readyState)
    /\ UNCHANGED <<outboxVars, wire, texts, mounted, pendingPrompt, awaiting, disturbances, shown>>

\* reconnect(): the old socket is let go of before its close event.
Reconnect(c) ==
    /\ mounted[c]
    /\ Disturb
    /\ reconnectTimeout' = [reconnectTimeout EXCEPT ![c] = FALSE]
    /\ \E s \in Connections :
          /\ Free(s)
          /\ LET old == socketRef[c] IN
             /\ link' = [r \in Connections |->
                            IF r = s THEN "request"
                            ELSE IF r = old THEN LinkOfClosed(r) ELSE link[r]]
             /\ readyState' = [r \in Connections |->
                                  IF r = s THEN "CONNECTING"
                                  ELSE IF r = old THEN CloseSocket(r)[r] ELSE readyState[r]]
          /\ owner' = [owner EXCEPT ![s] = c]
          /\ socketRef' = [socketRef EXCEPT ![c] = s]
          /\ connectionState' = [connectionState EXCEPT ![c] = "connecting"]
    /\ UNCHANGED <<outboxVars, wire, texts, mounted, pendingPrompt, awaiting, shown>>

Current(s) == owner[s] # None /\ socketRef[owner[s]] = s

OnOpen(s) ==
    /\ readyState[s] = "CONNECTING"
    /\ link[s] \in {"up", "closed"}
    /\ readyState' = [readyState EXCEPT ![s] = "OPEN"]
    /\ connectionState' = IF Current(s) THEN [connectionState EXCEPT ![owner[s]] = "connected"]
                          ELSE connectionState
    /\ UNCHANGED <<outboxVars, link, wire, texts, owner, awaiting, mounted, socketRef,
                   reconnectTimeout, pendingPrompt, disturbances, shown>>

\* A prompt takes the place of the one pending.
handleServerMessage(c, e) ==
    /\ shown' = [shown EXCEPT ![c] = Append(@, e)]
    /\ pendingPrompt' = IF e \in Prompts THEN [pendingPrompt EXCEPT ![c] = e] ELSE pendingPrompt

\* Faulty variant: events of a socket the client let go of count as well.
OnMessageOfAny(s) ==
    /\ readyState[s] \in {"OPEN", "CLOSING"}
    /\ wire[s] # <<>>
    /\ wire' = [wire EXCEPT ![s] = Tail(@)]
    /\ handleServerMessage(owner[s], Head(wire[s]))
    /\ UNCHANGED <<outboxVars, link, texts, owner, readyState, awaiting, mounted, socketRef,
                   reconnectTimeout, connectionState, disturbances>>

\* An event of a socket that is not the current one is ignored.
OnMessage(s) ==
    /\ readyState[s] \in {"OPEN", "CLOSING"}
    /\ wire[s] # <<>>
    /\ wire' = [wire EXCEPT ![s] = Tail(@)]
    /\ IF Current(s) THEN handleServerMessage(owner[s], Head(wire[s]))
       ELSE UNCHANGED <<shown, pendingPrompt>>
    /\ UNCHANGED <<outboxVars, link, texts, owner, readyState, awaiting, mounted, socketRef,
                   reconnectTimeout, connectionState, disturbances>>

OnError(s) ==
    /\ readyState[s] \in Live
    /\ link[s] = "broken"
    /\ readyState' = [readyState EXCEPT ![s] = "CLOSING"]
    /\ connectionState' = IF Current(s) THEN [connectionState EXCEPT ![owner[s]] = "disconnected"]
                          ELSE connectionState
    /\ UNCHANGED <<outboxVars, link, wire, texts, owner, awaiting, mounted, socketRef,
                   reconnectTimeout, pendingPrompt, disturbances, shown>>

\* Faulty variant: only a connection that was established is opened again.
scheduleReconnectIfConnected(c) ==
    reconnectTimeout' = [reconnectTimeout EXCEPT
                            ![c] = @ \/ (mounted[c] /\ connectionState[c] = "connected")]

\* scheduleReconnect
scheduleReconnect(c) == reconnectTimeout' = [reconnectTimeout EXCEPT ![c] = @ \/ mounted[c]]

\* Faulty variant: the close event of a socket the client let go of counts as
\* that of the current one.
OnCloseOfAny(s) ==
    /\ \/ readyState[s] = "CLOSING"
       \/ readyState[s] = "OPEN" /\ link[s] = "closed" /\ wire[s] = <<>>
    /\ readyState' = [readyState EXCEPT ![s] = "CLOSED"]
    /\ owner' = [owner EXCEPT ![s] = None]
    /\ link' = [link EXCEPT ![s] = Over(s, "CLOSED", open, @)]
    /\ wire' = [wire EXCEPT ![s] = <<>>]
    /\ socketRef' = [socketRef EXCEPT ![owner[s]] = None]
    /\ connectionState' = [connectionState EXCEPT ![owner[s]] = "disconnected"]
    /\ scheduleReconnect(owner[s])
    /\ UNCHANGED <<outboxVars, texts, awaiting, mounted, pendingPrompt, disturbances, shown>>

\* A close begun by the client, a broken connection, or one the adapter closed
\* after everything it had sent.
OnClose(s) ==
    /\ \/ readyState[s] = "CLOSING"
       \/ readyState[s] = "OPEN" /\ link[s] = "closed" /\ wire[s] = <<>>
    /\ readyState' = [readyState EXCEPT ![s] = "CLOSED"]
    /\ owner' = [owner EXCEPT ![s] = None]
    /\ link' = [link EXCEPT ![s] = Over(s, "CLOSED", open, @)]
    /\ wire' = [wire EXCEPT ![s] = <<>>]
    /\ IF Current(s)
       THEN /\ socketRef' = [socketRef EXCEPT ![owner[s]] = None]
            /\ connectionState' = [connectionState EXCEPT ![owner[s]] = "disconnected"]
            /\ scheduleReconnect(owner[s])
       ELSE UNCHANGED <<socketRef, connectionState, reconnectTimeout>>
    /\ UNCHANGED <<outboxVars, texts, awaiting, mounted, pendingPrompt, disturbances, shown>>

\* sendMessage(): the pending prompt is forgotten before the socket is looked
\* at; without an open one the text is lost, and its user told so.
SendMessage(c) ==
    /\ mounted[c]
    /\ pendingPrompt' = [pendingPrompt EXCEPT ![c] = None]
    /\ LET s == socketRef[c] IN
       IF s # None /\ readyState[s] = "OPEN" /\ link[s] = "up"
       THEN /\ Len(texts[s]) < MaxTexts
            /\ texts' = [texts EXCEPT ![s] = Append(@, pendingPrompt[c])]
       ELSE UNCHANGED texts
    /\ UNCHANGED <<outboxVars, link, wire, owner, readyState, awaiting, mounted, socketRef,
                   reconnectTimeout, connectionState, disturbances, shown>>

ClearMessages(c) ==
    /\ mounted[c]
    /\ pendingPrompt' = [pendingPrompt EXCEPT ![c] = None]
    /\ UNCHANGED <<outboxVars, linkVars, awaiting, mounted, socketRef, reconnectTimeout,
                   connectionState, disturbances, shown>>

---------------------------------------------------------------------------
AdapterStep ==
    \/ \E s \in Connections : Accept(s) \/ Refuse(s) \/ TextArrives(s) \/ ServerSeesClose(s) \/ Break(s)
    \/ \E e \in Events : Emit(e)
    \/ PromptTimesOut \/ DaemonStops \/ DaemonStarts

ClientStep ==
    \/ \E c \in Clients :
          \/ Mount(c) \/ Unmount(c) \/ ReconnectTimerFires(c) \/ Reconnect(c)
          \/ SendMessage(c) \/ ClearMessages(c)
    \/ \E s \in Connections : OnOpen(s) \/ OnMessage(s) \/ OnError(s) \/ OnClose(s)

Next == AdapterStep \/ ClientStep

Spec == Init /\ [][Next]_vars

\* Requests are answered, the events of a socket are delivered, timers fire, and
\* whoever runs the daemon starts it again.
LinkFairness ==
    /\ \A s \in Connections :
          /\ WF_vars(Accept(s)) /\ WF_vars(Refuse(s))
          /\ WF_vars(TextArrives(s)) /\ WF_vars(ServerSeesClose(s))
          /\ WF_vars(OnOpen(s)) /\ WF_vars(OnMessage(s))
          /\ WF_vars(OnError(s)) /\ WF_vars(OnClose(s))
    /\ \A c \in Clients : WF_vars(ReconnectTimerFires(c))
    /\ WF_vars(DaemonStarts)

\* A user who is connected again and again types something now and then.
TypesConnected(c) == SendMessage(c) /\ texts' # texts

FairSpec == Spec /\ LinkFairness /\ \A c \in Clients : SF_vars(TypesConnected(c))

---------------------------------------------------------------------------
(***************************************************************************)
(* Properties                                                              *)
(***************************************************************************)

OneLiveSocket ==
    \A s \in Connections : readyState[s] \in Live => Current(s)

NeverStranded ==
    \A c \in Clients : mounted[c] =>
        IF socketRef[c] = None THEN reconnectTimeout[c]
        ELSE ~reconnectTimeout[c] /\ owner[socketRef[c]] = c

\* A client has one living socket at most, the current one: one it let go of is
\* closed, not left open to take events that nobody will see.  And a running
\* client always has a way back to the daemon: a socket that lives or whose
\* close event is still to come, or else the timer.
OneWayToTheDaemon == OneLiveSocket /\ NeverStranded

\* What a client shows it shows once and in the order in which the runtime
\* sent it, over lost connections, reconnects and restarts.
ShownInOrder ==
    \A c \in Clients : \A i, j \in 1..Len(shown[c]) :
        i < j => stamp[shown[c][i]] < stamp[shown[c][j]]

Alone(c) == mounted[c] /\ \A d \in Clients \ {c} : ~mounted[d]

\* A client that runs alone ends up connected, and both ends mean the same
\* connection: after the last disturbance nothing replaces or closes it.
StaysConnected ==
    \A c \in Clients :
        <>[]Alone(c) => <>[](connectionState[c] = "connected" /\ socket = socketRef[c])

\* A prompt is answered in the end if the user of the only client keeps typing:
\* also if its message was lost, or the reply was typed while disconnected and
\* the client has forgotten the prompt, since the next text, which names none,
\* is taken for the answer.
PromptIsAnswered ==
    \A c \in Clients, p \in Prompts : <>[]Alone(c) => []<>(awaiting # p)
=============================================================================
