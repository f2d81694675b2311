------------------------------- MODULE Outbox -------------------------------
(***************************************************************************)
(* The outgoing half of the WebSocket adapter, src/communication/          *)
(* websocket.ts: one current connection, and a bounded queue of the events *)
(* that could not be sent.  Every handler runs to its end without an       *)
(* await, so each one is a single action.                                  *)
(*                                                                         *)
(* A send may throw at any time.  One that does not throw counts as        *)
(* delivered, as it does in the code.                                      *)
(***************************************************************************)
EXTENDS Naturals, Sequences, SequencesExt, Sums

CONSTANTS Events,               \* outgoing messages and stream chunks
          Connections,          \* client connections; an id may be used again
          SizeBytes,            \* event -> length of its serialized form
          MaxBufferedMessages,
          MaxBufferedBytes,
          None                  \* no connection

ASSUME OutboxAssumption ==
    /\ SizeBytes \in [Events -> Nat]
    /\ MaxBufferedMessages \in Nat
    /\ MaxBufferedBytes \in Nat
    /\ None \notin Connections

VARIABLES
    socket,              \* the current connection, or None
    outboundQueue,       \* events waiting for a connection, oldest first
    outboundQueueBytes,
    delivery,            \* event -> what its deliveryDeferred says
    server,              \* "up", or "stopped" by stop()
    open,                \* connections whose close event has not arrived
    failed,              \* open connections on which a send threw
    \* history
    newest,              \* the connection opened last, until it closes
    stamp,               \* event -> position in the order of submission
    submitted            \* how many events were submitted

outboxVars == <<socket, outboundQueue, outboundQueueBytes, delivery, server,
                open, failed, newest, stamp, submitted>>

Settled == {"sent", "dropped", "stopped"}

OutboxTypeOK ==
    /\ open \in SUBSET Connections
    /\ failed \in SUBSET open
    /\ socket \in open \cup {None}
    /\ newest \in open \cup {None}
    /\ outboundQueue \in Seq(Events)
    /\ outboundQueueBytes \in Nat
    /\ delivery \in [Events -> {"new", "buffered"} \cup Settled]
    /\ server \in {"up", "stopped"}
    /\ stamp \in [Events -> Nat]
    /\ submitted \in Nat

OutboxInit ==
    /\ socket = None
    /\ outboundQueue = <<>>
    /\ outboundQueueBytes = 0
    /\ delivery = [e \in Events |-> "new"]
    /\ server = "up"
    /\ open = {}
    /\ failed = {}
    /\ newest = None
    /\ stamp = [e \in Events |-> 0]
    /\ submitted = 0

---------------------------------------------------------------------------
(***************************************************************************)
(* The queue.                                                              *)
(***************************************************************************)

BytesOf(queue) == Total([i \in 1..Len(queue) |-> SizeBytes[queue[i]]])

Firsts(queue, n) == {queue[i] : i \in 1..n}
Rest(queue, n) == SubSeq(queue, n + 1, Len(queue))

\* The byte count once the first n events are shifted off; it never goes
\* below zero.
BytesWithout(queue, bytes, n) ==
    LET shifted == BytesOf(SubSeq(queue, 1, n)) IN
    IF shifted <= bytes THEN bytes - shifted ELSE 0

\* Without its first n events the queue is within the limits.
Fits(queue, bytes, n) ==
    /\ Len(queue) - n <= MaxBufferedMessages
    /\ BytesWithout(queue, bytes, n) <= MaxBufferedBytes

\* Faulty variant: trims one event too many.
TrimTooMany(queue, bytes, n) ==
    /\ n = Len(queue) \/ (n > 0 /\ Fits(queue, bytes, n - 1))
    /\ \A k \in 0..n-1 : k = 0 \/ ~Fits(queue, bytes, k - 1)

\* trimQueueToFit shifts off n events: no more than it takes.
trimQueueToFit(queue, bytes, n) ==
    /\ n = Len(queue) \/ Fits(queue, bytes, n)
    /\ \A k \in 0..n-1 : ~Fits(queue, bytes, k)

\* An event larger than the whole buffer drops every event, itself included.
enqueueBufferedEvent(e) ==
    LET queue == Append(outboundQueue, e)
        bytes == outboundQueueBytes + SizeBytes[e]
    IN \E n \in 0..Len(queue) :
          /\ trimQueueToFit(queue, bytes, n)
          /\ outboundQueue' = Rest(queue, n)
          /\ outboundQueueBytes' = BytesWithout(queue, bytes, n)
          /\ delivery' = [f \in Events |->
                             IF f \in Firsts(queue, n) THEN "dropped"
                             ELSE IF f = e THEN "buffered"
                             ELSE delivery[f]]

\* send() and sendStreamChunk(): at once, or into the queue if there is no
\* connection or it turns out to be broken.
enqueueOrSend(e) ==
    /\ delivery[e] = "new"
    /\ stamp' = [stamp EXCEPT ![e] = submitted + 1]
    /\ submitted' = submitted + 1
    /\ \/ /\ socket # None
          /\ delivery' = [delivery EXCEPT ![e] = "sent"]
          /\ UNCHANGED <<socket, outboundQueue, outboundQueueBytes, failed>>
       \/ /\ enqueueBufferedEvent(e)
          /\ socket' = None
          /\ failed' = IF socket = None THEN failed ELSE failed \cup {socket}
    /\ UNCHANGED <<server, open, newest>>

---------------------------------------------------------------------------
(***************************************************************************)
(* Connections.                                                            *)
(***************************************************************************)

\* Faulty variant: the event whose send threw is put back at the end.
FlushRequeuesLast(sent) ==
    /\ outboundQueue' = IF sent = Len(outboundQueue) THEN <<>>
                        ELSE Append(Rest(outboundQueue, sent + 1), outboundQueue[sent + 1])
    /\ outboundQueueBytes' = BytesWithout(outboundQueue, outboundQueueBytes, sent)
    /\ delivery' = [e \in Events |->
                       IF e \in Firsts(outboundQueue, sent) THEN "sent" ELSE delivery[e]]

\* Faulty variant: the event put back is not counted again.
FlushForgetsBytes(sent) ==
    /\ outboundQueue' = Rest(outboundQueue, sent)
    /\ outboundQueueBytes' =
          BytesWithout(outboundQueue, outboundQueueBytes,
                       IF sent = Len(outboundQueue) THEN sent ELSE sent + 1)
    /\ delivery' = [e \in Events |->
                       IF e \in Firsts(outboundQueue, sent) THEN "sent" ELSE delivery[e]]

\* flushQueuedEvents sends from the front; the event whose send throws is put
\* back in front.
flushQueuedEvents(sent) ==
    /\ outboundQueue' = Rest(outboundQueue, sent)
    /\ outboundQueueBytes' = BytesWithout(outboundQueue, outboundQueueBytes, sent)
    /\ delivery' = [e \in Events |->
                       IF e \in Firsts(outboundQueue, sent) THEN "sent" ELSE delivery[e]]

\* A client connects: it replaces the current connection, gets the hello (best
\* effort) and then what is queued, the first `sent` events of it if one of
\* the sends throws.
OpenAndFlush(c, sent) ==
    /\ server = "up"
    /\ c \in Connections \ open
    /\ open' = open \cup {c}
    /\ newest' = c
    /\ flushQueuedEvents(sent)
    /\ IF sent = Len(outboundQueue)
       THEN socket' = c /\ failed' = failed
       ELSE socket' = None /\ failed' = failed \cup {c}
    /\ UNCHANGED <<server, stamp, submitted>>

Open(c) == \E sent \in 0..Len(outboundQueue) : OpenAndFlush(c, sent)

\* The close event of a connection: of the current one, or of one that was
\* replaced long before.
Close(c) ==
    /\ c \in open
    /\ open' = open \ {c}
    /\ failed' = failed \ {c}
    /\ newest' = IF newest = c THEN None ELSE newest
    /\ socket' = IF socket = c THEN None ELSE socket
    /\ UNCHANGED <<outboundQueue, outboundQueueBytes, delivery, server, stamp, submitted>>

\* The response to a command of connection c cannot be sent.
CommandResponseFails(c) ==
    /\ c \in open \ failed
    /\ failed' = failed \cup {c}
    /\ socket' = IF socket = c THEN None ELSE socket
    /\ UNCHANGED <<outboundQueue, outboundQueueBytes, delivery, server, open, newest,
                   stamp, submitted>>

\* stop(): what is still queued is rejected.  An event sent later is queued.
Stop ==
    /\ server = "up"
    /\ server' = "stopped"
    /\ delivery' = [e \in Events |->
                       IF e \in Firsts(outboundQueue, Len(outboundQueue))
                       THEN "stopped" ELSE delivery[e]]
    /\ outboundQueue' = <<>>
    /\ outboundQueueBytes' = BytesWithout(outboundQueue, outboundQueueBytes, Len(outboundQueue))
    /\ socket' = None
    /\ open' = {}
    /\ failed' = {}
    /\ newest' = None
    /\ UNCHANGED <<stamp, submitted>>

ConnectionStep ==
    \E c \in Connections : Open(c) \/ Close(c) \/ CommandResponseFails(c)

---------------------------------------------------------------------------
(***************************************************************************)
(* Properties                                                              *)
(***************************************************************************)

Buffered == {e \in Events : delivery[e] = "buffered"}

\* Nothing waits in the queue while there is a connection to send it on: a
\* broken connection is given up before anything is queued behind it, and a
\* new one is flushed before anything else is sent.  An event left behind
\* would sit there until the next reconnect, although the client is there.
NothingWaitsWhileConnected == socket # None => outboundQueue = <<>>

\* Events reach the client in the order they were submitted, across failing
\* sends, flushes cut short and reconnects: nothing that was sent was
\* submitted after something that still waits.
NoOvertaking ==
    /\ \A i, j \in 1..Len(outboundQueue) :
          i < j => stamp[outboundQueue[i]] < stamp[outboundQueue[j]]
    /\ \A e \in Buffered, f \in Events :
          delivery[f] = "sent" => stamp[f] < stamp[e]

\* The queue holds exactly the events whose delivery is open, each once; its
\* byte count is that of its events; both limits hold; and it is empty while
\* there is a connection.
BufferAccounted ==
    /\ Firsts(outboundQueue, Len(outboundQueue)) = Buffered
    /\ IsInjective(outboundQueue)
    /\ outboundQueueBytes = BytesOf(outboundQueue)
    /\ Len(outboundQueue) <= MaxBufferedMessages
    /\ outboundQueueBytes <= MaxBufferedBytes
    /\ NothingWaitsWhileConnected

\* An overflow costs the oldest events and no more than it takes: with the
\* youngest of the events a step drops, the buffer would be over a limit.
LosesOldestOnly ==
    [][\A e \in Events :
          LET lost == {f \in Events : delivery[f] # "dropped" /\ delivery'[f] = "dropped"} IN
          e \in lost =>
             /\ \A f \in Events : delivery'[f] = "buffered" => stamp'[e] < stamp'[f]
             /\ (\A f \in lost : stamp'[f] <= stamp'[e]) =>
                   \/ Len(outboundQueue') + 1 > MaxBufferedMessages
                   \/ outboundQueueBytes' + SizeBytes[e] > MaxBufferedBytes]_outboxVars

\* The client that connected last is the one that is served, as long as its
\* connection is up and took what it was sent: the late close event of the
\* connection it replaced, or a failure there, does not cut it off.
LatestClientIsServed == newest \in open \ failed => socket = newest
=============================================================================
