---------------------------- MODULE OutboxProofs ----------------------------
(***************************************************************************)
(* What every step of the adapter keeps, for any set of events and         *)
(* connections and any limits of the buffer.                               *)
(***************************************************************************)
EXTENDS Outbox, SequenceLemmas

OutboxStep ==
    \/ \E e \in Events : enqueueOrSend(e)
    \/ ConnectionStep
    \/ Stop
    \/ UNCHANGED outboxVars

\* The types, without that of the byte count, which follows from BytesInv.
OutboxTyped ==
    /\ open \in SUBSET Connections
    /\ failed \in SUBSET open
    /\ socket \in open \cup {None}
    /\ newest \in open \cup {None}
    /\ outboundQueue \in Seq(Events)
    /\ delivery \in [Events -> {"new", "buffered"} \cup Settled]
    /\ stamp \in [Events -> Nat]
    /\ submitted \in Nat

\* The queue holds the buffered events by age, and all that was sent is older.
QueueInv ==
    /\ \A i \in 1..Len(outboundQueue) : delivery[outboundQueue[i]] = "buffered"
    /\ \A e \in Buffered : \E i \in 1..Len(outboundQueue) : outboundQueue[i] = e
    /\ \A e \in Events : stamp[e] <= submitted
    /\ NoOvertaking

OutboxInv ==
    /\ OutboxTyped
    /\ QueueInv
    /\ NothingWaitsWhileConnected
    /\ LatestClientIsServed

---------------------------------------------------------------------------
LEMMA FirstsAre ==
    ASSUME NEW S, NEW q \in Seq(S), NEW n \in 0..Len(q)
    PROVE  \A e : e \in Firsts(q, n) <=> \E i \in 1..n : q[i] = e
  BY DEF Firsts

LEMMA RestIs ==
    ASSUME NEW S, NEW q \in Seq(S), NEW n \in 0..Len(q)
    PROVE  /\ Rest(q, n) \in Seq(S)
           /\ Len(Rest(q, n)) = Len(q) - n
           /\ \A i \in 1..Len(q) - n : Rest(q, n)[i] = q[n + i]
           /\ n = Len(q) => Rest(q, n) = <<>>
  <1>1. /\ Len(q) \in Nat
        /\ \A i \in n+1 .. Len(q) : q[i] \in S
    BY ElementOfSeq
  <1>2. /\ Rest(q, n) \in Seq(S)
        /\ Len(Rest(q, n)) = IF n + 1 <= Len(q) THEN Len(q) - (n + 1) + 1 ELSE 0
        /\ \A i \in 1 .. Len(q) - (n + 1) + 1 : Rest(q, n)[i] = q[(n + 1) + i - 1]
    BY <1>1, SubSeqProperties DEF Rest
  <1>3. Len(Rest(q, n)) = Len(q) - n
    BY <1>1, <1>2
  <1>4. \A i \in 1..Len(q) - n : (n + 1) + i - 1 = n + i
    BY <1>1
  <1>5. \A i \in 1..Len(q) - n : Rest(q, n)[i] = q[n + i]
    BY <1>1, <1>2, <1>4
  <1>6. n = Len(q) => Rest(q, n) = <<>>
    BY <1>1, <1>2, <1>3, EmptySeq
  <1> QED
    BY <1>2, <1>3, <1>5, <1>6

LEMMA AppendIs ==
    ASSUME NEW S, NEW q \in Seq(S), NEW e \in S
    PROVE  /\ Append(q, e) \in Seq(S)
           /\ Len(Append(q, e)) = Len(q) + 1
           /\ \A i \in 1..Len(q) : Append(q, e)[i] = q[i]
           /\ Append(q, e)[Len(q) + 1] = e
  BY AppendProperties

\* The queue q is in the order of the stamps st.
Sorted(q, st) == \A i, j \in 1..Len(q) : i < j => st[q[i]] < st[q[j]]

\* Events in a queue ordered by age are distinct.
LEMMA OrderedIsInjective ==
    ASSUME NEW q \in Seq(Events), NEW st \in [Events -> Nat],
           Sorted(q, st)
    PROVE  \A i, j \in 1..Len(q) : q[i] = q[j] => i = j
  <1> SUFFICES ASSUME NEW i \in 1..Len(q), NEW j \in 1..Len(q), q[i] = q[j], i < j
               PROVE  FALSE
    <2>1. Len(q) \in Nat
      BY LenProperties
    <2> QED
      BY <2>1
  <1>1. q[i] \in Events
    BY ElementOfSeq
  <1>2. st[q[i]] \in Nat /\ st[q[i]] < st[q[i]]
    BY <1>1 DEF Sorted
  <1> QED
    BY <1>2

\* Shifting off the first n events of such a queue leaves the others, in order.
LEMMA RestIsOrdered ==
    ASSUME NEW q \in Seq(Events), NEW st \in [Events -> Nat], NEW n \in 0..Len(q),
           Sorted(q, st)
    PROVE  /\ Sorted(Rest(q, n), st)
           /\ \A i \in 1..Len(Rest(q, n)) :
                 /\ Rest(q, n)[i] \in Events \ Firsts(q, n)
                 /\ \E k \in 1..Len(q) : q[k] = Rest(q, n)[i]
           /\ \A k \in 1..Len(q) :
                 q[k] \in Firsts(q, n) \/ \E i \in 1..Len(Rest(q, n)) : Rest(q, n)[i] = q[k]
  <1>1. Len(q) \in Nat
    BY LenProperties
  <1>2. /\ Len(Rest(q, n)) = Len(q) - n
        /\ \A i \in 1..Len(q) - n : Rest(q, n)[i] = q[n + i]
    BY RestIs
  <1>3. \A i \in 1..Len(q) - n : n + i \in 1..Len(q) /\ n + i \notin 1..n
    BY <1>1
  <1>4. ASSUME NEW i \in 1..Len(Rest(q, n)), NEW j \in 1..Len(Rest(q, n)), i < j
        PROVE  st[Rest(q, n)[i]] < st[Rest(q, n)[j]]
    <2>1. n + i \in 1..Len(q) /\ n + j \in 1..Len(q) /\ n + i < n + j
      BY <1>1, <1>2, <1>3, <1>4
    <2>2. st[q[n + i]] < st[q[n + j]]
      BY <2>1 DEF Sorted
    <2> QED
      BY <1>2, <2>2
  <1>5. ASSUME NEW i \in 1..Len(Rest(q, n))
        PROVE  /\ Rest(q, n)[i] \in Events \ Firsts(q, n)
               /\ \E k \in 1..Len(q) : q[k] = Rest(q, n)[i]
    <2>1. Rest(q, n)[i] = q[n + i] /\ n + i \in 1..Len(q) /\ n + i \notin 1..n
      BY <1>2, <1>3
    <2>2. q[n + i] \in Events
      BY <2>1, ElementOfSeq
    <2>3. \A k \in 1..n : k \in 1..Len(q)
      BY <1>1
    <2>4. \A k \in 1..Len(q) : q[k] = q[n + i] => k = n + i
      BY <2>1, OrderedIsInjective
    <2>5. ~ \E k \in 1..n : q[k] = q[n + i]
      BY <2>1, <2>3, <2>4
    <2>6. q[n + i] \notin Firsts(q, n)
      BY <2>5, FirstsAre
    <2> QED
      BY <2>1, <2>2, <2>6
  <1>6. ASSUME NEW k \in 1..Len(q)
        PROVE  q[k] \in Firsts(q, n) \/ \E i \in 1..Len(Rest(q, n)) : Rest(q, n)[i] = q[k]
    <2>1. CASE k \in 1..n
      BY <2>1, FirstsAre
    <2>2. CASE k \notin 1..n
      <3>1. k - n \in 1..Len(q) - n /\ n + (k - n) = k
        BY <1>1, <2>2
      <3>2. Rest(q, n)[k - n] = q[k]
        BY <1>2, <3>1
      <3> QED
        BY <1>2, <3>1, <3>2
    <2> QED
      BY <2>1, <2>2
  <1> QED
    BY <1>4, <1>5, <1>6 DEF Sorted

---------------------------------------------------------------------------
\* The event at its end makes a queue of older ones longer, and keeps it sorted.
LEMMA AppendIsOrdered ==
    ASSUME NEW q \in Seq(Events), NEW st \in [Events -> Nat], NEW e \in Events,
           Sorted(q, st),
           \A i \in 1..Len(q) : st[q[i]] < st[e]
    PROVE  Sorted(Append(q, e), st)
  <1>1. Len(q) \in Nat
    BY LenProperties
  <1>2. /\ Len(Append(q, e)) = Len(q) + 1
        /\ \A i \in 1..Len(q) : Append(q, e)[i] = q[i]
        /\ Append(q, e)[Len(q) + 1] = e
    BY AppendIs
  <1> SUFFICES ASSUME NEW i \in 1..Len(q) + 1, NEW j \in 1..Len(q) + 1, i < j
               PROVE  st[Append(q, e)[i]] < st[Append(q, e)[j]]
    BY <1>2 DEF Sorted
  <1>3. i \in 1..Len(q)
    BY <1>1
  <1>4. CASE j \in 1..Len(q)
    BY <1>2, <1>3, <1>4 DEF Sorted
  <1>5. CASE j = Len(q) + 1
    BY <1>2, <1>3, <1>5
  <1>6. j \in 1..Len(q) \/ j = Len(q) + 1
    BY <1>1
  <1> QED
    BY <1>4, <1>5, <1>6

\* Connections: only the latest one is current, and only with an empty queue.
LEMMA SendKeepsConnections ==
    ASSUME OutboxInv, NEW e \in Events, enqueueOrSend(e)
    PROVE  /\ open' \in SUBSET Connections
           /\ failed' \in SUBSET open'
           /\ socket' \in open' \cup {None}
           /\ newest' \in open' \cup {None}
           /\ NothingWaitsWhileConnected' /\ LatestClientIsServed'
  <1>1. /\ NothingWaitsWhileConnected'
        /\ UNCHANGED <<open, newest>>
    BY DEF enqueueOrSend, OutboxInv, NothingWaitsWhileConnected
  <1>2. LatestClientIsServed'
    BY OutboxAssumption DEF enqueueOrSend, OutboxInv, OutboxTyped, LatestClientIsServed
  <1> QED
    BY <1>1, <1>2 DEF enqueueOrSend, OutboxInv, OutboxTyped

LEMMA SendKeepsQueue ==
    ASSUME OutboxInv, NEW e \in Events, enqueueOrSend(e)
    PROVE  /\ outboundQueue' \in Seq(Events)
           /\ delivery' \in [Events -> {"new", "buffered"} \cup Settled]
           /\ stamp' \in [Events -> Nat]
           /\ submitted' \in Nat
           /\ QueueInv'
  <1> DEFINE q == outboundQueue
             queue == Append(q, e)
  <1>1. /\ q \in Seq(Events) /\ delivery \in [Events -> {"new", "buffered"} \cup Settled]
        /\ stamp \in [Events -> Nat] /\ submitted \in Nat
        /\ delivery[e] = "new"
        /\ Len(q) \in Nat /\ \A i \in 1..Len(q) : q[i] \in Events
    BY LenProperties, ElementOfSeq DEF OutboxInv, OutboxTyped, enqueueOrSend
  <1>2. /\ stamp' \in [Events -> Nat] /\ submitted' \in Nat
        /\ submitted' = submitted + 1 /\ stamp'[e] = submitted + 1
        /\ \A f \in Events : f # e => stamp'[f] = stamp[f]
    BY <1>1 DEF enqueueOrSend
  <1>3. \A f \in Events : stamp[f] <= submitted
    BY DEF OutboxInv, QueueInv
  <1>4. \A f \in Events : stamp'[f] <= submitted'
    BY <1>1, <1>2, <1>3
  <1>5. \A i \in 1..Len(q) : delivery[q[i]] = "buffered" /\ q[i] # e
    BY <1>1 DEF OutboxInv, QueueInv
  <1>6. /\ Sorted(q, stamp)
        /\ \A f \in Buffered : \E i \in 1..Len(q) : q[i] = f
        /\ \A f \in Buffered, g \in Events : delivery[g] = "sent" => stamp[g] < stamp[f]
    BY DEF OutboxInv, QueueInv, NoOvertaking, Sorted
  <1>7. CASE socket # None /\ delivery' = [delivery EXCEPT ![e] = "sent"] /\ outboundQueue' = q
    <2>1. q = <<>>
      BY <1>7 DEF OutboxInv, NothingWaitsWhileConnected
    <2>2. Len(q) = 0
      BY <2>1
    <2>3. Buffered' = {}
      BY <1>1, <1>6, <1>7, <2>2 DEF Buffered
    <2>4. delivery' \in [Events -> {"new", "buffered"} \cup Settled]
      BY <1>1, <1>7 DEF Settled
    <2> QED
      BY <1>1, <1>2, <1>4, <1>7, <2>2, <2>3, <2>4 DEF QueueInv, NoOvertaking
  <1>8. CASE enqueueBufferedEvent(e)
    <2>1. /\ queue \in Seq(Events) /\ Len(queue) = Len(q) + 1 /\ queue[Len(q) + 1] = e
          /\ \A i \in 1..Len(q) : queue[i] = q[i]
      BY <1>1, AppendIs
    <2>2. /\ Sorted(q, stamp')
          /\ \A i \in 1..Len(q) : stamp'[q[i]] < stamp'[e]
      BY <1>1, <1>2, <1>3, <1>5, <1>6 DEF Sorted
    <2>3. Sorted(queue, stamp')
      BY <1>1, <1>2, <2>2, AppendIsOrdered
    <2>4. PICK n \in 0..Len(queue) :
             /\ outboundQueue' = Rest(queue, n)
             /\ delivery' = [f \in Events |->
                                IF f \in Firsts(queue, n) THEN "dropped"
                                ELSE IF f = e THEN "buffered" ELSE delivery[f]]
      BY <1>8 DEF enqueueBufferedEvent
    <2> HIDE DEF queue, q
    <2>5. /\ outboundQueue' \in Seq(Events)
          /\ delivery' \in [Events -> {"new", "buffered"} \cup Settled]
      BY <1>1, <2>1, <2>4, RestIs DEF Settled
    <2>6. /\ Sorted(Rest(queue, n), stamp')
          /\ \A i \in 1..Len(Rest(queue, n)) :
                /\ Rest(queue, n)[i] \in Events \ Firsts(queue, n)
                /\ \E k \in 1..Len(queue) : queue[k] = Rest(queue, n)[i]
          /\ \A k \in 1..Len(queue) :
                \/ queue[k] \in Firsts(queue, n)
                \/ \E i \in 1..Len(Rest(queue, n)) : Rest(queue, n)[i] = queue[k]
      <3> DEFINE st == stamp'
      <3>1. st \in [Events -> Nat] /\ Sorted(queue, st) /\ queue \in Seq(Events)
        BY <1>2, <2>1, <2>3
      <3> HIDE DEF st
      <3>2. /\ Sorted(Rest(queue, n), st)
            /\ \A i \in 1..Len(Rest(queue, n)) :
                  /\ Rest(queue, n)[i] \in Events \ Firsts(queue, n)
                  /\ \E k \in 1..Len(queue) : queue[k] = Rest(queue, n)[i]
            /\ \A k \in 1..Len(queue) :
                  \/ queue[k] \in Firsts(queue, n)
                  \/ \E i \in 1..Len(Rest(queue, n)) : Rest(queue, n)[i] = queue[k]
        BY <3>1, RestIsOrdered
      <3> QED
        BY <3>2 DEF st
    <2>7. /\ Sorted(outboundQueue', stamp')
          /\ \A i \in 1..Len(outboundQueue') :
                /\ outboundQueue'[i] \in Events \ Firsts(queue, n)
                /\ \E k \in 1..Len(queue) : queue[k] = outboundQueue'[i]
          /\ \A k \in 1..Len(queue) :
                \/ queue[k] \in Firsts(queue, n)
                \/ \E i \in 1..Len(outboundQueue') : outboundQueue'[i] = queue[k]
      BY <2>4, <2>6
    <2>8. \A k \in 1..Len(queue) : k \in 1..Len(q) \/ k = Len(q) + 1
      BY <1>1, <2>1
    <2>9. \A k \in 1..Len(queue) : queue[k] = e \/ delivery[queue[k]] = "buffered"
      BY <1>5, <2>1, <2>8
    <2>10. \A i \in 1..Len(outboundQueue') : delivery'[outboundQueue'[i]] = "buffered"
      BY <2>4, <2>7, <2>9
    <2>11. ASSUME NEW f \in Events, delivery'[f] = "buffered"
          PROVE  \E i \in 1..Len(outboundQueue') : outboundQueue'[i] = f
      <3>1. f \notin Firsts(queue, n)
        BY <2>4, <2>11
      <3>2. \E k \in 1..Len(queue) : queue[k] = f
        <4>1. CASE f = e
          BY <1>1, <2>1, <4>1
        <4>2. CASE f # e
          <5>1. delivery[f] = "buffered"
            BY <2>4, <2>11, <3>1, <4>2
          <5>2. PICK k \in 1..Len(q) : q[k] = f
            BY <1>6, <5>1 DEF Buffered
          <5>3. k \in 1..Len(queue) /\ queue[k] = f
            BY <1>1, <2>1, <5>2
          <5> QED
            BY <5>3
        <4> QED
          BY <4>1, <4>2
      <3> QED
        BY <2>7, <3>1, <3>2
    <2>12. ASSUME NEW f \in Events, NEW g \in Events,
                  delivery'[f] = "buffered", delivery'[g] = "sent"
           PROVE  stamp'[g] < stamp'[f]
      <3>1. g # e /\ delivery[g] = "sent" /\ (f = e \/ delivery[f] = "buffered")
        BY <2>4, <2>12
      <3> QED
        BY <1>1, <1>2, <1>3, <1>6, <3>1 DEF Buffered
    <2> QED
      BY <1>2, <1>4, <2>5, <2>7, <2>10, <2>11, <2>12 DEF QueueInv, NoOvertaking, Buffered, Sorted
  <1> QED
    BY <1>7, <1>8 DEF enqueueOrSend

\* A flush sends the oldest events and leaves the younger ones, in order.
LEMMA FlushKeepsQueue ==
    ASSUME OutboxInv, NEW sent \in 0..Len(outboundQueue), flushQueuedEvents(sent),
           UNCHANGED <<stamp, submitted>>
    PROVE  /\ outboundQueue' \in Seq(Events)
           /\ delivery' \in [Events -> {"new", "buffered"} \cup Settled]
           /\ sent = Len(outboundQueue) => outboundQueue' = <<>>
           /\ QueueInv'
  <1> DEFINE q == outboundQueue
             rest == Rest(q, sent)
  <1>1. /\ q \in Seq(Events) /\ stamp \in [Events -> Nat]
        /\ delivery \in [Events -> {"new", "buffered"} \cup Settled]
        /\ Len(q) \in Nat /\ \A i \in 1..Len(q) : q[i] \in Events
    BY LenProperties, ElementOfSeq DEF OutboxInv, OutboxTyped
  <1>2. /\ Sorted(q, stamp)
        /\ \A i \in 1..Len(q) : delivery[q[i]] = "buffered"
        /\ \A f \in Buffered : \E i \in 1..Len(q) : q[i] = f
        /\ \A f \in Buffered, g \in Events : delivery[g] = "sent" => stamp[g] < stamp[f]
        /\ \A f \in Events : stamp[f] <= submitted
    BY DEF OutboxInv, QueueInv, NoOvertaking, Sorted
  <1>3. /\ outboundQueue' = rest
        /\ delivery' = [e \in Events |-> IF e \in Firsts(q, sent) THEN "sent" ELSE delivery[e]]
    BY DEF flushQueuedEvents
  <1>4. rest \in Seq(Events) /\ (sent = Len(q) => rest = <<>>)
    BY <1>1, RestIs
  <1>5. delivery' \in [Events -> {"new", "buffered"} \cup Settled]
    BY <1>1, <1>3 DEF Settled
  <1>6. \A e : e \in Firsts(q, sent) <=> \E i \in 1..sent : q[i] = e
    BY <1>1, FirstsAre
  <1>7. /\ Sorted(rest, stamp)
        /\ \A i \in 1..Len(rest) :
              /\ rest[i] \in Events \ Firsts(q, sent)
              /\ \E k \in 1..Len(q) : q[k] = rest[i]
        /\ \A k \in 1..Len(q) :
              q[k] \in Firsts(q, sent) \/ \E i \in 1..Len(rest) : rest[i] = q[k]
    <2> q \in Seq(Events) /\ stamp \in [Events -> Nat] /\ Sorted(q, stamp) /\ sent \in 0..Len(q)
      BY <1>1, <1>2
    <2> HIDE DEF q
    <2> QED
      BY RestIsOrdered
  <1>8. \A i \in 1..Len(rest) : delivery'[rest[i]] = "buffered"
    BY <1>2, <1>3, <1>7
  <1>9. \A f \in Events : delivery'[f] = "buffered" =>
            /\ delivery[f] = "buffered" /\ f \notin Firsts(q, sent)
            /\ \E i \in 1..Len(rest) : rest[i] = f
    BY <1>2, <1>3, <1>7 DEF Buffered
  <1>10. ASSUME NEW f \in Events, NEW g \in Events,
                delivery'[f] = "buffered", delivery'[g] = "sent"
         PROVE  stamp[g] < stamp[f]
    <2>1. CASE g \notin Firsts(q, sent)
      BY <1>2, <1>3, <1>9, <1>10, <2>1 DEF Buffered
    <2>2. CASE g \in Firsts(q, sent)
      <3>1. PICK i \in 1..sent : q[i] = g
        BY <1>6, <2>2
      <3>2. PICK k \in 1..Len(q) : q[k] = f
        BY <1>2, <1>9, <1>10 DEF Buffered
      <3>3. k \notin 1..sent
        BY <1>6, <1>9, <1>10, <3>2
      <3>4. i \in 1..Len(q) /\ i < k
        BY <1>1, <3>3
      <3> QED
        BY <1>2, <3>1, <3>2, <3>4 DEF Sorted
    <2> QED
      BY <2>1, <2>2
  <1> HIDE DEF q, rest
  <1>11. QueueInv'
    BY <1>2, <1>3, <1>7, <1>8, <1>9, <1>10 DEF QueueInv, NoOvertaking, Buffered, Sorted
  <1> QED
    BY <1>3, <1>4, <1>5, <1>11 DEF q, rest

LEMMA ConnectionStepKeeps ==
    ASSUME OutboxInv, ConnectionStep
    PROVE  OutboxInv'
  <1>1. ASSUME NEW c \in Connections, NEW sent \in 0..Len(outboundQueue), OpenAndFlush(c, sent)
        PROVE  OutboxInv'
    <2>1. /\ outboundQueue' \in Seq(Events)
          /\ delivery' \in [Events -> {"new", "buffered"} \cup Settled]
          /\ sent = Len(outboundQueue) => outboundQueue' = <<>>
          /\ QueueInv'
      BY <1>1, FlushKeepsQueue DEF OpenAndFlush
    <2>2. /\ open' = open \cup {c} /\ newest' = c /\ c \notin open
          /\ \/ sent = Len(outboundQueue) /\ socket' = c /\ failed' = failed
             \/ socket' = None /\ failed' = failed \cup {c}
          /\ UNCHANGED <<stamp, submitted>>
      BY <1>1 DEF OpenAndFlush
    <2>3. NothingWaitsWhileConnected' /\ LatestClientIsServed'
      BY <2>1, <2>2 DEF NothingWaitsWhileConnected, LatestClientIsServed
    <2>4. OutboxTyped'
      BY <2>1, <2>2 DEF OutboxInv, OutboxTyped
    <2> QED
      BY <2>1, <2>3, <2>4 DEF OutboxInv
  <1>2. ASSUME NEW c \in Connections, Close(c) \/ CommandResponseFails(c)
        PROVE  OutboxInv'
    <2>1. UNCHANGED <<outboundQueue, delivery, stamp, submitted>>
      BY <1>2 DEF Close, CommandResponseFails
    <2>2. QueueInv'
      BY <2>1 DEF OutboxInv, QueueInv, NoOvertaking, Buffered
    <2>3. OutboxTyped'
      BY <1>2, <2>1 DEF Close, CommandResponseFails, OutboxInv, OutboxTyped
    <2>4. NothingWaitsWhileConnected' /\ LatestClientIsServed'
      BY <1>2, <2>1, OutboxAssumption
      DEF Close, CommandResponseFails, OutboxInv, OutboxTyped,
          NothingWaitsWhileConnected, LatestClientIsServed
    <2> QED
      BY <2>2, <2>3, <2>4 DEF OutboxInv
  <1> QED
    BY <1>1, <1>2 DEF ConnectionStep, Open

LEMMA StopKeeps ==
    ASSUME OutboxInv, Stop
    PROVE  OutboxInv'
  <1>1. /\ outboundQueue \in Seq(Events) /\ Len(outboundQueue) \in 0..Len(outboundQueue)
        /\ delivery \in [Events -> {"new", "buffered"} \cup Settled]
    BY LenProperties DEF OutboxInv, OutboxTyped
  <1>2. /\ outboundQueue' = <<>> /\ socket' = None /\ open' = {} /\ failed' = {} /\ newest' = None
        /\ UNCHANGED <<stamp, submitted>>
        /\ delivery' = [e \in Events |->
                          IF e \in Firsts(outboundQueue, Len(outboundQueue))
                          THEN "stopped" ELSE delivery[e]]
    BY DEF Stop
  <1>3. \A e : e \in Firsts(outboundQueue, Len(outboundQueue)) <=>
                 \E i \in 1..Len(outboundQueue) : outboundQueue[i] = e
    BY <1>1, FirstsAre
  <1>4. Buffered' = {}
    BY <1>2, <1>3 DEF OutboxInv, QueueInv, Buffered
  <1>5. OutboxTyped'
    BY <1>1, <1>2 DEF OutboxInv, OutboxTyped, Settled
  <1>6. QueueInv'
    BY <1>2, <1>4 DEF OutboxInv, QueueInv, NoOvertaking
  <1>7. NothingWaitsWhileConnected' /\ LatestClientIsServed'
    BY <1>2 DEF NothingWaitsWhileConnected, LatestClientIsServed
  <1> QED
    BY <1>5, <1>6, <1>7 DEF OutboxInv

LEMMA OutboxIsKept ==
    ASSUME OutboxInv, OutboxStep
    PROVE  OutboxInv'
  <1>1. ASSUME NEW e \in Events, enqueueOrSend(e)
        PROVE  OutboxInv'
    BY <1>1, SendKeepsConnections, SendKeepsQueue DEF OutboxInv, OutboxTyped
  <1>2. CASE UNCHANGED outboxVars
    BY <1>2 DEF outboxVars, OutboxInv, OutboxTyped, QueueInv, NoOvertaking, Buffered,
                NothingWaitsWhileConnected, LatestClientIsServed
  <1> QED
    BY <1>1, <1>2, ConnectionStepKeeps, StopKeeps DEF OutboxStep

LEMMA OutboxStarts == OutboxInit => OutboxInv
  <1> SUFFICES ASSUME OutboxInit PROVE OutboxInv
    OBVIOUS
  <1>1. outboundQueue \in Seq(Events) /\ Len(outboundQueue) = 0
    BY EmptySeq DEF OutboxInit
  <1>2. Buffered = {}
    BY DEF OutboxInit, Buffered
  <1>3. OutboxTyped
    BY <1>1 DEF OutboxInit, OutboxTyped
  <1>4. QueueInv
    BY <1>1, <1>2 DEF OutboxInit, QueueInv, NoOvertaking
  <1> QED
    BY <1>3, <1>4 DEF OutboxInit, OutboxInv, NothingWaitsWhileConnected, LatestClientIsServed

\* A delivery that was settled stays as it was settled.
LEMMA DeliveryIsFinal ==
    ASSUME OutboxInv, OutboxStep, NEW f \in Events, delivery[f] \in Settled
    PROVE  delivery'[f] = delivery[f]
  <1>1. /\ outboundQueue \in Seq(Events) /\ Len(outboundQueue) \in Nat
        /\ \A i \in 1..Len(outboundQueue) : outboundQueue[i] # f
    BY LenProperties DEF OutboxInv, OutboxTyped, QueueInv, Settled
  <1>2. \A n \in 0..Len(outboundQueue) : f \notin Firsts(outboundQueue, n)
    BY <1>1, FirstsAre
  <1>3. ASSUME NEW e \in Events, enqueueOrSend(e)
        PROVE  delivery'[f] = delivery[f]
    <2>1. f # e
      BY <1>3 DEF enqueueOrSend, Settled
    <2>2. CASE delivery' = [delivery EXCEPT ![e] = "sent"]
      BY <2>1, <2>2 DEF OutboxInv, OutboxTyped
    <2>3. CASE enqueueBufferedEvent(e)
      <3> DEFINE queue == Append(outboundQueue, e)
      <3>1. /\ queue \in Seq(Events) /\ Len(queue) = Len(outboundQueue) + 1
            /\ \A i \in 1..Len(queue) : queue[i] # f
        BY <1>1, <2>1, AppendIs
      <3>2. PICK n \in 0..Len(queue) :
               delivery' = [g \in Events |->
                              IF g \in Firsts(queue, n) THEN "dropped"
                              ELSE IF g = e THEN "buffered" ELSE delivery[g]]
        BY <2>3 DEF enqueueBufferedEvent
      <3> HIDE DEF queue
      <3>3. f \notin Firsts(queue, n)
        BY <1>1, <3>1, FirstsAre
      <3> QED
        BY <2>1, <3>2, <3>3
    <2> QED
      BY <1>3, <2>2, <2>3 DEF enqueueOrSend
  <1>4. CASE ConnectionStep
    BY <1>2, <1>4
    DEF ConnectionStep, Open, OpenAndFlush, flushQueuedEvents, Close, CommandResponseFails
  <1>5. CASE Stop
    BY <1>1, <1>2, <1>5 DEF Stop
  <1>6. CASE UNCHANGED outboxVars
    BY <1>6 DEF outboxVars
  <1> QED
    BY <1>3, <1>4, <1>5, <1>6 DEF OutboxStep

\* An event that was not submitted is touched by no step but its submission.
LEMMA NewStaysNew ==
    ASSUME OutboxInv, NEW f \in Events, delivery[f] = "new",
           \/ \E e \in Events \ {f} : enqueueOrSend(e)
           \/ ConnectionStep \/ Stop \/ UNCHANGED outboxVars
    PROVE  delivery'[f] = "new"
  <1>1. /\ outboundQueue \in Seq(Events) /\ Len(outboundQueue) \in Nat
        /\ \A i \in 1..Len(outboundQueue) : outboundQueue[i] # f
    BY LenProperties DEF OutboxInv, OutboxTyped, QueueInv
  <1>2. \A n \in 0..Len(outboundQueue) : f \notin Firsts(outboundQueue, n)
    BY <1>1, FirstsAre
  <1>3. ASSUME NEW e \in Events \ {f}, enqueueOrSend(e)
        PROVE  delivery'[f] = "new"
    <2>1. CASE delivery' = [delivery EXCEPT ![e] = "sent"]
      BY <2>1 DEF OutboxInv, OutboxTyped
    <2>2. CASE enqueueBufferedEvent(e)
      <3> DEFINE queue == Append(outboundQueue, e)
      <3>1. /\ queue \in Seq(Events) /\ Len(queue) = Len(outboundQueue) + 1
            /\ \A i \in 1..Len(queue) : queue[i] # f
        BY <1>1, <1>3, AppendIs
      <3>2. PICK n \in 0..Len(queue) :
               delivery' = [g \in Events |->
                              IF g \in Firsts(queue, n) THEN "dropped"
                              ELSE IF g = e THEN "buffered" ELSE delivery[g]]
        BY <2>2 DEF enqueueBufferedEvent
      <3> HIDE DEF queue
      <3>3. f \notin Firsts(queue, n)
        BY <1>1, <3>1, FirstsAre
      <3> QED
        BY <1>3, <3>2, <3>3
    <2> QED
      BY <1>3, <2>1, <2>2 DEF enqueueOrSend
  <1>4. CASE ConnectionStep
    BY <1>2, <1>4
    DEF ConnectionStep, Open, OpenAndFlush, flushQueuedEvents, Close, CommandResponseFails
  <1>5. CASE Stop
    BY <1>1, <1>2, <1>5 DEF Stop
  <1>6. CASE UNCHANGED outboxVars
    BY <1>6 DEF outboxVars
  <1> QED
    BY <1>3, <1>4, <1>5, <1>6

---------------------------------------------------------------------------
(***************************************************************************)
(* The byte count.                                                         *)
(***************************************************************************)

Sizes(q) == [i \in 1..Len(q) |-> SizeBytes[q[i]]]

\* The byte count is that of the queued events, and the limits hold.
BytesInv ==
    /\ outboundQueueBytes = BytesOf(outboundQueue)
    /\ Len(outboundQueue) <= MaxBufferedMessages
    /\ outboundQueueBytes <= MaxBufferedBytes

LEMMA SizesAre ==
    ASSUME NEW q \in Seq(Events)
    PROVE  /\ Sizes(q) \in Seq(Nat) /\ Len(Sizes(q)) = Len(q)
           /\ \A i \in 1..Len(q) : Sizes(q)[i] = SizeBytes[q[i]]
           /\ BytesOf(q) = Total(Sizes(q)) /\ BytesOf(q) \in Nat
           /\ Len(q) \in Nat
  <1>1. Len(q) \in Nat /\ \A i \in 1..Len(q) : q[i] \in Events
    BY LenProperties, ElementOfSeq
  <1>2. \A i \in 1..Len(q) : SizeBytes[q[i]] \in Nat
    BY <1>1, OutboxAssumption
  <1>3. /\ Sizes(q) \in Seq(Nat) /\ Len(Sizes(q)) = Len(q)
        /\ \A i \in 1..Len(q) : Sizes(q)[i] = SizeBytes[q[i]]
    BY <1>1, <1>2, IsASeq DEF Sizes
  <1>4. BytesOf(q) = Total(Sizes(q))
    BY DEF BytesOf, Sizes
  <1> QED
    BY <1>1, <1>3, <1>4, TotalIsNat

\* What the first n events take and what the others take is what all take.
LEMMA BytesOfParts ==
    ASSUME NEW q \in Seq(Events), NEW n \in 0..Len(q)
    PROVE  /\ BytesOf(q) = BytesOf(SubSeq(q, 1, n)) + BytesOf(Rest(q, n))
           /\ BytesOf(SubSeq(q, 1, n)) \in Nat /\ BytesOf(Rest(q, n)) \in Nat
  <1> DEFINE front == SubSeq(q, 1, n)
             rest == Rest(q, n)
  <1>1. Len(q) \in Nat /\ \A i \in 1..Len(q) : q[i] \in Events
    BY LenProperties, ElementOfSeq
  <1>2. /\ front \in Seq(Events) /\ Len(front) = n
        /\ \A i \in 1..n : front[i] = q[i]
    <2>1. \A i \in 1..n : q[i] \in Events
      BY <1>1
    <2>2. /\ front \in Seq(Events)
          /\ Len(front) = IF 1 <= n THEN n - 1 + 1 ELSE 0
          /\ \A i \in 1..n - 1 + 1 : front[i] = q[1 + i - 1]
      BY <1>1, <2>1, SubSeqProperties
    <2>3. \A i \in 1..n : i \in 1..n - 1 + 1 /\ 1 + i - 1 = i
      BY <1>1
    <2>4. Len(front) = n
      BY <1>1, <2>2
    <2> QED
      BY <2>2, <2>3, <2>4
  <1>3. /\ rest \in Seq(Events) /\ Len(rest) = Len(q) - n
        /\ \A i \in 1..Len(q) - n : rest[i] = q[n + i]
    BY RestIs
  <1> HIDE DEF front, rest
  <1>4. /\ Sizes(q) \in Seq(Nat) /\ Len(Sizes(q)) = Len(q)
        /\ \A i \in 1..Len(q) : Sizes(q)[i] = SizeBytes[q[i]]
        /\ BytesOf(q) = Total(Sizes(q))
    BY SizesAre
  <1>5. /\ Sizes(front) \in Seq(Nat) /\ Len(Sizes(front)) = n
        /\ \A i \in 1..n : Sizes(front)[i] = SizeBytes[front[i]]
        /\ BytesOf(front) = Total(Sizes(front)) /\ BytesOf(front) \in Nat
    BY <1>2, SizesAre
  <1>6. /\ Sizes(rest) \in Seq(Nat) /\ Len(Sizes(rest)) = Len(q) - n
        /\ \A i \in 1..Len(q) - n : Sizes(rest)[i] = SizeBytes[rest[i]]
        /\ BytesOf(rest) = Total(Sizes(rest)) /\ BytesOf(rest) \in Nat
    BY <1>3, SizesAre
  <1>7. ASSUME NEW i \in 1..Len(Sizes(front)) PROVE Sizes(front)[i] = Sizes(q)[i]
    <2>1. i \in 1..n /\ i \in 1..Len(q)
      BY <1>1, <1>5
    <2>2. Sizes(front)[i] = SizeBytes[front[i]] /\ Sizes(q)[i] = SizeBytes[q[i]] /\ front[i] = q[i]
      BY <1>2, <1>4, <1>5, <2>1
    <2> QED
      BY <2>2
  <1>8. ASSUME NEW i \in 1..Len(Sizes(rest))
        PROVE  Sizes(rest)[i] = Sizes(q)[Len(Sizes(front)) + i]
    <2> DEFINE j == n + i
    <2>1. i \in 1..Len(q) - n /\ j \in 1..Len(q)
      BY <1>1, <1>6
    <2>2. rest[i] = q[j] /\ Len(Sizes(front)) + i = j
      BY <1>3, <1>5, <2>1
    <2> HIDE DEF j
    <2>3. Sizes(rest)[i] = SizeBytes[rest[i]] /\ Sizes(q)[j] = SizeBytes[q[j]]
      BY <1>4, <1>6, <2>1
    <2> QED
      BY <2>2, <2>3
  <1>9. Len(Sizes(q)) = Len(Sizes(front)) + Len(Sizes(rest))
    BY <1>1, <1>4, <1>5, <1>6
  <1>10. Total(Sizes(q)) = Total(Sizes(front)) + Total(Sizes(rest))
    BY <1>4, <1>5, <1>6, <1>7, <1>8, <1>9, TotalOfParts
  <1> QED
    BY <1>4, <1>5, <1>6, <1>10 DEF front, rest

LEMMA BytesOfOneMore ==
    ASSUME NEW q \in Seq(Events), NEW e \in Events
    PROVE  BytesOf(Append(q, e)) = BytesOf(q) + SizeBytes[e]
  <1> DEFINE new == Append(q, e)
             one == <<SizeBytes[e]>>
  <1>1. /\ new \in Seq(Events) /\ Len(new) = Len(q) + 1
        /\ \A i \in 1..Len(q) : new[i] = q[i]
        /\ new[Len(q) + 1] = e
    BY AppendIs
  <1>2. one \in Seq(Nat) /\ Len(one) = 1 /\ one[1] = SizeBytes[e] /\ Total(one) = SizeBytes[e]
    BY OutboxAssumption, TotalOfOne
  <1> HIDE DEF new, one
  <1>3. /\ Sizes(q) \in Seq(Nat) /\ Len(Sizes(q)) = Len(q) /\ Len(q) \in Nat
        /\ \A i \in 1..Len(q) : Sizes(q)[i] = SizeBytes[q[i]]
        /\ BytesOf(q) = Total(Sizes(q))
    BY SizesAre
  <1>4. /\ Sizes(new) \in Seq(Nat) /\ Len(Sizes(new)) = Len(q) + 1
        /\ \A i \in 1..Len(q) + 1 : Sizes(new)[i] = SizeBytes[new[i]]
        /\ BytesOf(new) = Total(Sizes(new))
    BY <1>1, SizesAre
  <1>5. \A i \in 1..Len(Sizes(q)) : Sizes(q)[i] = Sizes(new)[i]
    BY <1>1, <1>3, <1>4
  <1>6. \A i \in 1..Len(one) : one[i] = Sizes(new)[Len(Sizes(q)) + i]
    <2>1. Len(q) + 1 \in 1..Len(q) + 1
      BY <1>3
    <2>2. Sizes(new)[Len(q) + 1] = SizeBytes[e]
      BY <1>1, <1>4, <2>1
    <2> QED
      BY <1>2, <1>3, <2>2
  <1>7. Len(Sizes(new)) = Len(Sizes(q)) + Len(one)
    BY <1>2, <1>3, <1>4
  <1>8. Total(Sizes(new)) = Total(Sizes(q)) + Total(one)
    BY <1>2, <1>3, <1>4, <1>5, <1>6, <1>7, TotalOfParts
  <1> QED
    BY <1>2, <1>3, <1>4, <1>8 DEF new

\* One event taken more at the front.
LEMMA BytesOfOneFirst ==
    ASSUME NEW q \in Seq(Events), NEW n \in 1..Len(q)
    PROVE  BytesOf(Rest(q, n - 1)) = SizeBytes[q[n]] + BytesOf(Rest(q, n))
  <1> DEFINE m == n - 1
             more == Rest(q, m)
             rest == Rest(q, n)
             one == <<SizeBytes[q[n]]>>
  <1>1. /\ Len(q) \in Nat /\ n \in Nat /\ m \in 0..Len(q) /\ n \in 0..Len(q)
        /\ m + 1 = n /\ Len(q) - m = (Len(q) - n) + 1
        /\ q[n] \in Events
    BY LenProperties, ElementOfSeq
  <1> HIDE DEF m
  <1>2. /\ rest \in Seq(Events) /\ Len(rest) = Len(q) - n
        /\ \A k \in 1..Len(q) - n : rest[k] = q[n + k]
    BY <1>1, RestIs
  <1>3. /\ more \in Seq(Events) /\ Len(more) = (Len(q) - n) + 1
        /\ \A k \in 1..(Len(q) - n) + 1 : more[k] = q[m + k]
    BY <1>1, RestIs
  <1>4. one \in Seq(Nat) /\ Len(one) = 1 /\ one[1] = SizeBytes[q[n]] /\ Total(one) = SizeBytes[q[n]]
    BY <1>1, OutboxAssumption, TotalOfOne
  <1> HIDE DEF more, rest, one
  <1>5. /\ Sizes(more) \in Seq(Nat) /\ Len(Sizes(more)) = Len(more)
        /\ \A k \in 1..Len(more) : Sizes(more)[k] = SizeBytes[more[k]]
        /\ BytesOf(more) = Total(Sizes(more))
    BY <1>3, SizesAre
  <1>6. /\ Sizes(rest) \in Seq(Nat) /\ Len(Sizes(rest)) = Len(rest)
        /\ \A k \in 1..Len(rest) : Sizes(rest)[k] = SizeBytes[rest[k]]
        /\ BytesOf(rest) = Total(Sizes(rest))
    BY <1>2, SizesAre
  <1>7. ASSUME NEW k \in 1..Len(one) PROVE one[k] = Sizes(more)[k]
    <2>1. k = 1 /\ 1 \in 1..(Len(q) - n) + 1
      BY <1>1, <1>4
    <2>2. more[1] = q[n]
      BY <1>1, <1>3, <2>1
    <2> QED
      BY <1>3, <1>4, <1>5, <2>1, <2>2
  <1>8. ASSUME NEW k \in 1..Len(Sizes(rest)) PROVE Sizes(rest)[k] = Sizes(more)[Len(one) + k]
    <2> DEFINE j == 1 + k
    <2>1. /\ k \in 1..Len(rest) /\ k \in 1..Len(q) - n
          /\ j \in 1..(Len(q) - n) + 1 /\ j \in 1..Len(more)
          /\ m + j = n + k /\ Len(one) + k = j
      BY <1>1, <1>2, <1>3, <1>4, <1>6
    <2> HIDE DEF j
    <2>2. more[j] = q[n + k] /\ rest[k] = q[n + k]
      BY <1>2, <1>3, <2>1
    <2>3. Sizes(rest)[k] = SizeBytes[rest[k]] /\ Sizes(more)[j] = SizeBytes[more[j]]
      BY <1>5, <1>6, <2>1
    <2> QED
      BY <2>1, <2>2, <2>3
  <1>9. Len(Sizes(more)) = Len(one) + Len(Sizes(rest))
    BY <1>1, <1>2, <1>3, <1>4, <1>5, <1>6
  <1>10. Total(Sizes(more)) = Total(one) + Total(Sizes(rest))
    BY <1>4, <1>5, <1>6, <1>7, <1>8, <1>9, TotalOfParts
  <1> QED
    BY <1>4, <1>5, <1>6, <1>10 DEF more, rest, m

\* Shifting events off leaves an exact count exact.
LEMMA CountStaysExact ==
    ASSUME NEW q \in Seq(Events), NEW n \in 0..Len(q)
    PROVE  BytesWithout(q, BytesOf(q), n) = BytesOf(Rest(q, n))
  <1>1. /\ BytesOf(q) = BytesOf(SubSeq(q, 1, n)) + BytesOf(Rest(q, n))
        /\ BytesOf(SubSeq(q, 1, n)) \in Nat /\ BytesOf(Rest(q, n)) \in Nat
    BY BytesOfParts
  <1> QED
    BY <1>1 DEF BytesWithout

LEMMA NoBytesOfNone == BytesOf(<<>>) = 0
  <1>1. <<>> \in Seq(Events) /\ Len(<<>>) = 0
    BY EmptySeq
  <1>2. Sizes(<<>>) \in Seq(Nat) /\ Len(Sizes(<<>>)) = 0 /\ BytesOf(<<>>) = Total(Sizes(<<>>))
    BY <1>1, SizesAre
  <1>3. Sizes(<<>>) = <<>>
    BY <1>2, EmptySeq
  <1> QED
    BY <1>2, <1>3, TotalOfNone

\* trimQueueToFit leaves a queue within both limits, whose count is exact.
LEMMA TrimmedQueueFits ==
    ASSUME NEW q \in Seq(Events), NEW n \in 0..Len(q), trimQueueToFit(q, BytesOf(q), n)
    PROVE  /\ BytesWithout(q, BytesOf(q), n) = BytesOf(Rest(q, n))
           /\ Len(Rest(q, n)) <= MaxBufferedMessages
           /\ BytesOf(Rest(q, n)) <= MaxBufferedBytes
  <1>1. /\ Len(Rest(q, n)) = Len(q) - n /\ (n = Len(q) => Rest(q, n) = <<>>)
        /\ Len(q) \in Nat
    BY RestIs, LenProperties
  <1>2. BytesWithout(q, BytesOf(q), n) = BytesOf(Rest(q, n))
    BY CountStaysExact
  <1>3. CASE n = Len(q)
    BY <1>1, <1>2, <1>3, NoBytesOfNone, OutboxAssumption
  <1>4. CASE Fits(q, BytesOf(q), n)
    BY <1>1, <1>2, <1>4 DEF Fits
  <1> QED
    BY <1>2, <1>3, <1>4 DEF trimQueueToFit

LEMMA BytesAreKept ==
    ASSUME OutboxInv, BytesInv, OutboxStep
    PROVE  BytesInv'
  <1> DEFINE q == outboundQueue
  <1>1. q \in Seq(Events) /\ Len(q) \in Nat /\ BytesOf(q) \in Nat /\ Len(q) \in 0..Len(q)
    BY SizesAre DEF OutboxInv, OutboxTyped
  <1>2. /\ outboundQueueBytes = BytesOf(q)
        /\ Len(q) <= MaxBufferedMessages /\ BytesOf(q) <= MaxBufferedBytes
    BY DEF BytesInv
  <1>3. ASSUME NEW n \in 0..Len(q), outboundQueue' = Rest(q, n),
               outboundQueueBytes' = BytesWithout(q, outboundQueueBytes, n)
        PROVE  BytesInv'
    <2>1. /\ BytesOf(q) = BytesOf(SubSeq(q, 1, n)) + BytesOf(Rest(q, n))
          /\ BytesOf(SubSeq(q, 1, n)) \in Nat /\ BytesOf(Rest(q, n)) \in Nat
      BY <1>1, BytesOfParts
    <2>2. BytesWithout(q, BytesOf(q), n) = BytesOf(Rest(q, n)) /\ Len(Rest(q, n)) = Len(q) - n
      BY <1>1, CountStaysExact, RestIs
    <2> HIDE DEF q
    <2>3. Len(Rest(q, n)) <= MaxBufferedMessages /\ BytesOf(Rest(q, n)) <= MaxBufferedBytes
      BY <1>1, <1>2, <2>1, <2>2, OutboxAssumption
    <2>4. outboundQueueBytes' = BytesOf(outboundQueue')
      BY <1>2, <1>3, <2>2
    <2> QED
      BY <1>3, <2>3, <2>4 DEF BytesInv
  <1>4. ASSUME NEW e \in Events, enqueueBufferedEvent(e)
        PROVE  BytesInv'
    <2> DEFINE queue == Append(q, e)
               bytes == outboundQueueBytes + SizeBytes[e]
    <2>1. queue \in Seq(Events)
      BY <1>1, AppendIs
    <2>2. bytes = BytesOf(queue)
      BY <1>1, <1>2, BytesOfOneMore
    <2>3. PICK n \in 0..Len(queue) : /\ trimQueueToFit(queue, bytes, n)
                                     /\ outboundQueue' = Rest(queue, n)
                                     /\ outboundQueueBytes' = BytesWithout(queue, bytes, n)
      BY <1>4 DEF enqueueBufferedEvent
    <2> HIDE DEF queue, bytes
    <2>4. /\ BytesWithout(queue, BytesOf(queue), n) = BytesOf(Rest(queue, n))
          /\ Len(Rest(queue, n)) <= MaxBufferedMessages
          /\ BytesOf(Rest(queue, n)) <= MaxBufferedBytes
      BY <2>1, <2>2, <2>3, TrimmedQueueFits
    <2> QED
      BY <2>2, <2>3, <2>4 DEF BytesInv
  <1>5. CASE UNCHANGED <<outboundQueue, outboundQueueBytes>>
    BY <1>2, <1>5 DEF BytesInv
  <1>6. ASSUME NEW e \in Events, enqueueOrSend(e) PROVE BytesInv'
    BY <1>4, <1>5, <1>6 DEF enqueueOrSend
  <1>7. ASSUME NEW c \in Connections, NEW sent \in 0..Len(q), OpenAndFlush(c, sent)
        PROVE  BytesInv'
    BY <1>3, <1>7 DEF OpenAndFlush, flushQueuedEvents
  <1>8. CASE Stop
    <2>1. Rest(q, Len(q)) = <<>>
      BY <1>1, RestIs
    <2> QED
      BY <1>1, <1>3, <1>8, <2>1 DEF Stop
  <1> QED
    BY <1>5, <1>6, <1>7, <1>8 DEF OutboxStep, ConnectionStep, Open, Close,
                                  CommandResponseFails, outboxVars

LEMMA BytesStart == OutboxInit => BytesInv
  BY NoBytesOfNone, OutboxAssumption, EmptySeq DEF OutboxInit, BytesInv

\* The events a step drops are the oldest, and no more than it takes.
OldestLost ==
    \A e \in Events :
        LET lost == {f \in Events : delivery[f] # "dropped" /\ delivery'[f] = "dropped"} IN
        e \in lost =>
           /\ \A f \in Events : delivery'[f] = "buffered" => stamp'[e] < stamp'[f]
           /\ (\A f \in lost : stamp'[f] <= stamp'[e]) =>
                 \/ Len(outboundQueue') + 1 > MaxBufferedMessages
                 \/ outboundQueueBytes' + SizeBytes[e] > MaxBufferedBytes

LEMMA OverflowDropsOldest ==
    ASSUME OutboxInv, BytesInv, NEW e \in Events, enqueueOrSend(e), enqueueBufferedEvent(e)
    PROVE  OldestLost
  <1> DEFINE q == outboundQueue
             queue == Append(q, e)
             bytes == outboundQueueBytes + SizeBytes[e]
             st == stamp'
  <1>1. /\ q \in Seq(Events) /\ Len(q) \in Nat /\ \A i \in 1..Len(q) : q[i] \in Events
        /\ stamp \in [Events -> Nat] /\ submitted \in Nat
        /\ delivery[e] = "new"
        /\ delivery \in [Events -> {"new", "buffered"} \cup Settled]
    BY LenProperties, ElementOfSeq DEF OutboxInv, OutboxTyped, enqueueOrSend
  <1>2. /\ st \in [Events -> Nat]
        /\ st[e] = submitted + 1
        /\ \A f \in Events : f # e => st[f] = stamp[f]
    BY <1>1 DEF enqueueOrSend
  <1>3. /\ Sorted(q, stamp)
        /\ \A i \in 1..Len(q) : delivery[q[i]] = "buffered" /\ q[i] # e
        /\ \A f \in Buffered : \E i \in 1..Len(q) : q[i] = f
        /\ \A f \in Events : stamp[f] <= submitted
    BY <1>1 DEF OutboxInv, QueueInv, NoOvertaking, Sorted
  <1>4. /\ queue \in Seq(Events) /\ Len(queue) = Len(q) + 1 /\ queue[Len(q) + 1] = e
        /\ \A i \in 1..Len(q) : queue[i] = q[i]
    BY <1>1, AppendIs
  <1>5. \A i \in 1..Len(queue) : queue[i] \in Events /\ delivery[queue[i]] # "dropped"
    <2>1. \A i \in 1..Len(queue) : i \in 1..Len(q) \/ i = Len(q) + 1
      BY <1>1, <1>4
    <2> QED
      BY <1>1, <1>3, <1>4, <2>1
  <1>6. Sorted(queue, st)
    <2>1. /\ Sorted(q, st)
          /\ \A i \in 1..Len(q) : st[q[i]] < st[e]
      BY <1>1, <1>2, <1>3 DEF Sorted
    <2> HIDE DEF st
    <2> QED
      BY <1>1, <1>2, <2>1, AppendIsOrdered
  <1>7. bytes = BytesOf(queue)
    BY <1>1, BytesOfOneMore DEF BytesInv
  <1>8. PICK n \in 0..Len(queue) :
           /\ trimQueueToFit(queue, bytes, n)
           /\ outboundQueue' = Rest(queue, n)
           /\ outboundQueueBytes' = BytesWithout(queue, bytes, n)
           /\ delivery' = [f \in Events |-> IF f \in Firsts(queue, n) THEN "dropped"
                                            ELSE IF f = e THEN "buffered" ELSE delivery[f]]
    BY DEF enqueueBufferedEvent
  <1> DEFINE lost == {f \in Events : delivery[f] # "dropped" /\ delivery'[f] = "dropped"}
  <1> HIDE DEF queue, bytes, q, st
  <1>9. Len(queue) \in Nat
    BY <1>1, <1>4
  <1>10. \A f : f \in lost <=> \E i \in 1..n : queue[i] = f
    <2>1. \A f : f \in Firsts(queue, n) <=> \E i \in 1..n : queue[i] = f
      BY <1>4, FirstsAre
    <2>2. \A i \in 1..n : i \in 1..Len(queue)
      BY <1>9
    <2>3. \A f \in Events : f \notin Firsts(queue, n) /\ delivery'[f] = "dropped"
                               => delivery[f] = "dropped"
      BY <1>8
    <2> QED
      BY <1>5, <1>8, <2>1, <2>2, <2>3
  <1>11. \A f \in Events : delivery'[f] = "buffered" =>
            f \notin Firsts(queue, n) /\ \E k \in 1..Len(queue) : queue[k] = f
    <2>1. \A k \in 1..Len(q) : k \in 1..Len(queue)
      BY <1>1, <1>4
    <2>2. Len(q) + 1 \in 1..Len(queue)
      BY <1>1, <1>4
    <2> QED
      BY <1>3, <1>4, <1>8, <2>1, <2>2 DEF Buffered, q
  <1>12. ASSUME NEW g \in lost, NEW f \in Events, delivery'[f] = "buffered"
         PROVE  st[g] < st[f]
    <2>1. PICK i \in 1..n : queue[i] = g
      BY <1>10
    <2>2. PICK k \in 1..Len(queue) : queue[k] = f
      BY <1>11, <1>12
    <2>3. k \notin 1..n
      BY <1>4, <1>11, <1>12, <2>2, FirstsAre
    <2>4. i \in 1..Len(queue) /\ i < k
      BY <1>9, <2>3
    <2> QED
      BY <1>6, <2>1, <2>2, <2>4 DEF Sorted
  <1>13. ASSUME NEW g \in lost, \A f \in lost : st[f] <= st[g]
         PROVE  \/ Len(outboundQueue') + 1 > MaxBufferedMessages
                \/ outboundQueueBytes' + SizeBytes[g] > MaxBufferedBytes
    <2>1. PICK i \in 1..n : queue[i] = g
      BY <1>10
    <2>2. n \in 1..n /\ n \in 1..Len(queue) /\ i \in 1..Len(queue) /\ n - 1 \in 0..n-1
          /\ n - 1 \in 0..Len(queue)
      BY <1>9, <2>1
    <2>3. i = n
      <3>1. SUFFICES ASSUME i < n PROVE FALSE
        BY <2>2
      <3>2. st[queue[i]] < st[queue[n]]
        BY <1>6, <2>2, <3>1 DEF Sorted
      <3>3. st[queue[n]] <= st[queue[i]]
        BY <1>10, <1>13, <2>1, <2>2
      <3>4. st[queue[i]] \in Nat /\ st[queue[n]] \in Nat
        BY <1>2, <1>5, <2>2
      <3> QED
        BY <3>2, <3>3, <3>4
    <2> DEFINE m == n - 1
               more == Rest(queue, m)
               rest == Rest(queue, n)
    <2>4. ~Fits(queue, bytes, m)
      BY <1>8, <2>2 DEF trimQueueToFit
    <2>5. /\ BytesWithout(queue, bytes, m) = BytesOf(more)
          /\ BytesWithout(queue, bytes, n) = BytesOf(rest)
      BY <1>4, <1>7, <2>2, CountStaysExact
    <2>6. /\ rest \in Seq(Events) /\ Len(rest) = Len(queue) - n
          /\ \A k \in 1..Len(queue) - n : rest[k] = queue[n + k]
      BY <1>4, RestIs
    <2>7. /\ more \in Seq(Events) /\ Len(more) = Len(queue) - m
          /\ \A k \in 1..Len(queue) - m : more[k] = queue[m + k]
      <3> HIDE DEF m
      <3> QED
        BY <1>4, <2>2, RestIs DEF m
    <2> HIDE DEF m, more, rest
    <2>8. BytesOf(more) = SizeBytes[g] + BytesOf(rest)
      BY <1>4, <2>1, <2>2, <2>3, BytesOfOneFirst DEF m, more, rest
    <2>9. BytesOf(rest) \in Nat /\ SizeBytes[g] \in Nat
      BY <2>6, SizesAre, OutboxAssumption
    <2>10. Len(queue) - m = (Len(queue) - n) + 1
      BY <1>9, <2>2 DEF m
    <2>11. outboundQueue' = rest /\ outboundQueueBytes' = BytesOf(rest)
      BY <1>8, <2>5 DEF rest
    <2>12. Len(queue) - m > MaxBufferedMessages \/ BytesOf(more) > MaxBufferedBytes
      <3>1. BytesOf(more) \in Nat /\ Len(queue) - m \in Nat
        BY <1>9, <2>2, <2>7, SizesAre DEF m
      <3> QED
        BY <2>4, <2>5, <3>1, OutboxAssumption DEF Fits
    <2> QED
      BY <2>6, <2>8, <2>9, <2>10, <2>11, <2>12
  <1> QED
    BY <1>12, <1>13 DEF OldestLost, st

\* No other step drops an event.
LEMMA OldestAreLost ==
    ASSUME OutboxInv, BytesInv, OutboxStep
    PROVE  OldestLost
  <1>1. ASSUME \A f \in Events : delivery'[f] = "dropped" => delivery[f] = "dropped"
        PROVE  OldestLost
    BY <1>1 DEF OldestLost
  <1>2. delivery \in [Events -> {"new", "buffered"} \cup Settled]
    BY DEF OutboxInv, OutboxTyped
  <1>3. ASSUME NEW e \in Events, enqueueOrSend(e) PROVE OldestLost
    <2>1. CASE delivery' = [delivery EXCEPT ![e] = "sent"]
      BY <1>1, <1>2, <2>1
    <2>2. CASE enqueueBufferedEvent(e)
      BY <1>3, <2>2, OverflowDropsOldest
    <2> QED
      BY <1>3, <2>1, <2>2 DEF enqueueOrSend
  <1>4. CASE ConnectionStep
    BY <1>1, <1>2, <1>4
    DEF ConnectionStep, Open, OpenAndFlush, flushQueuedEvents, Close, CommandResponseFails
  <1>5. CASE Stop
    BY <1>1, <1>2, <1>5 DEF Stop
  <1>6. CASE UNCHANGED outboxVars
    BY <1>1, <1>6 DEF outboxVars
  <1> QED
    BY <1>3, <1>4, <1>5, <1>6 DEF OutboxStep

\* Together the two invariants say all of BufferAccounted.
LEMMA BufferIsAccounted == OutboxInv /\ BytesInv => BufferAccounted
  <1> SUFFICES ASSUME OutboxInv, BytesInv PROVE BufferAccounted
    OBVIOUS
  <1>1. /\ outboundQueue \in Seq(Events) /\ stamp \in [Events -> Nat]
        /\ Len(outboundQueue) \in Nat /\ Len(outboundQueue) \in 0..Len(outboundQueue)
        /\ \A i \in 1..Len(outboundQueue) : outboundQueue[i] \in Events
        /\ DOMAIN outboundQueue = 1..Len(outboundQueue)
    BY LenProperties, ElementOfSeq DEF OutboxInv, OutboxTyped
  <1>2. Firsts(outboundQueue, Len(outboundQueue)) = Buffered
    <2>1. \A f : f \in Firsts(outboundQueue, Len(outboundQueue)) <=>
                    \E i \in 1..Len(outboundQueue) : outboundQueue[i] = f
      BY <1>1, FirstsAre
    <2> QED
      BY <1>1, <2>1 DEF OutboxInv, QueueInv, Buffered
  <1>3. Sorted(outboundQueue, stamp)
    BY DEF OutboxInv, QueueInv, NoOvertaking, Sorted
  <1>4. \A i, j \in 1..Len(outboundQueue) : outboundQueue[i] = outboundQueue[j] => i = j
    BY <1>1, <1>3, OrderedIsInjective
  <1>5. IsInjective(outboundQueue)
    BY <1>1, <1>4 DEF IsInjective
  <1> QED
    BY <1>2, <1>5 DEF BufferAccounted, BytesInv, OutboxInv
=============================================================================
