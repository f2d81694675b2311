---------------------------- MODULE ClientProofs ----------------------------
(***************************************************************************)
(* Proofs about Client, for any number of clients, connections, events and *)
(* disturbances: a client has one living socket and always a way back to   *)
(* the daemon, and shows what it gets in the order in which it was sent.   *)
(***************************************************************************)
EXTENDS Client, OutboxProofs

HookTyped ==
    /\ link \in [Connections -> {"none", "request", "up", "closed", "broken"}]
    /\ owner \in [Connections -> Clients \cup {None}]
    /\ readyState \in [Connections -> Live \cup {"CLOSING", "CLOSED"}]
    /\ mounted \in [Clients -> BOOLEAN]
    /\ socketRef \in [Clients -> Connections \cup {None}]
    /\ reconnectTimeout \in [Clients -> BOOLEAN]

\* A socket that lives is the current one of its owner, and one that is up lives.
SocketInv(s) ==
    /\ readyState[s] \in Live => Current(s)
    /\ readyState[s] # "CLOSED" => owner[s] # None
    /\ link[s] = "up" => readyState[s] \in Live

\* A mounted client has either a socket that is not closed yet, or its timer.
ClientInv(c) ==
    /\ socketRef[c] # None =>
          /\ mounted[c] /\ ~reconnectTimeout[c]
          /\ owner[socketRef[c]] = c /\ readyState[socketRef[c]] # "CLOSED"
    /\ mounted[c] /\ socketRef[c] = None => reconnectTimeout[c]
    /\ reconnectTimeout[c] => mounted[c]

HookInv ==
    /\ HookTyped
    /\ \A s \in Connections : SocketInv(s)
    /\ \A c \in Clients : ClientInv(c)

hookState == <<link, owner, readyState, mounted, socketRef, reconnectTimeout>>

---------------------------------------------------------------------------
(***************************************************************************)
(* Sockets.                                                                *)
(***************************************************************************)

\* Only links change, and none that is not up comes up without a living socket.
LEMMA LinksKeepHooks ==
    ASSUME HookInv, UNCHANGED <<owner, readyState, mounted, socketRef, reconnectTimeout>>,
           link' \in [Connections -> {"none", "request", "up", "closed", "broken"}],
           \A s \in Connections : link'[s] = "up" => link[s] = "up" \/ readyState[s] \in Live
    PROVE  HookInv'
  <1>1. HookTyped'
    BY DEF HookInv, HookTyped
  <1>2. \A s \in Connections : SocketInv(s)'
    BY DEF HookInv, SocketInv, Current
  <1>3. \A c \in Clients : ClientInv(c)'
    BY DEF HookInv, ClientInv
  <1> QED
    BY <1>1, <1>2, <1>3 DEF HookInv

\* A client whose socket is gone, or is let go of now, opens socket s.
LEMMA OpeningKeepsHooks ==
    ASSUME HookInv, NEW c \in Clients, NEW s \in Connections, Free(s),
           link' \in [Connections -> {"none", "request", "up", "closed", "broken"}],
           readyState' \in [Connections -> Live \cup {"CLOSING", "CLOSED"}],
           \A r \in Connections \ {s} : r # socketRef[c] =>
               readyState'[r] = readyState[r] /\ (link'[r] = "up" => link[r] = "up"),
           socketRef[c] # None =>
               /\ readyState'[socketRef[c]] \notin Live
               /\ readyState'[socketRef[c]] = "CLOSED" => readyState[socketRef[c]] = "CLOSED"
               /\ link'[socketRef[c]] # "up",
           link'[s] = "request", readyState'[s] = "CONNECTING",
           owner' = [owner EXCEPT ![s] = c],
           socketRef' = [socketRef EXCEPT ![c] = s],
           mounted' = [mounted EXCEPT ![c] = TRUE],
           reconnectTimeout' = [reconnectTimeout EXCEPT ![c] = FALSE]
    PROVE  HookInv'
  <1>1. HookTyped'
    BY DEF HookInv, HookTyped
  <1>2. readyState[s] = "CLOSED" /\ c # None /\ s # None
    BY ClientAssumption, OutboxAssumption DEF Free
  <1>3. \A d \in Clients : socketRef[d] # s
    BY <1>2 DEF HookInv, ClientInv
  <1>4. /\ \A r \in Connections : owner'[r] = IF r = s THEN c ELSE owner[r]
        /\ \A d \in Clients : socketRef'[d] = IF d = c THEN s ELSE socketRef[d]
        /\ \A d \in Clients : d # c => /\ mounted'[d] = mounted[d]
                                       /\ reconnectTimeout'[d] = reconnectTimeout[d]
        /\ mounted'[c] = TRUE /\ reconnectTimeout'[c] = FALSE
    BY DEF HookInv, HookTyped
  <1>5. ASSUME NEW r \in Connections PROVE SocketInv(r)'
    <2>1. CASE r = s
      BY <2>1, <1>2, <1>4 DEF SocketInv, Current, Live
    <2>2. CASE r # s /\ r = socketRef[c]
      <3>1. readyState'[r] \notin Live /\ link'[r] # "up" /\ owner'[r] = owner[r]
        BY <2>2, <1>4, OutboxAssumption
      <3>2. owner[r] # None
        BY <2>2, ClientAssumption, OutboxAssumption DEF HookInv, ClientInv
      <3> QED
        BY <3>1, <3>2 DEF SocketInv
    <2>3. CASE r # s /\ r # socketRef[c]
      <3>1. readyState'[r] = readyState[r] /\ (link'[r] = "up" => link[r] = "up") /\ owner'[r] = owner[r]
        BY <2>3, <1>4
      <3>2. SocketInv(r)
        BY DEF HookInv
      <3>3. ASSUME readyState[r] \in Live PROVE owner[r] # None /\ socketRef'[owner[r]] = r
        <4>1. owner[r] # None /\ socketRef[owner[r]] = r /\ owner[r] \in Clients
          BY <3>2, <3>3 DEF SocketInv, Current, HookInv, HookTyped
        <4> QED
          BY <4>1, <2>3, <1>4
      <3> QED
        BY <3>1, <3>2, <3>3 DEF SocketInv, Current
    <2> QED
      BY <2>1, <2>2, <2>3
  <1>6. ASSUME NEW d \in Clients PROVE ClientInv(d)'
    <2>1. CASE d = c
      BY <2>1, <1>2, <1>4 DEF ClientInv
    <2>2. CASE d # c
      <3>1. ClientInv(d)
        BY DEF HookInv
      <3>2. /\ socketRef'[d] = socketRef[d] /\ socketRef[d] # s
            /\ mounted'[d] = mounted[d] /\ reconnectTimeout'[d] = reconnectTimeout[d]
        BY <2>2, <1>3, <1>4
      <3>3. ASSUME socketRef[d] # None
            PROVE  owner'[socketRef[d]] = d /\ readyState'[socketRef[d]] # "CLOSED"
        <4>1. /\ socketRef[d] \in Connections \ {s}
              /\ owner[socketRef[d]] = d /\ readyState[socketRef[d]] # "CLOSED"
          BY <3>1, <3>2, <3>3 DEF ClientInv, HookInv, HookTyped
        <4>2. socketRef[d] # socketRef[c]
          BY <4>1, <2>2, <3>3 DEF HookInv, ClientInv
        <4> QED
          BY <4>1, <4>2, <1>4
      <3> QED
        BY <3>1, <3>2, <3>3 DEF ClientInv
    <2> QED
      BY <2>1, <2>2
  <1> QED
    BY <1>1, <1>5, <1>6 DEF HookInv

LEMMA MountKeeps == ASSUME HookInv, NEW c \in Clients, Mount(c) PROVE HookInv'
  <1>1. PICK s \in Connections : OpenSocket(c, s, readyState)
    BY DEF Mount
  <1>2. /\ Free(s)
        /\ link' = [link EXCEPT ![s] = "request"]
        /\ readyState' = [readyState EXCEPT ![s] = "CONNECTING"]
        /\ owner' = [owner EXCEPT ![s] = c]
        /\ socketRef' = [socketRef EXCEPT ![c] = s]
    BY <1>1 DEF OpenSocket
  <1>3. /\ ~mounted[c] /\ mounted' = [mounted EXCEPT ![c] = TRUE]
        /\ reconnectTimeout' = reconnectTimeout
    BY DEF Mount
  <1>4. socketRef[c] = None /\ reconnectTimeout[c] = FALSE
    BY <1>3 DEF HookInv, ClientInv, HookTyped
  <1>5. reconnectTimeout' = [reconnectTimeout EXCEPT ![c] = FALSE]
    BY <1>3, <1>4 DEF HookInv, HookTyped
  <1>6. /\ link' \in [Connections -> {"none", "request", "up", "closed", "broken"}]
        /\ readyState' \in [Connections -> Live \cup {"CLOSING", "CLOSED"}]
        /\ \A r \in Connections \ {s} : readyState'[r] = readyState[r] /\ link'[r] = link[r]
        /\ link'[s] = "request" /\ readyState'[s] = "CONNECTING"
    BY <1>2 DEF HookInv, HookTyped, Live
  <1> QED
    BY <1>2, <1>3, <1>4, <1>5, <1>6, OpeningKeepsHooks

LEMMA TimerKeeps == ASSUME HookInv, NEW c \in Clients, ReconnectTimerFires(c) PROVE HookInv'
  <1>1. /\ reconnectTimeout[c] /\ reconnectTimeout' = [reconnectTimeout EXCEPT ![c] = FALSE]
        /\ mounted' = mounted /\ connect(c, socketRef[c], readyState)
    BY DEF ReconnectTimerFires
  <1>2. socketRef[c] = None /\ mounted[c]
    BY <1>1 DEF HookInv, ClientInv
  <1>3. PICK s \in Connections : OpenSocket(c, s, readyState)
    BY <1>1, <1>2 DEF connect
  <1>4. /\ Free(s)
        /\ link' = [link EXCEPT ![s] = "request"]
        /\ readyState' = [readyState EXCEPT ![s] = "CONNECTING"]
        /\ owner' = [owner EXCEPT ![s] = c]
        /\ socketRef' = [socketRef EXCEPT ![c] = s]
    BY <1>3 DEF OpenSocket
  <1>5. mounted' = [mounted EXCEPT ![c] = TRUE]
    BY <1>1, <1>2 DEF HookInv, HookTyped
  <1>6. /\ link' \in [Connections -> {"none", "request", "up", "closed", "broken"}]
        /\ readyState' \in [Connections -> Live \cup {"CLOSING", "CLOSED"}]
        /\ \A r \in Connections \ {s} : readyState'[r] = readyState[r] /\ link'[r] = link[r]
        /\ link'[s] = "request" /\ readyState'[s] = "CONNECTING"
    BY <1>4 DEF HookInv, HookTyped, Live
  <1> QED
    BY <1>1, <1>2, <1>4, <1>5, <1>6, OpeningKeepsHooks

LEMMA ReconnectKeeps == ASSUME HookInv, NEW c \in Clients, Reconnect(c) PROVE HookInv'
  <1> DEFINE old == socketRef[c]
  <1>1. PICK s \in Connections :
           /\ Free(s)
           /\ link' = [r \in Connections |->
                          IF r = s THEN "request"
                          ELSE IF r = old THEN LinkOfClosed(r) ELSE link[r]]
           /\ readyState' = [r \in Connections |->
                                IF r = s THEN "CONNECTING"
                                ELSE IF r = old THEN CloseSocket(r)[r] ELSE readyState[r]]
           /\ owner' = [owner EXCEPT ![s] = c]
           /\ socketRef' = [socketRef EXCEPT ![c] = s]
    BY DEF Reconnect
  <1>2. /\ mounted[c] /\ mounted' = mounted
        /\ reconnectTimeout' = [reconnectTimeout EXCEPT ![c] = FALSE]
    BY DEF Reconnect
  <1>3. mounted' = [mounted EXCEPT ![c] = TRUE]
    BY <1>2 DEF HookInv, HookTyped
  <1>4. \A r \in Connections : /\ CloseSocket(r)[r] = IF readyState[r] \in Live THEN "CLOSING" ELSE readyState[r]
                              /\ CloseSocket(r)[r] \in {"CLOSING", "CLOSED"}
    BY DEF CloseSocket, HookInv, HookTyped
  <1>5. \A r \in Connections : LinkOfClosed(r) \in {link[r], "closed"} /\ LinkOfClosed(r) # "up"
    BY DEF LinkOfClosed, HookInv, SocketInv
  <1>6. /\ link' \in [Connections -> {"none", "request", "up", "closed", "broken"}]
        /\ readyState' \in [Connections -> Live \cup {"CLOSING", "CLOSED"}]
    BY <1>1, <1>4, <1>5 DEF HookInv, HookTyped, Live
  <1>7. /\ \A r \in Connections \ {s} : r # old => readyState'[r] = readyState[r] /\ link'[r] = link[r]
        /\ link'[s] = "request" /\ readyState'[s] = "CONNECTING"
    BY <1>1
  <1>8. ASSUME old # None
        PROVE  /\ readyState'[old] \notin Live /\ link'[old] # "up"
               /\ readyState'[old] = "CLOSED" => readyState[old] = "CLOSED"
    <2>1. old \in Connections /\ readyState[old] # "CLOSED"
      BY <1>8 DEF HookInv, HookTyped, ClientInv
    <2>2. old # s
      BY <2>1, <1>1 DEF Free
    <2>3. readyState'[old] = CloseSocket(old)[old] /\ link'[old] = LinkOfClosed(old)
      BY <1>1, <2>1, <2>2
    <2> QED
      BY <2>1, <2>3, <1>4, <1>5 DEF Live
  <1> QED
    BY <1>1, <1>2, <1>3, <1>6, <1>7, <1>8, OpeningKeepsHooks

LEMMA UnmountKeeps == ASSUME HookInv, NEW c \in Clients, Unmount(c) PROVE HookInv'
  <1> DEFINE old == socketRef[c]
  <1>1. /\ mounted' = [mounted EXCEPT ![c] = FALSE]
        /\ reconnectTimeout' = [reconnectTimeout EXCEPT ![c] = FALSE]
        /\ socketRef' = [socketRef EXCEPT ![c] = None]
        /\ owner' = owner
    BY DEF Unmount
  <1>2. /\ readyState' \in [Connections -> Live \cup {"CLOSING", "CLOSED"}]
        /\ link' \in [Connections -> {"none", "request", "up", "closed", "broken"}]
        /\ \A r \in Connections : r # old =>
              readyState'[r] = readyState[r] /\ link'[r] = link[r]
        /\ old # None => /\ readyState'[old] \notin Live /\ link'[old] # "up"
                         /\ readyState'[old] # "CLOSED"
    <2>1. CASE old = None
      BY <2>1, OutboxAssumption DEF Unmount, HookInv, HookTyped
    <2>2. CASE old # None
      <3>1. /\ readyState' = CloseSocket(old)
            /\ link' = [link EXCEPT ![old] = LinkOfClosed(old)]
        BY <2>2 DEF Unmount
      <3>2. old \in Connections /\ readyState[old] # "CLOSED"
        BY <2>2 DEF HookInv, HookTyped, ClientInv
      <3>3. LinkOfClosed(old) \in {link[old], "closed"} /\ LinkOfClosed(old) # "up"
        BY <3>2 DEF LinkOfClosed, HookInv, SocketInv
      <3> QED
        BY <3>1, <3>2, <3>3 DEF CloseSocket, HookInv, HookTyped, Live
    <2> QED
      BY <2>1, <2>2
  <1>3. HookTyped'
    BY <1>1, <1>2 DEF HookInv, HookTyped
  <1>4. \A d \in Clients : socketRef'[d] = IF d = c THEN None ELSE socketRef[d]
    BY <1>1 DEF HookInv, HookTyped
  <1>7. \A d \in Clients : d # c => /\ mounted'[d] = mounted[d]
                                    /\ reconnectTimeout'[d] = reconnectTimeout[d]
    BY <1>1 DEF HookInv, HookTyped
  <1>8. mounted'[c] = FALSE /\ reconnectTimeout'[c] = FALSE
    BY <1>1 DEF HookInv, HookTyped
  <1>5. ASSUME NEW r \in Connections PROVE SocketInv(r)'
    <2>1. CASE r = old
      <3>1. owner[r] # None
        BY <2>1, ClientAssumption, OutboxAssumption DEF HookInv, ClientInv
      <3> QED
        BY <2>1, <3>1, <1>1, <1>2, OutboxAssumption DEF SocketInv
    <2>2. CASE r # old
      <3>1. SocketInv(r) /\ readyState'[r] = readyState[r] /\ link'[r] = link[r]
        BY <2>2, <1>2 DEF HookInv
      <3>2. ASSUME readyState[r] \in Live PROVE owner[r] # None /\ socketRef'[owner[r]] = r
        <4>1. owner[r] # None /\ socketRef[owner[r]] = r /\ owner[r] \in Clients
          BY <3>1, <3>2 DEF SocketInv, Current, HookInv, HookTyped
        <4> QED
          BY <4>1, <2>2, <1>4
      <3> QED
        BY <3>1, <3>2, <1>1 DEF SocketInv, Current
    <2> QED
      BY <2>1, <2>2
  <1>6. ASSUME NEW d \in Clients PROVE ClientInv(d)'
    <2>1. CASE d = c
      BY <2>1, <1>4, <1>8 DEF ClientInv
    <2>2. CASE d # c
      <3>1. ClientInv(d)
        BY DEF HookInv
      <3>2. ASSUME socketRef[d] # None PROVE readyState'[socketRef[d]] # "CLOSED"
        <4>1. socketRef[d] \in Connections /\ owner[socketRef[d]] = d /\ readyState[socketRef[d]] # "CLOSED"
          BY <3>1, <3>2 DEF ClientInv, HookInv, HookTyped
        <4>2. socketRef[d] # old
          BY <4>1, <2>2, <3>2 DEF HookInv, ClientInv
        <4> QED
          BY <4>1, <4>2, <1>2
      <3>3. owner' = owner
        BY <1>1
      <3> QED
        BY <2>2, <3>1, <3>2, <3>3, <1>4, <1>7 DEF ClientInv
    <2> QED
      BY <2>1, <2>2
  <1> QED
    BY <1>3, <1>5, <1>6 DEF HookInv

\* A socket opens, or finds its connection broken.
LEMMA SocketEventKeeps ==
    ASSUME HookInv, NEW s \in Connections, OnOpen(s) \/ OnError(s)
    PROVE  HookInv'
  <1>1. /\ UNCHANGED <<owner, mounted, socketRef, reconnectTimeout>> /\ link' = link
        /\ \/ /\ readyState[s] \in Live /\ readyState' = [readyState EXCEPT ![s] = "OPEN"]
           \/ /\ readyState[s] \in Live /\ readyState' = [readyState EXCEPT ![s] = "CLOSING"]
              /\ link[s] # "up"
    BY DEF OnOpen, OnError, Live
  <1>2. HookTyped'
    BY <1>1 DEF HookInv, HookTyped, Live
  <1>3. /\ \A r \in Connections : r # s => readyState'[r] = readyState[r]
        /\ readyState'[s] # "CLOSED"
        /\ readyState'[s] \in Live \/ link[s] # "up"
    BY <1>1 DEF HookInv, HookTyped, Live
  <1>4. ASSUME NEW r \in Connections PROVE SocketInv(r)'
    <2>1. SocketInv(r) /\ UNCHANGED <<owner, socketRef, link>>
      BY <1>1 DEF HookInv
    <2>2. CASE r = s
      <3>1. owner[r] # None /\ socketRef[owner[r]] = r
        BY <1>1, <2>1, <2>2 DEF SocketInv, Current, Live
      <3>2. owner' = owner /\ socketRef' = socketRef /\ link' = link
        BY <2>1
      <3> QED
        BY <1>3, <2>2, <3>1, <3>2 DEF SocketInv, Current
    <2>3. CASE r # s
      <3>1. readyState'[r] = readyState[r] /\ owner' = owner /\ socketRef' = socketRef /\ link' = link
        BY <1>3, <2>1, <2>3
      <3> QED
        BY <2>1, <3>1 DEF SocketInv, Current
    <2> QED
      BY <2>2, <2>3
  <1>5. \A c \in Clients : ClientInv(c)'
    BY <1>1, <1>3 DEF HookInv, HookTyped, ClientInv
  <1> QED
    BY <1>2, <1>4, <1>5 DEF HookInv

LEMMA OnCloseKeeps == ASSUME HookInv, NEW s \in Connections, OnClose(s) PROVE HookInv'
  <1>1. /\ readyState' = [readyState EXCEPT ![s] = "CLOSED"]
        /\ owner' = [owner EXCEPT ![s] = None]
        /\ link' = [link EXCEPT ![s] = Over(s, "CLOSED", open, @)]
        /\ mounted' = mounted
        /\ readyState[s] # "CLOSED" /\ link[s] # "up"
    BY DEF OnClose, HookInv, SocketInv, Live
  <1>2. Over(s, "CLOSED", open, link[s]) \in {"none", link[s]}
    BY DEF Over
  <1>3. /\ \A r \in Connections : r # s => /\ readyState'[r] = readyState[r]
                                            /\ owner'[r] = owner[r] /\ link'[r] = link[r]
        /\ readyState'[s] = "CLOSED" /\ owner'[s] = None /\ link'[s] # "up"
    BY <1>1, <1>2 DEF HookInv, HookTyped
  <1>4. owner[s] \in Clients
    BY <1>1 DEF HookInv, HookTyped, SocketInv
  <1>5. CASE Current(s)
    <2> DEFINE c == owner[s]
    <2>1. /\ socketRef' = [socketRef EXCEPT ![c] = None]
          /\ reconnectTimeout' = [reconnectTimeout EXCEPT ![c] = @ \/ mounted[c]]
      BY <1>5 DEF OnClose, scheduleReconnect
    <2>2. c \in Clients /\ socketRef[c] = s /\ s # None
      BY <1>4, <1>5, OutboxAssumption DEF Current
    <2>3. mounted[c] /\ reconnectTimeout[c] = FALSE
      BY <2>2 DEF HookInv, ClientInv, HookTyped
    <2>4. \A d \in Clients : socketRef'[d] = IF d = c THEN None ELSE socketRef[d]
      BY <2>1, <2>2 DEF HookInv, HookTyped
    <2>8. \A d \in Clients : d # c => reconnectTimeout'[d] = reconnectTimeout[d]
      BY <2>1, <2>2 DEF HookInv, HookTyped
    <2>9. reconnectTimeout'[c] = TRUE
      BY <2>1, <2>2, <2>3 DEF HookInv, HookTyped
    <2>5. HookTyped'
      BY <1>1, <1>2, <2>1, <2>3 DEF HookInv, HookTyped
    <2> HIDE DEF c
    <2>6. ASSUME NEW r \in Connections PROVE SocketInv(r)'
      <3>1. CASE r = s
        BY <3>1, <1>3 DEF SocketInv, Live
      <3>2. CASE r # s
        <4>1. SocketInv(r) /\ owner[r] \in Clients \cup {None}
          BY DEF HookInv, HookTyped
        <4>2. owner[r] \in Clients /\ socketRef[owner[r]] = r => socketRef'[owner[r]] = r
          BY <3>2, <2>2, <2>4
        <4> QED
          BY <3>2, <4>1, <4>2, <1>3 DEF SocketInv, Current
      <3> QED
        BY <3>1, <3>2
    <2>7. ASSUME NEW d \in Clients PROVE ClientInv(d)'
      <3>1. CASE d = c
        BY <3>1, <1>1, <2>2, <2>3, <2>4, <2>9 DEF ClientInv
      <3>2. CASE d # c
        <4>1. ClientInv(d)
          BY DEF HookInv
        <4>2. ASSUME socketRef[d] # None PROVE socketRef[d] # s /\ socketRef[d] \in Connections
          BY <4>1, <4>2, <3>2 DEF HookInv, HookTyped, ClientInv, c
        <4> QED
          BY <3>2, <4>1, <4>2, <1>1, <1>3, <2>4, <2>8 DEF ClientInv
      <3> QED
        BY <3>1, <3>2
    <2> QED
      BY <2>5, <2>6, <2>7 DEF HookInv
  <1>6. CASE ~Current(s)
    <2>1. UNCHANGED <<socketRef, reconnectTimeout>>
      BY <1>6 DEF OnClose
    <2>2. HookTyped'
      BY <1>1, <1>2, <2>1 DEF HookInv, HookTyped
    <2>3. ASSUME NEW r \in Connections PROVE SocketInv(r)'
      BY <1>3, <2>1 DEF HookInv, SocketInv, Current, Live
    <2>4. ASSUME NEW d \in Clients PROVE ClientInv(d)'
      <3>1. ClientInv(d)
        BY DEF HookInv
      <3>2. ASSUME socketRef[d] # None PROVE socketRef[d] # s /\ socketRef[d] \in Connections
        BY <3>1, <3>2, <1>6, ClientAssumption DEF HookInv, HookTyped, ClientInv, Current
      <3> QED
        BY <3>1, <3>2, <1>1, <1>3, <2>1 DEF ClientInv
    <2> QED
      BY <2>2, <2>3, <2>4 DEF HookInv
  <1> QED
    BY <1>5, <1>6

---------------------------------------------------------------------------
(***************************************************************************)
(* The adapter's end leaves the hooks alone.                               *)
(***************************************************************************)

LEMMA AcceptKeepsHooks == ASSUME HookInv, NEW s \in Connections, Accept(s) PROVE HookInv'
  <1>1. UNCHANGED <<owner, readyState, mounted, socketRef, reconnectTimeout>>
    BY DEF Accept, hookVars
  <1>2. \A r \in Connections :
           /\ link'[r] \in {link[r], "closed", "up", "broken"}
           /\ link'[r] = "up" => link[r] = "up" \/ readyState[r] \in Live
    BY DEF Accept, Live
  <1>3. link' \in [Connections -> {"none", "request", "up", "closed", "broken"}]
    BY DEF Accept, HookInv, HookTyped
  <1> QED
    BY <1>1, <1>2, <1>3, LinksKeepHooks

LEMMA OtherAdapterStepsKeepHooks == ASSUME HookInv, AdapterStep PROVE HookInv'
  <1>1. ASSUME NEW s \in Connections, Refuse(s) \/ Break(s) PROVE HookInv'
    <2>1. /\ UNCHANGED <<owner, readyState, mounted, socketRef, reconnectTimeout>>
          /\ link' = [link EXCEPT ![s] = Over(s, readyState[s], open, "broken")]
      BY <1>1 DEF Refuse, Break, Breaks, hookVars
    <2>2. Over(s, readyState[s], open, "broken") \in {"none", "broken"}
      BY DEF Over
    <2> QED
      BY <2>1, <2>2, LinksKeepHooks DEF HookInv, HookTyped
  <1>2. ASSUME NEW e \in Events, Emit(e) PROVE HookInv'
    <2>1. /\ UNCHANGED <<owner, readyState, mounted, socketRef, reconnectTimeout>>
          /\ link' \in {link} \/ link' = [link EXCEPT ![socket] = Over(socket, readyState[socket], open, "broken")]
      BY <1>2 DEF Emit, Breaks, hookVars
    <2>2. Over(socket, readyState[socket], open, "broken") \in {"none", "broken"}
      BY DEF Over
    <2> QED
      BY <2>1, <2>2, LinksKeepHooks DEF HookInv, HookTyped
  <1>3. ASSUME NEW s \in Connections, ServerSeesClose(s) PROVE HookInv'
    <2>1. /\ UNCHANGED <<owner, readyState, mounted, socketRef, reconnectTimeout>>
          /\ link' = [link EXCEPT ![s] = Over(s, readyState[s], open \ {s}, @)]
      BY <1>3 DEF ServerSeesClose, hookVars
    <2>2. Over(s, readyState[s], open \ {s}, link[s]) \in {"none", link[s]}
      BY DEF Over
    <2> QED
      BY <2>1, <2>2, LinksKeepHooks DEF HookInv, HookTyped
  <1>4. CASE DaemonStops
    <2>1. /\ UNCHANGED <<owner, readyState, mounted, socketRef, reconnectTimeout>>
          /\ link' = [s \in Connections |->
                   Over(s, readyState[s], {},
                        IF link[s] \in {"up", "closed"} THEN "broken" ELSE link[s])]
      BY <1>4 DEF DaemonStops, hookVars
    <2>2. \A s, how : Over(s, readyState[s], {}, how) \in {"none", how}
      BY DEF Over
    <2> QED
      BY <2>1, <2>2, LinksKeepHooks DEF HookInv, HookTyped
  <1>5. CASE UNCHANGED hookState
    BY <1>5, LinksKeepHooks DEF hookState, HookInv, HookTyped
  <1>6. (PromptTimesOut \/ DaemonStarts \/ \E s \in Connections : TextArrives(s)) => UNCHANGED hookState
    BY DEF PromptTimesOut, DaemonStarts, TextArrives, linkVars, hookVars, hookState
  <1> QED
    BY <1>1, <1>2, <1>3, <1>4, <1>5, <1>6, AcceptKeepsHooks DEF AdapterStep

LEMMA ClientStepKeepsHooks == ASSUME HookInv, ClientStep PROVE HookInv'
  <1>1. CASE UNCHANGED hookState
    BY <1>1, LinksKeepHooks DEF hookState, HookInv, HookTyped
  <1>2. ASSUME NEW c \in Clients, SendMessage(c) \/ ClearMessages(c) PROVE UNCHANGED hookState
    BY <1>2 DEF SendMessage, ClearMessages, linkVars, hookState
  <1>3. ASSUME NEW s \in Connections, OnMessage(s) PROVE UNCHANGED hookState
    BY <1>3 DEF OnMessage, hookState
  <1> QED
    BY <1>1, <1>2, <1>3, MountKeeps, UnmountKeeps, TimerKeeps, ReconnectKeeps,
       SocketEventKeeps, OnCloseKeeps
    DEF ClientStep

LEMMA HooksStart == Init => HookInv
  BY DEF Init, HookInv, HookTyped, SocketInv, ClientInv, Live

LEMMA HooksAreKept == HookInv /\ [Next]_vars => HookInv'
  <1>1. HookInv /\ UNCHANGED vars => HookInv'
    <2>1. UNCHANGED vars => UNCHANGED hookState
      BY DEF vars, linkVars, hookVars, hookState
    <2> QED
      BY <2>1, LinksKeepHooks DEF hookState, HookInv, HookTyped
  <1> QED
    BY <1>1, OtherAdapterStepsKeepHooks, ClientStepKeepsHooks DEF Next

\* A client never leaves a socket open that it let go of, and while it runs it
\* has a socket that lives or will report its close, or else the timer that
\* opens another one: for any number of clients and connections, whatever
\* breaks, stops or reconnects.
THEOREM AlwaysOneWay == Spec => []OneWayToTheDaemon
  <1>1. HookInv => OneWayToTheDaemon
    BY DEF HookInv, SocketInv, ClientInv, OneWayToTheDaemon, OneLiveSocket, NeverStranded
  <1> QED
    BY <1>1, HooksStart, HooksAreKept, PTL DEF Spec

---------------------------------------------------------------------------
(***************************************************************************)
(* What is shown.                                                          *)
(***************************************************************************)

\* Events that were sent, by their age st, and a sequence of older ones before another.
InOrder(q, st, d) == Sorted(q, st) /\ \A i \in 1..Len(q) : d[q[i]] = "sent"
Before(q, r, st) == \A i \in 1..Len(q), j \in 1..Len(r) : st[q[i]] < st[r[j]]

\* What is under way to the current socket of a client is younger than all it shows.
ShowInv ==
    /\ shown \in [Clients -> Seq(Events)]
    /\ wire \in [Connections -> Seq(Events)]
    /\ \A c \in Clients : InOrder(shown[c], stamp, delivery)
    /\ \A s \in Connections : InOrder(wire[s], stamp, delivery)
    /\ \A s \in Connections : readyState[s] = "CLOSED" => wire[s] = <<>>
    /\ \A c \in Clients : socketRef[c] # None => Before(shown[c], wire[socketRef[c]], stamp)

SentStay == \A f \in Events :
    delivery[f] = "sent" => delivery'[f] = "sent" /\ stamp'[f] = stamp[f]

LEMMA AdapterStepIs ==
    ASSUME AdapterStep
    PROVE  OutboxStep \/ (DaemonStarts /\ UNCHANGED <<socket, outboundQueue, outboundQueueBytes,
                              delivery, open, failed, newest, stamp, submitted>>)
  <1>1. ASSUME NEW s \in Connections, Accept(s) \/ ServerSeesClose(s) PROVE OutboxStep
    BY <1>1 DEF Accept, ServerSeesClose, OutboxStep, ConnectionStep, Open
  <1>2. ASSUME NEW s \in Connections, Refuse(s) \/ TextArrives(s) \/ Break(s) PROVE OutboxStep
    BY <1>2 DEF Refuse, TextArrives, Break, OutboxStep
  <1>3. ASSUME NEW e \in Events, Emit(e) PROVE OutboxStep
    BY <1>3 DEF Emit, OutboxStep
  <1>4. CASE PromptTimesOut \/ DaemonStops
    BY <1>4 DEF PromptTimesOut, DaemonStops, OutboxStep
  <1>5. CASE DaemonStarts
    BY <1>5 DEF DaemonStarts
  <1> QED
    BY <1>1, <1>2, <1>3, <1>4, <1>5 DEF AdapterStep

LEMMA AdapterKeepsOutbox ==
    ASSUME OutboxInv, AdapterStep \/ UNCHANGED outboxVars
    PROVE  OutboxInv' /\ SentStay
  <1>1. CASE OutboxStep
    <2>1. OutboxInv'
      BY <1>1, OutboxIsKept
    <2>2. \A f \in Events : delivery[f] = "sent" => delivery'[f] = "sent"
      BY <1>1, DeliveryIsFinal DEF Settled
    <2>3. \A f \in Events : delivery[f] = "sent" => stamp'[f] = stamp[f]
      BY <1>1 DEF OutboxStep, OutboxInv, OutboxTyped, enqueueOrSend, ConnectionStep, Open, OpenAndFlush,
                  Close, CommandResponseFails, Stop, outboxVars
    <2> QED
      BY <2>1, <2>2, <2>3 DEF SentStay
  <1>2. CASE UNCHANGED <<socket, outboundQueue, outboundQueueBytes,
                         delivery, open, failed, newest, stamp, submitted>>
    BY <1>2 DEF OutboxInv, OutboxTyped, QueueInv, NoOvertaking, Buffered,
                NothingWaitsWhileConnected, LatestClientIsServed, SentStay
  <1>3. UNCHANGED outboxVars => OutboxStep
    BY DEF OutboxStep
  <1> QED
    BY <1>1, <1>2, <1>3, AdapterStepIs

LEMMA Carried ==
    ASSUME SentStay, NEW q \in Seq(Events), InOrder(q, stamp, delivery)
    PROVE  InOrder(q, stamp', delivery')
  BY ElementOfSeq DEF SentStay, InOrder, Sorted

LEMMA CarriedBefore ==
    ASSUME SentStay, NEW q \in Seq(Events), NEW r \in Seq(Events),
           InOrder(q, stamp, delivery), InOrder(r, stamp, delivery), Before(q, r, stamp)
    PROVE  Before(q, r, stamp')
  BY ElementOfSeq DEF SentStay, InOrder, Before

LEMMA NothingIsInOrder ==
    /\ <<>> \in Seq(Events)
    /\ \A st, d : InOrder(<<>>, st, d)
    /\ \A q, st : Before(q, <<>>, st)
  BY EmptySeq DEF InOrder, Sorted, Before

\* A step that shows and sends nothing.
LEMMA QuietKeeps ==
    ASSUME ShowInv, SentStay, shown' = shown,
           wire' \in [Connections -> Seq(Events)],
           \A s \in Connections : wire'[s] \in {wire[s], <<>>},
           \A s \in Connections : readyState'[s] = "CLOSED" => wire'[s] = <<>>,
           \A c \in Clients : socketRef'[c] # None =>
               /\ socketRef'[c] \in Connections
               /\ socketRef'[c] = socketRef[c] \/ wire'[socketRef'[c]] = <<>>
    PROVE  ShowInv'
  <1>1. \A c \in Clients : InOrder(shown[c], stamp', delivery')
    BY Carried DEF ShowInv
  <1>2. ASSUME NEW s \in Connections PROVE InOrder(wire'[s], stamp', delivery')
    <2>1. wire[s] \in Seq(Events) /\ InOrder(wire[s], stamp, delivery)
      BY DEF ShowInv
    <2> QED
      BY <2>1, Carried, NothingIsInOrder
  <1>3. ASSUME NEW c \in Clients, socketRef'[c] # None
        PROVE  Before(shown[c], wire'[socketRef'[c]], stamp')
    <2>1. CASE wire'[socketRef'[c]] = <<>>
      BY <2>1, NothingIsInOrder
    <2>2. CASE wire'[socketRef'[c]] # <<>>
      <3>1. /\ socketRef'[c] \in Connections /\ socketRef'[c] = socketRef[c]
            /\ wire'[socketRef'[c]] = wire[socketRef[c]]
        BY <1>3, <2>2
      <3>2. /\ shown[c] \in Seq(Events) /\ InOrder(shown[c], stamp, delivery)
            /\ wire[socketRef[c]] \in Seq(Events) /\ InOrder(wire[socketRef[c]], stamp, delivery)
            /\ Before(shown[c], wire[socketRef[c]], stamp)
        BY <1>3, <3>1 DEF ShowInv
      <3> QED
        BY <3>1, <3>2, CarriedBefore
    <2> QED
      BY <2>1, <2>2
  <1> QED
    BY <1>1, <1>2, <1>3 DEF ShowInv

\* Socket s, living, takes events that were all sent now.
LEMMA SendingKeeps ==
    ASSUME ShowInv, SentStay, HookInv, shown' = shown, UNCHANGED <<socketRef, readyState>>,
           NEW s \in Connections, readyState[s] # "CLOSED",
           NEW q \in Seq(Events), InOrder(q, stamp', delivery'),
           \A c \in Clients : socketRef[c] = s => Before(shown[c], q, stamp'),
           wire' = [wire EXCEPT ![s] = q]
    PROVE  ShowInv'
  <1>1. \A c \in Clients : InOrder(shown[c], stamp', delivery')
    BY Carried DEF ShowInv
  <1>2. /\ wire' \in [Connections -> Seq(Events)]
        /\ \A r \in Connections : wire'[r] = IF r = s THEN q ELSE wire[r]
    BY DEF ShowInv
  <1>3. ASSUME NEW r \in Connections PROVE InOrder(wire'[r], stamp', delivery')
    <2>1. wire[r] \in Seq(Events) /\ InOrder(wire[r], stamp, delivery)
      BY DEF ShowInv
    <2> QED
      BY <1>2, <2>1, Carried
  <1>4. ASSUME NEW c \in Clients, socketRef[c] # None
        PROVE  Before(shown[c], wire'[socketRef[c]], stamp')
    <2>1. CASE socketRef[c] = s
      BY <2>1, <1>2
    <2>2. CASE socketRef[c] # s
      <3>1. socketRef[c] \in Connections
        BY <1>4 DEF HookInv, HookTyped
      <3>2. /\ shown[c] \in Seq(Events) /\ InOrder(shown[c], stamp, delivery)
            /\ wire[socketRef[c]] \in Seq(Events) /\ InOrder(wire[socketRef[c]], stamp, delivery)
            /\ Before(shown[c], wire[socketRef[c]], stamp)
        BY <1>4, <3>1 DEF ShowInv
      <3> QED
        BY <2>2, <3>1, <3>2, <1>2, CarriedBefore
    <2> QED
      BY <2>1, <2>2
  <1>5. \A r \in Connections : readyState'[r] = "CLOSED" => wire'[r] = <<>>
    BY <1>2 DEF ShowInv
  <1> QED
    BY <1>1, <1>2, <1>3, <1>4, <1>5 DEF ShowInv

LEMMA OnMessageKeepsShown ==
    ASSUME ShowInv, HookInv, NEW s \in Connections, OnMessage(s)
    PROVE  ShowInv'
  <1> DEFINE q == wire[s]
  <1>1. /\ q # <<>> /\ wire' = [wire EXCEPT ![s] = Tail(q)]
        /\ UNCHANGED <<readyState, socketRef, stamp, delivery>>
        /\ readyState[s] # "CLOSED"
    BY DEF OnMessage, outboxVars
  <1>2. /\ q \in Seq(Events) /\ InOrder(q, stamp, delivery)
    BY DEF ShowInv
  <1>3. /\ Head(q) \in Events /\ Tail(q) \in Seq(Events) /\ Len(q) \in Nat \ {0}
        /\ Len(Tail(q)) = Len(q) - 1 /\ Head(q) = q[1]
        /\ \A i \in 1..Len(q) - 1 : Tail(q)[i] = q[i + 1]
    BY <1>1, <1>2, HeadTailProperties, EmptySeq, LenProperties
  <1>4. \A i \in 1..Len(q) - 1 : i + 1 \in 1..Len(q) /\ 1 < i + 1
    BY <1>3
  <1>5. InOrder(Tail(q), stamp, delivery)
    BY <1>2, <1>3, <1>4 DEF InOrder, Sorted
  <1>6. /\ delivery[Head(q)] = "sent"
        /\ \A i \in 1..Len(Tail(q)) : stamp[Head(q)] < stamp[Tail(q)[i]]
    <2>1. 1 \in 1..Len(q)
      BY <1>3
    <2> QED
      BY <2>1, <1>2, <1>3, <1>4 DEF InOrder, Sorted
  <1>7. /\ wire' \in [Connections -> Seq(Events)]
        /\ \A r \in Connections : wire'[r] = IF r = s THEN Tail(q) ELSE wire[r]
    BY <1>1, <1>3 DEF ShowInv
  <1> HIDE DEF q
  <1>8. \A r \in Connections : InOrder(wire'[r], stamp', delivery')
    BY <1>1, <1>5, <1>7 DEF ShowInv
  <1>9. \A r \in Connections : readyState'[r] = "CLOSED" => wire'[r] = <<>>
    BY <1>1, <1>7 DEF ShowInv
  <1>10. CASE Current(s)
    <2> DEFINE c == owner[s]
    <2>1. c \in Clients /\ socketRef[c] = s /\ s # None
      BY <1>10, OutboxAssumption DEF Current, HookInv, HookTyped
    <2>2. shown' = [shown EXCEPT ![c] = Append(@, Head(q))]
      BY <1>10 DEF OnMessage, handleServerMessage, q
    <2>3. \A d \in Clients \ {c} : socketRef[d] # s
      BY <2>1 DEF HookInv, ClientInv
    <2> HIDE DEF c
    <2>4. shown[c] \in Seq(Events) /\ InOrder(shown[c], stamp, delivery) /\ Before(shown[c], q, stamp)
      BY <2>1 DEF ShowInv, q
    <2> DEFINE a == Append(shown[c], Head(q))
    <2>5. /\ a \in Seq(Events) /\ Len(a) = Len(shown[c]) + 1 /\ Len(shown[c]) \in Nat
          /\ \A i \in 1..Len(shown[c]) : a[i] = shown[c][i]
          /\ a[Len(shown[c]) + 1] = Head(q)
      BY <1>3, <2>4, AppendIs, LenProperties
    <2>6. \A i \in 1..Len(a) : i \in 1..Len(shown[c]) \/ i = Len(shown[c]) + 1
      BY <2>5
    <2> HIDE DEF a
    <2>7. \A i \in 1..Len(shown[c]) :
             /\ stamp[shown[c][i]] < stamp[Head(q)]
             /\ \A j \in 1..Len(Tail(q)) : stamp[shown[c][i]] < stamp[Tail(q)[j]]
      <3>1. 1 \in 1..Len(q)
        BY <1>3
      <3> QED
        BY <3>1, <2>4, <1>3, <1>4 DEF Before
    <2>8. InOrder(a, stamp, delivery)
      <3>1. \A i \in 1..Len(a) : delivery[a[i]] = "sent"
        BY <2>4, <2>5, <2>6, <1>6 DEF InOrder
      <3>2. ASSUME NEW i \in 1..Len(a), NEW j \in 1..Len(a), i < j
            PROVE  stamp[a[i]] < stamp[a[j]]
        <4>1. i \in 1..Len(shown[c])
          BY <2>5, <3>2
        <4> QED
          BY <4>1, <3>2, <2>4, <2>5, <2>6, <2>7 DEF InOrder, Sorted
      <3> QED
        BY <3>1, <3>2 DEF InOrder, Sorted
    <2>9. Before(a, Tail(q), stamp)
      BY <2>5, <2>6, <2>7, <1>6 DEF Before
    <2>10. /\ shown' \in [Clients -> Seq(Events)]
           /\ \A d \in Clients : shown'[d] = IF d = c THEN a ELSE shown[d]
      BY <2>1, <2>2, <2>5 DEF ShowInv, a
    <2>11. \A d \in Clients : InOrder(shown'[d], stamp', delivery')
      BY <1>1, <2>8, <2>10 DEF ShowInv
    <2>12. ASSUME NEW d \in Clients, socketRef'[d] # None
           PROVE  Before(shown'[d], wire'[socketRef'[d]], stamp')
      <3>1. CASE d = c
        BY <3>1, <2>1, <2>9, <2>10, <1>1, <1>7
      <3>2. CASE d # c
        <4>1. socketRef[d] \in Connections /\ socketRef[d] # s
          BY <3>2, <2>3, <2>12, <1>1 DEF HookInv, HookTyped
        <4> QED
          BY <3>2, <4>1, <2>10, <2>12, <1>1, <1>7 DEF ShowInv
      <3> QED
        BY <3>1, <3>2
    <2> QED
      BY <1>7, <1>8, <1>9, <2>10, <2>11, <2>12 DEF ShowInv
  <1>11. CASE ~Current(s)
    <2>1. shown' = shown
      BY <1>11 DEF OnMessage
    <2>2. ASSUME NEW d \in Clients, socketRef[d] # None
          PROVE  socketRef[d] \in Connections /\ socketRef[d] # s
      BY <2>2, <1>11, ClientAssumption DEF HookInv, HookTyped, ClientInv, Current
    <2> QED
      BY <1>1, <1>7, <1>8, <1>9, <2>1, <2>2 DEF ShowInv
  <1> QED
    BY <1>10, <1>11

\* Everything that waits is younger than everything that was sent.
LEMMA AcceptKeepsShown ==
    ASSUME OutboxInv, HookInv, ShowInv, NEW s \in Connections, Accept(s)
    PROVE  ShowInv'
  <1>1. PICK sent \in 0..Len(outboundQueue) :
           /\ flushQueuedEvents(sent) /\ stamp' = stamp
           /\ wire' = [wire EXCEPT ![s] =
                         IF readyState[s] = "CONNECTING" /\ sent = Len(outboundQueue)
                         THEN outboundQueue ELSE <<>>]
    BY DEF Accept, OpenAndFlush
  <1>2. UNCHANGED <<shown, socketRef, readyState>>
    BY DEF Accept, hookVars
  <1>3. SentStay
    BY AdapterKeepsOutbox DEF AdapterStep
  <1>4. CASE readyState[s] = "CONNECTING" /\ sent = Len(outboundQueue)
    <2> DEFINE q == outboundQueue
    <2>1. q \in Seq(Events) /\ Len(q) \in Nat
      BY LenProperties DEF OutboxInv, OutboxTyped
    <2>2. wire' = [wire EXCEPT ![s] = q]
      BY <1>1, <1>4
    <2>3. \A i \in 1..Len(q) : q[i] \in Events /\ q[i] \in Firsts(q, Len(q))
      BY <2>1, ElementOfSeq, FirstsAre
    <2>4. \A i \in 1..Len(q) : delivery'[q[i]] = "sent"
      BY <1>1, <1>4, <2>3 DEF flushQueuedEvents
    <2>5. InOrder(q, stamp', delivery')
      BY <1>1, <2>4 DEF InOrder, Sorted, OutboxInv, QueueInv, NoOvertaking
    <2>6. \A i \in 1..Len(q) : q[i] \in Buffered
      BY <2>3 DEF OutboxInv, QueueInv, Buffered
    <2>7. \A e \in Buffered, f \in Events : delivery[f] = "sent" => stamp[f] < stamp[e]
      BY DEF OutboxInv, QueueInv, NoOvertaking
    <2>8. ASSUME NEW c \in Clients PROVE Before(shown[c], q, stamp')
      <3>1. shown[c] \in Seq(Events) /\ InOrder(shown[c], stamp, delivery)
        BY DEF ShowInv
      <3>2. \A i \in 1..Len(shown[c]) : shown[c][i] \in Events /\ delivery[shown[c][i]] = "sent"
        BY <3>1, ElementOfSeq DEF InOrder
      <3> QED
        BY <1>1, <2>6, <2>7, <3>2 DEF Before
    <2> QED
      BY <1>2, <1>3, <1>4, <2>1, <2>2, <2>5, <2>8, SendingKeeps
  <1>5. CASE ~(readyState[s] = "CONNECTING" /\ sent = Len(outboundQueue))
    <2>1. /\ wire' \in [Connections -> Seq(Events)]
          /\ \A r \in Connections : wire'[r] \in {wire[r], <<>>}
      BY <1>1, <1>5, NothingIsInOrder DEF ShowInv
    <2>2. \A r \in Connections : readyState'[r] = "CLOSED" => wire'[r] = <<>>
      BY <1>2, <2>1 DEF ShowInv
    <2> QED
      BY <1>2, <1>3, <2>1, <2>2, QuietKeeps DEF HookInv, HookTyped
  <1> QED
    BY <1>4, <1>5

LEMMA SentAtOnce ==
    ASSUME OutboxInv, NEW e \in Events, enqueueOrSend(e), delivery'[e] = "sent"
    PROVE  /\ socket \in Connections /\ delivery[e] = "new"
           /\ delivery' = [delivery EXCEPT ![e] = "sent"]
           /\ stamp' = [stamp EXCEPT ![e] = submitted + 1]
  <1>1. ~enqueueBufferedEvent(e)
    <2> SUFFICES ASSUME enqueueBufferedEvent(e) PROVE FALSE
      OBVIOUS
    <2>1. delivery'[e] \in {"dropped", "buffered"}
      BY DEF enqueueBufferedEvent
    <2> QED
      BY <2>1
  <1> QED
    BY <1>1 DEF enqueueOrSend, OutboxInv, OutboxTyped

LEMMA EmitKeepsShown ==
    ASSUME OutboxInv, HookInv, ShowInv, NEW e \in Events, Emit(e)
    PROVE  ShowInv'
  <1>1. UNCHANGED <<shown, socketRef, readyState>> /\ enqueueOrSend(e)
    BY DEF Emit, hookVars
  <1>2. SentStay
    BY AdapterKeepsOutbox DEF AdapterStep
  <1>3. CASE delivery'[e] = "sent" /\ link[socket] = "up"
    <2> DEFINE s == socket
               q == Append(wire[s], e)
    <2>1. /\ s \in Connections /\ delivery[e] = "new"
          /\ delivery' = [delivery EXCEPT ![e] = "sent"]
          /\ stamp' = [stamp EXCEPT ![e] = submitted + 1]
      BY <1>1, <1>3, SentAtOnce
    <2>2. wire' = [wire EXCEPT ![s] = q]
      BY <1>3 DEF Emit
    <2>3. readyState[s] # "CLOSED"
      BY <1>3, <2>1 DEF HookInv, SocketInv, Live
    <2>4. stamp'[e] = submitted + 1 /\ delivery'[e] = "sent"
      BY <2>1 DEF OutboxInv, OutboxTyped
    <2>5. \A f \in Events : delivery[f] = "sent" => stamp'[f] < stamp'[e] /\ delivery'[f] = "sent"
      <3>1. ASSUME NEW f \in Events, delivery[f] = "sent"
            PROVE  stamp'[f] < stamp'[e] /\ delivery'[f] = "sent"
        <4>1. stamp'[f] = stamp[f] /\ delivery'[f] = "sent"
          BY <1>2, <3>1 DEF SentStay
        <4>2. stamp[f] <= submitted /\ stamp[f] \in Nat /\ submitted \in Nat
          BY DEF OutboxInv, OutboxTyped, QueueInv
        <4> QED
          BY <4>1, <4>2, <2>4
      <3> QED
        BY <3>1
    <2>6. wire[s] \in Seq(Events) /\ InOrder(wire[s], stamp, delivery)
      BY <2>1 DEF ShowInv
    <2>7. /\ q \in Seq(Events) /\ Len(q) = Len(wire[s]) + 1 /\ Len(wire[s]) \in Nat
          /\ \A i \in 1..Len(wire[s]) : q[i] = wire[s][i]
          /\ q[Len(wire[s]) + 1] = e
      BY <2>6, AppendIs, LenProperties
    <2>8. InOrder(wire[s], stamp', delivery')
      BY <1>2, <2>6, Carried
    <2>9. \A i \in 1..Len(wire[s]) : stamp'[wire[s][i]] < stamp'[e]
      BY <2>5, <2>6, ElementOfSeq DEF InOrder
    <2>10. \A i \in 1..Len(q) : i \in 1..Len(wire[s]) \/ i = Len(wire[s]) + 1
      BY <2>7
    <2> HIDE DEF q, s
    <2>11. InOrder(q, stamp', delivery')
      <3>1. \A i \in 1..Len(q) : delivery'[q[i]] = "sent"
        BY <2>4, <2>7, <2>8, <2>10 DEF InOrder
      <3>2. ASSUME NEW i \in 1..Len(q), NEW j \in 1..Len(q), i < j
            PROVE  stamp'[q[i]] < stamp'[q[j]]
        <4>1. i \in 1..Len(wire[s])
          BY <2>7, <3>2
        <4> QED
          BY <4>1, <3>2, <2>7, <2>8, <2>9, <2>10 DEF InOrder, Sorted
      <3> QED
        BY <3>1, <3>2 DEF InOrder, Sorted
    <2>12. ASSUME NEW c \in Clients, socketRef[c] = s PROVE Before(shown[c], q, stamp')
      <3>1. shown[c] \in Seq(Events) /\ InOrder(shown[c], stamp, delivery)
        BY DEF ShowInv
      <3>2. \A i \in 1..Len(shown[c]) : stamp'[shown[c][i]] < stamp'[e]
        BY <2>5, <3>1, ElementOfSeq DEF InOrder
      <3>3. s # None
        BY <2>1, OutboxAssumption DEF s
      <3>4. Before(shown[c], wire[s], stamp)
        BY <2>12, <3>3 DEF ShowInv
      <3>5. Before(shown[c], wire[s], stamp')
        BY <1>2, <2>6, <3>1, <3>4, CarriedBefore
      <3> QED
        BY <2>7, <2>10, <3>2, <3>5 DEF Before
    <2> QED
      BY <1>1, <1>2, <2>1, <2>2, <2>3, <2>7, <2>11, <2>12, SendingKeeps DEF s
  <1>4. CASE ~(delivery'[e] = "sent" /\ link[socket] = "up")
    <2>1. wire' = wire \/ wire' = [wire EXCEPT ![socket] = <<>>]
      BY <1>4 DEF Emit, Breaks
    <2>2. /\ wire' \in [Connections -> Seq(Events)]
          /\ \A r \in Connections : wire'[r] \in {wire[r], <<>>}
      BY <2>1, NothingIsInOrder DEF ShowInv
    <2>3. \A r \in Connections : readyState'[r] = "CLOSED" => wire'[r] = <<>>
      BY <1>1, <2>2 DEF ShowInv
    <2> QED
      BY <1>1, <1>2, <2>2, <2>3, QuietKeeps DEF HookInv, HookTyped
  <1> QED
    BY <1>3, <1>4

LEMMA AdapterStepKeepsShown ==
    ASSUME OutboxInv, HookInv, ShowInv, AdapterStep
    PROVE  ShowInv'
  <1>1. CASE \E s \in Connections : Accept(s)
    BY <1>1, AcceptKeepsShown
  <1>2. CASE \E e \in Events : Emit(e)
    BY <1>2, EmitKeepsShown
  <1>3. ASSUME UNCHANGED <<shown, socketRef, readyState>>,
               \/ wire' = wire
               \/ \E s \in Connections : wire' = [wire EXCEPT ![s] = <<>>]
               \/ wire' = [s \in Connections |-> <<>>]
        PROVE  ShowInv'
    <2>1. SentStay
      BY AdapterKeepsOutbox
    <2>2. /\ wire' \in [Connections -> Seq(Events)]
          /\ \A r \in Connections : wire'[r] \in {wire[r], <<>>}
      BY <1>3, NothingIsInOrder DEF ShowInv
    <2>3. \A r \in Connections : readyState'[r] = "CLOSED" => wire'[r] = <<>>
      BY <1>3, <2>2 DEF ShowInv
    <2> QED
      BY <1>3, <2>1, <2>2, <2>3, QuietKeeps DEF HookInv, HookTyped
  <1>4. ASSUME NEW s \in Connections,
               Refuse(s) \/ TextArrives(s) \/ ServerSeesClose(s) \/ Break(s)
        PROVE  ShowInv'
    BY <1>3, <1>4 DEF Refuse, TextArrives, ServerSeesClose, Break, Breaks, hookVars
  <1>5. CASE PromptTimesOut \/ DaemonStops \/ DaemonStarts
    BY <1>3, <1>5 DEF PromptTimesOut, DaemonStops, DaemonStarts, linkVars, hookVars
  <1> QED
    BY <1>1, <1>2, <1>4, <1>5 DEF AdapterStep

\* The client's handlers other than OnMessage show nothing; a socket that opens
\* has nothing under way yet.
LEMMA ClientStepKeepsShown ==
    ASSUME OutboxInv, HookInv, ShowInv, ClientStep
    PROVE  ShowInv'
  <1>1. CASE \E s \in Connections : OnMessage(s)
    BY <1>1, OnMessageKeepsShown
  <1>2. ASSUME UNCHANGED <<outboxVars, shown, wire>>,
               \A s \in Connections : readyState'[s] = "CLOSED" => readyState[s] = "CLOSED",
               \A c \in Clients : socketRef'[c] # None =>
                   /\ socketRef'[c] \in Connections
                   /\ socketRef'[c] = socketRef[c] \/ readyState[socketRef'[c]] = "CLOSED"
        PROVE  ShowInv'
    <2>1. SentStay
      BY <1>2 DEF SentStay, outboxVars
    <2>2. /\ wire' = wire /\ shown' = shown
          /\ wire' \in [Connections -> Seq(Events)]
          /\ \A s \in Connections : readyState[s] = "CLOSED" => wire'[s] = <<>>
      BY <1>2 DEF ShowInv
    <2> QED
      BY <1>2, <2>1, <2>2, QuietKeeps
  <1>3. ASSUME NEW c \in Clients, Mount(c) PROVE ShowInv'
    <2>1. PICK s \in Connections : OpenSocket(c, s, readyState)
      BY <1>3 DEF Mount
    <2> QED
      BY <1>2, <1>3, <2>1, OutboxAssumption DEF Mount, OpenSocket, Free, HookInv, HookTyped
  <1>4. ASSUME NEW c \in Clients, ReconnectTimerFires(c) PROVE ShowInv'
    <2>1. UNCHANGED <<outboxVars, shown, wire>> /\ socketRef[c] = None
      BY <1>4 DEF ReconnectTimerFires, HookInv, ClientInv
    <2>2. PICK s \in Connections : OpenSocket(c, s, readyState)
      BY <1>4, <2>1 DEF ReconnectTimerFires, connect
    <2> QED
      BY <1>2, <2>1, <2>2, OutboxAssumption DEF OpenSocket, Free, HookInv, HookTyped
  <1>5. ASSUME NEW c \in Clients, Reconnect(c) PROVE ShowInv'
    <2>1. PICK s \in Connections :
             /\ Free(s)
             /\ readyState' = [r \in Connections |->
                                  IF r = s THEN "CONNECTING"
                                  ELSE IF r = socketRef[c] THEN CloseSocket(r)[r] ELSE readyState[r]]
             /\ socketRef' = [socketRef EXCEPT ![c] = s]
      BY <1>5 DEF Reconnect
    <2>2. \A r \in Connections : CloseSocket(r)[r] = "CLOSED" => readyState[r] = "CLOSED"
      BY DEF CloseSocket, HookInv, HookTyped
    <2>3. UNCHANGED <<outboxVars, shown, wire>>
      BY <1>5 DEF Reconnect
    <2> QED
      BY <1>2, <2>1, <2>2, <2>3, OutboxAssumption DEF Free, HookInv, HookTyped
  <1>6. ASSUME NEW c \in Clients, Unmount(c) PROVE ShowInv'
    <2>1. UNCHANGED <<outboxVars, shown, wire>> /\ socketRef' = [socketRef EXCEPT ![c] = None]
      BY <1>6 DEF Unmount
    <2>2. \A r \in Connections : readyState'[r] = "CLOSED" => readyState[r] = "CLOSED"
      BY <1>6 DEF Unmount, CloseSocket, HookInv, HookTyped
    <2> QED
      BY <1>2, <2>1, <2>2, OutboxAssumption DEF HookInv, HookTyped
  <1>7. ASSUME NEW c \in Clients, SendMessage(c) \/ ClearMessages(c) PROVE ShowInv'
    BY <1>2, <1>7 DEF SendMessage, ClearMessages, linkVars, HookInv, HookTyped
  <1>8. ASSUME NEW s \in Connections, OnOpen(s) \/ OnError(s) PROVE ShowInv'
    <2>1. UNCHANGED <<outboxVars, shown, wire, socketRef>>
      BY <1>8 DEF OnOpen, OnError
    <2>2. \A r \in Connections : readyState'[r] = "CLOSED" => readyState[r] = "CLOSED"
      BY <1>8 DEF OnOpen, OnError, HookInv, HookTyped
    <2> QED
      BY <1>2, <2>1, <2>2 DEF HookInv, HookTyped
  <1>9. ASSUME NEW s \in Connections, OnClose(s) PROVE ShowInv'
    <2>1. /\ UNCHANGED <<outboxVars, shown>>
          /\ wire' = [wire EXCEPT ![s] = <<>>]
          /\ readyState' = [readyState EXCEPT ![s] = "CLOSED"]
      BY <1>9 DEF OnClose
    <2>2. SentStay
      BY <2>1 DEF SentStay, outboxVars
    <2>3. /\ wire' \in [Connections -> Seq(Events)]
          /\ \A r \in Connections : wire'[r] \in {wire[r], <<>>}
          /\ \A r \in Connections : readyState'[r] = "CLOSED" => wire'[r] = <<>>
      BY <2>1, NothingIsInOrder DEF ShowInv, HookInv, HookTyped
    <2>4. socketRef' = socketRef \/ socketRef' = [socketRef EXCEPT ![owner[s]] = None]
      BY <1>9 DEF OnClose
    <2>5. \A c \in Clients : socketRef'[c] \in {socketRef[c], None}
      BY <2>4 DEF HookInv, HookTyped
    <2>6. \A c \in Clients : socketRef[c] \in Connections \cup {None}
      BY DEF HookInv, HookTyped
    <2>7. \A c \in Clients : socketRef'[c] # None =>
             socketRef'[c] \in Connections /\ socketRef'[c] = socketRef[c]
      BY <2>5, <2>6
    <2> QED
      BY <2>1, <2>2, <2>3, <2>7, QuietKeeps
  <1> QED
    BY <1>1, <1>3, <1>4, <1>5, <1>6, <1>7, <1>8, <1>9 DEF ClientStep

\* Whatever breaks, stops, reconnects or is replaced, what a client shows it
\* shows once and in the order in which the runtime sent it: what the adapter
\* queued is younger than all that went out, and what was under way to a socket
\* the client let go of is never shown.
THEOREM AlwaysShownInOrder == Spec => []ShownInOrder
  <1> DEFINE I == OutboxInv /\ HookInv /\ ShowInv
  <1>1. Init => I
    <2>1. Init => OutboxInv
      BY OutboxStarts DEF Init
    <2>2. Init => ShowInv
      BY NothingIsInOrder DEF Init, ShowInv
    <2> QED
      BY <2>1, <2>2, HooksStart
  <1>2. I /\ [Next]_vars => I'
    <2> SUFFICES ASSUME I, [Next]_vars PROVE I'
      OBVIOUS
    <2>1. HookInv'
      BY HooksAreKept
    <2>2. CASE AdapterStep
      BY <2>1, <2>2, AdapterKeepsOutbox, AdapterStepKeepsShown
    <2>3. CASE ClientStep
      <3>1. UNCHANGED outboxVars
        BY <2>3 DEF ClientStep, Mount, Unmount, ReconnectTimerFires, Reconnect, SendMessage,
                    ClearMessages, OnOpen, OnMessage, OnError, OnClose
      <3> QED
        BY <2>1, <2>3, <3>1, AdapterKeepsOutbox, ClientStepKeepsShown
    <2>4. CASE UNCHANGED vars
      <3>1. UNCHANGED <<outboxVars, wire, readyState, socketRef, shown>>
        BY <2>4 DEF vars, linkVars, hookVars
      <3>2. OutboxInv' /\ SentStay
        BY <3>1, AdapterKeepsOutbox
      <3>3. ShowInv'
        BY <3>1 DEF ShowInv, outboxVars
      <3> QED
        BY <2>1, <3>2, <3>3
    <2> QED
      BY <2>2, <2>3, <2>4 DEF Next
  <1>3. I => ShownInOrder
    BY DEF ShowInv, InOrder, Sorted, ShownInOrder
  <1> HIDE DEF I
  <1> QED
    BY <1>1, <1>2, <1>3, PTL DEF Spec
=============================================================================
