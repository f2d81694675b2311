---------------------------- MODULE DaemonProofs -----------------------------
(***************************************************************************)
(* Proofs about the parts of the daemon that PidFile, AgentLoop and        *)
(* Conversation model: starting it, the message loop with its background   *)
(* tasks, and the turns of a session.                                      *)
(***************************************************************************)
EXTENDS PidFile, AgentLoop, Conversation, SequenceLemmas

---------------------------------------------------------------------------
(***************************************************************************)
(* PidFile, for any set of processes: launches that do not overlap leave   *)
(* at most one daemon running, and are refused only by one.                *)
(***************************************************************************)

\* Where a process may be when the PID file is one that it created.
Owns(p) == pc[p] \in {"fill pid", "unlock", "held", "gone"}

\* What holds until two launches overlap.
InTurn ==
    /\ \A p, q \in Processes : Acquiring(p) /\ Acquiring(q) => p = q
    /\ pidFile # Nothing => Owns(pidFile.by)
    /\ \A p \in Processes : pc[p] = "held" => pidFile = Filled(p)
    /\ \A p \in Processes :
          /\ pc[p] = "create pid" => pidFile = Nothing
          /\ pc[p] = "fill pid" => pidFile = Created(p)
          /\ pc[p] = "unlock" => pidFile = Filled(p)
          /\ pc[p] = "remove pid" => \A q \in Processes : pc[q] # "held"

PidFileInv == PidFileTypeOK /\ (~overlapped => InTurn)

LEMMA FieldsOfFiles ==
    ASSUME NEW p \in Processes
    PROVE  /\ Created(p).by = p /\ Created(p).pid = Nothing
           /\ Filled(p).by = p /\ Filled(p).pid = p
  BY DEF Created, Filled

LEMMA FilesAreDistinct ==
    \A p, q \in Processes : /\ Created(p) # Filled(q)
                            /\ Filled(p) = Filled(q) => p = q
                            /\ Created(p) = Created(q) => p = q
  BY NothingAssumption DEF Created, Filled

LEMMA FilesAreTyped ==
    ASSUME NEW p \in Processes
    PROVE  /\ Created(p) \in File /\ Filled(p) \in File
           /\ Nothing # Created(p) /\ Nothing # Filled(p)
  BY NothingAssumption DEF Created, Filled, File

\* A step that moves one process and only replaces files by its own.
LEMMA FilesStayTyped ==
    ASSUME PidFileTypeOK, NEW p \in Processes,
           pc' \in [Processes -> Steps], overlapped' \in BOOLEAN,
           lockFile' \in {lockFile, Nothing, Created(p), Filled(p)},
           pidFile' \in {pidFile, Nothing, Created(p), Filled(p)}
    PROVE  PidFileTypeOK'
  <1>1. ASSUME NEW file \in {lockFile, pidFile, Nothing, Created(p), Filled(p)}
        PROVE  file \in File \cup {Nothing} /\ (file # Nothing => file.pid \in {Nothing, file.by})
    <2>1. CASE file \in {lockFile, pidFile}
      BY <2>1 DEF PidFileTypeOK
    <2>2. CASE file = Nothing
      BY <2>2 DEF File
    <2>3. CASE file \in {Created(p), Filled(p)}
      BY <2>3, FilesAreTyped, FieldsOfFiles
    <2> QED
      BY <1>1, <2>1, <2>2, <2>3
  <1>2. lockFile' \in File \cup {Nothing} /\ (lockFile' # Nothing => lockFile'.pid \in {Nothing, lockFile'.by})
    BY <1>1
  <1>3. pidFile' \in File \cup {Nothing} /\ (pidFile' # Nothing => pidFile'.pid \in {Nothing, pidFile'.by})
    BY <1>1
  <1> QED
    BY <1>2, <1>3 DEF PidFileTypeOK

LEMMA MoveIsTyped ==
    ASSUME PidFileTypeOK, NEW p \in Processes, NEW from \in Steps, NEW to \in Steps,
           Goto(p, from, to)
    PROVE  pc' \in [Processes -> Steps] /\ overlapped' \in BOOLEAN
  BY DEF PidFileTypeOK, Goto

LEMMA InitInv == PidFileInit => PidFileInv
  BY DEF PidFileInit, PidFileInv, InTurn, PidFileTypeOK, File, Steps, Acquiring, Owns

LEMMA NextType == ASSUME PidFileTypeOK, [PidFileNext]_pidFileVars PROVE PidFileTypeOK'
  <1>1. CASE UNCHANGED pidFileVars
    BY <1>1 DEF pidFileVars, PidFileTypeOK
  <1>2. ASSUME NEW p \in Processes, Crash(p) PROVE PidFileTypeOK'
    <2>1. pc' \in [Processes -> Steps] /\ overlapped' \in BOOLEAN
      BY <1>2 DEF Crash, PidFileTypeOK, Steps
    <2> QED
      BY <1>2, <2>1, FilesStayTyped DEF Crash
  <1>3. ASSUME NEW p \in Processes, CreateLock(p) \/ FillLock(p) \/ RemoveLock(p) \/ Unlock(p)
        PROVE  PidFileTypeOK'
    <2>1. pc' \in [Processes -> Steps] /\ overlapped' \in BOOLEAN
      BY <1>3, MoveIsTyped DEF CreateLock, FillLock, RemoveLock, Unlock, Steps
    <2> QED
      BY <1>3, <2>1, FilesStayTyped DEF CreateLock, FillLock, RemoveLock, Unlock
  <1>4. ASSUME NEW p \in Processes, CreatePid(p) \/ FillPid(p) \/ RemovePid(p) \/ Release(p)
        PROVE  PidFileTypeOK'
    <2>1. pc' \in [Processes -> Steps] /\ overlapped' \in BOOLEAN
      BY <1>4, MoveIsTyped DEF CreatePid, FillPid, RemovePid, Release, Steps
    <2> QED
      BY <1>4, <2>1, FilesStayTyped DEF CreatePid, FillPid, RemovePid, Release
  <1>5. ASSUME NEW p \in Processes,
               \/ LaunchDaemon(p) \/ FindsLock(p) \/ LockIsStale(p)
               \/ AlreadyRunning(p) \/ NotRunning(p) \/ FindsPid(p)
               \/ \E next \in {"create lock", "gone"} : LockIsHeld(p, next)
        PROVE  PidFileTypeOK'
    <2>1. pc' \in [Processes -> Steps] /\ overlapped' \in BOOLEAN
      BY <1>5, MoveIsTyped DEF LaunchDaemon, FindsLock, LockIsStale, AlreadyRunning, NotRunning,
                               FindsPid, LockIsHeld, Steps
    <2> QED
      BY <1>5, <2>1, FilesStayTyped DEF LaunchDaemon, FindsLock, LockIsStale, AlreadyRunning,
                                    NotRunning, FindsPid, LockIsHeld
  <1> QED
    BY <1>1, <1>2, <1>3, <1>4, <1>5 DEF PidFileNext

\* A move that does not touch the PID file, from and to places InTurn does not
\* look at.
Aside == {"create lock", "fill lock", "read lock", "remove lock", "read pid", "refused", "gone"}

LEMMA NextInTurn == ASSUME PidFileInv, [PidFileNext]_pidFileVars, ~overlapped' PROVE InTurn'
  <1> USE DEF PidFileInv
  <1>0. pidFile # Nothing => pidFile.by \in Processes
    BY NothingAssumption DEF PidFileTypeOK, File
  <1>1. CASE UNCHANGED pidFileVars
    BY <1>1 DEF pidFileVars, InTurn, Acquiring, Owns
  <1>2. ASSUME NEW p \in Processes, Crash(p) PROVE InTurn'
    <2>1. /\ InTurn /\ pidFile' = pidFile
          /\ pc' = [pc EXCEPT ![p] = "gone"]
      BY <1>2 DEF Crash
    <2> QED
      BY <1>0, <2>1 DEF InTurn, Acquiring, Owns, PidFileTypeOK
  <1>3. ASSUME NEW p \in Processes, LaunchDaemon(p) PROVE InTurn'
    <2>1. /\ InTurn /\ pidFile' = pidFile
          /\ pc[p] = "new" /\ pc' = [pc EXCEPT ![p] = "create lock"]
          /\ \A q \in Processes : ~Acquiring(q)
      BY <1>3 DEF LaunchDaemon, Goto, PidFileTypeOK
    <2> QED
      BY <1>0, <2>1 DEF InTurn, Acquiring, Owns, PidFileTypeOK
  <1>4. ASSUME NEW p \in Processes, NEW from \in Steps, NEW to \in Aside,
               Goto(p, from, to), from \notin {"new", "held"}, ~Owns(p), UNCHANGED pidFile
        PROVE  InTurn'
    <2>1. /\ InTurn /\ pidFile' = pidFile
          /\ Acquiring(p) /\ pc' = [pc EXCEPT ![p] = to]
      BY <1>4 DEF Goto, PidFileTypeOK, Acquiring, Owns
    <2>2. pidFile # Nothing => pidFile.by \in Processes /\ pidFile.by # p
      BY <1>4, NothingAssumption, <2>1 DEF PidFileTypeOK, File, InTurn
    <2> QED
      BY <1>0, <2>1, <2>2, <1>4 DEF InTurn, Acquiring, Owns, PidFileTypeOK, Aside
  <1>5. ASSUME NEW p \in Processes,
               \/ CreateLock(p) \/ FindsLock(p) \/ FillLock(p) \/ LockIsStale(p)
               \/ RemoveLock(p) \/ AlreadyRunning(p) \/ FindsPid(p)
               \/ \E next \in {"create lock", "gone"} : LockIsHeld(p, next)
        PROVE  InTurn'
    <2>1. PICK from \in {"create lock", "fill lock", "read lock", "remove lock",
                         "read pid", "create pid"}, to \in Aside :
             Goto(p, from, to) /\ UNCHANGED pidFile
      BY <1>5 DEF CreateLock, FindsLock, FillLock, LockIsStale, RemoveLock,
                  AlreadyRunning, FindsPid, LockIsHeld, Aside
    <2> QED
      BY <2>1, <1>4 DEF Goto, Steps, Owns
  <1>6. ASSUME NEW p \in Processes, NotRunning(p) PROVE InTurn'
    <2>1. /\ InTurn /\ pidFile' = pidFile /\ ~NamesLiveProcess(pidFile)
          /\ pc[p] = "read pid"
          /\ pc' = [pc EXCEPT ![p] = IF pidFile = Nothing THEN "create pid" ELSE "remove pid"]
      BY <1>6 DEF NotRunning, Goto, PidFileTypeOK
    <2>2. pidFile # Nothing => pidFile.by \in Processes /\ pidFile.by # p
      BY <2>1, NothingAssumption DEF PidFileTypeOK, File, InTurn, Owns
    <2>3. \A q \in Processes : pc[q] # "held"
      <3> SUFFICES ASSUME NEW q \in Processes, pc[q] = "held" PROVE FALSE
        OBVIOUS
      <3>1. pidFile = Filled(q)
        BY <2>1 DEF InTurn
      <3>2. pidFile # Nothing /\ pidFile.pid = q /\ q # Nothing
        BY <3>1, FieldsOfFiles, FilesAreTyped, NothingAssumption
      <3> QED
        BY <2>1, <3>2 DEF NamesLiveProcess
    <2> QED
      BY <1>0, <2>1, <2>2, <2>3 DEF InTurn, Acquiring, Owns, PidFileTypeOK
  <1>7. ASSUME NEW p \in Processes, RemovePid(p) PROVE InTurn'
    <2>1. /\ InTurn /\ pidFile' = Nothing
          /\ pc[p] = "remove pid" /\ pc' = [pc EXCEPT ![p] = "create pid"]
      BY <1>7 DEF RemovePid, Goto, PidFileTypeOK
    <2> QED
      BY <2>1 DEF InTurn, Acquiring, Owns, PidFileTypeOK
  <1>8. ASSUME NEW p \in Processes, CreatePid(p) PROVE InTurn'
    <2>1. /\ InTurn /\ pidFile = Nothing /\ pidFile' = Created(p)
          /\ pc[p] = "create pid" /\ pc' = [pc EXCEPT ![p] = "fill pid"]
      BY <1>8 DEF CreatePid, Goto, PidFileTypeOK
    <2>2. \A q \in Processes : pc[q] # "held"
      BY <2>1, FilesAreTyped DEF InTurn
    <2>3. pidFile'.by = p
      BY <2>1, FieldsOfFiles
    <2> QED
      BY <2>1, <2>2, <2>3 DEF InTurn, Acquiring, Owns, PidFileTypeOK
  <1>9. ASSUME NEW p \in Processes, FillPid(p) PROVE InTurn'
    <2>1. /\ InTurn /\ pidFile = Created(p) /\ pidFile' = Filled(p)
          /\ pc[p] = "fill pid" /\ pc' = [pc EXCEPT ![p] = "unlock"]
      BY <1>9 DEF FillPid, Goto, PidFileTypeOK, InTurn
    <2>2. \A q \in Processes : pc[q] # "held"
      BY <2>1, FilesAreDistinct DEF InTurn
    <2>3. pidFile'.by = p
      BY <2>1, FieldsOfFiles
    <2> QED
      BY <2>1, <2>2, <2>3, FilesAreDistinct DEF InTurn, Acquiring, Owns, PidFileTypeOK
  <1>10. ASSUME NEW p \in Processes, Unlock(p) PROVE InTurn'
    <2>1. CASE Goto(p, "unlock", "held")
      <3>1. /\ InTurn /\ pidFile = Filled(p) /\ pidFile' = pidFile
            /\ pc[p] = "unlock" /\ pc' = [pc EXCEPT ![p] = "held"]
        BY <1>10, <2>1 DEF Unlock, Goto, PidFileTypeOK, InTurn
      <3>2. pidFile.by = p
        BY <3>1, FieldsOfFiles
      <3> QED
        BY <3>1, <3>2, FilesAreDistinct DEF InTurn, Acquiring, Owns, PidFileTypeOK
    <2>2. CASE Goto(p, "refused", "gone")
      BY <1>10, <2>2, <1>4 DEF Unlock, Goto, Steps, Owns, Aside
    <2> QED
      BY <1>10, <2>1, <2>2 DEF Unlock
  <1>11. ASSUME NEW p \in Processes, Release(p) PROVE InTurn'
    <2>1. /\ InTurn /\ pidFile = Filled(p) /\ pidFile' = Nothing
          /\ pc[p] = "held" /\ pc' = [pc EXCEPT ![p] = "gone"]
      BY <1>11 DEF Release, Goto, PidFileTypeOK, InTurn
    <2> QED
      BY <2>1, FilesAreDistinct DEF InTurn, Acquiring, Owns, PidFileTypeOK
  <1> QED
    BY <1>1, <1>2, <1>3, <1>5, <1>6, <1>7, <1>8, <1>9, <1>10, <1>11 DEF PidFileNext

LEMMA NextInv == PidFileInv /\ [PidFileNext]_pidFileVars => PidFileInv'
  BY NextType, NextInTurn DEF PidFileInv

\* Each variable keeps its type, and a file holds no pid but its creator's.
THEOREM PidFileTypeCorrect == PidFileSpec => []PidFileTypeOK
  <1>1. PidFileInv => PidFileTypeOK
    BY DEF PidFileInv
  <1> QED
    BY InitInv, NextInv, <1>1, PTL DEF PidFileSpec

\* One daemon runs at a time, as long as no two launches have overlapped.
LEMMA InvOneDaemon == ASSUME PidFileInv, ~overlapped PROVE OneDaemon
  BY FilesAreDistinct DEF PidFileInv, InTurn, OneDaemon

\* A launch that overlaps no other is refused by a daemon that runs.
LEMMA RefusedByDaemon ==
    ASSUME PidFileInv, ~overlapped, [PidFileNext]_pidFileVars,
           NEW p \in Processes, pc[p] # "refused", pc'[p] = "refused"
    PROVE  \E q \in Processes : pc[q] = "held"
  <1>1. AlreadyRunning(p) \/ FindsPid(p)
    <2>1. pc \in [Processes -> Steps]
      BY DEF PidFileInv, PidFileTypeOK
    <2>2. \A q \in Processes, from \in Steps, to \in Steps :
             Goto(q, from, to) /\ to # "refused" => pc'[p] # "refused"
      BY <2>1 DEF Goto
    <2>3. \A q \in Processes : Crash(q) => pc'[p] # "refused"
      BY <2>1 DEF Crash
    <2>4. \A q \in Processes : AlreadyRunning(q) \/ FindsPid(q) => q = p
      BY <2>1 DEF AlreadyRunning, FindsPid, Goto
    <2>5. ~(UNCHANGED pidFileVars)
      BY DEF pidFileVars
    <2> QED
      BY <2>2, <2>3, <2>4, <2>5
         DEF PidFileNext, Steps, LaunchDaemon, Release, CreateLock, FindsLock, FillLock, LockIsStale,
             RemoveLock, LockIsHeld, NotRunning, RemovePid, CreatePid, FillPid, Unlock
  <1>2. ~FindsPid(p)
    BY DEF FindsPid, Goto, PidFileInv, InTurn
  <1>3. /\ pc[p] = "read pid" /\ pidFile # Nothing /\ pidFile.pid # Nothing
        /\ pc[pidFile.pid] \notin {"new", "gone"}
    BY <1>1, <1>2 DEF AlreadyRunning, NamesLiveProcess, Goto
  <1>4. pidFile.pid = pidFile.by /\ pidFile.by \in Processes
    BY <1>3, NothingAssumption DEF PidFileInv, PidFileTypeOK, File
  <1>5. pc[pidFile.by] \in {"fill pid", "unlock", "held"}
    BY <1>3, <1>4 DEF PidFileInv, InTurn, Owns
  <1> QED
    BY <1>3, <1>4, <1>5 DEF PidFileInv, InTurn, Acquiring

\* The PID file does what it is for while launches come one after another.
THEOREM LaunchesInTurnHold == PidFileSpec => LaunchesInTurn
  <1>1. ASSUME PidFileInv, PidFileInv', [PidFileNext]_pidFileVars, ~overlapped'
        PROVE  /\ OneDaemon'
               /\ \A p \in Processes : pc[p] # "refused" /\ pc'[p] = "refused" =>
                     \E q \in Processes : pc[q] = "held"
    <2>1. ~overlapped
      BY <1>1 DEF PidFileNext, pidFileVars, PidFileInv, PidFileTypeOK, Goto, LaunchDaemon, Crash, Release, CreateLock, FindsLock,
                  FillLock, LockIsStale, RemoveLock, LockIsHeld, AlreadyRunning, NotRunning,
                  RemovePid, CreatePid, FindsPid, FillPid, Unlock
    <2>2. OneDaemon'
      BY <1>1, InvOneDaemon, FilesAreDistinct DEF PidFileInv, InTurn, OneDaemon
    <2> QED
      BY <1>1, <2>1, <2>2, RefusedByDaemon
  <1> QED
    BY InitInv, NextInv, <1>1, PTL DEF PidFileSpec, LaunchesInTurn

---------------------------------------------------------------------------
(***************************************************************************)
(* AgentLoop, for any set of session ids and any bounds.                   *)
(***************************************************************************)

\* The sessions in the manager's map, one by one.  A task whose session exists
\* still runs it; the loop creates a session only when there is none.
ManagerInv ==
    /\ \A s \in Sessions : s \in registered <=> session[s] \notin {None, Ended}
    /\ \A s \in registered : session[s].triggerSource = "user" <=> s = interactive
    /\ \A s \in registered : session[s].triggerSource = "schedule" => s \in tasks
    /\ \A s \in tasks : session[s] # None =>
           s \in registered /\ session[s].triggerSource = "schedule"
    /\ interactive # None => interactive \in registered
    /\ drain = "processing" => interactive # None
    /\ drain = "creating" => interactive = None

\* The loop has a message in hand exactly while it works on it.
LoopInv ==
    /\ current # None <=> drain \in {"creating", "processing"}
    /\ SomeoneDrains
    /\ waited # "no" => shuttingDown
    /\ IdleIsIdle

LEMMA InitIsTyped == Init => TypeOK
  <1> SUFFICES ASSUME Init PROVE TypeOK
    OBVIOUS
  <1>1. inboundQueue \in Seq(InboundMessage) /\ handled \in Seq(1..MaxMessages)
    BY DEF Init
  <1>2. session \in [Sessions -> SessionObject \cup {None, Ended}]
    BY DEF Init
  <1>3. clock \in 0..MaxTime /\ received \in 0..MaxMessages
    BY LoopAssumption DEF Init
  <1> QED
    BY <1>1, <1>2, <1>3 DEF Init, TypeOK

\* A session that is used or that waits stays the session it is.
LEMMA TouchedSession ==
    ASSUME TypeOK, NEW s \in Sessions, session[s] \in SessionObject,
           NEW newStatus \in {"busy", "waiting_for_user"},
           session' = [session EXCEPT ![s].status = newStatus, ![s].lastActivityAt = clock]
    PROVE  /\ session' \in [Sessions -> SessionObject \cup {None, Ended}]
           /\ session'[s] \in SessionObject
           /\ session'[s].triggerSource = session[s].triggerSource
           /\ \A t \in Sessions : t # s => session'[t] = session[t]
  BY DEF TypeOK, SessionObject

LEMMA CreatedSession ==
    ASSUME NEW source \in {"user", "schedule"}, NEW at \in 0..MaxTime
    PROVE  /\ NewSession(source, at) \in SessionObject
           /\ NewSession(source, at).triggerSource = source
  BY DEF NewSession, SessionObject

\* An id in the map has a session object, so its fields can be looked at.
LEMMA RegisteredIsObject ==
    ASSUME TypeOK, ManagerInv, NEW s \in registered
    PROVE  s \in Sessions /\ session[s] \in SessionObject
  BY DEF TypeOK, ManagerInv

\* EndSession and KeepBusy leave the manager's variables typed.
LEMMA EndedIsTyped ==
    ASSUME TypeOK, NEW s \in Sessions, EndSession(s)
    PROVE  /\ session' \in [Sessions -> SessionObject \cup {None, Ended}]
           /\ registered' \in SUBSET Sessions
           /\ interactive' \in Sessions \cup {None}
  BY DEF TypeOK, EndSession

LEMMA MessageIsTyped ==
    ASSUME TypeOK, inboundQueue # <<>>
    PROVE  /\ Head(inboundQueue) \in InboundMessage
           /\ Tail(inboundQueue) \in Seq(InboundMessage)
  BY DEF TypeOK

LEMMA TypeIsKept ==
    ASSUME TypeOK, ManagerInv, LoopInv, [Next]_vars
    PROVE  TypeOK'
  <1> USE DEF managerVars, loopVars
  <1>1. CASE PassTime
    BY <1>1, LoopAssumption DEF PassTime, TypeOK
  <1>2. CASE Receive
    <2>1. [number |-> received + 1, timestamp |-> clock] \in InboundMessage
      BY <1>2, LoopAssumption DEF Receive, TypeOK, InboundMessage
    <2>2. inboundQueue' \in Seq(InboundMessage)
      BY <1>2, <2>1 DEF Receive, TypeOK
    <2>3. received' \in 0..MaxMessages
      BY <1>2, LoopAssumption DEF Receive, TypeOK
    <2> QED
      BY <1>2, <2>2, <2>3 DEF Receive, TypeOK
  <1>3. CASE TakeMessage
    <2>1. /\ inboundQueue' \in Seq(InboundMessage)
          /\ current' \in InboundMessage
      BY <1>3, MessageIsTyped DEF TakeMessage
    <2>2. CASE interactive = None
      BY <1>3, <2>1, <2>2 DEF TakeMessage, TypeOK
    <2>3. CASE interactive # None /\ EndSession(interactive)
      BY <1>3, <2>1, <2>3, EndedIsTyped DEF TakeMessage, TypeOK
    <2>4. CASE interactive # None /\ KeepBusy(interactive)
      <3>1. interactive \in Sessions /\ session[interactive] \in SessionObject
        BY <2>4, RegisteredIsObject DEF ManagerInv
      <3>2. session' \in [Sessions -> SessionObject \cup {None, Ended}]
        BY <2>4, <3>1, TouchedSession DEF KeepBusy
      <3> QED
        BY <1>3, <2>1, <2>4, <3>2 DEF TakeMessage, KeepBusy, TypeOK
    <2> QED
      BY <1>3, <2>2, <2>3, <2>4 DEF TakeMessage
  <1>4. CASE LoopEnds
    BY <1>4 DEF LoopEnds, TypeOK
  <1>5. CASE DrainSettles
    BY <1>5 DEF DrainSettles, TypeOK
  <1>6. ASSUME NEW s \in Sessions, CreateInteractive(s)
        PROVE  TypeOK'
    <2>1. current.timestamp \in 0..MaxTime
      BY <1>6 DEF CreateInteractive, LoopInv, TypeOK, InboundMessage
    <2>2. session' \in [Sessions -> SessionObject \cup {None, Ended}]
      BY <1>6, <2>1, CreatedSession DEF CreateInteractive, TypeOK
    <2> QED
      BY <1>6, <2>2 DEF CreateInteractive, TypeOK
  <1>7. CASE CreateFails
    <2>1. current.number \in 1..MaxMessages
      BY <1>7 DEF CreateFails, LoopInv, TypeOK, InboundMessage
    <2> QED
      BY <1>7, <2>1 DEF CreateFails, TypeOK
  <1>8. ASSUME NEW outcome \in Outcomes, FinishMessage(outcome)
        PROVE  TypeOK'
    <2>1. current.number \in 1..MaxMessages
      BY <1>8 DEF FinishMessage, LoopInv, TypeOK, InboundMessage
    <2>2. handled' \in Seq(1..MaxMessages)
      BY <1>8, <2>1 DEF FinishMessage, TypeOK
    <2>3. interactive \in Sessions /\ session[interactive] \in SessionObject
      BY <1>8, RegisteredIsObject DEF FinishMessage, ManagerInv
    <2>4. CASE outcome = "waiting_for_user"
      <3>1. session' \in [Sessions -> SessionObject \cup {None, Ended}]
        BY <1>8, <2>3, <2>4, TouchedSession DEF FinishMessage
      <3> QED
        BY <1>8, <2>2, <2>4, <3>1 DEF FinishMessage, TypeOK
    <2>5. CASE outcome # "waiting_for_user"
      BY <1>8, <2>2, <2>3, <2>5, EndedIsTyped DEF FinishMessage, TypeOK
    <2> QED
      BY <2>4, <2>5
  <1>9. ASSUME NEW s \in Sessions, Launch(s) \/ LaunchFails(s)
        PROVE  TypeOK'
    BY <1>9 DEF Launch, LaunchFails, TypeOK
  <1>10. ASSUME NEW s \in Sessions, CreateTriggered(s)
         PROVE  TypeOK'
    <2>1. NewSession("schedule", clock) \in SessionObject
      BY CreatedSession DEF TypeOK
    <2> QED
      BY <1>10, <2>1 DEF CreateTriggered, TypeOK
  <1>11. ASSUME NEW s \in Sessions, FinishTriggered(s)
         PROVE  TypeOK'
    BY <1>11, EndedIsTyped DEF FinishTriggered, TypeOK
  <1>12. CASE Shutdown \/ WaitEnds \/ WaitTimesOut
    BY <1>12 DEF Shutdown, WaitEnds, WaitTimesOut, TypeOK
  <1>13. CASE UNCHANGED vars
    BY <1>13 DEF vars, TypeOK
  <1> QED
    BY <1>1, <1>2, <1>3, <1>4, <1>5, <1>6, <1>7, <1>8, <1>9, <1>10, <1>11, <1>12, <1>13
    DEF Next, LoopStep

LEMMA LoopIsKept ==
    ASSUME TypeOK, LoopInv, [Next]_vars
    PROVE  LoopInv'
  <1> USE DEF managerVars, loopVars, SomeoneDrains, IdleIsIdle
  <1>1. CASE PassTime
    BY <1>1 DEF PassTime, LoopInv
  <1>2. CASE Receive
    BY <1>2 DEF Receive, LoopInv
  <1>3. CASE TakeMessage
    <2>1. current' # None
      BY <1>3, MessageIsTyped, NoneAssumption DEF TakeMessage
    <2> QED
      BY <1>3, <2>1 DEF TakeMessage, LoopInv
  <1>4. CASE LoopEnds
    BY <1>4 DEF LoopEnds, LoopInv
  <1>5. CASE DrainSettles
    BY <1>5 DEF DrainSettles, LoopInv
  <1>6. ASSUME NEW s \in Sessions, CreateInteractive(s)
        PROVE  LoopInv'
    BY <1>6 DEF CreateInteractive, LoopInv
  <1>7. CASE CreateFails
    BY <1>7 DEF CreateFails, LoopInv
  <1>8. ASSUME NEW outcome \in Outcomes, FinishMessage(outcome)
        PROVE  LoopInv'
    BY <1>8 DEF FinishMessage, LoopInv
  <1>9. ASSUME NEW s \in Sessions, Launch(s) \/ LaunchFails(s)
        PROVE  LoopInv'
    BY <1>9 DEF Launch, LaunchFails, LoopInv
  <1>10. ASSUME NEW s \in Sessions, CreateTriggered(s) \/ FinishTriggered(s)
         PROVE  LoopInv'
    BY <1>10 DEF CreateTriggered, FinishTriggered, LoopInv
  <1>11. CASE Shutdown \/ WaitEnds \/ WaitTimesOut
    BY <1>11 DEF Shutdown, WaitEnds, WaitTimesOut, LoopInv
  <1>12. CASE UNCHANGED vars
    BY <1>12 DEF vars, LoopInv
  <1> QED
    BY <1>1, <1>2, <1>3, <1>4, <1>5, <1>6, <1>7, <1>8, <1>9, <1>10, <1>11, <1>12
    DEF Next, LoopStep

\* Ending the interactive session keeps the map exact.
LEMMA EndKeepsManager ==
    ASSUME TypeOK, ManagerInv, interactive # None, EndSession(interactive),
           tasks' = tasks, drain' # "processing"
    PROVE  ManagerInv'
  <1>1. interactive \in registered /\ interactive \in Sessions
    BY DEF TypeOK, ManagerInv
  <1>2. /\ session'[interactive] = Ended
        /\ \A t \in Sessions : t # interactive => session'[t] = session[t]
    BY <1>1 DEF TypeOK, EndSession
  <1>3. registered' = registered \ {interactive} /\ interactive' = None
    BY DEF EndSession
  <1>4. registered \subseteq Sessions /\ tasks \subseteq Sessions
    BY DEF TypeOK
  <1>5. interactive \notin tasks
    BY <1>1, NoneAssumption DEF ManagerInv
  <1>6. \A t \in Sessions : t \in registered' <=> session'[t] \notin {None, Ended}
    BY <1>1, <1>2, <1>3 DEF ManagerInv
  <1>7. \A t \in registered' : session'[t] = session[t] /\ t \in registered /\ t # None
    BY <1>2, <1>3, <1>4, NoneAssumption
  <1>8. \A t \in tasks : session'[t] = session[t]
    BY <1>2, <1>4, <1>5
  <1> QED
    BY <1>1, <1>3, <1>6, <1>7, <1>8, <1>5 DEF ManagerInv

\* So does using a registered session.
LEMMA TouchKeepsManager ==
    ASSUME TypeOK, ManagerInv, NEW s \in registered,
           NEW newStatus \in {"busy", "waiting_for_user"},
           session' = [session EXCEPT ![s].status = newStatus, ![s].lastActivityAt = clock],
           UNCHANGED <<registered, interactive, tasks>>,
           drain' = "processing" => s = interactive,
           drain' # "creating"
    PROVE  ManagerInv'
  <1>1. s \in Sessions /\ session[s] \in SessionObject
    BY RegisteredIsObject
  <1>2. /\ session'[s] \in SessionObject
        /\ session'[s].triggerSource = session[s].triggerSource
        /\ \A t \in Sessions : t # s => session'[t] = session[t]
    BY <1>1, TouchedSession
  <1>3. registered \subseteq Sessions /\ tasks \subseteq Sessions
    BY DEF TypeOK
  <1>4. \A t \in Sessions : session'[t] \in {None, Ended} <=> session[t] \in {None, Ended}
    BY <1>1, <1>2, NoneAssumption
  <1>5. \A t \in Sessions : session'[t] = None <=> session[t] = None
    BY <1>1, <1>2, NoneAssumption
  <1>6. \A t \in Sessions : session'[t].triggerSource = session[t].triggerSource
    BY <1>2
  <1>7. s # None
    BY <1>1, NoneAssumption
  <1> QED
    BY <1>3, <1>4, <1>5, <1>6, <1>7 DEF ManagerInv

LEMMA ManagerIsKept ==
    ASSUME TypeOK, ManagerInv, LoopInv, [Next]_vars
    PROVE  ManagerInv'
  <1> USE DEF managerVars, loopVars
  <1>1. CASE PassTime
    BY <1>1 DEF PassTime, ManagerInv
  <1>2. CASE Receive
    BY <1>2 DEF Receive, ManagerInv
  <1>3. CASE TakeMessage
    <2>1. CASE interactive = None
      BY <1>3, <2>1 DEF TakeMessage, ManagerInv
    <2>2. CASE interactive # None /\ isExpired(current')
      <3>1. EndSession(interactive)
        BY <1>3, <2>2 DEF TakeMessage
      <3>2. drain' = "creating" /\ tasks' = tasks
        BY <1>3, <2>2 DEF TakeMessage
      <3> QED
        BY <2>2, <3>1, <3>2, EndKeepsManager
    <2>3. CASE interactive # None /\ ~isExpired(current')
      <3>1. interactive \in registered /\ KeepBusy(interactive)
        BY <1>3, <2>3 DEF TakeMessage, ManagerInv
      <3>2. drain' = "processing" /\ tasks' = tasks
        BY <1>3, <2>3 DEF TakeMessage
      <3> QED
        BY <3>1, <3>2, TouchKeepsManager DEF KeepBusy
    <2> QED
      BY <2>1, <2>2, <2>3
  <1>4. CASE LoopEnds
    BY <1>4 DEF LoopEnds, ManagerInv
  <1>5. CASE DrainSettles
    BY <1>5 DEF DrainSettles, ManagerInv
  <1>6. ASSUME NEW s \in Sessions, CreateInteractive(s)
        PROVE  ManagerInv'
    <2>1. current.timestamp \in 0..MaxTime
      BY <1>6 DEF CreateInteractive, LoopInv, TypeOK, InboundMessage
    <2>2. /\ session'[s] \in SessionObject
          /\ session'[s].triggerSource = "user"
          /\ \A t \in Sessions : t # s => session'[t] = session[t]
      BY <1>6, <2>1, CreatedSession DEF CreateInteractive, TypeOK
    <2>3. session[s] = None /\ s \notin tasks
      BY <1>6 DEF CreateInteractive, IsFresh
    <2>4. registered \subseteq Sessions /\ tasks \subseteq Sessions
      BY DEF TypeOK
    <2> QED
      BY <1>6, <2>2, <2>3, <2>4, NoneAssumption DEF CreateInteractive, ManagerInv
  <1>7. CASE CreateFails
    BY <1>7 DEF CreateFails, ManagerInv
  <1>8. ASSUME NEW outcome \in Outcomes, FinishMessage(outcome)
        PROVE  ManagerInv'
    <2>1. interactive # None /\ interactive \in registered /\ drain' = "taking" /\ tasks' = tasks
      BY <1>8 DEF FinishMessage, ManagerInv
    <2>2. CASE outcome = "waiting_for_user"
      BY <1>8, <2>1, <2>2, TouchKeepsManager DEF FinishMessage
    <2>3. CASE outcome # "waiting_for_user"
      <3>1. EndSession(interactive)
        BY <1>8, <2>3 DEF FinishMessage
      <3> QED
        BY <2>1, <3>1, EndKeepsManager
    <2> QED
      BY <2>2, <2>3
  <1>9. ASSUME NEW s \in Sessions, Launch(s) \/ LaunchFails(s)
        PROVE  ManagerInv'
    BY <1>9 DEF Launch, LaunchFails, IsFresh, ManagerInv
  <1>10. ASSUME NEW s \in Sessions, CreateTriggered(s)
         PROVE  ManagerInv'
    <2>1. /\ session'[s] \in SessionObject
          /\ session'[s].triggerSource = "schedule"
          /\ \A t \in Sessions : t # s => session'[t] = session[t]
      BY <1>10, CreatedSession DEF CreateTriggered, TypeOK
    <2>2. registered \subseteq Sessions /\ tasks \subseteq Sessions
      BY DEF TypeOK
    <2> QED
      BY <1>10, <2>1, <2>2, NoneAssumption DEF CreateTriggered, ManagerInv
  <1>11. ASSUME NEW s \in Sessions, FinishTriggered(s)
         PROVE  ManagerInv'
    <2>1. s \in registered /\ session[s].triggerSource = "schedule" /\ s # interactive
      BY <1>11 DEF FinishTriggered, ManagerInv
    <2>2. EndSession(s) /\ tasks' = tasks \ {s} /\ drain' = drain
      BY <1>11 DEF FinishTriggered
    <2>3. s \in Sessions /\ session'[s] = Ended
          /\ (\A t \in Sessions : t # s => session'[t] = session[t])
      BY <1>11, <2>2 DEF EndSession, TypeOK
    <2>4. registered' = registered \ {s} /\ interactive' = interactive
      BY <2>1, <2>2 DEF EndSession
    <2>5. registered \subseteq Sessions /\ tasks \subseteq Sessions
      BY DEF TypeOK
    <2> QED
      BY <2>1, <2>2, <2>3, <2>4, <2>5, NoneAssumption DEF ManagerInv
  <1>12. CASE Shutdown \/ WaitEnds \/ WaitTimesOut
    BY <1>12 DEF Shutdown, WaitEnds, WaitTimesOut, ManagerInv
  <1>13. CASE UNCHANGED vars
    BY <1>13 DEF vars, ManagerInv
  <1> QED
    BY <1>1, <1>2, <1>3, <1>4, <1>5, <1>6, <1>7, <1>8, <1>9, <1>10, <1>11, <1>12, <1>13
    DEF Next, LoopStep

\* Every message that arrived is somewhere, and what is handled precedes what
\* is in hand, which precedes what waits.
OrderInv ==
    /\ \A i \in 1..Len(inboundQueue) : inboundQueue[i].number \in 1..received
    /\ \A i, j \in 1..Len(inboundQueue) :
           i < j => inboundQueue[i].number < inboundQueue[j].number
    /\ current # None =>
           /\ current.number \in 1..received
           /\ \A i \in 1..Len(inboundQueue) : current.number < inboundQueue[i].number
    /\ \A k \in 1..Len(handled) :
           /\ handled[k] \in 1..received
           /\ \A i \in 1..Len(inboundQueue) : handled[k] < inboundQueue[i].number
           /\ current # None => handled[k] < current.number
    /\ MessagesInOrder

LEMMA ReceiveKeepsOrder ==
    ASSUME TypeOK, OrderInv, Receive
    PROVE  OrderInv'
  <1> DEFINE message == [number |-> received + 1, timestamp |-> clock]
             n == Len(inboundQueue)
  <1>1. received \in Nat /\ received' = received + 1
    BY LoopAssumption DEF TypeOK, Receive
  <1>2. /\ inboundQueue \in Seq(InboundMessage)
        /\ inboundQueue' = Append(inboundQueue, message)
        /\ message.number = received + 1
    BY DEF TypeOK, Receive
  <1>3. /\ n \in Nat
        /\ Len(inboundQueue') = n + 1
        /\ inboundQueue'[n + 1].number = received + 1
        /\ \A i \in 1..n : inboundQueue'[i].number = inboundQueue[i].number
    BY <1>2
  <1>4. UNCHANGED <<current, handled, dropped>>
    BY DEF Receive
  <1> HIDE DEF n, message
  <1>5. \A i \in 1..Len(inboundQueue') : i \in 1..n \/ i = n + 1
    BY <1>3
  <1>6. \A i \in 1..n : inboundQueue[i].number \in 1..received
    BY DEF OrderInv, n
  <1>7. ASSUME NEW i \in 1..Len(inboundQueue')
        PROVE  inboundQueue'[i].number \in 1..received'
    <2>1. CASE i \in 1..n
      BY ONLY <1>1, <1>3, <1>6, <2>1
    <2>2. CASE i = n + 1
      BY ONLY <1>1, <1>3, <2>2
    <2> QED
      BY <1>5, <2>1, <2>2
  <1>8. ASSUME NEW i \in 1..Len(inboundQueue'), NEW j \in 1..Len(inboundQueue'), i < j
        PROVE  inboundQueue'[i].number < inboundQueue'[j].number
    <2>1. i \in 1..n
      BY <1>3, <1>8
    <2>2. CASE j \in 1..n
      BY <1>3, <1>8, <2>1, <2>2 DEF OrderInv, n
    <2>3. CASE j = n + 1
      BY <1>1, <1>3, <1>6, <2>1, <2>3
    <2> QED
      BY <1>5, <2>2, <2>3
  <1>9. ASSUME NEW m \in 1..received,
               \A i \in 1..n : m < inboundQueue[i].number,
               NEW i \in 1..Len(inboundQueue')
        PROVE  m < inboundQueue'[i].number
    <2>1. CASE i \in 1..n
      BY ONLY <1>3, <1>9, <2>1
    <2>2. CASE i = n + 1
      BY ONLY <1>1, <1>3, <1>9, <2>2
    <2> QED
      BY <1>5, <2>1, <2>2
  <1>10. current # None =>
            /\ current.number \in 1..received'
            /\ \A i \in 1..Len(inboundQueue') : current.number < inboundQueue'[i].number
    <2> SUFFICES ASSUME current # None
                 PROVE  /\ current.number \in 1..received'
                        /\ \A i \in 1..Len(inboundQueue') : current.number < inboundQueue'[i].number
      OBVIOUS
    <2>1. /\ current.number \in 1..received
          /\ \A i \in 1..n : current.number < inboundQueue[i].number
      BY DEF OrderInv, n
    <2>2. \A i \in 1..Len(inboundQueue') : current.number < inboundQueue'[i].number
      BY ONLY <2>1, <1>9
    <2>3. current.number \in 1..received'
      BY ONLY <1>1, <2>1
    <2> QED
      BY <2>2, <2>3
  <1>11. \A k \in 1..Len(handled) :
            /\ handled[k] \in 1..received'
            /\ \A i \in 1..Len(inboundQueue') : handled[k] < inboundQueue'[i].number
            /\ current # None => handled[k] < current.number
    <2> SUFFICES ASSUME NEW k \in 1..Len(handled)
                 PROVE  /\ handled[k] \in 1..received'
                        /\ \A i \in 1..Len(inboundQueue') : handled[k] < inboundQueue'[i].number
                        /\ current # None => handled[k] < current.number
      OBVIOUS
    <2>1. /\ handled[k] \in 1..received
          /\ \A i \in 1..n : handled[k] < inboundQueue[i].number
          /\ current # None => handled[k] < current.number
      BY DEF OrderInv, n
    <2>2. \A i \in 1..Len(inboundQueue') : handled[k] < inboundQueue'[i].number
      BY ONLY <2>1, <1>9
    <2>3. handled[k] \in 1..received'
      BY ONLY <1>1, <2>1
    <2> QED
      BY <2>1, <2>2, <2>3
  <1>12. ASSUME NEW m \in 1..received'
         PROVE  \/ \E i \in 1..Len(handled) : handled[i] = m
                \/ m \in dropped
                \/ current # None /\ current.number = m
                \/ \E i \in 1..Len(inboundQueue') : inboundQueue'[i].number = m
    <2>1. CASE m = received + 1
      BY <1>3, <2>1
    <2>2. CASE m \in 1..received
      <3>1. CASE \E i \in 1..n : inboundQueue[i].number = m
        BY <1>3, <3>1
      <3>2. CASE ~ \E i \in 1..n : inboundQueue[i].number = m
        BY <2>2, <3>2 DEF OrderInv, MessagesInOrder, n
      <3> QED
        BY <3>1, <3>2
    <2> QED
      BY <1>1, <2>1, <2>2
  <1> QED
    BY <1>4, <1>7, <1>8, <1>10, <1>11, <1>12 DEF OrderInv, MessagesInOrder

LEMMA TakeKeepsOrder ==
    ASSUME TypeOK, LoopInv, OrderInv, TakeMessage
    PROVE  OrderInv'
  <1> DEFINE n == Len(inboundQueue)
  <1>1. /\ inboundQueue \in Seq(InboundMessage) /\ inboundQueue # <<>>
        /\ inboundQueue' = Tail(inboundQueue) /\ current' = Head(inboundQueue)
    BY DEF TypeOK, TakeMessage
  <1>2. /\ n \in Nat \ {0}
        /\ Len(inboundQueue') = n - 1
        /\ current'.number = inboundQueue[1].number
        /\ \A i \in 1..n-1 : inboundQueue'[i].number = inboundQueue[i + 1].number
    BY <1>1
  <1>3. UNCHANGED <<received, handled, dropped>> /\ current = None
    BY DEF TakeMessage, LoopInv
  <1>4. current' # None
    BY <1>1, MessageIsTyped, NoneAssumption
  <1>5. /\ \A i \in 1..n : inboundQueue[i].number \in 1..received
        /\ \A i, j \in 1..n : i < j => inboundQueue[i].number < inboundQueue[j].number
        /\ \A k \in 1..Len(handled), i \in 1..n : handled[k] < inboundQueue[i].number
    BY DEF OrderInv
  <1> HIDE DEF n
  <1>6. \A i \in 1..n-1 : i + 1 \in 1..n /\ 1 < i + 1
    BY <1>2
  <1>7. 1 \in 1..n
    BY <1>2
  <1>8. \A i \in 1..n-1 : inboundQueue'[i].number \in 1..received
    BY <1>2, <1>5, <1>6
  <1>9. ASSUME NEW i \in 1..n-1, NEW j \in 1..n-1, i < j
        PROVE  inboundQueue'[i].number < inboundQueue'[j].number
    <2>1. i + 1 \in 1..n /\ j + 1 \in 1..n /\ i + 1 < j + 1
      BY <1>6, <1>9
    <2>2. inboundQueue[i + 1].number < inboundQueue[j + 1].number
      BY <1>5, <2>1
    <2> QED
      BY <1>2, <2>2
  <1>10. /\ current'.number \in 1..received
         /\ \A i \in 1..n-1 : current'.number < inboundQueue'[i].number
    BY <1>2, <1>5, <1>6, <1>7
  <1>11. \A k \in 1..Len(handled) :
            /\ handled[k] \in 1..received
            /\ \A i \in 1..n-1 : handled[k] < inboundQueue'[i].number
            /\ handled[k] < current'.number
    <2>1. \A k \in 1..Len(handled) : handled[k] \in 1..received
      BY DEF OrderInv
    <2> QED
      BY <1>2, <1>5, <1>6, <1>7, <2>1
  <1>12. ASSUME NEW m \in 1..received
         PROVE  \/ \E i \in 1..Len(handled) : handled[i] = m
                \/ m \in dropped
                \/ current'.number = m
                \/ \E i \in 1..n-1 : inboundQueue'[i].number = m
    <2>1. ASSUME NEW i \in 1..n, inboundQueue[i].number = m
          PROVE  current'.number = m \/ \E j \in 1..n-1 : inboundQueue'[j].number = m
      <3>1. CASE i = 1
        BY <1>2, <2>1, <3>1
      <3>2. CASE i # 1
        <4>1. i - 1 \in 1..n-1 /\ (i - 1) + 1 = i
          BY <1>2, <3>2
        <4>2. inboundQueue'[i - 1].number = m
          BY <1>2, <2>1, <4>1
        <4> QED
          BY <4>1, <4>2
      <3> QED
        BY <3>1, <3>2
    <2>2. \/ \E i \in 1..Len(handled) : handled[i] = m
          \/ m \in dropped
          \/ \E i \in 1..n : inboundQueue[i].number = m
      BY <1>3 DEF OrderInv, MessagesInOrder, n
    <2> QED
      BY <2>1, <2>2
  <1>13. \A i, j \in 1..Len(handled) : i < j => handled[i] < handled[j]
    BY DEF OrderInv, MessagesInOrder
  <1> QED
    BY <1>2, <1>3, <1>4, <1>8, <1>9, <1>10, <1>11, <1>12, <1>13 DEF OrderInv, MessagesInOrder

LEMMA FinishKeepsOrder ==
    ASSUME TypeOK, LoopInv, OrderInv, NEW outcome \in Outcomes, FinishMessage(outcome)
    PROVE  OrderInv'
  <1> DEFINE h == Len(handled)
  <1>1. current # None /\ current' = None
    BY DEF FinishMessage, LoopInv
  <1>2. /\ current.number \in 1..MaxMessages
        /\ handled \in Seq(1..MaxMessages)
        /\ handled' = Append(handled, current.number)
    BY <1>1 DEF FinishMessage, TypeOK, InboundMessage
  <1>3. /\ h \in Nat
        /\ Len(handled') = h + 1
        /\ handled'[h + 1] = current.number
        /\ \A k \in 1..h : handled'[k] = handled[k]
    BY <1>2
  <1>4. UNCHANGED <<inboundQueue, received, dropped>>
    BY DEF FinishMessage
  <1>5. /\ \A k \in 1..h : handled[k] \in 1..received /\ handled[k] < current.number
        /\ \A k \in 1..h, i \in 1..Len(inboundQueue) : handled[k] < inboundQueue[i].number
        /\ current.number \in 1..received
        /\ \A i \in 1..Len(inboundQueue) : current.number < inboundQueue[i].number
    BY <1>1 DEF OrderInv
  <1>6. \A i, j \in 1..h : i < j => handled[i] < handled[j]
    BY DEF OrderInv, MessagesInOrder
  <1> HIDE DEF h
  <1>7. \A k \in 1..h + 1 : k \in 1..h \/ k = h + 1
    BY <1>3
  <1>8. ASSUME NEW k \in 1..h + 1
        PROVE  /\ handled'[k] \in 1..received
               /\ \A i \in 1..Len(inboundQueue) : handled'[k] < inboundQueue[i].number
    BY <1>3, <1>5, <1>7
  <1>9. ASSUME NEW i \in 1..h + 1, NEW j \in 1..h + 1, i < j
        PROVE  handled'[i] < handled'[j]
    <2>1. i \in 1..h
      BY <1>3, <1>9
    <2>2. CASE j \in 1..h
      BY <1>3, <1>6, <1>9, <2>1, <2>2
    <2>3. CASE j = h + 1
      BY <1>3, <1>5, <2>1, <2>3
    <2> QED
      BY <1>7, <2>2, <2>3
  <1>10. ASSUME NEW m \in 1..received
         PROVE  \/ \E i \in 1..h + 1 : handled'[i] = m
                \/ m \in dropped
                \/ \E i \in 1..Len(inboundQueue) : inboundQueue[i].number = m
    <2>1. CASE \E i \in 1..h : handled[i] = m
      BY <1>3, <2>1
    <2>2. CASE current.number = m
      BY <1>3, <2>2
    <2>3. \/ \E i \in 1..h : handled[i] = m
          \/ m \in dropped
          \/ current.number = m
          \/ \E i \in 1..Len(inboundQueue) : inboundQueue[i].number = m
      BY DEF OrderInv, MessagesInOrder, h
    <2> QED
      BY <2>1, <2>2, <2>3
  <1>11. /\ \A i \in 1..Len(inboundQueue) : inboundQueue[i].number \in 1..received
         /\ \A i, j \in 1..Len(inboundQueue) :
                i < j => inboundQueue[i].number < inboundQueue[j].number
    BY DEF OrderInv
  <1> QED
    BY <1>1, <1>3, <1>4, <1>8, <1>9, <1>10, <1>11 DEF OrderInv, MessagesInOrder

LEMMA OrderIsKept ==
    ASSUME TypeOK, LoopInv, OrderInv, [Next]_vars
    PROVE  OrderInv'
  <1> USE DEF managerVars, loopVars
  <1>1. CASE Receive
    BY <1>1, ReceiveKeepsOrder
  <1>2. CASE TakeMessage
    BY <1>2, TakeKeepsOrder
  <1>3. ASSUME NEW outcome \in Outcomes, FinishMessage(outcome)
        PROVE  OrderInv'
    BY <1>3, FinishKeepsOrder
  <1>4. CASE CreateFails
    <2>1. current # None /\ current' = None
      BY <1>4 DEF CreateFails, LoopInv
    <2> QED
      BY <1>4, <2>1 DEF CreateFails, OrderInv, MessagesInOrder
  <1>5. CASE UNCHANGED <<inboundQueue, current, received, handled, dropped>>
    BY <1>5 DEF OrderInv, MessagesInOrder
  <1>6. CASE \/ PassTime \/ LoopEnds \/ DrainSettles
             \/ Shutdown \/ WaitEnds \/ WaitTimesOut \/ UNCHANGED vars
    BY <1>5, <1>6
    DEF PassTime, LoopEnds, DrainSettles, Shutdown, WaitEnds, WaitTimesOut, vars
  <1>7. ASSUME NEW s \in Sessions,
               \/ CreateInteractive(s) \/ Launch(s) \/ CreateTriggered(s)
               \/ LaunchFails(s) \/ FinishTriggered(s)
        PROVE  OrderInv'
    BY <1>5, <1>7
    DEF CreateInteractive, Launch, CreateTriggered, LaunchFails, FinishTriggered
  <1> QED
    BY <1>1, <1>2, <1>3, <1>4, <1>6, <1>7 DEF Next, LoopStep

---------------------------------------------------------------------------
Inv == TypeOK /\ ManagerInv /\ LoopInv /\ OrderInv

LEMMA Invariance == Spec => []Inv
  <1>1. Init => Inv
    <2>1. ASSUME Init PROVE ManagerInv
      BY <2>1 DEF Init, ManagerInv
    <2>2. ASSUME Init PROVE LoopInv
      BY <2>2 DEF Init, LoopInv, SomeoneDrains, IdleIsIdle
    <2>3. ASSUME Init PROVE OrderInv
      BY <2>3 DEF Init, OrderInv, MessagesInOrder
    <2> QED
      BY <2>1, <2>2, <2>3, InitIsTyped DEF Inv
  <1>2. Inv /\ [Next]_vars => Inv'
    BY TypeIsKept, ManagerIsKept, LoopIsKept, OrderIsKept DEF Inv
  <1> QED
    BY <1>1, <1>2, PTL DEF Spec

\* The variables of the loop, the manager and the shutdown keep their types.
THEOREM TypeCorrect == Spec => []TypeOK
  <1>1. Inv => TypeOK
    BY DEF Inv
  <1> QED
    BY <1>1, Invariance, PTL

\* No message waits without a loop to take it: ensureDrainLoop looks again when
\* a loop settles.
THEOREM MessagesAreDrained == Spec => []SomeoneDrains
  <1>1. Inv => SomeoneDrains
    BY DEF Inv, LoopInv
  <1> QED
    BY <1>1, Invariance, PTL

\* The session manager holds the running triggered sessions and one interactive
\* session, and no session that ended.
THEOREM SessionsAreManaged == Spec => []OneInteractiveSession
  <1>1. Inv => OneInteractiveSession
    <2> SUFFICES ASSUME Inv PROVE OneInteractiveSession
      OBVIOUS
    <2>1. registered \subseteq Sessions
      BY DEF Inv, TypeOK
    <2>2. registered = {s \in Sessions : session[s] # None /\ ~isTerminal(s)}
      BY <2>1 DEF Inv, ManagerInv, isTerminal
    <2>3. {s \in registered : session[s].triggerSource = "user"} = {interactive} \ {None}
      BY <2>1, NoneAssumption DEF Inv, ManagerInv
    <2>4. {s \in registered : session[s].triggerSource = "schedule"} \subseteq tasks
      BY DEF Inv, ManagerInv
    <2>5. drain = "processing" => interactive \in registered
      BY DEF Inv, ManagerInv
    <2> QED
      BY <2>2, <2>3, <2>4, <2>5 DEF OneInteractiveSession
  <1> QED
    BY <1>1, Invariance, PTL

\* drainQueue handles the user's messages in the order of their arrival, and none
\* disappears but one whose session could not be created.
THEOREM MessagesAreInOrder == Spec => []MessagesInOrder
  <1>1. Inv => MessagesInOrder
    BY DEF Inv, OrderInv
  <1> QED
    BY <1>1, Invariance, PTL

\* Once waitForIdle reported an idle runtime nothing runs, and nothing starts.
THEOREM NothingRunsOnceIdle == Spec => []IdleIsIdle
  <1>1. Inv => IdleIsIdle
    BY DEF Inv, LoopInv
  <1> QED
    BY <1>1, Invariance, PTL

---------------------------------------------------------------------------
(***************************************************************************)
(* Conversation, for any context budget and any limit of iterations: the   *)
(* estimate of the context is exact, every tool call is answered once      *)
(* before the model is asked, the ceiling is passed only by a history that *)
(* cannot be compacted, and a compaction keeps the current exchange.       *)
(***************************************************************************)

\* The history begins with the system prompt.
BeginsWithPrompt ==
    /\ Len(messages) > 0
    /\ messages[1].role = "system" /\ messages[1].made = {} /\ messages[1].answers = 0

\* The session ends with the call that reaches the limit.
LimitInv == step # "over" => iterationCount < MaxIterations

\* The calls still to dispatch: there are some while a turn is at its tools,
\* none while the model is asked, and no call comes twice.
CallsInv ==
    /\ step = "tools" => calls # <<>>
    /\ step \notin {"tools", "over"} => calls = <<>>
    /\ \A i, j \in 1..Len(calls) : calls[i] = calls[j] => i = j

Outstanding == {calls[i] : i \in 1..Len(calls)}

\* What a history h says of the tool calls of which those in due are still to
\* dispatch, and next is the next id.
AnswersInv(h, due, next) ==
    /\ \A i \in 1..Len(h) : \A id \in h[i].made : id \in 1..next - 1
    /\ \A i \in 1..Len(h) : h[i].answers < next /\ h[i].answers \notin due
    /\ \A i, j \in 1..Len(h) : h[i].answers = h[j].answers /\ h[i].answers # 0 => i = j
    /\ \A i \in 1..Len(h) : \A id \in h[i].made :
          id \in due \/ \E j \in i+1..Len(h) : h[j].answers = id

ConversationInv ==
    /\ ConversationTypeOK
    /\ BeginsWithPrompt
    /\ LimitInv
    /\ CallsInv
    /\ EstimateIsExact
    /\ AnswersInv(messages, Outstanding, nextCall)
    /\ CeilingRespected

---------------------------------------------------------------------------
LEMMA MessagesAreTyped ==
    ASSUME NEW role \in {"system", "user", "assistant", "tool_result"},
           NEW made \in SUBSET Nat, NEW answers \in Nat, NEW quiet \in BOOLEAN,
           NEW tokens \in Nat
    PROVE  /\ Message(role, made, answers, quiet, tokens) \in MessageRecord
           /\ Message(role, made, answers, quiet, tokens).role = role
           /\ Message(role, made, answers, quiet, tokens).made = made
           /\ Message(role, made, answers, quiet, tokens).answers = answers
  BY DEF Message, MessageRecord

LEMMA SystemMessagesAreTyped ==
    ASSUME NEW tokens \in Nat
    PROVE  /\ SystemMessage(tokens) \in MessageRecord
           /\ SystemMessage(tokens).role = "system"
           /\ SystemMessage(tokens).made = {}
           /\ SystemMessage(tokens).answers = 0
  BY DEF SystemMessage, Message, MessageRecord

SizesOf(h) == [i \in 1..Len(h) |-> h[i].tokens]

LEMMA SizesAre ==
    ASSUME NEW h \in Seq(MessageRecord)
    PROVE  SizesOf(h) \in Seq(Nat) /\ Len(SizesOf(h)) = Len(h)
  <1>1. Len(h) \in Nat /\ \A i \in 1..Len(h) : h[i] \in MessageRecord
    BY ElementOfSeq, LenProperties
  <1>2. \A i \in 1..Len(h) : h[i].tokens \in Nat
    BY <1>1 DEF MessageRecord
  <1> QED
    BY <1>1, <1>2 DEF SizesOf

LEMMA TokensAreNat ==
    ASSUME NEW h \in Seq(MessageRecord)
    PROVE  TokensOf(h) \in Nat
  <1>1. Total(SizesOf(h)) \in Nat
    BY SizesAre, TotalIsNat
  <1> QED
    BY <1>1 DEF TokensOf, SizesOf

\* The tokens of a history and of what is appended to it.
LEMMA TokensOfConcat ==
    ASSUME NEW h \in Seq(MessageRecord), NEW added \in Seq(MessageRecord)
    PROVE  TokensOf(h \o added) = TokensOf(h) + TokensOf(added)
  <1>1. /\ h \o added \in Seq(MessageRecord)
        /\ Len(h \o added) = Len(h) + Len(added)
        /\ \A i \in 1..Len(h) + Len(added) :
              (h \o added)[i] = IF i <= Len(h) THEN h[i] ELSE added[i - Len(h)]
        /\ Len(h) \in Nat /\ Len(added) \in Nat
    BY ConcatProperties, LenProperties
  <1>2. /\ SizesOf(h) \in Seq(Nat) /\ Len(SizesOf(h)) = Len(h)
        /\ SizesOf(added) \in Seq(Nat) /\ Len(SizesOf(added)) = Len(added)
        /\ SizesOf(h \o added) \in Seq(Nat) /\ Len(SizesOf(h \o added)) = Len(h) + Len(added)
    BY <1>1, SizesAre
  <1>3. /\ SizesOf(h) \o SizesOf(added) \in Seq(Nat)
        /\ Len(SizesOf(h) \o SizesOf(added)) = Len(h) + Len(added)
        /\ \A i \in 1..Len(h) + Len(added) :
              (SizesOf(h) \o SizesOf(added))[i] =
                  IF i <= Len(h) THEN SizesOf(h)[i] ELSE SizesOf(added)[i - Len(h)]
    <2> DEFINE a == SizesOf(h)
               b == SizesOf(added)
    <2> HIDE DEF a, b
    <2>0. a \in Seq(Nat) /\ b \in Seq(Nat)
      BY <1>2 DEF a, b
    <2>1. /\ a \o b \in Seq(Nat)
          /\ Len(a \o b) = Len(a) + Len(b)
          /\ \A i \in 1..Len(a) + Len(b) : (a \o b)[i] = IF i <= Len(a) THEN a[i] ELSE b[i - Len(a)]
      BY <2>0, ConcatProperties
    <2>2. Len(a) = Len(h) /\ Len(b) = Len(added)
      BY <1>2 DEF a, b
    <2>3. /\ a \o b \in Seq(Nat)
          /\ Len(a \o b) = Len(h) + Len(added)
          /\ \A i \in 1..Len(h) + Len(added) :
                (a \o b)[i] = IF i <= Len(h) THEN a[i] ELSE b[i - Len(h)]
      BY <2>1, <2>2
    <2> QED
      BY <2>3 DEF a, b
  <1>4. ASSUME NEW i \in 1..Len(h) + Len(added)
        PROVE  SizesOf(h \o added)[i] = (SizesOf(h) \o SizesOf(added))[i]
    <2>1. SizesOf(h \o added)[i] = (h \o added)[i].tokens
      BY <1>1 DEF SizesOf
    <2>2. CASE i <= Len(h)
      BY <1>1, <1>3, <2>1, <2>2 DEF SizesOf
    <2>3. CASE ~(i <= Len(h))
      <3>1. i - Len(h) \in 1..Len(added)
        BY <1>1, <2>3
      <3>2. SizesOf(added)[i - Len(h)] = added[i - Len(h)].tokens
        BY <3>1 DEF SizesOf
      <3> QED
        BY <1>1, <1>3, <2>1, <2>3, <3>2
    <2> QED
      BY <2>2, <2>3
  <1>5. SizesOf(h \o added) = SizesOf(h) \o SizesOf(added)
    BY <1>2, <1>3, <1>4, SeqEqual
  <1>6. Total(SizesOf(h \o added)) = Total(SizesOf(h)) + Total(SizesOf(added))
    BY <1>2, <1>5, TotalOfConcat
  <1> QED
    BY <1>6 DEF TokensOf, SizesOf

---------------------------------------------------------------------------
(***************************************************************************)
(* The tool calls and their results.                                       *)
(***************************************************************************)

\* One message more, which makes the calls of next..next2-1 or none, and
\* answers one that was due or none.
LEMMA OneMessageMore ==
    ASSUME NEW h \in Seq(MessageRecord), NEW m \in MessageRecord,
           NEW due, NEW due2, NEW next \in Nat \ {0}, NEW next2 \in Nat,
           AnswersInv(h, due, next), next <= next2, due \subseteq 1..next - 1,
           m.made \subseteq (next..next2 - 1) \cap due2,
           due2 \subseteq due \cup (next..next2 - 1),
           due \ {m.answers} \subseteq due2,
           m.answers = 0 \/ m.answers \in due \ due2
    PROVE  AnswersInv(Append(h, m), due2, next2)
  <1> DEFINE g == Append(h, m)
  <1>1. /\ Len(h) \in Nat
        /\ Len(g) = Len(h) + 1
        /\ \A i \in 1..Len(h) : g[i] = h[i]
        /\ g[Len(h) + 1] = m
    BY AppendProperties, LenProperties
  <1>2. \A i \in 1..Len(h) : h[i] \in MessageRecord
    BY ElementOfSeq
  <1>3. \A i \in 1..Len(h) : h[i].answers \in Nat /\ h[i].made \subseteq Nat
    BY <1>2 DEF MessageRecord
  <1>4. m.answers \in Nat /\ m.made \subseteq Nat
    BY DEF MessageRecord
  <1> HIDE DEF g
  <1>5. \A i \in 1..Len(g) : i \in 1..Len(h) \/ i = Len(h) + 1
    BY <1>1
  <1>6. ASSUME NEW i \in 1..Len(g), NEW id \in g[i].made
        PROVE  id \in 1..next2 - 1
    <2>1. CASE i \in 1..Len(h)
      <3>1. id \in 1..next - 1
        BY <1>1, <1>6, <2>1 DEF AnswersInv
      <3> QED
        BY <3>1
    <2>2. CASE i = Len(h) + 1
      BY <1>1, <1>6, <2>2
    <2> QED
      BY <1>5, <2>1, <2>2
  <1>7. ASSUME NEW i \in 1..Len(g)
        PROVE  g[i].answers < next2 /\ g[i].answers \notin due2
    <2>1. CASE i \in 1..Len(h)
      <3>1. h[i].answers < next /\ h[i].answers \notin due /\ h[i].answers \in Nat
        BY <1>3, <2>1 DEF AnswersInv
      <3>2. h[i].answers \notin next..next2 - 1
        BY <3>1
      <3>3. h[i].answers \notin due2
        BY <3>1, <3>2
      <3> QED
        BY <1>1, <2>1, <3>1, <3>3
    <2>2. CASE i = Len(h) + 1
      <3>1. m.answers < next
        BY <1>4
      <3>2. 0 \notin due2
        OBVIOUS
      <3> QED
        BY <1>1, <1>4, <2>2, <3>1, <3>2
    <2> QED
      BY <1>5, <2>1, <2>2
  <1>8. ASSUME NEW i \in 1..Len(g), NEW j \in 1..Len(g), g[i].answers = g[j].answers,
               g[i].answers # 0
        PROVE  i = j
    <2>1. CASE i \in 1..Len(h) /\ j \in 1..Len(h)
      <3>1. h[i].answers = h[j].answers /\ h[i].answers # 0
        BY <1>1, <1>8, <2>1
      <3> QED
        BY <2>1, <3>1 DEF AnswersInv
    <2>2. CASE i \in 1..Len(h) /\ j = Len(h) + 1
      <3>1. h[i].answers = m.answers /\ m.answers # 0
        BY <1>1, <1>8, <2>2
      <3>2. m.answers \in due
        BY <3>1
      <3>3. h[i].answers \notin due
        BY <2>2 DEF AnswersInv
      <3> QED
        BY <3>1, <3>2, <3>3
    <2>3. CASE j \in 1..Len(h) /\ i = Len(h) + 1
      <3>1. h[j].answers = m.answers /\ m.answers # 0
        BY <1>1, <1>8, <2>3
      <3>2. m.answers \in due
        BY <3>1
      <3>3. h[j].answers \notin due
        BY <2>3 DEF AnswersInv
      <3> QED
        BY <3>1, <3>2, <3>3
    <2> QED
      BY <1>5, <2>1, <2>2, <2>3
  <1>9. ASSUME NEW i \in 1..Len(g), NEW id \in g[i].made
        PROVE  id \in due2 \/ \E j \in i+1..Len(g) : g[j].answers = id
    <2>1. CASE i \in 1..Len(h)
      <3>1. id \in h[i].made
        BY <1>1, <1>9, <2>1
      <3>2. id \in due \/ \E j \in i+1..Len(h) : h[j].answers = id
        BY <2>1, <3>1 DEF AnswersInv
      <3>3. CASE id \in due /\ id # m.answers
        BY <3>3
      <3>4. CASE id = m.answers
        <4>1. Len(h) + 1 \in i+1..Len(g)
          BY <1>1, <2>1
        <4> QED
          BY <1>1, <3>4, <4>1
      <3>5. ASSUME NEW j \in i+1..Len(h), h[j].answers = id
            PROVE  \E k \in i+1..Len(g) : g[k].answers = id
        <4>1. j \in i+1..Len(g) /\ j \in 1..Len(h)
          BY <1>1, <2>1
        <4> QED
          BY <1>1, <3>5, <4>1
      <3> QED
        BY <3>2, <3>3, <3>4, <3>5
    <2>2. CASE i = Len(h) + 1
      BY <1>1, <1>9, <2>2
    <2> QED
      BY <1>5, <2>1, <2>2
  <1>10. AnswersInv(g, due2, next2)
    BY <1>6, <1>7, <1>8, <1>9 DEF AnswersInv
  <1> QED
    BY <1>10 DEF g

---------------------------------------------------------------------------
(***************************************************************************)
(* Compaction.                                                             *)
(***************************************************************************)

LEMMA LastUserIndexIs ==
    ASSUME NEW h \in Seq(MessageRecord)
    PROVE  /\ LastUserIndex(h) = -1 \/ LastUserIndex(h) \in 1..Len(h)-1
           /\ \A i \in 1..Len(h)-1 : h[i + 1].role = "user" => i <= LastUserIndex(h)
  <1> DEFINE S == {i \in 1..Len(h)-1 : h[i + 1].role = "user"} \cup {-1}
  <1>1. Len(h) \in Nat
    BY LenProperties
  <1>2. S \in SUBSET Int /\ S # {}
    BY <1>1
  <1>3. IsFiniteSet(S)
    <2>1. IsFiniteSet(-1..Len(h))
      BY <1>1, FS_Interval
    <2>2. S \subseteq -1..Len(h)
      BY <1>1
    <2> QED
      BY <2>1, <2>2, FS_Subset
  <1>4. Max(S) \in S /\ \A m \in S : m <= Max(S)
    <2> HIDE DEF S
    <2> QED
      BY <1>2, <1>3, MaxIsIn
  <1>5. Max(S) = -1 \/ Max(S) \in 1..Len(h)-1
    BY <1>4
  <1>6. \A i \in 1..Len(h)-1 : h[i + 1].role = "user" => i <= Max(S)
    BY <1>4
  <1> QED
    BY <1>5, <1>6 DEF LastUserIndex

\* What is kept starts after the system prompt, and no later than the last
\* message of the user.
LEMMA KeepStartIs ==
    ASSUME NEW h \in Seq(MessageRecord)
    PROVE  /\ selectCompactionKeepStartIndex(h) \in Nat \ {0}
           /\ LastUserIndex(h) # -1 => selectCompactionKeepStartIndex(h) <= LastUserIndex(h)
  <1> DEFINE window == Max({1, Len(h) - KeepWindow})
             last == LastUserIndex(h)
  <1>1. Len(h) \in Nat /\ KeepWindow \in Nat
    BY LenProperties, ConversationAssumption
  <1>2. window \in Nat \ {0}
    BY <1>1, ExtremesOfTwo
  <1>3. last = -1 \/ last \in 1..Len(h)-1
    BY LastUserIndexIs
  <1>4. selectCompactionKeepStartIndex(h) = IF last = -1 THEN window ELSE Min({window, last})
    BY DEF selectCompactionKeepStartIndex
  <1> HIDE DEF window, last
  <1>5. ASSUME last # -1
        PROVE  Min({window, last}) \in Nat \ {0} /\ Min({window, last}) <= last
    <2>1. window \in Int /\ last \in Int /\ last >= 1
      BY <1>1, <1>2, <1>3, <1>5
    <2>2. Min({window, last}) = IF window <= last THEN window ELSE last
      BY <2>1, ExtremesOfTwo
    <2> QED
      BY <1>2, <2>1, <2>2
  <1> QED
    BY <1>2, <1>3, <1>4, <1>5 DEF last

\* g is h after a compaction that keeps what comes after place keep: the system
\* prompt, the summary, and what is kept in its order.
IsCompaction(g, h, keep, n) ==
    /\ g \in Seq(MessageRecord)
    /\ Len(g) >= 2 /\ g[1] = h[1] /\ g[2] = SystemMessage(n)
    /\ \A i \in 3..Len(g) : (i - 2) + keep \in keep+1..Len(h) /\ g[i] = h[(i - 2) + keep]
    /\ \A j \in keep+1..Len(h) : (j - keep) + 2 \in 3..Len(g) /\ g[(j - keep) + 2] = h[j]

LEMMA CompactedIs ==
    ASSUME NEW h \in Seq(MessageRecord), Len(h) > 0, NEW n \in Nat
    PROVE  IsCompaction(buildCompactedMessageHistory(h, n), h,
                        selectCompactionKeepStartIndex(h), n)
  <1> DEFINE keep == selectCompactionKeepStartIndex(h)
             g == buildCompactedMessageHistory(h, n)
             first == <<h[1], SystemMessage(n)>>
             rest == SubSeq(h, keep + 1, Len(h))
  <1>1. Len(h) \in Nat /\ keep \in Nat \ {0} /\ \A i \in 1..Len(h) : h[i] \in MessageRecord
    BY LenProperties, KeepStartIs, ElementOfSeq
  <1>2. first \in Seq(MessageRecord) /\ Len(first) = 2 /\ first[1] = h[1] /\ first[2] = SystemMessage(n)
    BY <1>1, SystemMessagesAreTyped
  <1>3. /\ rest \in Seq(MessageRecord)
        /\ Len(rest) = IF keep + 1 <= Len(h) THEN Len(h) - (keep + 1) + 1 ELSE 0
        /\ \A i \in 1..Len(h) - (keep + 1) + 1 : rest[i] = h[(keep + 1) + i - 1]
    BY <1>1, SubSeqProperties
  <1>4. g = first \o rest
    BY DEF buildCompactedMessageHistory
  <1> HIDE DEF keep, g, first, rest
  <1>5. /\ g \in Seq(MessageRecord)
        /\ Len(g) = 2 + Len(rest)
        /\ \A i \in 1..2 + Len(rest) : g[i] = IF i <= 2 THEN first[i] ELSE rest[i - 2]
    <2>1. /\ first \o rest \in Seq(MessageRecord)
          /\ Len(first \o rest) = Len(first) + Len(rest)
          /\ \A i \in 1..Len(first) + Len(rest) :
                (first \o rest)[i] = IF i <= Len(first) THEN first[i] ELSE rest[i - Len(first)]
      BY <1>2, <1>3, ConcatProperties
    <2> QED
      BY <1>2, <1>4, <2>1
  <1>6. Len(rest) = (IF keep + 1 <= Len(h) THEN Len(h) - keep ELSE 0) /\ Len(rest) \in Nat
    BY <1>1, <1>3
  <1>7. Len(g) >= 2 /\ g[1] = h[1] /\ g[2] = SystemMessage(n)
    BY <1>2, <1>5, <1>6
  <1>8. ASSUME NEW i \in 3..Len(g)
        PROVE  (i - 2) + keep \in keep+1..Len(h) /\ g[i] = h[(i - 2) + keep]
    <2>1. i - 2 \in 1..Len(rest) /\ i - 2 \in 1..Len(h) - (keep + 1) + 1
      BY <1>1, <1>5, <1>6
    <2>2. g[i] = rest[i - 2]
      <3>1. i \in 1..2 + Len(rest) /\ ~(i <= 2)
        BY <1>5, <1>6
      <3> QED
        BY <1>5, <3>1
    <2>3. rest[i - 2] = h[(keep + 1) + (i - 2) - 1]
      BY <1>3, <2>1
    <2>4. (keep + 1) + (i - 2) - 1 = (i - 2) + keep
      BY <1>1
    <2>5. (i - 2) + keep \in keep+1..Len(h)
      BY <1>1, <2>1
    <2> QED
      BY <2>2, <2>3, <2>4, <2>5
  <1>9. ASSUME NEW j \in keep+1..Len(h)
        PROVE  (j - keep) + 2 \in 3..Len(g) /\ g[(j - keep) + 2] = h[j]
    <2> DEFINE i == (j - keep) + 2
    <2>1. i \in 3..Len(g) /\ (i - 2) + keep = j
      BY <1>1, <1>5, <1>6
    <2> HIDE DEF i
    <2>2. g[i] = h[j]
      BY <1>8, <2>1
    <2> QED
      BY <2>1, <2>2 DEF i
  <1>10. IsCompaction(g, h, keep, n)
    BY <1>5, <1>7, <1>8, <1>9 DEF IsCompaction
  <1> QED
    BY <1>10 DEF g, keep

\* A compaction takes no result away from a call that it keeps.
LEMMA AnswersSurviveCompaction ==
    ASSUME NEW h \in Seq(MessageRecord), Len(h) > 0, NEW n \in Nat,
           h[1].made = {}, h[1].answers = 0,
           NEW due, due = {}, NEW next \in Nat \ {0}, AnswersInv(h, due, next)
    PROVE  AnswersInv(buildCompactedMessageHistory(h, n), due, next)
  <1> DEFINE keep == selectCompactionKeepStartIndex(h)
             g == buildCompactedMessageHistory(h, n)
             at(i) == (i - 2) + keep
  <1>1. /\ Len(g) >= 2 /\ g[1] = h[1] /\ g[2] = SystemMessage(n)
        /\ \A i \in 3..Len(g) : at(i) \in keep+1..Len(h) /\ g[i] = h[at(i)]
        /\ \A j \in keep+1..Len(h) : (j - keep) + 2 \in 3..Len(g) /\ g[(j - keep) + 2] = h[j]
        /\ Len(g) \in Nat
    <2>1. IsCompaction(g, h, keep, n)
      BY CompactedIs
    <2> HIDE DEF keep, g
    <2> QED
      BY <2>1, LenProperties DEF IsCompaction
  <1>2. keep \in Nat \ {0} /\ Len(h) \in Nat
    BY KeepStartIs, LenProperties
  <1> HIDE DEF keep, g
  <1>3. ASSUME NEW i \in 1..Len(g)
        PROVE  \/ g[i].made = {} /\ g[i].answers = 0
               \/ i \in 3..Len(g)
    <2>1. i = 1 \/ i = 2 \/ i \in 3..Len(g)
      BY <1>1
    <2> QED
      BY <1>1, <2>1, SystemMessagesAreTyped
  <1>4. \A i \in 3..Len(g) : at(i) \in 1..Len(h)
    BY <1>1, <1>2
  <1>5. ASSUME NEW i \in 1..Len(g), NEW id \in g[i].made
        PROVE  id \in 1..next - 1
    BY <1>1, <1>3, <1>4 DEF AnswersInv
  <1>6. ASSUME NEW i \in 1..Len(g)
        PROVE  g[i].answers < next /\ g[i].answers \notin due
    BY <1>1, <1>3, <1>4 DEF AnswersInv
  <1>7. ASSUME NEW i \in 1..Len(g), NEW j \in 1..Len(g), g[i].answers = g[j].answers,
               g[i].answers # 0
        PROVE  i = j
    <2>1. i \in 3..Len(g) /\ j \in 3..Len(g)
      BY <1>3, <1>7
    <2>2. h[at(i)].answers = h[at(j)].answers /\ h[at(i)].answers # 0
      BY <1>1, <1>7, <2>1
    <2>3. at(i) = at(j)
      BY <1>4, <2>1, <2>2 DEF AnswersInv
    <2> QED
      BY <1>2, <2>1, <2>3
  <1>8. ASSUME NEW i \in 1..Len(g), NEW id \in g[i].made
        PROVE  id \in due \/ \E j \in i+1..Len(g) : g[j].answers = id
    <2>1. i \in 3..Len(g)
      BY <1>3, <1>8
    <2>2. id \in h[at(i)].made /\ at(i) \in 1..Len(h) /\ at(i) \in keep+1..Len(h)
      BY <1>1, <1>4, <1>8, <2>1
    <2>3. PICK j \in at(i)+1..Len(h) : h[j].answers = id
      BY <2>2 DEF AnswersInv
    <2>4. j \in keep+1..Len(h)
      BY <1>2, <2>1, <2>2
    <2>5. (j - keep) + 2 \in i+1..Len(g)
      BY <1>1, <1>2, <2>1, <2>2, <2>4
    <2> QED
      BY <1>1, <2>3, <2>4, <2>5
  <1>9. AnswersInv(g, due, next)
    BY <1>5, <1>6, <1>7, <1>8 DEF AnswersInv
  <1> QED
    BY <1>9 DEF g

---------------------------------------------------------------------------
(***************************************************************************)
(* The steps.                                                              *)
(***************************************************************************)

\* A history that begins with the prompt still does when it grows, and the
\* estimate grows with it.
LEMMA Appended ==
    ASSUME ConversationTypeOK, BeginsWithPrompt, EstimateIsExact,
           NEW added \in Seq(MessageRecord), AppendMessages(added)
    PROVE  /\ messages' \in Seq(MessageRecord)
           /\ tokenEstimate' \in Nat
           /\ BeginsWithPrompt'
           /\ EstimateIsExact'
  <1>1. messages \in Seq(MessageRecord) /\ tokenEstimate \in Nat
    BY DEF ConversationTypeOK
  <1>2. messages' = messages \o added /\ tokenEstimate' = tokenEstimate + TokensOf(added)
    BY DEF AppendMessages
  <1>3. /\ messages' \in Seq(MessageRecord)
        /\ Len(messages') = Len(messages) + Len(added)
        /\ \A i \in 1..Len(messages) + Len(added) :
              messages'[i] = IF i <= Len(messages) THEN messages[i] ELSE added[i - Len(messages)]
    BY <1>1, <1>2, ConcatProperties
  <1>4. TokensOf(messages') = TokensOf(messages) + TokensOf(added)
    BY <1>1, <1>2, TokensOfConcat
  <1>5. tokenEstimate' \in Nat
    <2>1. TokensOf(added) \in Nat
      BY TokensAreNat
    <2> QED
      BY <1>1, <1>2, <2>1
  <1>6. tokenEstimate' = TokensOf(messages')
    BY <1>2, <1>4 DEF EstimateIsExact
  <1>7. Len(messages) \in Nat /\ Len(added) \in Nat
    BY <1>1, LenProperties
  <1>8. Len(messages') > 0 /\ messages'[1] = messages[1]
    BY <1>3, <1>7 DEF BeginsWithPrompt
  <1>9. BeginsWithPrompt'
    BY <1>8 DEF BeginsWithPrompt
  <1> QED
    BY <1>3, <1>5, <1>6, <1>9 DEF EstimateIsExact

LEMMA OneAppended ==
    ASSUME ConversationTypeOK, BeginsWithPrompt, EstimateIsExact,
           NEW m \in MessageRecord, AppendMessages(<<m>>)
    PROVE  /\ messages' = Append(messages, m)
           /\ messages' \in Seq(MessageRecord)
           /\ tokenEstimate' \in Nat
           /\ BeginsWithPrompt'
           /\ EstimateIsExact'
  <1>1. messages \in Seq(MessageRecord) /\ <<m>> \in Seq(MessageRecord)
    BY DEF ConversationTypeOK
  <1>2. messages' = Append(messages, m)
    BY <1>1, AppendIsConcat DEF AppendMessages
  <1> QED
    BY <1>1, <1>2, Appended

\* A message that neither makes calls nor answers one.
LEMMA PlainAppended ==
    ASSUME ConversationTypeOK, BeginsWithPrompt, EstimateIsExact,
           AnswersInv(messages, Outstanding, nextCall),
           NEW m \in MessageRecord, m.made = {}, m.answers = 0,
           AppendMessages(<<m>>), calls' = calls, nextCall' = nextCall
    PROVE  /\ messages' \in Seq(MessageRecord)
           /\ tokenEstimate' \in Nat
           /\ BeginsWithPrompt'
           /\ EstimateIsExact'
           /\ AnswersInv(messages', Outstanding', nextCall')
  <1>1. /\ messages' = Append(messages, m)
        /\ messages' \in Seq(MessageRecord)
        /\ tokenEstimate' \in Nat
        /\ BeginsWithPrompt'
        /\ EstimateIsExact'
    BY OneAppended
  <1>2. Outstanding \subseteq 1..nextCall - 1
    <2>1. \A i \in 1..Len(calls) : calls[i] \in 1..nextCall - 1
      BY ElementOfSeq DEF ConversationTypeOK
    <2> QED
      BY <2>1 DEF Outstanding
  <1>3. Outstanding' = Outstanding
    BY DEF Outstanding
  <1>4. messages \in Seq(MessageRecord) /\ nextCall \in Nat \ {0}
    BY DEF ConversationTypeOK
  <1>5. AnswersInv(Append(messages, m), Outstanding, nextCall)
    <2>1. /\ nextCall <= nextCall
          /\ m.made \subseteq (nextCall..nextCall - 1) \cap Outstanding
          /\ Outstanding \subseteq Outstanding \cup (nextCall..nextCall - 1)
          /\ Outstanding \ {m.answers} \subseteq Outstanding
      BY <1>4
    <2> QED
      BY <1>2, <1>4, <2>1, OneMessageMore
  <1> QED
    BY <1>1, <1>3, <1>5

\* While no turn is at its tools there are no calls.
LEMMA NoneOutstanding ==
    ASSUME CallsInv, step \notin {"tools", "over"}
    PROVE  calls = <<>> /\ Outstanding = {}
  <1>1. calls = <<>> /\ Len(calls) = 0
    BY DEF CallsInv
  <1> QED
    BY <1>1 DEF Outstanding

LEMMA UserMessageKeeps == ASSUME ConversationInv, UserMessage PROVE ConversationInv'
  <1> DEFINE m == Message("user", {}, 0, FALSE, 1)
  <1>1. m \in MessageRecord /\ m.made = {} /\ m.answers = 0
    BY DEF Message, MessageRecord
  <1>2. AppendMessages(<<m>>) /\ calls' = calls /\ nextCall' = nextCall
    BY DEF UserMessage
  <1> HIDE DEF m
  <1>3. /\ messages' \in Seq(MessageRecord)
        /\ tokenEstimate' \in Nat
        /\ BeginsWithPrompt'
        /\ EstimateIsExact'
        /\ AnswersInv(messages', Outstanding', nextCall')
    BY <1>1, <1>2, PlainAppended DEF ConversationInv
  <1>4. ConversationTypeOK'
    BY <1>3, ConversationAssumption DEF ConversationInv, ConversationTypeOK, UserMessage, Statuses
  <1>5. LimitInv' /\ CeilingRespected'
    BY DEF ConversationInv, LimitInv, CeilingRespected, UserMessage
  <1>6. CallsInv'
    BY NoneOutstanding DEF ConversationInv, CallsInv, UserMessage
  <1> QED
    BY <1>3, <1>4, <1>5, <1>6 DEF ConversationInv

\* What does not change the history, or the calls.
LEMMA HistoryUnchanged ==
    ASSUME ConversationInv, UNCHANGED <<messages, tokenEstimate, calls, nextCall>>
    PROVE  /\ BeginsWithPrompt'
           /\ EstimateIsExact'
           /\ AnswersInv(messages', Outstanding', nextCall')
  <1>1. Outstanding' = Outstanding
    BY DEF Outstanding
  <1>2. AnswersInv(messages', Outstanding', nextCall')
    BY <1>1 DEF ConversationInv
  <1>3. BeginsWithPrompt' /\ EstimateIsExact'
    BY DEF ConversationInv, BeginsWithPrompt, EstimateIsExact
  <1> QED
    BY <1>2, <1>3

LEMMA BeginTurnKeeps == ASSUME ConversationInv, BeginTurn PROVE ConversationInv'
  <1> USE DEF ConversationInv
  <1>1. /\ BeginsWithPrompt'
        /\ EstimateIsExact'
        /\ AnswersInv(messages', Outstanding', nextCall')
    BY HistoryUnchanged DEF BeginTurn
  <1>2. ConversationTypeOK'
    BY DEF ConversationTypeOK, BeginTurn, AfterCompaction, Returns, Statuses
  <1>3. LimitInv' /\ CallsInv'
    BY NoneOutstanding DEF LimitInv, CallsInv, BeginTurn, AfterCompaction, Returns
  <1>4. CeilingRespected'
    <2> SUFFICES ASSUME step' = "llm", exceedsHardCeiling(tokenEstimate + ToolTokens),
                        Compactable(messages)
                 PROVE  FALSE
      BY DEF CeilingRespected, BeginTurn
    <2>1. tokenEstimate \in Nat /\ ToolTokens \in Nat /\ ContextLimit \in Nat \ {0}
      BY ConversationAssumption DEF ConversationTypeOK
    <2>2. ~shouldCompact(tokenEstimate + ToolTokens)
      BY DEF BeginTurn, AfterCompaction, Returns
    <2> QED
      BY <2>1, <2>2 DEF shouldCompact, exceedsHardCeiling
  <1> QED
    BY <1>1, <1>2, <1>3, <1>4

LEMMA SummarizeKeeps ==
    ASSUME ConversationInv, NEW tokens \in SummarySizes, Summarize(tokens)
    PROVE  ConversationInv'
  <1> USE DEF ConversationInv
  <1>1. tokens \in Nat /\ messages \in Seq(MessageRecord) /\ Len(messages) > 0
    BY ConversationAssumption DEF ConversationTypeOK, BeginsWithPrompt
  <1>2. messages' = buildCompactedMessageHistory(messages, tokens) /\ tokenEstimate' = TokensOf(messages')
    BY DEF Summarize
  <1>3. /\ messages' \in Seq(MessageRecord)
        /\ Len(messages') >= 2 /\ messages'[1] = messages[1]
    BY <1>1, <1>2, CompactedIs DEF IsCompaction
  <1>4. tokenEstimate' \in Nat /\ EstimateIsExact'
    BY <1>2, <1>3, TokensAreNat DEF EstimateIsExact
  <1>5. BeginsWithPrompt'
    <2>1. Len(messages') \in Nat
      BY <1>3, LenProperties
    <2> QED
      BY <1>3, <2>1 DEF BeginsWithPrompt
  <1>6. AnswersInv(messages', Outstanding', nextCall')
    <2>1. Outstanding = {} /\ Outstanding' = Outstanding
      BY NoneOutstanding DEF Summarize, Outstanding
    <2>2. nextCall' = nextCall /\ nextCall \in Nat \ {0}
      BY DEF Summarize, ConversationTypeOK
    <2> QED
      BY <1>1, <1>2, <2>1, <2>2, AnswersSurviveCompaction DEF BeginsWithPrompt
  <1>7. ConversationTypeOK'
    BY <1>3, <1>4 DEF ConversationTypeOK, Summarize, AfterCompaction, Returns, Statuses
  <1>8. LimitInv' /\ CallsInv'
    BY NoneOutstanding DEF LimitInv, CallsInv, Summarize, AfterCompaction, Returns
  <1>9. CeilingRespected'
    BY DEF CeilingRespected, Summarize, AfterCompaction, Returns
  <1> QED
    BY <1>4, <1>5, <1>6, <1>7, <1>8, <1>9

LEMMA EndsKeep ==
    ASSUME ConversationInv, ModelFails \/ AnswersWithNothing
    PROVE  ConversationInv'
  <1> USE DEF ConversationInv
  <1>1. /\ BeginsWithPrompt'
        /\ EstimateIsExact'
        /\ AnswersInv(messages', Outstanding', nextCall')
    BY HistoryUnchanged DEF ModelFails, AnswersWithNothing
  <1>2. ConversationTypeOK'
    BY DEF ConversationTypeOK, ModelFails, AnswersWithNothing, Throws, Returns, Statuses
  <1>3. LimitInv' /\ CallsInv' /\ CeilingRespected'
    BY NoneOutstanding DEF LimitInv, CallsInv, CeilingRespected, ModelFails, AnswersWithNothing,
                           Throws, Returns
  <1> QED
    BY <1>1, <1>2, <1>3

LEMMA AnswersWithTextKeeps == ASSUME ConversationInv, AnswersWithText PROVE ConversationInv'
  <1> DEFINE m == Message("assistant", {}, 0, FALSE, 1)
  <1>1. m \in MessageRecord /\ m.made = {} /\ m.answers = 0
    BY DEF Message, MessageRecord
  <1>2. AppendMessages(<<m>>) /\ calls' = calls /\ nextCall' = nextCall
    BY DEF AnswersWithText
  <1> HIDE DEF m
  <1>3. /\ messages' \in Seq(MessageRecord)
        /\ tokenEstimate' \in Nat
        /\ BeginsWithPrompt'
        /\ EstimateIsExact'
        /\ AnswersInv(messages', Outstanding', nextCall')
    BY <1>1, <1>2, PlainAppended DEF ConversationInv
  <1>4. ConversationTypeOK'
    BY <1>3 DEF ConversationInv, ConversationTypeOK, AnswersWithText, Returns, Statuses
  <1>5. LimitInv' /\ CeilingRespected'
    BY DEF ConversationInv, LimitInv, CeilingRespected, AnswersWithText, Returns
  <1>6. CallsInv'
    BY NoneOutstanding DEF ConversationInv, CallsInv, AnswersWithText, Returns
  <1> QED
    BY <1>3, <1>4, <1>5, <1>6 DEF ConversationInv

LEMMA AnswersWithCallsKeeps ==
    ASSUME ConversationInv, NEW n \in 1..MaxCalls, AnswersWithCalls(n)
    PROVE  ConversationInv'
  <1> DEFINE ids == nextCall..nextCall + n - 1
             m == Message("assistant", ids, 0, FALSE, 1)
  <1>0. n \in Nat \ {0} /\ nextCall \in Nat \ {0} /\ messages \in Seq(MessageRecord)
    BY ConversationAssumption DEF ConversationInv, ConversationTypeOK
  <1>1. ids \in SUBSET Nat /\ m \in MessageRecord /\ m.made = ids /\ m.answers = 0
    BY <1>0 DEF Message, MessageRecord
  <1>2. /\ AppendMessages(<<m>>) /\ nextCall' = nextCall + n
        /\ calls' = [i \in 1..n |-> nextCall + i - 1]
    BY DEF AnswersWithCalls
  <1> HIDE DEF m
  <1>3. /\ messages' = Append(messages, m)
        /\ messages' \in Seq(MessageRecord)
        /\ tokenEstimate' \in Nat
        /\ BeginsWithPrompt'
        /\ EstimateIsExact'
    BY <1>1, <1>2, OneAppended DEF ConversationInv
  <1>4. calls' \in Seq(1..nextCall' - 1) /\ Len(calls') = n /\ calls' # <<>>
    <2>1. \A i \in 1..n : nextCall + i - 1 \in 1..nextCall' - 1
      BY <1>0, <1>2
    <2>2. calls' \in Seq(1..nextCall' - 1) /\ Len(calls') = n
      BY <1>0, <1>2, <2>1
    <2> QED
      BY <1>0, <2>2
  <1>5. Outstanding' = ids
    <2>1. Outstanding' = {calls'[i] : i \in 1..n}
      BY <1>4 DEF Outstanding
    <2>2. \A i \in 1..n : calls'[i] = nextCall + i - 1
      BY <1>2
    <2>3. \A i \in 1..n : calls'[i] \in ids
      BY <1>0, <2>2
    <2>4. ASSUME NEW id \in ids PROVE id \in Outstanding'
      <3>1. (id - nextCall) + 1 \in 1..n /\ nextCall + ((id - nextCall) + 1) - 1 = id
        BY <1>0
      <3> QED
        BY <2>1, <2>2, <3>1
    <2> QED
      BY <2>1, <2>3, <2>4
  <1>6. AnswersInv(messages', Outstanding', nextCall')
    <2>1. Outstanding = {} /\ AnswersInv(messages, {}, nextCall)
      BY NoneOutstanding DEF AnswersWithCalls, ConversationInv
    <2>2. /\ nextCall <= nextCall' /\ nextCall' \in Nat
          /\ ids = nextCall..nextCall' - 1
      BY <1>0, <1>2
    <2> HIDE DEF ids
    <2>3. AnswersInv(Append(messages, m), ids, nextCall')
      BY <1>0, <1>1, <2>1, <2>2, OneMessageMore
    <2> QED
      BY <1>3, <1>5, <2>3
  <1>7. ConversationTypeOK'
    <2>1. nextCall' \in Nat \ {0}
      BY <1>0, <1>2
    <2> HIDE DEF ids
    <2> QED
      BY <1>3, <1>4, <2>1 DEF ConversationInv, ConversationTypeOK, AnswersWithCalls, Statuses
  <1>8. LimitInv' /\ CeilingRespected'
    BY DEF ConversationInv, LimitInv, CeilingRespected, AnswersWithCalls
  <1>9. CallsInv'
    <2>1. step' = "tools"
      BY DEF AnswersWithCalls
    <2>2. \A i, j \in 1..n : calls'[i] = calls'[j] => i = j
      BY <1>0, <1>2
    <2> QED
      BY <1>4, <2>1, <2>2 DEF CallsInv
  <1> QED
    BY <1>3, <1>6, <1>7, <1>8, <1>9 DEF ConversationInv

\* What a call that is dispatched leaves of those that were due.
LEMMA TailOfCalls ==
    ASSUME ConversationInv, step = "tools", calls' = Tail(calls)
    PROVE  /\ Head(calls) \in 1..nextCall - 1
           /\ Head(calls) \in Outstanding \ Outstanding'
           /\ Outstanding' \subseteq Outstanding
           /\ Outstanding \ {Head(calls)} \subseteq Outstanding'
           /\ Outstanding \subseteq 1..nextCall - 1
           /\ calls' \in Seq(1..nextCall - 1)
           /\ \A i, j \in 1..Len(calls') : calls'[i] = calls'[j] => i = j
  <1>1. calls \in Seq(1..nextCall - 1) /\ calls # <<>>
    BY DEF ConversationInv, ConversationTypeOK, CallsInv
  <1>2. /\ Len(calls) \in Nat \ {0}
        /\ calls' \in Seq(1..nextCall - 1)
        /\ Len(calls') = Len(calls) - 1
        /\ \A i \in 1..Len(calls') : calls'[i] = calls[i + 1]
        /\ Head(calls) = calls[1]
    BY <1>1, HeadTailProperties, EmptySeq
  <1>3. \A i, j \in 1..Len(calls) : calls[i] = calls[j] => i = j
    BY DEF ConversationInv, CallsInv
  <1>4. \A i \in 1..Len(calls) : calls[i] \in 1..nextCall - 1
    BY <1>1, ElementOfSeq
  <1>5. /\ Outstanding = {calls[i] : i \in 1..Len(calls)}
        /\ Outstanding' = {calls'[i] : i \in 1..Len(calls')}
    BY DEF Outstanding
  <1>6. 1 \in 1..Len(calls) /\ \A i \in 1..Len(calls') : i + 1 \in 1..Len(calls) /\ i + 1 # 1
    BY <1>2
  <1>7. \A i \in 1..Len(calls) : i = 1 \/ (i - 1 \in 1..Len(calls') /\ (i - 1) + 1 = i)
    BY <1>2
  <1>8. Outstanding' \subseteq Outstanding
    BY <1>2, <1>5, <1>6
  <1>9. Head(calls) \in Outstanding /\ Head(calls) \in 1..nextCall - 1
    BY <1>2, <1>4, <1>5, <1>6
  <1>10. Head(calls) \notin Outstanding'
    BY <1>2, <1>3, <1>5, <1>6
  <1>11. ASSUME NEW id \in Outstanding, id # Head(calls) PROVE id \in Outstanding'
    <2>1. PICK i \in 1..Len(calls) : calls[i] = id
      BY <1>5
    <2>2. i - 1 \in 1..Len(calls') /\ (i - 1) + 1 = i
      BY <1>2, <1>7, <1>11, <2>1
    <2>3. calls'[i - 1] = id
      BY <1>2, <2>1, <2>2
    <2> QED
      BY <1>5, <2>2, <2>3
  <1>12. Outstanding \subseteq 1..nextCall - 1
    BY <1>4, <1>5
  <1>13. ASSUME NEW i \in 1..Len(calls'), NEW j \in 1..Len(calls'), calls'[i] = calls'[j]
         PROVE  i = j
    <2>1. calls[i + 1] = calls[j + 1] /\ i + 1 \in 1..Len(calls) /\ j + 1 \in 1..Len(calls)
      BY <1>2, <1>6, <1>13
    <2>2. i + 1 = j + 1
      BY <1>3, <2>1
    <2> QED
      BY <1>2, <2>2
  <1> QED
    BY <1>2, <1>8, <1>9, <1>10, <1>11, <1>12, <1>13

LEMMA ToolCallKeeps ==
    ASSUME ConversationInv, NEW quiet \in BOOLEAN, NEW registersSpec \in BOOLEAN,
           NEW tokens \in ResultSizes, ToolCall(quiet, tokens, registersSpec)
    PROVE  ConversationInv'
  <1>0. /\ step = "tools" /\ iterationCount' = iterationCount + 1 /\ nextCall' = nextCall
        /\ iterationCount \in Nat /\ iterationCount < MaxIterations /\ MaxIterations \in Nat
        /\ nextCall \in Nat \ {0} /\ tokens \in Nat /\ messages \in Seq(MessageRecord)
    BY ConversationAssumption DEF ConversationInv, ConversationTypeOK, LimitInv, ToolCall
  <1>1. CASE iterationCount' >= MaxIterations
    <2>1. /\ BeginsWithPrompt'
          /\ EstimateIsExact'
          /\ AnswersInv(messages', Outstanding', nextCall')
      BY <1>1, HistoryUnchanged DEF ToolCall
    <2>2. iterationCount' \in 0..MaxIterations
      BY <1>0
    <2>3. ConversationTypeOK'
      BY <1>1, <2>2 DEF ConversationInv, ConversationTypeOK, ToolCall, Returns, Statuses
    <2>4. LimitInv' /\ CallsInv' /\ CeilingRespected'
      BY <1>1 DEF ConversationInv, LimitInv, CallsInv, CeilingRespected, ToolCall, Returns
    <2> QED
      BY <2>1, <2>3, <2>4 DEF ConversationInv
  <1>2. CASE ~(iterationCount' >= MaxIterations)
    <2> DEFINE r == Message("tool_result", {}, Head(calls), quiet, tokens)
               note == calls' = <<>> /\ (noteDue \/ registersSpec)
               added == <<r>> \o (IF note THEN <<SystemMessage(1)>> ELSE <<>>)
    <2>1. /\ calls' = Tail(calls)
          /\ AppendMessages(added)
          /\ step' = IF calls' = <<>> THEN "turn" ELSE "tools"
          /\ noteDue' \in BOOLEAN
      BY <1>2 DEF ToolCall
    <2>2. /\ Head(calls) \in 1..nextCall - 1
          /\ Head(calls) \in Outstanding \ Outstanding'
          /\ Outstanding' \subseteq Outstanding
          /\ Outstanding \ {Head(calls)} \subseteq Outstanding'
          /\ Outstanding \subseteq 1..nextCall - 1
          /\ calls' \in Seq(1..nextCall - 1)
          /\ \A i, j \in 1..Len(calls') : calls'[i] = calls'[j] => i = j
      BY <1>0, <2>1, TailOfCalls
    <2>3. r \in MessageRecord /\ r.made = {} /\ r.answers = Head(calls)
      BY <1>0, <2>2 DEF Message, MessageRecord
    <2>4. /\ SystemMessage(1) \in MessageRecord
          /\ SystemMessage(1).made = {} /\ SystemMessage(1).answers = 0
      BY SystemMessagesAreTyped
    <2> HIDE DEF r, note
    <2>5. /\ Append(messages, r) \in Seq(MessageRecord)
          /\ AnswersInv(Append(messages, r), Outstanding', nextCall)
      <3>1. /\ nextCall <= nextCall
            /\ r.made \subseteq (nextCall..nextCall - 1) \cap Outstanding'
            /\ Outstanding' \subseteq Outstanding \cup (nextCall..nextCall - 1)
            /\ Outstanding \ {r.answers} \subseteq Outstanding'
            /\ r.answers = 0 \/ r.answers \in Outstanding \ Outstanding'
        BY <1>0, <2>2, <2>3
      <3>2. AnswersInv(messages, Outstanding, nextCall)
        BY DEF ConversationInv
      <3>3. AnswersInv(Append(messages, r), Outstanding', nextCall)
        BY <1>0, <2>2, <2>3, <3>1, <3>2, OneMessageMore
      <3> QED
        BY <1>0, <2>3, <3>3, AppendProperties
    <2>6. /\ added \in Seq(MessageRecord)
          /\ AnswersInv(messages \o added, Outstanding', nextCall)
      <3>1. CASE note
        <4>1. added = <<r>> \o <<SystemMessage(1)>>
          BY <3>1
        <4>2. /\ <<r>> \in Seq(MessageRecord) /\ <<SystemMessage(1)>> \in Seq(MessageRecord)
              /\ added \in Seq(MessageRecord)
          BY <2>3, <2>4, <4>1
        <4>3. messages \o added = Append(Append(messages, r), SystemMessage(1))
          <5>1. messages \o added = (messages \o <<r>>) \o <<SystemMessage(1)>>
            BY <1>0, <4>1, <4>2, ConcatAssociative
          <5>2. messages \o <<r>> = Append(messages, r)
            BY <1>0, <2>3, AppendIsConcat
          <5> QED
            BY <2>4, <2>5, <5>1, <5>2, AppendIsConcat
        <4>4. /\ nextCall <= nextCall /\ Outstanding' \subseteq 1..nextCall - 1
              /\ SystemMessage(1).made \subseteq (nextCall..nextCall - 1) \cap Outstanding'
              /\ Outstanding' \subseteq Outstanding' \cup (nextCall..nextCall - 1)
              /\ Outstanding' \ {SystemMessage(1).answers} \subseteq Outstanding'
          BY <1>0, <2>2, <2>4
        <4>5. AnswersInv(Append(Append(messages, r), SystemMessage(1)), Outstanding', nextCall)
          BY <1>0, <2>4, <2>5, <4>4, OneMessageMore
        <4> QED
          BY <4>2, <4>3, <4>5
      <3>2. CASE ~note
        <4>1. added = <<r>> \o <<>> /\ <<r>> \in Seq(MessageRecord)
          BY <2>3, <3>2
        <4>2. added = <<r>>
          BY <4>1, ConcatEmptySeq
        <4>3. messages \o added = Append(messages, r)
          BY <1>0, <2>3, <4>2, AppendIsConcat
        <4> QED
          BY <2>5, <4>1, <4>2, <4>3
      <3> QED
        BY <3>1, <3>2
    <2> HIDE DEF added
    <2>7. /\ messages' \in Seq(MessageRecord)
          /\ tokenEstimate' \in Nat
          /\ BeginsWithPrompt'
          /\ EstimateIsExact'
      BY <2>1, <2>6, Appended DEF ConversationInv
    <2>8. AnswersInv(messages', Outstanding', nextCall')
      BY <1>0, <2>1, <2>6 DEF AppendMessages
    <2>9. iterationCount' \in 0..MaxIterations /\ iterationCount' < MaxIterations
      BY <1>0, <1>2
    <2>10. /\ status' = status /\ result' = result /\ ended' = ended
           /\ triggerSource' = triggerSource /\ userMessages' = userMessages
      BY <1>2 DEF ToolCall
    <2>11. ConversationTypeOK'
      BY <1>0, <2>1, <2>2, <2>7, <2>9, <2>10 DEF ConversationInv, ConversationTypeOK, Statuses
    <2>12. LimitInv' /\ CallsInv' /\ CeilingRespected'
      BY <2>1, <2>2, <2>9 DEF LimitInv, CallsInv, CeilingRespected
    <2> QED
      BY <2>7, <2>8, <2>11, <2>12 DEF ConversationInv
  <1> QED
    BY <1>1, <1>2

---------------------------------------------------------------------------
(***************************************************************************)
(* The invariant.                                                          *)
(***************************************************************************)

LEMMA InitConversationInv == ConversationInit => ConversationInv
  <1> SUFFICES ASSUME ConversationInit PROVE ConversationInv
    OBVIOUS
  <1>0. 0 \in 0..MaxIterations /\ 0 < MaxIterations /\ 0 \in 0..MaxUserMessages
    BY ConversationAssumption
  <1>1. /\ messages = <<SystemMessage(1)>> /\ SystemMessage(1) \in MessageRecord
        /\ Len(messages) = 1 /\ messages[1] = SystemMessage(1)
        /\ messages \in Seq(MessageRecord)
    BY SystemMessagesAreTyped DEF ConversationInit
  <1>2. calls = <<>> /\ Len(calls) = 0 /\ Outstanding = {} /\ nextCall = 1
    BY DEF ConversationInit, Outstanding
  <1>3. ConversationTypeOK
    <2>1. calls \in Seq(1..nextCall - 1)
      BY <1>2
    <2>2. step \in {"turn", "idle"}
      BY DEF ConversationInit
    <2>3. /\ tokenEstimate = 1 /\ nextCall = 1 /\ iterationCount = 0 /\ userMessages = 0
          /\ noteDue = FALSE /\ triggerSource \in {"user", "schedule"}
          /\ status = "waiting_for_user" /\ result = "none" /\ ended = "none"
      BY DEF ConversationInit
    <2>4. messages \in Seq(MessageRecord) /\ noteDue \in BOOLEAN
      BY <1>1, <2>3
    <2>5. tokenEstimate \in Nat /\ nextCall \in Nat \ {0}
      BY <2>3
    <2>6. iterationCount \in 0..MaxIterations /\ userMessages \in 0..MaxUserMessages
      BY <1>0, <2>3
    <2> QED
      BY <2>1, <2>2, <2>3, <2>4, <2>5, <2>6 DEF ConversationTypeOK, Statuses
  <1>4. BeginsWithPrompt
    BY <1>1, SystemMessagesAreTyped DEF BeginsWithPrompt
  <1>5. LimitInv /\ CallsInv /\ CeilingRespected
    BY <1>0, <1>2 DEF ConversationInit, LimitInv, CallsInv, CeilingRespected
  <1>6. EstimateIsExact
    <2>1. [i \in 1..Len(messages) |-> messages[i].tokens] = <<1>>
      BY <1>1 DEF SystemMessage, Message
    <2> QED
      BY <2>1, TotalOfOne DEF EstimateIsExact, TokensOf, ConversationInit
  <1>7. AnswersInv(messages, Outstanding, nextCall)
    <2>1. messages[1].made = {} /\ messages[1].answers = 0 /\ \A i \in 1..Len(messages) : i = 1
      BY <1>1, SystemMessagesAreTyped
    <2> QED
      BY <1>2, <2>1 DEF AnswersInv
  <1> QED
    BY <1>3, <1>4, <1>5, <1>6, <1>7 DEF ConversationInv

LEMMA NextConversationInv ==
    ConversationInv /\ [ConversationNext]_conversationVars => ConversationInv'
  <1> SUFFICES ASSUME ConversationInv, [ConversationNext]_conversationVars
               PROVE  ConversationInv'
    OBVIOUS
  <1>1. CASE UNCHANGED conversationVars
    <2>1. /\ BeginsWithPrompt'
          /\ EstimateIsExact'
          /\ AnswersInv(messages', Outstanding', nextCall')
      BY <1>1, HistoryUnchanged DEF conversationVars
    <2>2. ConversationTypeOK'
      BY <1>1 DEF ConversationInv, ConversationTypeOK, conversationVars
    <2>3. LimitInv' /\ CallsInv' /\ CeilingRespected'
      BY <1>1 DEF ConversationInv, LimitInv, CallsInv, CeilingRespected, conversationVars
    <2> QED
      BY <2>1, <2>2, <2>3 DEF ConversationInv
  <1> QED
    BY <1>1, UserMessageKeeps, BeginTurnKeeps, SummarizeKeeps, EndsKeep, AnswersWithTextKeeps,
       AnswersWithCallsKeeps, ToolCallKeeps
    DEF ConversationNext

LEMMA ConversationInvariance == ConversationSpec => []ConversationInv
  BY InitConversationInv, NextConversationInv, PTL DEF ConversationSpec

\* Every variable of a session keeps its type; in particular it never
\* dispatches a tool call beyond the limit of iterations.
THEOREM ConversationTypeCorrect == ConversationSpec => []ConversationTypeOK
  <1>1. ConversationInv => ConversationTypeOK
    BY DEF ConversationInv
  <1> QED
    BY <1>1, ConversationInvariance, PTL

\* The running estimate is the sum of the history's tokens, always.
THEOREM EstimateStaysExact == ConversationSpec => []EstimateIsExact
  <1>1. ConversationInv => EstimateIsExact
    BY DEF ConversationInv
  <1> QED
    BY <1>1, ConversationInvariance, PTL

\* The model is never asked with a history in which a tool call has no result
\* or two.
THEOREM CallsAlwaysAnswered == ConversationSpec => []CallsAreAnswered
  <1>1. ASSUME ConversationInv PROVE CallsAreAnswered
    <2> SUFFICES ASSUME step \in {"llm", "summarizing"},
                        NEW i \in 1..Len(messages), NEW id \in messages[i].made
                 PROVE  \E j \in i+1..Len(messages) :
                           /\ messages[j].answers = id
                           /\ \A k \in 1..Len(messages) : messages[k].answers = id => k = j
      BY DEF CallsAreAnswered
    <2>1. Outstanding = {} /\ AnswersInv(messages, Outstanding, nextCall)
      BY <1>1, NoneOutstanding DEF ConversationInv
    <2>2. Len(messages) \in Nat
      BY <1>1, LenProperties DEF ConversationInv, ConversationTypeOK
    <2>3. id \in 1..nextCall - 1 /\ id # 0
      BY <2>1 DEF AnswersInv
    <2>4. PICK j \in i+1..Len(messages) : messages[j].answers = id
      BY <2>1 DEF AnswersInv
    <2>5. j \in 1..Len(messages)
      BY <2>2
    <2>6. \A k \in 1..Len(messages) : messages[k].answers = id => k = j
      BY <2>1, <2>3, <2>4, <2>5 DEF AnswersInv
    <2> QED
      BY <2>4, <2>6
  <1> QED
    BY <1>1, ConversationInvariance, PTL

\* The model is asked above the hard ceiling only if nothing can be compacted.
THEOREM CeilingAlwaysRespected == ConversationSpec => []CeilingRespected
  <1>1. ConversationInv => CeilingRespected
    BY DEF ConversationInv
  <1> QED
    BY <1>1, ConversationInvariance, PTL

LEMMA SuffixIs ==
    ASSUME NEW S, NEW s \in Seq(S), NEW t \in Seq(S), NEW d \in Nat, Len(s) + d = Len(t),
           \A i \in 1..Len(s) : s[i] = t[d + i]
    PROVE  IsSuffix(s, t)
  <1> DEFINE n == Len(s)
             u == Reverse(s)
             v == Reverse(t)
  <1>1. n \in Nat /\ Len(t) \in Nat
    BY LenProperties
  <1>2. /\ u = [i \in 1..n |-> s[(n - i) + 1]] /\ Len(u) = n
        /\ v = [i \in 1..Len(t) |-> t[(Len(t) - i) + 1]] /\ Len(v) = Len(t)
    BY <1>1 DEF Reverse
  <1>3. ASSUME NEW i \in 1..n PROVE u[i] = v[i]
    <2>1. /\ i \in 1..Len(t) /\ (n - i) + 1 \in 1..n
          /\ (Len(t) - i) + 1 = d + ((n - i) + 1)
      BY <1>1
    <2>2. u[i] = s[(n - i) + 1] /\ v[i] = t[(Len(t) - i) + 1]
      BY <1>2, <2>1
    <2> QED
      BY <2>1, <2>2
  <1>4. SubSeq(u, 1, n) = SubSeq(v, 1, n)
    <2>1. /\ \A i \in 1..n : u[i] \in S
          /\ \A i \in 1..n : v[i] \in S
      <3>1. ASSUME NEW i \in 1..n PROVE u[i] \in S
        <4>1. (n - i) + 1 \in 1..n /\ \A k \in 1..n : s[k] \in S
          BY <1>1, ElementOfSeq
        <4> QED
          BY <1>2, <4>1
      <3> QED
        BY <1>3, <3>1
    <2> HIDE DEF u, v, n
    <2>2. /\ SubSeq(u, 1, n) \in Seq(S) /\ Len(SubSeq(u, 1, n)) = Len(SubSeq(v, 1, n))
          /\ SubSeq(v, 1, n) \in Seq(S)
          /\ Len(SubSeq(u, 1, n)) = n
          /\ \A i \in 1..n : SubSeq(u, 1, n)[i] = u[i] /\ SubSeq(v, 1, n)[i] = v[i]
      BY <1>1, <2>1, SubSeqProperties
    <2> QED
      BY <1>3, <2>2, SeqEqual
  <1> HIDE DEF u, v
  <1>5. Len(u) <= Len(v) /\ SubSeq(u, 1, Len(u)) = SubSeq(v, 1, Len(u))
    <2>1. Len(u) = n /\ Len(v) = Len(t) /\ n <= Len(t)
      BY <1>1, <1>2
    <2> HIDE DEF n
    <2> QED
      BY <1>4, <2>1
  <1> QED
    BY <1>5 DEF IsSuffix, IsPrefix, u, v

\* A compaction keeps the system prompt, and everything from the latest message
\* of the user on, in its order.
LEMMA SuffixSurvivesCompaction ==
    ASSUME NEW h \in Seq(MessageRecord), Len(h) > 0, NEW n \in Nat, LastUserIndex(h) # -1
    PROVE  IsSuffix(SubSeq(h, LastUserIndex(h) + 1, Len(h)), buildCompactedMessageHistory(h, n))
  <1> DEFINE keep == selectCompactionKeepStartIndex(h)
             g == buildCompactedMessageHistory(h, n)
             last == LastUserIndex(h)
             s == SubSeq(h, last + 1, Len(h))
  <1>1. IsCompaction(g, h, keep, n)
    BY CompactedIs
  <1>2. keep \in Nat \ {0} /\ keep <= last /\ last \in 1..Len(h)-1 /\ Len(h) \in Nat
    BY KeepStartIs, LastUserIndexIs, LenProperties
  <1> HIDE DEF keep, g, last
  <1>3. g \in Seq(MessageRecord) /\ Len(g) \in Nat
    BY <1>1, LenProperties DEF IsCompaction
  <1>4. Len(g) = (Len(h) - keep) + 2
    <2>1. (Len(h) - keep) + 2 \in 3..Len(g)
      <3>1. Len(h) \in keep+1..Len(h)
        BY <1>2
      <3> QED
        BY <1>1, <3>1 DEF IsCompaction
    <2>2. (Len(g) - 2) + keep \in keep+1..Len(h)
      <3>1. Len(g) \in 3..Len(g)
        BY <1>2, <1>3, <2>1
      <3> QED
        BY <1>1, <3>1 DEF IsCompaction
    <2> QED
      BY <1>2, <1>3, <2>1, <2>2
  <1>5. /\ s \in Seq(MessageRecord)
        /\ Len(s) = Len(h) - last
        /\ \A i \in 1..Len(h) - last : s[i] = h[last + i]
    <2>1. \A i \in last+1..Len(h) : h[i] \in MessageRecord
      BY <1>2, ElementOfSeq
    <2>2. /\ s \in Seq(MessageRecord)
          /\ Len(s) = IF last + 1 <= Len(h) THEN Len(h) - (last + 1) + 1 ELSE 0
          /\ \A i \in 1..Len(h) - (last + 1) + 1 : s[i] = h[(last + 1) + i - 1]
      BY <1>2, <2>1, SubSeqProperties
    <2>3. \A i \in 1..Len(h) - last : i \in 1..Len(h) - (last + 1) + 1 /\ (last + 1) + i - 1 = last + i
      BY <1>2
    <2>4. Len(s) = Len(h) - last
      BY <1>2, <2>2
    <2> HIDE DEF s
    <2> QED
      BY <2>2, <2>3, <2>4
  <1> HIDE DEF s
  <1> DEFINE d == (last - keep) + 2
  <1>6. d \in Nat /\ Len(s) + d = Len(g)
    BY <1>2, <1>4, <1>5
  <1>7. ASSUME NEW i \in 1..Len(s) PROVE s[i] = g[d + i]
    <2> DEFINE j == d + i
    <2>1. j \in 3..Len(g) /\ (j - 2) + keep = last + i /\ i \in 1..Len(h) - last
      BY <1>2, <1>3, <1>5, <1>6
    <2> HIDE DEF j
    <2>2. g[j] = h[(j - 2) + keep]
      BY <1>1, <2>1 DEF IsCompaction
    <2> QED
      BY <1>5, <2>1, <2>2 DEF j
  <1> HIDE DEF d
  <1>8. IsSuffix(s, g)
    BY <1>3, <1>5, <1>6, <1>7, SuffixIs
  <1> QED
    BY <1>8 DEF s, g, last

\* No compaction takes the system prompt, the latest message of the user or
\* anything after it.
THEOREM ExchangeAlwaysKept == ConversationSpec => CurrentExchangeKept
  <1>1. ASSUME ConversationInv, [ConversationNext]_conversationVars,
               step = "summarizing", step' # "over", ~UNCHANGED conversationVars
        PROVE  /\ messages'[1] = messages[1]
               /\ LastUserIndex(messages) # -1 =>
                     IsSuffix(SubSeq(messages, LastUserIndex(messages) + 1, Len(messages)),
                              messages')
    <2>1. PICK tokens \in SummarySizes : Summarize(tokens)
      BY <1>1 DEF ConversationNext, UserMessage, BeginTurn, ModelFails, Throws, AnswersWithText,
                  AnswersWithCalls, AnswersWithNothing, ToolCall
    <2>2. tokens \in Nat /\ messages \in Seq(MessageRecord) /\ Len(messages) > 0
      BY <1>1, ConversationAssumption DEF ConversationInv, ConversationTypeOK, BeginsWithPrompt
    <2>3. messages' = buildCompactedMessageHistory(messages, tokens)
      BY <2>1 DEF Summarize
    <2>4. messages'[1] = messages[1]
      BY <2>2, <2>3, CompactedIs DEF IsCompaction
    <2> QED
      BY <2>2, <2>3, <2>4, SuffixSurvivesCompaction
  <1>2. ConversationInv /\ [ConversationNext]_conversationVars =>
           [step = "summarizing" /\ step' # "over" =>
              /\ messages'[1] = messages[1]
              /\ LastUserIndex(messages) # -1 =>
                    IsSuffix(SubSeq(messages, LastUserIndex(messages) + 1, Len(messages)),
                             messages')]_conversationVars
    BY <1>1
  <1> QED
    BY <1>2, ConversationInvariance, PTL DEF ConversationSpec, CurrentExchangeKept
===============================================================================
