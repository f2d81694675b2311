------------------------------ MODULE PidFile ------------------------------
(***************************************************************************)
(* The PID file that keeps a second daemon from starting, and the lock     *)
(* file under which it is taken.  src/runtime/pid.ts, and its use by main  *)
(* in src/index.ts.                                                        *)
(*                                                                         *)
(* Each process launches the daemon once.  Every file operation is awaited *)
(* and so a step of its own; writeFile with the flag wx first creates the  *)
(* file and then fills it.  Process ids are not reused.                    *)
(***************************************************************************)
EXTENDS Naturals

CONSTANTS Processes, Nothing

\* A file: who created it, and the pid that was written to it.
File == [by : Processes, pid : Processes \cup {Nothing}]

ASSUME NothingAssumption == Nothing \notin Processes /\ Nothing \notin File

VARIABLES
    pc,          \* process -> where acquirePidFile is
    lockFile,    \* a file, or Nothing
    pidFile,
    \* history
    overlapped   \* two launches have once been acquiring at the same time

pidFileVars == <<pc, lockFile, pidFile, overlapped>>

Created(p) == [by |-> p, pid |-> Nothing]
Filled(p) == [by |-> p, pid |-> p]

Steps == {"new", "create lock", "fill lock", "read lock", "remove lock", "read pid",
          "remove pid", "create pid", "fill pid", "unlock", "held", "refused", "gone"}

PidFileTypeOK ==
    /\ pc \in [Processes -> Steps]
    /\ lockFile \in File \cup {Nothing}
    /\ pidFile \in File \cup {Nothing}
    /\ \A file \in {lockFile, pidFile} : file # Nothing => file.pid \in {Nothing, file.by}
    /\ overlapped \in BOOLEAN

PidFileInit ==
    /\ pc = [p \in Processes |-> "new"]
    /\ lockFile = Nothing
    /\ pidFile = Nothing
    /\ overlapped = FALSE

Acquiring(p) == pc[p] \notin {"new", "held", "gone"}

Goto(p, from, to) ==
    /\ pc[p] = from
    /\ pc' = [pc EXCEPT ![p] = to]
    /\ overlapped' = (overlapped \/ (from = "new" /\ \E q \in Processes : Acquiring(q)))

\* readExistingPidFile finds a number, and isProcessAlive a process.
NamesLiveProcess(file) ==
    /\ file # Nothing
    /\ file.pid # Nothing
    /\ pc[file.pid] \notin {"new", "gone"}

---------------------------------------------------------------------------
(***************************************************************************)
(* withAcquireLock                                                         *)
(***************************************************************************)

LaunchDaemon(p) == Goto(p, "new", "create lock") /\ UNCHANGED <<lockFile, pidFile>>

CreateLock(p) ==
    /\ lockFile = Nothing
    /\ Goto(p, "create lock", "fill lock")
    /\ lockFile' = Created(p)
    /\ UNCHANGED pidFile

FindsLock(p) ==
    /\ lockFile # Nothing
    /\ Goto(p, "create lock", "read lock")
    /\ UNCHANGED <<lockFile, pidFile>>

\* What is written goes to the file that was created, removed or not.
FillLock(p) ==
    /\ Goto(p, "fill lock", "read pid")
    /\ lockFile' = IF lockFile = Created(p) THEN Filled(p) ELSE lockFile
    /\ UNCHANGED pidFile

\* The lock is held by a live process: poll again, or give up at the deadline.
LockIsHeld(p, next) ==
    /\ NamesLiveProcess(lockFile)
    /\ Goto(p, "read lock", next)
    /\ UNCHANGED <<lockFile, pidFile>>

LockIsStale(p) ==
    /\ ~NamesLiveProcess(lockFile)
    /\ Goto(p, "read lock", "remove lock")
    /\ UNCHANGED <<lockFile, pidFile>>

\* Faulty variant: the stale lock is left for the next attempt to find.
KeepLock(p) == Goto(p, "remove lock", "create lock") /\ UNCHANGED <<lockFile, pidFile>>

RemoveLock(p) ==
    /\ Goto(p, "remove lock", "create lock")
    /\ lockFile' = Nothing
    /\ UNCHANGED pidFile

---------------------------------------------------------------------------
(***************************************************************************)
(* acquirePidFile, under the lock                                          *)
(***************************************************************************)

\* Faulty variant: a number in the file is enough, dead or alive.
RunningIfFilled(p) ==
    /\ pidFile # Nothing /\ pidFile.pid # Nothing
    /\ Goto(p, "read pid", "refused")
    /\ UNCHANGED <<lockFile, pidFile>>

AlreadyRunning(p) ==
    /\ NamesLiveProcess(pidFile)
    /\ Goto(p, "read pid", "refused")
    /\ UNCHANGED <<lockFile, pidFile>>

NotRunning(p) ==
    /\ ~NamesLiveProcess(pidFile)
    /\ Goto(p, "read pid", IF pidFile = Nothing THEN "create pid" ELSE "remove pid")
    /\ UNCHANGED <<lockFile, pidFile>>

RemovePid(p) ==
    /\ Goto(p, "remove pid", "create pid")
    /\ pidFile' = Nothing
    /\ UNCHANGED lockFile

CreatePid(p) ==
    /\ pidFile = Nothing
    /\ Goto(p, "create pid", "fill pid")
    /\ pidFile' = Created(p)
    /\ UNCHANGED lockFile

\* The file is there again: EEXIST.
FindsPid(p) ==
    /\ pidFile # Nothing
    /\ Goto(p, "create pid", "refused")
    /\ UNCHANGED <<lockFile, pidFile>>

\* Faulty variant: the file is opened again by its path.
FillByPath(p) ==
    /\ Goto(p, "fill pid", "unlock")
    /\ pidFile' = IF pidFile # Nothing THEN [pidFile EXCEPT !.pid = p] ELSE pidFile
    /\ UNCHANGED lockFile

FillPid(p) ==
    /\ Goto(p, "fill pid", "unlock")
    /\ pidFile' = IF pidFile = Created(p) THEN Filled(p) ELSE pidFile
    /\ UNCHANGED lockFile

\* The finally clause, whoever holds the lock by now.
Unlock(p) ==
    /\ \/ Goto(p, "unlock", "held")
       \/ Goto(p, "refused", "gone")
    /\ lockFile' = Nothing
    /\ UNCHANGED pidFile

---------------------------------------------------------------------------
(***************************************************************************)
(* The daemon                                                              *)
(***************************************************************************)

\* It is stopped, or its startup fails: the PID file is removed, whoever wrote
\* it, and the process exits.
Release(p) ==
    /\ Goto(p, "held", "gone")
    /\ pidFile' = Nothing
    /\ UNCHANGED lockFile

Crash(p) ==
    /\ pc[p] \notin {"new", "gone"}
    /\ pc' = [pc EXCEPT ![p] = "gone"]
    /\ UNCHANGED <<lockFile, pidFile, overlapped>>

PidFileNext == \E p \in Processes :
    \/ LaunchDaemon(p) \/ Crash(p) \/ Release(p)
    \/ CreateLock(p) \/ FindsLock(p) \/ FillLock(p) \/ LockIsStale(p) \/ RemoveLock(p)
    \/ \E next \in {"create lock", "gone"} : LockIsHeld(p, next)
    \/ AlreadyRunning(p) \/ NotRunning(p) \/ RemovePid(p) \/ CreatePid(p) \/ FindsPid(p)
    \/ FillPid(p) \/ Unlock(p)

PidFileSpec == PidFileInit /\ [][PidFileNext]_pidFileVars

\* File operations come to their end; nobody has to crash, be stopped, or give
\* up the wait for the lock.
Step(p) ==
    \/ CreateLock(p) \/ FindsLock(p) \/ FillLock(p) \/ LockIsStale(p) \/ RemoveLock(p)
    \/ LockIsHeld(p, "create lock")
    \/ AlreadyRunning(p) \/ NotRunning(p) \/ RemovePid(p) \/ CreatePid(p) \/ FindsPid(p)
    \/ FillPid(p) \/ Unlock(p)

PidFileFairSpec == PidFileSpec /\ \A p \in Processes : WF_pidFileVars(Step(p))

---------------------------------------------------------------------------
(***************************************************************************)
(* Properties                                                              *)
(***************************************************************************)

\* docs/architecture.md:1239: the PID file "prevents double-launch";
\* src/runtime/pid.test.ts:8: "allows only one concurrent acquisition".
OneDaemon == \A p, q \in Processes : pc[p] = "held" /\ pc[q] = "held" => p = q

\* As long as no two launches overlap the PID file does what it is for: there
\* is one daemon at most, whatever crashed before and where, and a launch is
\* refused only while another daemon runs.
LaunchesInTurn ==
    [][~overlapped' =>
          /\ OneDaemon'
          /\ \A p \in Processes : pc[p] # "refused" /\ pc'[p] = "refused" =>
                \E q \in Processes : pc[q] = "held"]_pidFileVars

\* Every launch comes to its end, also among several: no two processes remove
\* each other's lock for ever.
LaunchEnds ==
    \A p \in Processes : pc[p] = "create lock" ~> pc[p] \in {"held", "gone"}
=============================================================================
