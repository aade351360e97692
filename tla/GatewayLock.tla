----------------------------- MODULE GatewayLock -----------------------------
(***************************************************************************)
(* daemon/gateway-lock.ts as several processes run it: the lock file is    *)
(* read and written (or unlinked) in two asynchronous steps, and nothing   *)
(* but the file is shared.  A process has its own pid and is started once; *)
(* that the system may give the pid of a dead process to a new one is not  *)
(* modelled.                                                               *)
(***************************************************************************)
CONSTANTS Procs, NoPid

ASSUME NoPidAssumption == NoPid \notin Procs

VARIABLES
    file,        \* the pid in daemon.lock, or NoPid if it is absent
    pc,          \* where each process is
    overlapped   \* history: an acquire() checked the file inside another's window

lockVars == <<file, pc, overlapped>>

PCs == {"off", "writing", "held", "unlinking", "refused", "dead"}

LockInit ==
    /\ file = NoPid
    /\ pc = [p \in Procs |-> "off"]
    /\ overlapped = FALSE

\* isProcessRunning(): every process runs until it dies.
IsRunning(p) == p \in Procs /\ pc[p] # "dead"

BrokenStaleCheck(p) == TRUE
MayTake(p) == ~IsRunning(file)

\* acquire() up to the verdict on the existing lock.
AcquireRead(p) ==
    /\ pc[p] = "off"
    /\ \/ /\ MayTake(p)
          /\ pc' = [pc EXCEPT ![p] = "writing"]
          /\ overlapped' = (overlapped \/ \E q \in Procs : pc[q] = "writing")
       \/ /\ ~MayTake(p)
          /\ pc' = [pc EXCEPT ![p] = "refused"]
          /\ UNCHANGED overlapped
    /\ UNCHANGED file

\* acquire(): write our pid.
AcquireWrite(p) ==
    /\ pc[p] = "writing"
    /\ pc' = [pc EXCEPT ![p] = "held"]
    /\ file' = p
    /\ UNCHANGED overlapped

\* acquire(): mkdir or writeFile failed.
AcquireFailed(p) ==
    /\ pc[p] = "writing"
    /\ pc' = [pc EXCEPT ![p] = "refused"]
    /\ UNCHANGED <<file, overlapped>>

\* release() up to the check that the lock is ours.
ReleaseRead(p) ==
    /\ pc[p] = "held"
    /\ pc' = [pc EXCEPT ![p] = IF file = p THEN "unlinking" ELSE "off"]
    /\ UNCHANGED <<file, overlapped>>

\* release(): unlink, whatever the file holds by now.
ReleaseUnlink(p) ==
    /\ pc[p] = "unlinking"
    /\ pc' = [pc EXCEPT ![p] = "off"]
    /\ file' = NoPid
    /\ UNCHANGED overlapped

\* The process dies and leaves the file as it is.
Crash(p) ==
    /\ pc[p] # "dead"
    /\ pc' = [pc EXCEPT ![p] = "dead"]
    /\ UNCHANGED <<file, overlapped>>

LockNext == \E p \in Procs :
    \/ AcquireRead(p) \/ AcquireWrite(p) \/ AcquireFailed(p)
    \/ ReleaseRead(p) \/ ReleaseUnlink(p) \/ Crash(p)

LockSpec == LockInit /\ [][LockNext]_lockVars

-----------------------------------------------------------------------------
\* The lock file names a process or is absent; acquire() and release() are at a known step.
TypeOK ==
    /\ file \in Procs \cup {NoPid}
    /\ pc \in [Procs -> PCs]
    /\ overlapped \in BOOLEAN

\* As long as no two acquire() calls overlap, the file names every process
\* that believes it holds the lock, so there is at most one: crashes, stale
\* locks and releases alone never let a second daemon in.
HolderNamed ==
    ~overlapped => \A p \in Procs : pc[p] \in {"held", "unlinking"} => file = p
=============================================================================
