--------------------------- MODULE SessionRuntime ---------------------------
(***************************************************************************)
(* The runtime slot of one session: session/prompt-runtime.ts, the part    *)
(* of SessionPrompt (session/prompt.ts) that takes and gives back the      *)
(* slot, the outward status (session/status.ts), the active-child flag of  *)
(* tool/task.ts with its busy-indicator subscriber, and the disposal of    *)
(* the instance state that holds the registry (project/state.ts).          *)
(*                                                                         *)
(* The daemon is one event loop: an action is a stretch of code that runs  *)
(* without an await.  Every call starts at most one run, so a call is its  *)
(* own runID.  The order in which released waiters resume is left open.    *)
(***************************************************************************)
EXTENDS Naturals, FiniteSets

CONSTANTS
    Calls,        \* the prompt(), loop() and shell() calls made on the session
    Shells,       \* those of them that are shell() calls
    NoRun,        \* "no runtime registered"
    MaxWaits,     \* how often a call waits before it forces a replace
    MaxDispose    \* bound on the number of instance disposals

ASSUME ShellsAssumption == Shells \subseteq Calls
ASSUME NoRunAssumption == NoRun \notin Calls
ASSUME MaxWaitsAssumption == MaxWaits \in Nat \ {0}
ASSUME MaxDisposeAssumption == MaxDispose \in Nat

VARIABLES
    slot,       \* runID of the registered RuntimeEntry, or NoRun
    waiters,    \* slotWaiters of the registered entry
    aborted,    \* runs whose AbortController has fired
    pc,         \* where each call is
    waits,      \* `attempt` of a call in runLoop: how often it entered waitForSlot
    status,     \* SessionStatus of the session
    child,      \* SessionActiveChild: a subagent is attached
    disposing,  \* cleanupState has run, the maps are not dropped yet
    disposals   \* disposals so far

vars == <<slot, waiters, aborted, pc, waits, status, child, disposing,
          disposals>>

callVars == <<pc, waits>>
disposeVars == <<disposing, disposals>>

Statuses == {"idle", "busy", "retry"}
PCs == {"new",       \* not called yet
        "enter",     \* about to enter runLoop without replaceRuntime
        "interrupt", \* about to enter runLoop with replaceRuntime
        "waiting",   \* inside waitForSlot
        "woken",     \* its slot waiter was called, start() not retried yet
        "run",       \* holds a runtime, loop still going
        "exit",      \* loop left, reply not returned yet
        "done",      \* returned (or threw)
        "refused"}   \* shell() threw BusyError

Active(c) == pc[c] \in {"run", "exit"}
Registered == slot # NoRun

-----------------------------------------------------------------------------
Init ==
    /\ slot = NoRun
    /\ waiters = {}
    /\ aborted = {}
    /\ pc = [c \in Calls |-> "new"]
    /\ waits = [c \in Calls |-> 0]
    /\ status = "idle"
    /\ child = FALSE
    /\ disposing = FALSE
    /\ disposals = 0

-----------------------------------------------------------------------------
(* Plausible mistakes in the operations below, for the mutation runs.      *)

TakeSlotWithoutAbort(c) ==
    slot' = c /\ aborted' = aborted /\ waiters' = IF Registered THEN waiters ELSE {}

TakeSlotDropsWaiters(c) ==
    /\ slot' = c
    /\ aborted' = IF Registered THEN aborted \cup {slot} ELSE aborted
    /\ waiters' = {}

FinishKeepsStatusIfEntryMissing(c) ==
    IF slot = c /\ ~child THEN "idle" ELSE status

FinishIgnoresRunID(c) == NoRun
ReleasedNobody(c) == {}

-----------------------------------------------------------------------------
(* prompt-runtime.ts: the operations on the registry.                      *)

\* start(): take the slot.  A replaced run is aborted and hands its slot
\* waiters on; the caller makes sure that the slot is free or to be replaced.
TakeSlot(c) ==
    /\ slot' = c
    /\ aborted' = IF Registered THEN aborted \cup {slot} ELSE aborted
    /\ waiters' = IF Registered THEN waiters ELSE {}

\* waitForSlot(): queue up behind the registered run.
JoinWaiters(c) ==
    /\ waiters' = waiters \cup {c}
    /\ waits' = [waits EXCEPT ![c] = @ + 1]
    /\ pc' = [pc EXCEPT ![c] = "waiting"]

\* finish(): three cases - the entry is gone, a newer run owns it, or the
\* caller releases it.  The status stays as it is while a subagent is attached;
\* every waiter is called once the entry is deleted.
FinishStatus(c) ==
    IF (slot = c /\ child) \/ slot \notin {c, NoRun} THEN status ELSE "idle"

FinishSlot(c) == IF slot = c THEN NoRun ELSE slot

Released(c) == IF slot = c THEN waiters ELSE {}

Finish(c) ==
    /\ slot' = FinishSlot(c)
    /\ status' = FinishStatus(c)
    /\ waiters' = waiters \ Released(c)
    /\ pc' = [d \in Calls |-> IF d = c THEN "done"
                              ELSE IF d \in Released(c) THEN "woken"
                              ELSE pc[d]]

-----------------------------------------------------------------------------
(* prompt.ts: the calls.                                                   *)

\* start() has returned a signal: the loop over `attempt` is left.
StartRun(c) ==
    /\ TakeSlot(c)
    /\ waits' = [waits EXCEPT ![c] = 0]
    /\ pc' = [pc EXCEPT ![c] = "run"]

\* prompt() up to shouldInterruptForIncomingPrompt.  Status and registry are
\* read before its awaits; what shouldInterruptAutonomousRun then answers from
\* the stored session is left open.  loop() never interrupts.
Decide(c) ==
    /\ pc[c] = "new"
    /\ c \notin Shells
    /\ \/ pc' = [pc EXCEPT ![c] = "enter"]
       \/ /\ status = "busy" /\ Registered
          /\ pc' = [pc EXCEPT ![c] = "interrupt"]
    /\ UNCHANGED <<slot, waiters, aborted, waits, status, child, disposeVars>>

\* runLoop's first start().
EnterSlot(c) ==
    /\ pc[c] = "interrupt" \/ (pc[c] = "enter" /\ ~Registered)
    /\ StartRun(c)
    /\ UNCHANGED <<status, child, disposeVars>>

\* ... which failed: wait for the slot.
EnterWait(c) ==
    /\ pc[c] = "enter"
    /\ Registered
    /\ JoinWaiters(c)
    /\ UNCHANGED <<slot, aborted, status, child, disposeVars>>

\* A released waiter finds the slot free.
RetrySlot(c) ==
    /\ pc[c] = "woken"
    /\ ~Registered
    /\ StartRun(c)
    /\ UNCHANGED <<status, child, disposeVars>>

\* A released waiter lost the race for the slot and waits again.
RetryWait(c) ==
    /\ pc[c] = "woken"
    /\ Registered
    /\ waits[c] < MaxWaits
    /\ JoinWaiters(c)
    /\ UNCHANGED <<slot, aborted, status, child, disposeVars>>

\* "slot never opened after waits - forcing replace".
ForceReplace(c) ==
    /\ pc[c] = "woken"
    /\ Registered
    /\ waits[c] >= MaxWaits
    /\ StartRun(c)
    /\ UNCHANGED <<status, child, disposeVars>>

\* shell(): start() or BusyError, no waiting.
Shell(c) ==
    /\ pc[c] = "new"
    /\ c \in Shells
    /\ \/ /\ ~Registered
          /\ StartRun(c)
       \/ /\ Registered
          /\ pc' = [pc EXCEPT ![c] = "refused"]
          /\ UNCHANGED <<slot, waiters, aborted, waits>>
    /\ UNCHANGED <<status, child, disposeVars>>

\* Top of the run loop: status busy, then leave if the signal fired.
LoopTop(c) ==
    /\ pc[c] = "run"
    /\ c \notin Shells
    /\ status' = "busy"
    /\ pc' = [pc EXCEPT ![c] = IF c \in aborted THEN "exit" ELSE "run"]
    /\ UNCHANGED <<slot, waiters, aborted, waits, child, disposeVars>>

\* The processor reports busy at the start of a stream, idle on every stop
\* path and retry before a backoff - without asking who owns the slot.
ProcessorStatus(c) ==
    /\ pc[c] = "run"
    /\ c \notin Shells
    /\ \E s \in Statuses : status' = s
    /\ UNCHANGED <<slot, waiters, aborted, callVars, child, disposeVars>>

\* A break out of the loop: the post-reply cleanup window begins.
BreakLoop(c) ==
    /\ pc[c] = "run"
    /\ pc' = [pc EXCEPT ![c] = "exit"]
    /\ UNCHANGED <<slot, waiters, aborted, waits, status, child, disposeVars>>

\* Return or throw; `using _ = defer(finish)` runs in both cases.  The run's
\* AbortController goes with it.
EndRun(c) ==
    /\ Active(c)
    /\ Finish(c)
    /\ aborted' = aborted \ {c}
    /\ UNCHANGED <<waits, child, disposeVars>>

-----------------------------------------------------------------------------
(* Everything else that touches the slot.                                  *)

\* cancel(): abort the registered run, or clear the status if there is none.
Cancel ==
    /\ IF Registered
       THEN aborted' = aborted \cup {slot} /\ UNCHANGED status
       ELSE status' = "idle" /\ UNCHANGED aborted
    /\ UNCHANGED <<slot, waiters, callVars, child, disposeVars>>

\* The task tool of a run attaches a subagent; the busy indicator runs inside
\* the publish.
AttachChild(c) ==
    /\ pc[c] = "run"
    /\ c \notin Shells
    /\ child' = TRUE
    /\ status' = "busy"
    /\ UNCHANGED <<slot, waiters, aborted, callVars, disposeVars>>

\* The subagent is gone (finished, cancelled, terminated, found stale).
DetachChild ==
    /\ child' = FALSE
    /\ status' = IF Registered THEN status ELSE "idle"
    /\ UNCHANGED <<slot, waiters, aborted, callVars, disposeVars>>

\* State.dispose, first part: cleanupState aborts the registered run.
DisposeAbort ==
    /\ ~disposing
    /\ disposals < MaxDispose
    /\ disposing' = TRUE
    /\ disposals' = disposals + 1
    /\ aborted' = IF Registered THEN aborted \cup {slot} ELSE aborted
    /\ UNCHANGED <<slot, waiters, callVars, status, child>>

\* State.dispose after its await: all maps of the instance are dropped, the
\* registry with its slot waiters, the status and the active child.
DisposeClear ==
    /\ disposing
    /\ disposing' = FALSE
    /\ slot' = NoRun
    /\ waiters' = {}
    /\ status' = "idle"
    /\ child' = FALSE
    /\ UNCHANGED <<aborted, callVars, disposals>>

-----------------------------------------------------------------------------
CallNext(c) ==
    \/ Decide(c) \/ EnterSlot(c) \/ EnterWait(c)
    \/ RetrySlot(c) \/ RetryWait(c) \/ ForceReplace(c)
    \/ Shell(c) \/ LoopTop(c) \/ ProcessorStatus(c) \/ BreakLoop(c)
    \/ EndRun(c) \/ AttachChild(c)

Next ==
    \/ \E c \in Calls : CallNext(c)
    \/ Cancel \/ DetachChild
    \/ DisposeAbort \/ DisposeClear

\* What the event loop owes a call that is ready to continue.
Entering(c) == EnterSlot(c) \/ EnterWait(c)
Retrying(c) == RetrySlot(c) \/ RetryWait(c) \/ ForceReplace(c)

Fairness ==
    /\ \A c \in Calls : WF_vars(Entering(c)) /\ WF_vars(Retrying(c)) /\ WF_vars(EndRun(c))
    /\ WF_vars(DisposeClear)

Spec == Init /\ [][Next]_vars
FairSpec == Spec /\ Fairness

-----------------------------------------------------------------------------
(* Properties.                                                             *)

\* State types; no prompt waits for the slot more than MaxWaits times.
TypeOK ==
    /\ slot \in Calls \cup {NoRun}
    /\ waiters \subseteq Calls
    /\ aborted \subseteq Calls
    /\ pc \in [Calls -> PCs]
    /\ waits \in [Calls -> 0..MaxWaits]
    /\ status \in Statuses
    /\ child \in BOOLEAN
    /\ disposing \in BOOLEAN
    /\ disposals \in 0..MaxDispose

\* A disposal drops the registry under its runs and waiters, see DisposeClear:
\* what the registry promises, it promises to an instance not disposed yet.
Undisposed == disposals = 0

\* Until the instance is disposed, at most one run of the session goes on
\* un-aborted, and it is the registered one - prompt-runtime.ts calls the
\* registry the authoritative source for "a runloop is alive", and abort-all
\* reaches only what it lists.  A start() that displaces a run must have aborted
\* it, and no finish() of another run may free the slot under a live run.
SingleLiveRun ==
    Undisposed => \A c \in Calls : Active(c) /\ c \notin aborted => slot = c

\* A registered entry belongs to a run that will still call finish(), whatever
\* is disposed: else nobody would ever free the slot.
SlotHasOwner == Registered => Active(slot)

\* Until the instance is disposed, whoever sits in waitForSlot is in the
\* slotWaiters of a registered entry, so that finish() will find it: replace
\* hands waiters on, finish() drains them.
NoStrandedWaiter ==
    Undisposed => /\ waiters = {c \in Calls : pc[c] = "waiting"}
                  /\ waiters # {} => Registered

\* Once all runs have ended and no subagent is attached the session shows
\* idle, in whatever order replaced, replacing, aborted and disposed runs
\* finish: nobody would ever correct a busy status left behind.
QuietMeansIdle ==
    (\A c \in Calls : ~Active(c)) /\ ~child => status = "idle"

\* Until the instance is disposed, the slot changes hands only through its
\* owner's finish() or by a replace that aborts the owner: a stale finish()
\* never touches a newer run.
SlotHandoverStep ==
    Undisposed => \A c \in Calls : slot = c /\ slot' # c =>
        pc'[c] = "done" \/ (slot' # NoRun /\ c \in aborted')
SlotHandover == [][SlotHandoverStep]_vars

\* Every prompt gets a run of its own after finitely many waits, if the runs
\* ahead of it end and the instance is not disposed meanwhile.
PromptGetsRun ==
    \A c \in Calls : pc[c] \in {"enter", "interrupt", "waiting"} ~>
        pc[c] \in {"run", "exit", "done"} \/ ~Undisposed
=============================================================================
