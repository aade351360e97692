----------------------- MODULE SessionRuntime_proofs ------------------------
(***************************************************************************)
(* Proofs about SessionRuntime, for any number of prompt, loop and shell   *)
(* calls, of waits and of instance disposals.  StateInv says what a        *)
(* disposal keeps, SlotInv adds what holds until the first one.            *)
(***************************************************************************)
EXTENDS SessionRuntime, TLAPS

\* A call that has not entered runLoop has not waited: this bounds `waits`.
FreshHasNotWaited ==
    \A c \in Calls : pc[c] \in {"new", "enter", "interrupt"} => waits[c] = 0

StateInv ==
    /\ TypeOK
    /\ FreshHasNotWaited
    /\ SlotHasOwner
    /\ QuietMeansIdle

SlotInv ==
    /\ Undisposed => ~disposing
    /\ SingleLiveRun
    /\ NoStrandedWaiter

-----------------------------------------------------------------------------
\* The initial state satisfies both invariants.
LEMMA InitInv == Init => StateInv /\ SlotInv
<1> SUFFICES ASSUME Init PROVE StateInv /\ SlotInv
    OBVIOUS
<1>1. TypeOK
  <2>1. child \in BOOLEAN /\ disposing \in BOOLEAN
    BY Zenon DEF Init
  <2>2. waits \in [Calls -> 0..MaxWaits] /\ disposals \in 0..MaxDispose
    BY MaxDisposeAssumption, MaxWaitsAssumption DEF Init
  <2>3. QED
    BY <2>1, <2>2 DEF Init, TypeOK, Statuses, PCs
<1>2. FreshHasNotWaited /\ SlotHasOwner /\ QuietMeansIdle /\ SingleLiveRun
    BY NoRunAssumption
    DEF Init, FreshHasNotWaited, SlotHasOwner, QuietMeansIdle, SingleLiveRun,
        Undisposed,
        Registered, Active
<1>3. NoStrandedWaiter
    BY DEF Init, NoStrandedWaiter, Undisposed
<1>4. QED
    BY <1>1, <1>2, <1>3 DEF Init, StateInv, SlotInv

\* Every step keeps the type, and a call waits at most MaxWaits times: the
\* bounded retry of runLoop.
LEMMA TypeStep ==
    TypeOK /\ FreshHasNotWaited /\ [Next]_vars => TypeOK' /\ FreshHasNotWaited'
<1> SUFFICES ASSUME TypeOK, FreshHasNotWaited, [Next]_vars
             PROVE  TypeOK' /\ FreshHasNotWaited'
    OBVIOUS
<1> USE NoRunAssumption, MaxWaitsAssumption, MaxDisposeAssumption
        DEF TypeOK, FreshHasNotWaited, Statuses, PCs
<1>1. ASSUME NEW c \in Calls, Decide(c)
      PROVE  TypeOK' /\ FreshHasNotWaited'
    BY <1>1 DEF Decide, disposeVars
<1>2. ASSUME NEW c \in Calls, EnterSlot(c)
      PROVE  TypeOK' /\ FreshHasNotWaited'
    BY <1>2 DEF EnterSlot, StartRun, TakeSlot, Registered, disposeVars
<1>3. ASSUME NEW c \in Calls, EnterWait(c)
      PROVE  TypeOK' /\ FreshHasNotWaited'
    BY <1>3 DEF EnterWait, JoinWaiters, Registered, disposeVars
<1>4. ASSUME NEW c \in Calls, RetrySlot(c)
      PROVE  TypeOK' /\ FreshHasNotWaited'
    BY <1>4 DEF RetrySlot, StartRun, TakeSlot, Registered, disposeVars
<1>5. ASSUME NEW c \in Calls, RetryWait(c)
      PROVE  TypeOK' /\ FreshHasNotWaited'
    BY <1>5 DEF RetryWait, JoinWaiters, Registered, disposeVars
<1>6. ASSUME NEW c \in Calls, ForceReplace(c)
      PROVE  TypeOK' /\ FreshHasNotWaited'
    BY <1>6 DEF ForceReplace, StartRun, TakeSlot, Registered, disposeVars
<1>7. ASSUME NEW c \in Calls, Shell(c)
      PROVE  TypeOK' /\ FreshHasNotWaited'
    BY <1>7 DEF Shell, StartRun, TakeSlot, Registered, disposeVars
<1>8. ASSUME NEW c \in Calls, LoopTop(c)
      PROVE  TypeOK' /\ FreshHasNotWaited'
    BY <1>8 DEF LoopTop, disposeVars
<1>9. ASSUME NEW c \in Calls, ProcessorStatus(c)
      PROVE  TypeOK' /\ FreshHasNotWaited'
    BY <1>9 DEF ProcessorStatus, callVars, disposeVars
<1>10. ASSUME NEW c \in Calls, BreakLoop(c)
       PROVE  TypeOK' /\ FreshHasNotWaited'
    BY <1>10 DEF BreakLoop, disposeVars
<1>11. ASSUME NEW c \in Calls, EndRun(c)
       PROVE  TypeOK' /\ FreshHasNotWaited'
    BY <1>11 DEF EndRun, Finish, FinishSlot, FinishStatus, Released, Active,
                 disposeVars
<1>12. ASSUME NEW c \in Calls, AttachChild(c)
       PROVE  TypeOK' /\ FreshHasNotWaited'
    BY <1>12 DEF AttachChild, callVars, disposeVars
<1>13. CASE Cancel
    BY <1>13 DEF Cancel, Registered, callVars, disposeVars
<1>14. CASE DetachChild
    BY <1>14 DEF DetachChild, Registered, callVars, disposeVars
<1>15. CASE DisposeAbort
    BY <1>15 DEF DisposeAbort, Registered, callVars
<1>16. CASE DisposeClear
    BY <1>16 DEF DisposeClear, callVars
<1>17. CASE UNCHANGED vars
    BY <1>17 DEF vars
<1>18. QED
    BY <1>1, <1>2, <1>3, <1>4, <1>5, <1>6, <1>7, <1>8, <1>9, <1>10, <1>11,
       <1>12, <1>13, <1>14, <1>15, <1>16, <1>17 DEF Next, CallNext

\* The registered entry keeps an owner that will call finish(), and the last
\* run to end leaves the session idle: finish() skips the status only when a
\* newer run, hence a live owner, is there to reset it.
LEMMA OwnerStep ==
    StateInv /\ [Next]_vars => SlotHasOwner' /\ QuietMeansIdle'
<1> SUFFICES ASSUME StateInv, [Next]_vars
             PROVE  SlotHasOwner' /\ QuietMeansIdle'
    OBVIOUS
<1> USE NoRunAssumption
        DEF StateInv, TypeOK, SlotHasOwner, QuietMeansIdle, Registered, Active
<1>1. ASSUME NEW c \in Calls, Decide(c)
      PROVE  SlotHasOwner' /\ QuietMeansIdle'
    BY <1>1 DEF Decide, disposeVars
<1>2. ASSUME NEW c \in Calls, EnterSlot(c)
      PROVE  SlotHasOwner' /\ QuietMeansIdle'
    BY <1>2 DEF EnterSlot, StartRun, TakeSlot, disposeVars
<1>3. ASSUME NEW c \in Calls, EnterWait(c)
      PROVE  SlotHasOwner' /\ QuietMeansIdle'
    BY <1>3 DEF EnterWait, JoinWaiters, disposeVars
<1>4. ASSUME NEW c \in Calls, RetrySlot(c)
      PROVE  SlotHasOwner' /\ QuietMeansIdle'
    BY <1>4 DEF RetrySlot, StartRun, TakeSlot, disposeVars
<1>5. ASSUME NEW c \in Calls, RetryWait(c)
      PROVE  SlotHasOwner' /\ QuietMeansIdle'
    BY <1>5 DEF RetryWait, JoinWaiters, disposeVars
<1>6. ASSUME NEW c \in Calls, ForceReplace(c)
      PROVE  SlotHasOwner' /\ QuietMeansIdle'
    BY <1>6 DEF ForceReplace, StartRun, TakeSlot, disposeVars
<1>7. ASSUME NEW c \in Calls, Shell(c)
      PROVE  SlotHasOwner' /\ QuietMeansIdle'
    BY <1>7 DEF Shell, StartRun, TakeSlot, disposeVars
<1>8. ASSUME NEW c \in Calls, LoopTop(c)
      PROVE  SlotHasOwner' /\ QuietMeansIdle'
    BY <1>8 DEF LoopTop, disposeVars
<1>9. ASSUME NEW c \in Calls, ProcessorStatus(c)
      PROVE  SlotHasOwner' /\ QuietMeansIdle'
    BY <1>9 DEF ProcessorStatus, callVars, disposeVars
<1>10. ASSUME NEW c \in Calls, BreakLoop(c)
       PROVE  SlotHasOwner' /\ QuietMeansIdle'
    BY <1>10 DEF BreakLoop, disposeVars
<1>11. ASSUME NEW c \in Calls, EndRun(c)
       PROVE  SlotHasOwner' /\ QuietMeansIdle'
  <2>1. CASE slot = c
    BY <1>11, <2>1 DEF EndRun, Finish, FinishSlot, FinishStatus, Released,
                       disposeVars
  <2>2. CASE slot # c
    BY <1>11, <2>2 DEF EndRun, Finish, FinishSlot, FinishStatus, Released,
                       disposeVars
  <2>3. QED
    BY <2>1, <2>2
<1>12. ASSUME NEW c \in Calls, AttachChild(c)
       PROVE  SlotHasOwner' /\ QuietMeansIdle'
    BY <1>12 DEF AttachChild, callVars, disposeVars
<1>13. CASE Cancel
    BY <1>13 DEF Cancel, callVars, disposeVars
<1>14. CASE DetachChild
    BY <1>14 DEF DetachChild, callVars, disposeVars
<1>15. CASE DisposeAbort
    BY <1>15 DEF DisposeAbort, callVars
<1>16. CASE DisposeClear
    BY <1>16 DEF DisposeClear, callVars
<1>17. CASE UNCHANGED vars
    BY <1>17 DEF vars
<1>18. QED
    BY <1>1, <1>2, <1>3, <1>4, <1>5, <1>6, <1>7, <1>8, <1>9, <1>10, <1>11,
       <1>12, <1>13, <1>14, <1>15, <1>16, <1>17 DEF Next, CallNext

-----------------------------------------------------------------------------
\* THEOREM: types, the owner of the slot and the quiet status, for any number
\* of calls and of instance disposals.
THEOREM StateTheorem == Spec => []StateInv
<1>1. Init => StateInv
    BY InitInv
<1>2. StateInv /\ [Next]_vars => StateInv'
    BY TypeStep, OwnerStep DEF StateInv
<1>3. QED
    BY <1>1, <1>2, PTL DEF Spec

\* The type invariant of the slot model holds in every reachable state; in
\* particular no call waits more than MaxWaits times.
THEOREM TypeCorrect == Spec => []TypeOK
BY StateTheorem, PTL DEF StateInv

\* When every run has returned and no subagent is attached the session shows
\* idle, whatever was replaced, aborted or disposed on the way.
THEOREM QuietCorrect == Spec => []QuietMeansIdle
BY StateTheorem, PTL DEF StateInv

-----------------------------------------------------------------------------
\* Until the first disposal, a step keeps the slot exclusive and its waiters
\* reachable.
LEMMA SlotStep == StateInv /\ SlotInv /\ [Next]_vars => SlotInv'
<1> SUFFICES ASSUME StateInv, SlotInv, [Next]_vars PROVE SlotInv'
    OBVIOUS
<1> USE NoRunAssumption
        DEF StateInv, SlotInv, TypeOK, Undisposed, SingleLiveRun, SlotHasOwner,
            NoStrandedWaiter, Registered, Active
<1>1. ASSUME NEW c \in Calls, Decide(c) PROVE SlotInv'
    BY <1>1 DEF Decide, disposeVars
<1>2. ASSUME NEW c \in Calls, EnterSlot(c) PROVE SlotInv'
    BY <1>2 DEF EnterSlot, StartRun, TakeSlot, disposeVars
<1>3. ASSUME NEW c \in Calls, EnterWait(c) PROVE SlotInv'
    BY <1>3 DEF EnterWait, JoinWaiters, disposeVars
<1>4. ASSUME NEW c \in Calls, RetrySlot(c) PROVE SlotInv'
    BY <1>4 DEF RetrySlot, StartRun, TakeSlot, disposeVars
<1>5. ASSUME NEW c \in Calls, RetryWait(c) PROVE SlotInv'
    BY <1>5 DEF RetryWait, JoinWaiters, disposeVars
<1>6. ASSUME NEW c \in Calls, ForceReplace(c) PROVE SlotInv'
    BY <1>6 DEF ForceReplace, StartRun, TakeSlot, disposeVars
<1>7. ASSUME NEW c \in Calls, Shell(c) PROVE SlotInv'
    BY <1>7 DEF Shell, StartRun, TakeSlot, disposeVars
<1>8. ASSUME NEW c \in Calls, LoopTop(c) PROVE SlotInv'
    BY <1>8 DEF LoopTop, disposeVars
<1>9. ASSUME NEW c \in Calls, ProcessorStatus(c) PROVE SlotInv'
    BY <1>9 DEF ProcessorStatus, callVars, disposeVars
<1>10. ASSUME NEW c \in Calls, BreakLoop(c) PROVE SlotInv'
    BY <1>10 DEF BreakLoop, disposeVars
<1>11. ASSUME NEW c \in Calls, EndRun(c) PROVE SlotInv'
  <2>1. CASE slot = c
    BY <1>11, <2>1 DEF EndRun, Finish, FinishSlot, Released, disposeVars
  <2>2. CASE slot # c
    BY <1>11, <2>2 DEF EndRun, Finish, FinishSlot, Released, disposeVars
  <2>3. QED
    BY <2>1, <2>2
<1>12. ASSUME NEW c \in Calls, AttachChild(c) PROVE SlotInv'
    BY <1>12 DEF AttachChild, callVars, disposeVars
<1>13. CASE Cancel
    BY <1>13 DEF Cancel, callVars, disposeVars
<1>14. CASE DetachChild
    BY <1>14 DEF DetachChild, callVars, disposeVars
<1>15. CASE DisposeAbort
    BY <1>15 DEF DisposeAbort
<1>16. CASE DisposeClear
    BY <1>16 DEF DisposeClear
<1>17. CASE UNCHANGED vars
    BY <1>17 DEF vars
<1>18. QED
    BY <1>1, <1>2, <1>3, <1>4, <1>5, <1>6, <1>7, <1>8, <1>9, <1>10, <1>11,
       <1>12, <1>13, <1>14, <1>15, <1>16, <1>17 DEF Next, CallNext

\* THEOREM: until the instance is disposed, at most one un-aborted run
\* exists and it is the registered one, however many prompts collide.
THEOREM SingleLiveRunCorrect == Spec => []SingleLiveRun
<1>1. Init => StateInv /\ SlotInv
    BY InitInv
<1>2. StateInv /\ SlotInv /\ [Next]_vars => (StateInv /\ SlotInv)'
    BY TypeStep, OwnerStep, SlotStep DEF StateInv
<1>3. StateInv /\ SlotInv => SingleLiveRun
    BY DEF SlotInv
<1>4. QED
    BY <1>1, <1>2, <1>3, PTL DEF Spec

\* THEOREM: until the instance is disposed, every caller blocked in
\* waitForSlot is in the slotWaiters of an entry whose owner has yet to finish.
THEOREM NoStrandedWaiterCorrect == Spec => [](NoStrandedWaiter /\ SlotHasOwner)
<1>1. Init => StateInv /\ SlotInv
    BY InitInv
<1>2. StateInv /\ SlotInv /\ [Next]_vars => (StateInv /\ SlotInv)'
    BY TypeStep, OwnerStep, SlotStep DEF StateInv
<1>3. StateInv /\ SlotInv => NoStrandedWaiter /\ SlotHasOwner
    BY DEF SlotInv, StateInv
<1>4. QED
    BY <1>1, <1>2, <1>3, PTL DEF Spec

\* THEOREM: until the instance is disposed, the slot changes hands only
\* by its owner's finish() or by a replace that aborts the owner.
THEOREM SlotHandoverCorrect == Spec => SlotHandover
<1>1. Init => StateInv /\ SlotInv
    BY InitInv
<1>2. StateInv /\ SlotInv /\ [Next]_vars => (StateInv /\ SlotInv)'
    BY TypeStep, OwnerStep, SlotStep DEF StateInv
<1>3. StateInv /\ SlotInv /\ [Next]_vars => [SlotHandoverStep]_vars
  <2> SUFFICES ASSUME StateInv, SlotInv, Next PROVE SlotHandoverStep
    OBVIOUS
  <2> USE NoRunAssumption DEF StateInv, SlotInv, TypeOK, Undisposed,
          SlotHandoverStep, Registered
  <2>1. ASSUME NEW c \in Calls, EnterSlot(c) \/ RetrySlot(c) \/ ForceReplace(c) \/ Shell(c)
        PROVE  SlotHandoverStep
    BY <2>1 DEF EnterSlot, RetrySlot, ForceReplace, Shell, StartRun, TakeSlot
  <2>2. ASSUME NEW c \in Calls, EndRun(c) PROVE SlotHandoverStep
    BY <2>2 DEF EndRun, Finish, FinishSlot
  <2>3. ASSUME NEW c \in Calls,
               \/ Decide(c) \/ EnterWait(c) \/ RetryWait(c) \/ LoopTop(c)
               \/ ProcessorStatus(c) \/ BreakLoop(c) \/ AttachChild(c)
        PROVE  SlotHandoverStep
    BY <2>3 DEF Decide, EnterWait, RetryWait, JoinWaiters, LoopTop,
                ProcessorStatus, BreakLoop, AttachChild
  <2>4. CASE Cancel \/ DetachChild \/ DisposeAbort
    BY <2>4 DEF Cancel, DetachChild, DisposeAbort
  <2>5. CASE DisposeClear
    BY <2>5 DEF DisposeClear
  <2>6. QED
    BY <2>1, <2>2, <2>3, <2>4, <2>5 DEF Next, CallNext
<1>4. QED
    BY <1>1, <1>2, <1>3, PTL DEF Spec, SlotHandover
=============================================================================
