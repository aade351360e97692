------------------------- MODULE NoticeResume_proofs -------------------------
(***************************************************************************)
(* A notice of a finished subagent leaves its list only for a prompt, for   *)
(* every set of jobs, of deliveries and of failures; and no job wakes its   *)
(* parent twice as long as the ledger has room for all of them.  At the end *)
(* the registry of running tasks, from which a restarted daemon reports     *)
(* them.                                                                    *)
(***************************************************************************)
EXTENDS NoticeResume, TaskRegistry, FiniteSetTheorems, SequenceTheorems, TLAPS

\* The typing the argument needs: what the drain removes, and how far the subscribers are.
NoticeTypes ==
  /\ notices \subseteq Jobs
  /\ handler \in [Events -> {"idle", "claim", "coalesce", "message", "enqueue", "nudge", "done"}]

NInv == NoticeTypes /\ NoticeNeverLost

\* Nothing has been delivered yet.
LEMMA InitNInv == Init => NInv
<1> SUFFICES ASSUME Init PROVE NInv
  OBVIOUS
<1>1. handler = [e \in Events |-> "idle"] /\ notices = {}
  BY DEF Init
<1>2. \A j \in Jobs : ~Appended(j)
  BY <1>1 DEF Appended
<1>3. NoticeTypes
  BY <1>1 DEF NoticeTypes
<1> QED BY <1>2, <1>3 DEF NInv, NoticeNeverLost

\* A subscriber's step never takes a notice off the list.
LEMMA HandlerKeepsNotices ==
  ASSUME NInv, NEW e \in Events, HandlerStep(e) \/ EnqueueThrows(e)
  PROVE  NInv'
<1> USE DEF NInv, NoticeTypes, NoticeNeverLost, Appended, Carried, loopVars, shared
<1>1. CASE Append_(e)
  <2>1. e[1] \in Jobs
    BY RefiredAssumption DEF Events
  <2>2. NoticeTypes'
    BY <1>1, <2>1 DEF Append_
  <2>3. \A j \in Jobs : Appended(j)' => Appended(j) \/ j = e[1]
    <3>1. handler' = [handler EXCEPT ![e] = "claim"]
      BY <1>1 DEF Append_
    <3>2. \A f \in Events : f # e => handler'[f] = handler[f]
      BY <3>1
    <3> QED BY <3>2
  <2> QED BY <1>1, <2>2, <2>3 DEF Append_
<1>2. CASE Claim(e)
  <2>1. \A f \in Events : handler'[f] = "idle" <=> handler[f] = "idle"
    BY <1>2 DEF Claim
  <2>2. NoticeTypes'
    BY <1>2 DEF Claim
  <2> QED BY <1>2, <2>1, <2>2 DEF Claim
<1>3. CASE Coalesce(e)
  <2>1. \A f \in Events : handler'[f] = "idle" <=> handler[f] = "idle"
    BY <1>3 DEF Coalesce
  <2>2. NoticeTypes'
    BY <1>3 DEF Coalesce
  <2> QED BY <1>3, <2>1, <2>2 DEF Coalesce
<1>4. CASE SyntheticMessage(e)
  <2>1. \A f \in Events : handler'[f] = "idle" <=> handler[f] = "idle"
    BY <1>4 DEF SyntheticMessage
  <2>2. NoticeTypes'
    BY <1>4 DEF SyntheticMessage
  <2> QED BY <1>4, <2>1, <2>2 DEF SyntheticMessage
<1>5. CASE EnqueueTask(e)
  <2>1. \A f \in Events : handler'[f] = "idle" <=> handler[f] = "idle"
    BY <1>5 DEF EnqueueTask
  <2>2. NoticeTypes'
    BY <1>5 DEF EnqueueTask
  <2> QED BY <1>5, <2>1, <2>2 DEF EnqueueTask
<1>6. CASE Nudge(e)
  <2>1. \A f \in Events : handler'[f] = "idle" <=> handler[f] = "idle"
    BY <1>6 DEF Nudge
  <2>2. NoticeTypes'
    BY <1>6 DEF Nudge
  <2> QED BY <1>6, <2>1, <2>2 DEF Nudge
<1>7. CASE EnqueueThrows(e)
  <2>1. \A f \in Events : handler'[f] = "idle" <=> handler[f] = "idle"
    BY <1>7 DEF EnqueueThrows
  <2>2. NoticeTypes'
    BY <1>7 DEF EnqueueThrows
  <2> QED BY <1>7, <2>1, <2>2 DEF EnqueueThrows
<1> QED BY <1>1, <1>2, <1>3, <1>4, <1>5, <1>6, <1>7 DEF HandlerStep

\* The drain removes exactly the notices that the turn's prompt carries from now on.
LEMMA DrainKeepsNotices == NInv /\ Drain => NInv'
<1> SUFFICES ASSUME NInv, Drain PROVE NInv'
  OBVIOUS
<1> USE DEF NInv, NoticeTypes
<1>1. handler' = handler
  BY DEF Drain, InLoop, outside
<1>2. NoticeTypes'
  BY <1>1 DEF Drain, Remaining
<1>3. ASSUME NEW j \in Jobs, Appended(j)' 
      PROVE  j \in notices' \cup Carried' \cup rendered' \cup dropped'
  <2>1. Appended(j)
    BY <1>1, <1>3 DEF Appended
  <2>2. CASE j \in snap
    BY <2>2 DEF Drain, Carried
  <2>3. CASE j \notin snap
    BY <2>1, <2>3 DEF Drain, Remaining, Carried, NoticeNeverLost
  <2> QED BY <2>2, <2>3
<1> QED BY <1>2, <1>3 DEF NoticeNeverLost

\* What a prompt carries is shown to the model when the stream starts, and dropped
\* when it does not.
LEMMA StreamKeepsNotices ==
  ASSUME NInv, StreamStart \/ StreamFails \/ LoopThrows
  PROVE  NInv'
<1>1. /\ UNCHANGED <<notices, handler>>
      /\ Carried \cup rendered \cup dropped \subseteq rendered' \cup dropped'
  BY DEF StreamStart, StreamFails, LoopThrows, Freed, InLoop, Carried, outside, shared
<1> QED BY <1>1 DEF NInv, NoticeTypes, NoticeNeverLost, Appended

\* No other step touches the list, the subscribers' progress or a prompt.
LEMMA OthersKeepNotices ==
  ASSUME NInv,
         \/ Prompt \/ StartRun \/ SupervisorStep \/ KillSwitch \/ \E abort \in BOOLEAN : Cancel(abort)
         \/ Snapshot \/ Collect \/ ReadMessages \/ CreateReply
         \/ ToolTurn \/ FinalTurn \/ Decide \/ Continue \/ Exit \/ UNCHANGED vars
  PROVE  NInv'
<1>1. UNCHANGED <<notices, rendered, dropped, handler>> /\ Carried' = Carried
  <2> USE DEF Carried, shared, outside, loopVars
  <2>1. CASE Prompt \/ StartRun \/ KillSwitch \/ \E abort \in BOOLEAN : Cancel(abort)
    BY <2>1 DEF Prompt, StartRun, Start, KillSwitch, Cancel
  <2>2. CASE SupervisorStep
    BY <2>2 DEF SupervisorStep, Tick, KilledResume, BackoffEnds, KillCleared, ResumeFails
  <2>3. CASE Snapshot \/ Collect \/ ReadMessages \/ CreateReply
    BY <2>3 DEF Snapshot, Collect, ReadMessages, CreateReply, InLoop
  <2>4. CASE ToolTurn \/ FinalTurn \/ Decide \/ Continue \/ Exit
    BY <2>4 DEF ToolTurn, FinalTurn, Decide, Continue, Exit, Freed, InLoop
  <2>5. CASE UNCHANGED vars
    BY <2>5 DEF vars
  <2> QED BY <2>1, <2>2, <2>3, <2>4, <2>5
<1> QED BY <1>1 DEF NInv, NoticeTypes, NoticeNeverLost, Appended

\* A notice leaves the parent's list only for the prompt of a turn, and only a turn
\* whose stream never starts takes it away unseen: pending-notice-appender.ts and the
\* drain in prompt.ts never lose one otherwise.
THEOREM NoticeNeverLostCorrect == Spec => []NoticeNeverLost
<1>1. NInv /\ [Next]_vars => NInv'
  BY HandlerKeepsNotices, DrainKeepsNotices, StreamKeepsNotices, OthersKeepNotices
  DEF Next, LoopStep, Mishap
<1>2. NInv => NoticeNeverLost
  BY DEF NInv
<1> QED BY <1>1, <1>2, InitNInv, PTL DEF Spec

-----------------------------------------------------------------------------
(* The ledger.  MAX_RESUMED_JOBIDS bounds it, and a job it has forgotten may  *)
(* wake the parent again: what follows is about sessions with no more jobs    *)
(* than that.                                                                 *)

LedgerHoldsAll == IsFiniteSet(Jobs) /\ LedgerCap \in Nat /\ Cardinality(Jobs) <= LedgerCap

\* A list of all elements of a finite set, each once.
LEMMA SetToSeqLists ==
  ASSUME NEW S, IsFiniteSet(S)
  PROVE  SetToSeq(S) \in Seq(S) /\ IsInjective(SetToSeq(S)) /\ ToSet(SetToSeq(S)) = S
<1> DEFINE n == Cardinality(S)
           f == SetToSeq(S)
<1>1. n \in Nat /\ ExistsBijection(1..n, S)
  BY FS_CardinalityType
<1>2. \E g \in [1..n -> S] : IsInjective(g)
  BY <1>1 DEF ExistsBijection, Bijection, Injection, IsInjective
<1>3. f \in [1..n -> S] /\ IsInjective(f)
  BY <1>2 DEF SetToSeq
<1>4. f \in Injection(1..n, S)
  BY <1>3 DEF Injection, IsInjective
<1>5. IsFiniteSet(1..n) /\ Cardinality(1..n) = n
  <2>1. 1 \in Int /\ n \in Int
    BY <1>1
  <2>2. IsFiniteSet(1..n) /\ Cardinality(1..n) = IF 1 > n THEN 0 ELSE n - 1 + 1
    BY <2>1, FS_Interval
  <2> QED BY <1>1, <2>2
<1>6. f \in Surjection(1..n, S)
  BY <1>4, <1>5, FS_Injection
<1>7. f \in Seq(S)
  BY <1>1, <1>3, SeqDef
<1> QED BY <1>3, <1>6, <1>7 DEF Surjection, ToSet

\* Two lists without repetitions that share no job.
LEMMA ConcatDistinct ==
  ASSUME NEW S, NEW s \in Seq(S), NEW t \in Seq(S), IsInjective(s), IsInjective(t),
         ToSet(s) \cap ToSet(t) = {}
  PROVE  /\ s \o t \in Seq(S)
         /\ IsInjective(s \o t)
         /\ ToSet(s \o t) = ToSet(s) \cup ToSet(t)
<1> DEFINE u == s \o t
<1>1. /\ u \in Seq(S)
      /\ Len(u) = Len(s) + Len(t)
      /\ \A i \in 1..Len(u) : u[i] = IF i <= Len(s) THEN s[i] ELSE t[i - Len(s)]
      /\ Len(s) \in Nat /\ Len(t) \in Nat
      /\ DOMAIN s = 1..Len(s) /\ DOMAIN t = 1..Len(t)
  OBVIOUS
<1>2. DOMAIN u = 1..Len(u)
  BY <1>1
<1> HIDE DEF u
<1>3. \A i \in 1..Len(u) : /\ i <= Len(s) => i \in 1..Len(s) /\ u[i] = s[i] /\ u[i] \in ToSet(s)
                           /\ i > Len(s) => /\ i - Len(s) \in 1..Len(t)
                                            /\ u[i] = t[i - Len(s)] /\ u[i] \in ToSet(t)
  <2> TAKE i \in 1..Len(u)
  <2>1. CASE i <= Len(s)
    BY <1>1, <2>1 DEF ToSet
  <2>2. CASE i > Len(s)
    <3>1. i - Len(s) \in 1..Len(t)
      BY <1>1, <2>2
    <3> QED
      BY <1>1, <2>2, <3>1 DEF ToSet
  <2> QED
    BY <1>1, <2>1, <2>2
<1>4. IsInjective(u)
  <2> SUFFICES ASSUME NEW i \in 1..Len(u), NEW k \in 1..Len(u), u[i] = u[k] PROVE i = k
    BY <1>2 DEF IsInjective
  <2>1. CASE i <= Len(s) /\ k <= Len(s)
    BY <1>1, <1>3, <2>1 DEF IsInjective
  <2>2. CASE i > Len(s) /\ k > Len(s)
    <3>1. i - Len(s) = k - Len(s)
      BY <1>1, <1>3, <2>2 DEF IsInjective
    <3> QED BY <1>1, <3>1
  <2>3. CASE (i <= Len(s) /\ k > Len(s)) \/ (i > Len(s) /\ k <= Len(s))
    BY <1>3, <2>3
  <2> QED BY <1>1, <2>1, <2>2, <2>3
<1>5. ToSet(u) = ToSet(s) \cup ToSet(t)
  <2>1. ASSUME NEW x \in ToSet(s) PROVE x \in ToSet(u)
    <3>1. PICK i \in 1..Len(s) : x = s[i]
      BY <1>1 DEF ToSet
    <3>2. i \in 1..Len(u) /\ u[i] = x
      BY <1>1, <3>1
    <3> QED BY <1>2, <3>2 DEF ToSet
  <2>2. ASSUME NEW x \in ToSet(t) PROVE x \in ToSet(u)
    <3>1. PICK i \in 1..Len(t) : x = t[i]
      BY <1>1 DEF ToSet
    <3>2. Len(s) + i \in 1..Len(u) /\ u[Len(s) + i] = x
      BY <1>1, <3>1
    <3> QED BY <1>2, <3>2 DEF ToSet
  <2>3. ASSUME NEW x \in ToSet(u) PROVE x \in ToSet(s) \cup ToSet(t)
    BY <1>1, <1>2, <1>3, <2>3 DEF ToSet
  <2> QED BY <2>1, <2>2, <2>3
<1> QED BY <1>1, <1>4, <1>5 DEF u

\* A list of jobs without repetitions is no longer than there are jobs.
LEMMA DistinctLen ==
  ASSUME NEW S, IsFiniteSet(S), NEW s \in Seq(S), IsInjective(s)
  PROVE  Len(s) <= Cardinality(S)
<1>1. Len(s) \in Nat /\ DOMAIN s = 1..Len(s) /\ s \in [1..Len(s) -> S]
  OBVIOUS
<1>2. s \in Injection(1..Len(s), S)
  BY <1>1 DEF Injection, IsInjective
<1>3. Cardinality(1..Len(s)) <= Cardinality(S)
  BY <1>2, FS_Injection
<1>4. Cardinality(1..Len(s)) = Len(s)
  <2>1. 1 \in Int /\ Len(s) \in Int
    BY <1>1
  <2>2. Cardinality(1..Len(s)) = IF 1 > Len(s) THEN 0 ELSE Len(s) - 1 + 1
    BY <2>1, FS_Interval
  <2> QED BY <1>1, <2>2
<1> QED BY <1>3, <1>4

LedgerOK(l) == l \in Seq(Jobs) /\ IsInjective(l)

\* A ledger with room for all jobs adds the claimed ones and forgets none.
LEMMA ClaimedAll ==
  ASSUME LedgerHoldsAll, LedgerOK(ledger), NEW js \in SUBSET Jobs
  PROVE  LedgerOK(Claimed(js)) /\ ToSet(Claimed(js)) = ToSet(ledger) \cup js
<1> DEFINE fresh == js \ ToSet(ledger)
           merged == ledger \o SetToSeq(fresh)
<1>1. IsFiniteSet(fresh) /\ fresh \subseteq Jobs
  BY FS_Subset DEF LedgerHoldsAll
<1>2. SetToSeq(fresh) \in Seq(fresh) /\ IsInjective(SetToSeq(fresh)) /\ ToSet(SetToSeq(fresh)) = fresh
  BY <1>1, SetToSeqLists
<1>3. SetToSeq(fresh) \in Seq(Jobs)
  BY <1>1, <1>2
<1>4. ledger \in Seq(Jobs) /\ IsInjective(ledger) /\ ToSet(ledger) \cap ToSet(SetToSeq(fresh)) = {}
  BY <1>2 DEF LedgerOK
<1>5. /\ merged \in Seq(Jobs) /\ IsInjective(merged)
      /\ ToSet(merged) = ToSet(ledger) \cup fresh
  <2> HIDE DEF fresh
  <2>1. /\ ledger \o SetToSeq(fresh) \in Seq(Jobs) /\ IsInjective(ledger \o SetToSeq(fresh))
        /\ ToSet(ledger \o SetToSeq(fresh)) = ToSet(ledger) \cup ToSet(SetToSeq(fresh))
    BY <1>2, <1>3, <1>4, ConcatDistinct
  <2> QED BY <1>2, <2>1
<1>6. Len(merged) <= LedgerCap
  <2> HIDE DEF merged
  <2>1. Len(merged) <= Cardinality(Jobs)
    BY <1>5, DistinctLen DEF LedgerHoldsAll
  <2>2. Cardinality(Jobs) \in Nat
    BY FS_CardinalityType DEF LedgerHoldsAll
  <2> QED BY <1>5, <2>1, <2>2 DEF LedgerHoldsAll
<1>7. Claimed(js) = SubSeq(merged, 0 + 1, Len(merged))
  <2>1. Claimed(js) = LET over == IF Len(merged) > LedgerCap THEN Len(merged) - LedgerCap ELSE 0
                      IN SubSeq(merged, over + 1, Len(merged))
    BY DEF Claimed
  <2>2. ~(Len(merged) > LedgerCap)
    <3> HIDE DEF merged
    <3>1. Len(merged) \in Nat /\ LedgerCap \in Nat
      BY <1>5 DEF LedgerHoldsAll
    <3> QED BY <1>6, <3>1
  <2> QED BY <2>1, <2>2
<1> HIDE DEF merged
<1>8. SubSeq(merged, 0 + 1, Len(merged)) = merged
  BY <1>5
<1> QED BY <1>5, <1>7, <1>8 DEF LedgerOK

-----------------------------------------------------------------------------
(* One wake per job.                                                         *)

\* Where a subscriber is between its claim and the continuation it queues.
Claiming == {"coalesce", "message", "enqueue"}

\* The ledger names every job that has woken the parent, or that one subscriber,
\* and only one, is about to wake it for.
WakeInv ==
  /\ handler \in [Events -> {"idle", "claim", "coalesce", "message", "enqueue", "nudge", "done"}]
  /\ wakes \in [Jobs -> {0, 1}]
  /\ notices \subseteq Jobs /\ snap \subseteq Jobs
  /\ LedgerOK(ledger)
  /\ \A j \in Jobs : wakes[j] = 1 => j \in ToSet(ledger)
  /\ \A e \in Events : handler[e] \in Claiming =>
       /\ e[1] \in ToSet(ledger) /\ wakes[e[1]] = 0
       /\ \A f \in Events : f[1] = e[1] /\ handler[f] \in Claiming => f = e

\* Every delivery is about a job.
LEMMA JobOfEvent == \A e \in Events : e[1] \in Jobs
  BY RefiredAssumption DEF Events

\* Nothing has been claimed yet.
LEMMA InitWakeInv == Init => WakeInv
<1> SUFFICES ASSUME Init PROVE WakeInv
  OBVIOUS
<1>1. LedgerOK(ledger)
  BY DEF Init, LedgerOK, IsInjective
<1> QED BY <1>1 DEF Init, WakeInv, Claiming

\* The claim is one Session.update: of two subscribers of a job the second finds
\* the ledger updated.
LEMMA ClaimKeepsWakes ==
  ASSUME LedgerHoldsAll, WakeInv, NEW e \in Events, Claim(e)
  PROVE  WakeInv'
<1>1. e[1] \in Jobs
  BY JobOfEvent
<1>2. UNCHANGED <<notices, snap, wakes>>
  BY DEF Claim, loopVars
<1>3. CASE e[1] \in ToSet(ledger)
  <2>1. ledger' = ledger /\ handler' = [handler EXCEPT ![e] = "done"]
    BY <1>3 DEF Claim
  <2> QED BY <1>2, <2>1 DEF WakeInv, Claiming
<1>4. CASE e[1] \notin ToSet(ledger)
  <2>1. ledger' = Claimed({e[1]}) /\ handler' = [handler EXCEPT ![e] = "coalesce"]
    BY <1>4 DEF Claim
  <2>2. LedgerOK(ledger)' /\ ToSet(ledger') = ToSet(ledger) \cup {e[1]}
    BY <1>1, <2>1, ClaimedAll DEF WakeInv, LedgerOK
  <2>3. wakes[e[1]] = 0
    BY <1>1, <1>4 DEF WakeInv
  <2>4. \A f \in Events : f[1] = e[1] => handler[f] \notin Claiming
    BY <1>4 DEF WakeInv
  <2>5. \A f \in Events : f # e => handler'[f] = handler[f]
    BY <2>1 DEF WakeInv
  <2>6. ASSUME NEW f \in Events, handler'[f] \in Claiming
        PROVE  /\ f[1] \in ToSet(ledger') /\ wakes[f[1]] = 0
               /\ \A g \in Events : g[1] = f[1] /\ handler'[g] \in Claiming => g = f
    BY <2>2, <2>3, <2>4, <2>5, <2>6 DEF WakeInv
  <2>7. handler' \in [Events -> {"idle", "claim", "coalesce", "message", "enqueue", "nudge", "done"}]
    BY <2>1 DEF WakeInv
  <2> QED BY <1>2, <2>2, <2>6, <2>7 DEF WakeInv
<1> QED BY <1>3, <1>4

\* The other steps of a subscriber: it goes on, and wakes the parent at most once.
LEMMA HandlerKeepsWakes ==
  ASSUME LedgerHoldsAll, WakeInv, NEW e \in Events, HandlerStep(e) \/ EnqueueThrows(e)
  PROVE  WakeInv'
<1> USE DEF WakeInv, Claiming, loopVars, shared
<1>0. e[1] \in Jobs
  BY JobOfEvent
<1>1. CASE Append_(e)
  BY <1>0, <1>1 DEF Append_
<1>2. CASE Claim(e)
  BY <1>2, ClaimKeepsWakes
<1>3. CASE Coalesce(e)
  BY <1>3 DEF Coalesce
<1>4. CASE SyntheticMessage(e)
  BY <1>4 DEF SyntheticMessage
<1>5. CASE EnqueueTask(e)
  <2>1. /\ handler[e] = "enqueue" /\ handler' = [handler EXCEPT ![e] = "nudge"]
        /\ wakes' = [wakes EXCEPT ![e[1]] = @ + 1]
        /\ UNCHANGED <<notices, ledger, snap>>
    BY <1>5 DEF EnqueueTask
  <2>2. wakes[e[1]] = 0 /\ e[1] \in ToSet(ledger)
    BY <2>1
  <2>3. wakes' \in [Jobs -> {0, 1}] /\ wakes'[e[1]] = 1
    BY <1>0, <2>1, <2>2
  <2>4. \A j \in Jobs : j # e[1] => wakes'[j] = wakes[j]
    BY <2>1
  <2>5. \A f \in Events : f # e => handler'[f] = handler[f]
    BY <2>1
  <2>6. \A f \in Events : handler'[f] \in Claiming => handler[f] \in Claiming /\ f[1] # e[1]
    BY <2>1, <2>5
  <2>7. \A f \in Events : handler'[f] \in Claiming => wakes'[f[1]] = 0
    BY <2>4, <2>6, JobOfEvent
  <2> QED BY <2>1, <2>2, <2>3, <2>4, <2>6, <2>7
<1>6. CASE Nudge(e)
  BY <1>6 DEF Nudge
<1>7. CASE EnqueueThrows(e)
  BY <1>7 DEF EnqueueThrows
<1> QED BY <1>1, <1>2, <1>3, <1>4, <1>5, <1>6, <1>7 DEF HandlerStep

\* The drain adds to the ledger what it has rendered.
LEMMA DrainKeepsWakes ==
  ASSUME LedgerHoldsAll, WakeInv, Drain
  PROVE  WakeInv'
<1>1. UNCHANGED <<handler, wakes, snap>> /\ notices' \subseteq Jobs
  BY DEF Drain, InLoop, outside, WakeInv, Remaining
<1>2. LedgerOK(ledger)' /\ ToSet(ledger) \subseteq ToSet(ledger')
  <2>1. CASE snap = {}
    BY <2>1 DEF Drain, WakeInv, LedgerOK
  <2>2. CASE snap # {}
    <3>1. ledger' = Claimed(snap) /\ snap \in SUBSET Jobs /\ LedgerOK(ledger)
      BY <2>2 DEF Drain, WakeInv
    <3>2. LedgerOK(Claimed(snap)) /\ ToSet(Claimed(snap)) = ToSet(ledger) \cup snap
      BY <3>1, ClaimedAll
    <3> QED BY <3>1, <3>2 DEF LedgerOK
  <2> QED BY <2>1, <2>2
<1> QED BY <1>1, <1>2 DEF WakeInv

\* No other step touches the ledger, the subscribers or the count of wakes.
LEMMA OthersKeepWakes ==
  ASSUME WakeInv,
         \/ Prompt \/ StartRun \/ SupervisorStep \/ (LoopStep /\ ~Drain)
         \/ KillSwitch \/ LoopThrows \/ \E abort \in BOOLEAN : Cancel(abort)
         \/ UNCHANGED vars
  PROVE  WakeInv'
<1>1. UNCHANGED <<notices, ledger, handler, wakes>> /\ snap' \in {snap, notices, {}}
  <2> USE DEF shared, outside, loopVars
  <2>1. CASE Prompt \/ StartRun \/ KillSwitch \/ LoopThrows \/ \E abort \in BOOLEAN : Cancel(abort)
    BY <2>1 DEF Prompt, StartRun, Start, KillSwitch, LoopThrows, Freed, Cancel
  <2>2. CASE SupervisorStep
    BY <2>2 DEF SupervisorStep, Tick, KilledResume, BackoffEnds, KillCleared, ResumeFails
  <2>3. CASE LoopStep /\ ~Drain
    BY <2>3 DEF LoopStep, Snapshot, Collect, ReadMessages, CreateReply, StreamStart, StreamFails,
                ToolTurn, FinalTurn, Decide, Continue, Exit, Freed, InLoop
  <2>4. CASE UNCHANGED vars
    BY <2>4 DEF vars
  <2> QED BY <2>1, <2>2, <2>3, <2>4
<1> QED BY <1>1 DEF WakeInv, LedgerOK

\* However often task.completed is delivered for a job and however the subscribers,
\* the drain and the run loop interleave, one continuation at most is queued for it,
\* in a session with no more than MAX_RESUMED_JOBIDS jobs.
THEOREM OneWakePerJobCorrect == ASSUME LedgerHoldsAll PROVE Spec => []OneWakePerJob
<1>1. WakeInv /\ [Next]_vars => WakeInv'
  BY LedgerHoldsAll, HandlerKeepsWakes, DrainKeepsWakes, OthersKeepWakes DEF Next, Mishap
<1>2. WakeInv => OneWakePerJob
  BY DEF WakeInv, OneWakePerJob
<1> QED BY <1>1, <1>2, InitWakeInv, PTL DEF Spec

-----------------------------------------------------------------------------
(* The registry of running tasks (module TaskRegistry), for any sets of     *)
(* tasks and directories and any number of crashes and failures: it is      *)
(* exact between undisturbed accesses, no orphan is lost on its way from    *)
(* the file to its report but by the failure of its own report, and no task *)
(* is reported twice unless its entry outlives its report.                  *)

Stages == {"closed", "reading", "claimed", "reporting", "open"}
Op == [task : Tasks, kind : {"add", "remove"}, read : BOOLEAN, seen : SUBSET Tasks]

RegistryTypes ==
  /\ call \in [Tasks -> {"new", "running", "settling", "notified", "lost"}]
  /\ attended \subseteq Tasks /\ gaveUp \subseteq Tasks
  /\ registry \subseteq Tasks /\ owed \subseteq Tasks
  /\ amiss \subseteq Tasks /\ skipped \subseteq Tasks
  /\ ops \subseteq Op
  /\ instance \in [Instances -> [at : Stages, held : SUBSET Tasks]]
  /\ reports \in [Tasks -> Nat]

\* Only a bootstrap between its read and its last report has entries in hand.
HandsEmpty ==
  \A i \in Instances : instance[i].at \in {"closed", "reading", "open"} => instance[i].held = {}

\* Tasks and registry calls only exist in a daemon that serves requests.
LiveIsServed == ops # {} \/ attended # {} => Serving

\* What `clean` stands for: a recovery is alone, a registry call is alone ...
RecoveryAlone == clean /\ Opening # {} => attended = {} /\ ops = {}
OneOp == clean => \A a, b \in ops : a = b

Recovered == \E i \in Instances : instance[i].at \in {"reporting", "open"}

\* ... and then the registry lacks, or has too much, only the task of that call and
\* those whose entry is amiss.
UpToOneOp ==
  clean /\ Recovered /\ Opening = {} =>
    /\ ops = {} => registry \ amiss = attended \ amiss
    /\ \A op \in ops :
         /\ op.read => op.seen = registry
         /\ op.kind = "add" => attended \ amiss = (registry \cup {op.task}) \ amiss
         /\ op.kind = "remove" => attended \ amiss = registry \ (amiss \cup {op.task})

Taken == \E i \in Instances : instance[i].at \in {"claimed", "reporting", "open"}

\* The orphans are in the file until a bootstrap has taken them over.
OrphansTraced ==
  \A t \in owed : reports[t] > 0 \/ t \in skipped \/ (IF Taken THEN t \in Held ELSE t \in registry)

RegistryInv ==
  /\ RegistryTypes /\ HandsEmpty /\ LiveIsServed /\ RecoveryAlone /\ OneOp /\ UpToOneOp
  /\ OrphansTraced

-----------------------------------------------------------------------------
\* Types and the emptiness of hands follow from the shape of the steps.
LEMMA RegistryTypesStep == RegistryTypes /\ HandsEmpty /\ [RegistryNext]_registryVars => RegistryTypes' /\ HandsEmpty'
<1> SUFFICES ASSUME RegistryTypes, HandsEmpty, [RegistryNext]_registryVars PROVE RegistryTypes' /\ HandsEmpty'
  OBVIOUS
<1> USE DEF RegistryTypes, HandsEmpty, Stages
<1>0. ASSUME NEW t \in Tasks, NEW kind \in {"add", "remove"}
      PROVE [task |-> t, kind |-> kind, read |-> FALSE, seen |-> {}] \in Op
  BY Zenon DEF Op
<1>1. ASSUME NEW t \in Tasks, Dispatch(t) PROVE RegistryTypes' /\ HandsEmpty'
  BY <1>0, <1>1 DEF Dispatch, Begin
<1>2. ASSUME NEW t \in Tasks, Answered(t) PROVE RegistryTypes' /\ HandsEmpty'
  BY <1>0, <1>2 DEF Answered, Begin
<1>3. ASSUME NEW t \in Tasks, Outcome(t) PROVE RegistryTypes' /\ HandsEmpty'
  BY <1>3 DEF Outcome
<1>4. ASSUME NEW t \in Tasks, Notify(t) PROVE RegistryTypes' /\ HandsEmpty'
  BY <1>4 DEF Notify
<1>5. ASSUME NEW op \in ops, RegistryRead(op) PROVE RegistryTypes' /\ HandsEmpty'
  BY <1>5 DEF RegistryRead, callVars, Op
<1>6. ASSUME NEW op \in ops, RegistryWrite(op) PROVE RegistryTypes' /\ HandsEmpty'
  BY <1>6 DEF RegistryWrite, Written, callVars, Op
<1>7. ASSUME NEW i \in Instances, OpenInstance(i) PROVE RegistryTypes' /\ HandsEmpty'
  BY <1>7 DEF OpenInstance, callVars
<1>8. ASSUME NEW i \in Instances, RecoveryReads(i) PROVE RegistryTypes' /\ HandsEmpty'
  BY <1>8 DEF RecoveryReads, callVars
<1>9. ASSUME NEW i \in Instances, RecoveryUnlinks(i) PROVE RegistryTypes' /\ HandsEmpty'
  BY <1>9 DEF RecoveryUnlinks, callVars
<1>10. ASSUME NEW i \in Instances, NEW t \in Tasks, Refire(i, t) PROVE RegistryTypes' /\ HandsEmpty'
  BY <1>10 DEF Refire, TakesUp
<1>11. CASE Crash
  BY <1>11 DEF Crash, Closed, Op
<1>12. ASSUME NEW t \in Tasks, StreamThrows(t) PROVE RegistryTypes' /\ HandsEmpty'
  BY <1>12 DEF StreamThrows
<1>13. ASSUME NEW op \in ops, RegistryWriteFails(op) PROVE RegistryTypes' /\ HandsEmpty'
  BY <1>13 DEF RegistryWriteFails, callVars, Op
<1>14. ASSUME NEW i \in Instances, UnlinkFails(i) PROVE RegistryTypes' /\ HandsEmpty'
  BY <1>14 DEF UnlinkFails, callVars
<1>15. ASSUME NEW i \in Instances, NEW t \in Tasks, RefireFails(i, t) PROVE RegistryTypes' /\ HandsEmpty'
  BY <1>15 DEF RefireFails, TakesUp
<1>16. CASE UNCHANGED registryVars
  BY <1>16 DEF registryVars, callVars
<1> QED
  BY <1>1, <1>2, <1>3, <1>4, <1>5, <1>6, <1>7, <1>8, <1>9, <1>10, <1>11, <1>12, <1>13, <1>14, <1>15, <1>16
  DEF RegistryNext, RegistryStep, RecoveryStep
-----------------------------------------------------------------------------
\* Tasks and registry calls are only begun by a daemon that serves, and one that
\* serves goes on until the crash that ends them all.
LEMMA LiveIsServedStep == RegistryTypes /\ LiveIsServed /\ [RegistryNext]_registryVars => LiveIsServed'
<1> SUFFICES ASSUME RegistryTypes, LiveIsServed, [RegistryNext]_registryVars PROVE LiveIsServed'
  OBVIOUS
<1> USE DEF RegistryTypes, LiveIsServed, Serving
<1>1. ASSUME NEW t \in Tasks, Dispatch(t) PROVE LiveIsServed'
  BY <1>1 DEF Dispatch
<1>2. ASSUME NEW t \in Tasks, Answered(t) \/ StreamThrows(t) PROVE LiveIsServed'
  BY <1>2 DEF Answered, StreamThrows
<1>3. ASSUME NEW t \in Tasks, Outcome(t) \/ Notify(t) PROVE LiveIsServed'
  BY <1>3 DEF Outcome, Notify
<1>4. ASSUME NEW op \in ops, RegistryRead(op) \/ RegistryWrite(op) \/ RegistryWriteFails(op) PROVE LiveIsServed'
  BY <1>4 DEF RegistryRead, RegistryWrite, RegistryWriteFails, callVars
<1>5. ASSUME NEW i \in Instances, OpenInstance(i) PROVE LiveIsServed'
  BY <1>5 DEF OpenInstance, callVars
<1>6. ASSUME NEW i \in Instances, RecoveryReads(i) PROVE LiveIsServed'
  BY <1>6 DEF RecoveryReads, callVars
<1>7. ASSUME NEW i \in Instances, RecoveryUnlinks(i) \/ UnlinkFails(i) PROVE LiveIsServed'
  BY <1>7 DEF RecoveryUnlinks, UnlinkFails, callVars
<1>8. ASSUME NEW i \in Instances, NEW t \in Tasks, Refire(i, t) \/ RefireFails(i, t) PROVE LiveIsServed'
  BY <1>8 DEF Refire, RefireFails, TakesUp
<1>9. CASE Crash
  BY <1>9 DEF Crash
<1>10. CASE UNCHANGED registryVars
  BY <1>10 DEF registryVars, callVars
<1> QED
  BY <1>1, <1>2, <1>3, <1>4, <1>5, <1>6, <1>7, <1>8, <1>9, <1>10
  DEF RegistryNext, RegistryStep, RecoveryStep

-----------------------------------------------------------------------------
Alone == RecoveryAlone /\ OneOp /\ UpToOneOp

\* A registry call, or a recovery, that finds itself alone leaves the registry
\* as exact as it found it.
LEMMA AloneStep ==
  RegistryTypes /\ LiveIsServed /\ Alone /\ [RegistryNext]_registryVars => Alone'
<1> SUFFICES ASSUME RegistryTypes, LiveIsServed, Alone, [RegistryNext]_registryVars PROVE Alone'
  OBVIOUS
<1> USE DEF RegistryTypes, Alone, RecoveryAlone, OneOp, UpToOneOp, Opening, Recovered
<1>1. ASSUME NEW t \in Tasks, Dispatch(t) PROVE Alone'
  <2> DEFINE new == [task |-> t, kind |-> "add", read |-> FALSE, seen |-> {}]
  <2>1. ~new.read /\ new.kind = "add" /\ new.task = t
    BY Zenon
  <2>2. ops' = ops \cup {new} /\ clean' = (clean /\ ops = {} /\ Opening = {})
    BY <1>1, Zenon DEF Dispatch, Begin
  <2> HIDE DEF new
  <2>3. attended' = attended \cup {t} /\ registry' = registry /\ instance' = instance /\ amiss' = amiss /\ Recovered
    BY <1>1 DEF Dispatch, Serving
  <2> QED
    BY <2>1, <2>2, <2>3
<1>2. ASSUME NEW t \in Tasks, Answered(t) PROVE Alone'
  <2> DEFINE new == [task |-> t, kind |-> "remove", read |-> FALSE, seen |-> {}]
  <2>1. ~new.read /\ new.kind = "remove" /\ new.task = t
    BY Zenon
  <2>2. ops' = ops \cup {new} /\ clean' = (clean /\ ops = {} /\ Opening = {})
    BY <1>2, Zenon DEF Answered, Begin
  <2> HIDE DEF new
  <2>3. attended' = attended \ {t} /\ registry' = registry /\ instance' = instance /\ amiss' = amiss /\ Recovered
    BY <1>2 DEF Answered, LiveIsServed, Serving
  <2> QED
    BY <2>1, <2>2, <2>3
<1>3. ASSUME NEW t \in Tasks, Outcome(t) \/ Notify(t) PROVE Alone'
  BY <1>3 DEF Outcome, Notify
<1>4. ASSUME NEW op \in ops, RegistryRead(op) PROVE Alone'
  <2> DEFINE new == [op EXCEPT !.read = TRUE, !.seen = registry]
  <2>1. new.seen = registry /\ new.kind = op.kind /\ new.task = op.task
    BY DEF Op
  <2>2. /\ ops' = (ops \ {op}) \cup (IF op.kind = "remove" /\ op.task \notin registry THEN {} ELSE {new})
        /\ clean' = (clean /\ Opening = {})
        /\ attended' = attended /\ registry' = registry /\ instance' = instance /\ amiss' = amiss
    BY <1>4, Zenon DEF RegistryRead, callVars
  <2> HIDE DEF new
  <2>3. CASE ~clean'
    BY <2>3
  <2>4. CASE clean'
    <3>1. clean /\ Opening = {}
      BY <2>2, <2>4, Zenon
    <3>2. Opening' = {}
      BY <2>2, <3>1
    <3>3. \A a \in ops : a = op
      BY <3>1, Zenon
    <3>4. CASE op.kind = "remove" /\ op.task \notin registry
      <4>1. ops' = {}
        BY <2>2, <3>3, <3>4
      <4>2. ASSUME Recovered PROVE registry \ amiss = attended \ amiss
        <5>1. attended \ amiss = registry \ (amiss \cup {op.task})
          BY <3>1, <3>4, <4>2, Zenon
        <5> QED
          BY <3>4, <5>1
      <4> QED
        BY <2>2, <3>2, <4>1, <4>2
    <3>5. CASE ~(op.kind = "remove" /\ op.task \notin registry)
      <4>1. ops' = {new}
        BY <2>2, <3>3, <3>5
      <4> QED
        BY <2>1, <2>2, <3>1, <3>2, <4>1
    <3> QED
      BY <3>4, <3>5
  <2> QED
    BY <2>3, <2>4
<1>5. ASSUME NEW op \in ops, RegistryWrite(op) PROVE Alone'
  BY <1>5 DEF RegistryWrite, Written, callVars, Op
<1>6. ASSUME NEW i \in Instances, OpenInstance(i) PROVE Alone'
  BY <1>6 DEF OpenInstance, callVars
<1>7. ASSUME NEW i \in Instances, RecoveryReads(i) PROVE Alone'
  BY <1>7 DEF RecoveryReads, callVars
<1>8. ASSUME NEW i \in Instances, RecoveryUnlinks(i) PROVE Alone'
  BY <1>8 DEF RecoveryUnlinks, callVars
<1>9. ASSUME NEW i \in Instances, NEW t \in Tasks, Refire(i, t) \/ RefireFails(i, t) PROVE Alone'
  BY <1>9 DEF Refire, RefireFails, TakesUp
<1>10. CASE Crash
  BY <1>10 DEF Crash, Closed
<1>11. CASE UNCHANGED registryVars
  BY <1>11 DEF registryVars, callVars
<1>12. ASSUME NEW t \in Tasks, StreamThrows(t) PROVE Alone'
  BY <1>12 DEF StreamThrows
<1>13. ASSUME NEW op \in ops, RegistryWriteFails(op) PROVE Alone'
  BY <1>13 DEF RegistryWriteFails, callVars, Op
<1>14. ASSUME NEW i \in Instances, UnlinkFails(i) PROVE Alone'
  BY <1>14 DEF UnlinkFails, callVars
<1> QED
  BY <1>1, <1>2, <1>3, <1>4, <1>5, <1>6, <1>7, <1>8, <1>9, <1>10, <1>11, <1>12, <1>13, <1>14
  DEF RegistryNext, RegistryStep, RecoveryStep
-----------------------------------------------------------------------------
\* An orphan leaves the file for the hands of a bootstrap, and those for a report, or
\* for the list of those whose report threw.
LEMMA OrphansTracedStep == RegistryInv /\ [RegistryNext]_registryVars => OrphansTraced'
<1> SUFFICES ASSUME RegistryInv, [RegistryNext]_registryVars PROVE OrphansTraced'
  OBVIOUS
<1> USE DEF RegistryInv, RegistryTypes, OrphansTraced, Taken, Held
<1>1. ASSUME NEW t \in Tasks, Dispatch(t) \/ Answered(t) \/ StreamThrows(t) \/ Outcome(t) PROVE OrphansTraced'
  BY <1>1 DEF Dispatch, Answered, StreamThrows, Outcome
<1>2. ASSUME NEW t \in Tasks, Notify(t) PROVE OrphansTraced'
  BY <1>2 DEF Notify
<1>3. ASSUME NEW op \in ops, RegistryRead(op) \/ RegistryWrite(op) \/ RegistryWriteFails(op) PROVE OrphansTraced'
  BY <1>3 DEF RegistryRead, RegistryWrite, RegistryWriteFails, callVars, LiveIsServed, Serving
<1>4. ASSUME NEW i \in Instances, OpenInstance(i) PROVE OrphansTraced'
  BY <1>4 DEF OpenInstance, callVars
<1>5. ASSUME NEW i \in Instances, RecoveryReads(i) PROVE OrphansTraced'
  BY <1>5 DEF RecoveryReads, callVars, HandsEmpty
<1>6. ASSUME NEW i \in Instances, RecoveryUnlinks(i) \/ UnlinkFails(i) PROVE OrphansTraced'
  <2>1. /\ instance[i].at = "claimed" /\ instance' = [instance EXCEPT ![i].at = "reporting"]
        /\ UNCHANGED <<owed, reports, skipped>>
    BY <1>6 DEF RecoveryUnlinks, UnlinkFails, callVars
  <2>2. Taken /\ Taken' /\ Held' = Held
    BY <2>1
  <2> QED
    BY <2>1, <2>2
<1>7. ASSUME NEW i \in Instances, NEW t \in Tasks, Refire(i, t) \/ RefireFails(i, t) PROVE OrphansTraced'
  BY <1>7 DEF Refire, RefireFails, TakesUp
<1>8. CASE Crash
  <2>1. ~Taken'
    BY <1>8 DEF Crash, Closed
  <2>2. ASSUME NEW t \in owed' PROVE t \in registry'
    <3> SUFFICES ASSUME t \notin registry' PROVE FALSE
      OBVIOUS
    <3>1. clean /\ ops = {} /\ t \in attended /\ t \notin amiss
      BY <1>8, <2>2 DEF Crash
    <3>2. registry' = registry
      BY <1>8, <3>1 DEF Crash
    <3>3. Opening = {} /\ Recovered
      BY <3>1 DEF RecoveryAlone, LiveIsServed, Serving, Recovered
    <3> QED
      BY <3>1, <3>2, <3>3 DEF UpToOneOp
  <2> QED
    BY <2>1, <2>2
<1>9. CASE UNCHANGED registryVars
  BY <1>9 DEF registryVars, callVars
<1> QED
  BY <1>1, <1>2, <1>3, <1>4, <1>5, <1>6, <1>7, <1>8, <1>9
  DEF RegistryNext, RegistryStep, RecoveryStep

\* The inductive invariant: every step keeps it ...
LEMMA RegistryInvStep == RegistryInv /\ [RegistryNext]_registryVars => RegistryInv'
  BY RegistryTypesStep, LiveIsServedStep, AloneStep, OrphansTracedStep DEF RegistryInv, Alone

\* ... and the daemon starts in it.
LEMMA RegistryInvInit == RegistryInit => RegistryInv
  BY DEF RegistryInit, RegistryInv, RegistryTypes, HandsEmpty, LiveIsServed, RecoveryAlone, OneOp, UpToOneOp, OrphansTraced,
         Opening, Recovered, Stages, Closed

-----------------------------------------------------------------------------
\* For any tasks, directories and crashes the calls, the file and the bootstraps
\* of tool/task.ts have the values the code gives them.
THEOREM RegistryTypeCorrect == RegistrySpec => []TypeOK
<1>1. RegistryInv => TypeOK
  BY DEF RegistryInv, RegistryTypes, HandsEmpty, Stages, TypeOK
<1> QED
  BY <1>1, RegistryInvInit, RegistryInvStep, PTL DEF RegistrySpec

\* For any tasks, directories, crashes and failures, running-tasks.json lists exactly
\* the tasks whose answer is awaited, as long as no two accesses have overlapped and
\* no recovery has run beside live tasks; what fails touches its own entries only.
THEOREM RegistryExactCorrect == RegistrySpec => []RegistryExact
<1>1. RegistryInv => RegistryExact
  BY DEF RegistryInv, UpToOneOp, Recovered, RegistryExact, Serving
<1> QED
  BY <1>1, RegistryInvInit, RegistryInvStep, PTL DEF RegistrySpec

\* For any tasks, directories, crashes and failures, a task listed and attended to when
\* the daemon died is in the file, in the hands of recoverOrphanTasks, reported, or
\* dropped because its own report threw.
THEOREM OrphanAccountedForCorrect == RegistrySpec => []OrphanAccountedFor
<1>1. RegistryInv => OrphanAccountedFor
  BY DEF RegistryInv, OrphansTraced, OrphanAccountedFor
<1> QED
  BY <1>1, RegistryInvInit, RegistryInvStep, PTL DEF RegistrySpec
-----------------------------------------------------------------------------
\* What ReportedOnce rests on.  A task that was answered before its call was over
\* is attended to no more ...
Answer ==
  /\ \A t \in attended : call[t] \in {"running", "settling", "notified"}
  /\ \A t \in attended \ gaveUp : call[t] = "running"

\* ... only one bootstrap has a task in hand, and one that begins later finds none but
\* entries that are amiss ...
OneRecovery ==
  clean =>
    /\ \A i, j \in Opening : i = j
    /\ \A i, j \in Instances : instance[i].held \cap instance[j].held \subseteq amiss \/ i = j
    /\ Recovered /\ Opening # {} => registry \subseteq amiss

\* ... and what a crash or a bootstrap leaves to be reported has not been so far.
Orderly(t) ==
  /\ reports[t] <= 1
  /\ call[t] \in {"new", "running", "settling"} => reports[t] = 0
  /\ \A i \in Instances : t \in instance[i].held => call[t] = "lost" /\ reports[t] = 0
  /\ t \in registry /\ ~Recovered => call[t] = "lost" /\ reports[t] = 0

Unreported == clean => \A t \in Tasks : t \notin gaveUp /\ t \notin amiss => Orderly(t)

\* A task leaves `attended` before, or with a watchdog's mark after, its answer.
LEMMA AnswerStep == RegistryTypes /\ Answer /\ [RegistryNext]_registryVars => Answer'
<1> SUFFICES ASSUME RegistryTypes, Answer, [RegistryNext]_registryVars PROVE Answer'
  OBVIOUS
<1> USE DEF RegistryTypes, Answer
<1>1. ASSUME NEW t \in Tasks, Dispatch(t) PROVE Answer'
  BY <1>1 DEF Dispatch
<1>2. ASSUME NEW t \in Tasks, Answered(t) \/ StreamThrows(t) PROVE Answer'
  BY <1>2 DEF Answered, StreamThrows
<1>3. ASSUME NEW t \in Tasks, Outcome(t) PROVE Answer'
  BY <1>3 DEF Outcome
<1>4. ASSUME NEW t \in Tasks, Notify(t) PROVE Answer'
  BY <1>4 DEF Notify
<1>5. CASE Crash
  BY <1>5 DEF Crash
<1>6. CASE UNCHANGED <<call, attended, gaveUp>>
  BY <1>6
<1>7. RegistryStep \/ (\E i \in Instances : OpenInstance(i) \/ RecoveryStep(i)) \/ UNCHANGED registryVars
        => UNCHANGED <<call, attended, gaveUp>>
  BY DEF RegistryStep, RegistryRead, RegistryWrite, RegistryWriteFails, OpenInstance, RecoveryStep, RecoveryReads,
         RecoveryUnlinks, UnlinkFails, Refire, RefireFails, TakesUp, callVars, registryVars
<1> QED
  BY <1>1, <1>2, <1>3, <1>4, <1>5, <1>6, <1>7 DEF RegistryNext

\* A second bootstrap begins, cleanly, only when no task is attended to; the
\* registry is then empty.
LEMMA OneRecoveryStep == RegistryInv /\ OneRecovery /\ [RegistryNext]_registryVars => OneRecovery'
<1> SUFFICES ASSUME RegistryInv, OneRecovery, [RegistryNext]_registryVars PROVE OneRecovery'
  OBVIOUS
<1> USE DEF RegistryInv, RegistryTypes, HandsEmpty, OneRecovery, Opening, Recovered
<1>1. ASSUME NEW t \in Tasks, Dispatch(t) \/ Answered(t) PROVE OneRecovery'
  BY <1>1 DEF Dispatch, Answered, Begin
<1>2. ASSUME NEW t \in Tasks, StreamThrows(t) \/ Outcome(t) \/ Notify(t) PROVE OneRecovery'
  BY <1>2 DEF StreamThrows, Outcome, Notify
<1>3. ASSUME NEW op \in ops, RegistryRead(op) \/ RegistryWrite(op) \/ RegistryWriteFails(op) PROVE OneRecovery'
  BY <1>3 DEF RegistryRead, RegistryWrite, RegistryWriteFails
<1>4. ASSUME NEW i \in Instances, OpenInstance(i) PROVE OneRecovery'
  <2> SUFFICES ASSUME clean' PROVE OneRecovery'
    BY Zenon DEF OneRecovery
  <2>1. clean /\ attended = {} /\ ops = {} /\ Opening = {}
    BY <1>4, Zenon DEF OpenInstance
  <2>2. /\ instance' = [instance EXCEPT ![i].at = "reading"] /\ registry' = registry
        /\ instance[i].at = "closed" /\ amiss' = amiss
    BY <1>4 DEF OpenInstance
  <2>3. Opening' = {i}
    BY <2>1, <2>2
  <2>4. Recovered' => Recovered
    BY <2>2
  <2>5. Recovered => registry \subseteq amiss
    BY <2>1 DEF UpToOneOp
  <2>6. \A j \in Instances : instance'[j].held = instance[j].held
    BY <2>2
  <2>7. \A j, k \in Instances : instance'[j].held \cap instance'[k].held \subseteq amiss \/ j = k
    BY <2>1, <2>6
  <2>8. \A j, k \in Opening' : j = k
    BY <2>3
  <2> QED
    BY <2>2, <2>4, <2>5, <2>7, <2>8
<1>5. ASSUME NEW i \in Instances, RecoveryReads(i) PROVE OneRecovery'
  BY <1>5 DEF RecoveryReads, Stages
<1>6. ASSUME NEW i \in Instances, RecoveryUnlinks(i) \/ UnlinkFails(i) PROVE OneRecovery'
  <2>1. /\ instance[i].at = "claimed" /\ instance' = [instance EXCEPT ![i].at = "reporting"]
        /\ clean' = clean /\ amiss \subseteq amiss' /\ (registry' = {} \/ registry' \subseteq amiss')
    BY <1>6 DEF RecoveryUnlinks, UnlinkFails
  <2>2. Opening' = Opening \ {i} /\ \A j \in Instances : instance'[j].held = instance[j].held
    BY <2>1
  <2> QED
    BY <2>1, <2>2
<1>7. ASSUME NEW i \in Instances, NEW t \in Tasks, Refire(i, t) \/ RefireFails(i, t) PROVE OneRecovery'
  <2>1. /\ instance[i].at = "reporting"
        /\ instance' = [instance EXCEPT ![i] =
             [at |-> IF @.held = {t} THEN "open" ELSE "reporting", held |-> @.held \ {t}]]
        /\ clean' = clean /\ amiss' = amiss /\ registry' = registry
    BY <1>7 DEF Refire, RefireFails, TakesUp
  <2>2. Opening' = Opening /\ Recovered
    BY <2>1
  <2>3. \A j \in Instances : instance'[j].held \subseteq instance[j].held
    BY <2>1
  <2> QED
    BY <2>1, <2>2, <2>3
<1>8. CASE Crash
  BY <1>8 DEF Crash, Closed
<1>9. CASE UNCHANGED registryVars
  BY <1>9 DEF registryVars, callVars
<1> QED
  BY <1>1, <1>2, <1>3, <1>4, <1>5, <1>6, <1>7, <1>8, <1>9
  DEF RegistryNext, RegistryStep, RecoveryStep

\* A crash turns the entries of unanswered tasks, and of no others, into orphans.
LEMMA UnreportedStep ==
  RegistryInv /\ Answer /\ OneRecovery /\ Unreported /\ [RegistryNext]_registryVars => Unreported'
<1> SUFFICES ASSUME RegistryInv, Answer, OneRecovery, Unreported, [RegistryNext]_registryVars,
                    clean', NEW t \in Tasks, t \notin gaveUp', t \notin amiss'
             PROVE  Orderly(t)'
  BY Zenon DEF Unreported
<1> USE DEF RegistryInv, RegistryTypes, Orderly, Recovered
<1>0. clean /\ t \notin gaveUp /\ t \notin amiss
  BY DEF RegistryNext, RegistryStep, RecoveryStep, Dispatch, Answered, StreamThrows, Outcome, Notify, Begin, RegistryRead,
         RegistryWrite, RegistryWriteFails, OpenInstance, RecoveryReads, RecoveryUnlinks, UnlinkFails, Refire, RefireFails,
         TakesUp, Crash, callVars, registryVars
<1>a. Orderly(t)
  BY <1>0, Zenon DEF Unreported
<1>1. ASSUME NEW u \in Tasks, Dispatch(u) PROVE Orderly(t)'
  BY <1>a, <1>1 DEF Dispatch, Begin, Serving
<1>2. ASSUME NEW u \in Tasks, Answered(u) \/ StreamThrows(u) PROVE Orderly(t)'
  BY <1>a, <1>2 DEF Answered, StreamThrows, Begin
<1>3. ASSUME NEW u \in Tasks, Outcome(u) PROVE Orderly(t)'
  BY <1>a, <1>3 DEF Outcome
<1>4. ASSUME NEW u \in Tasks, Notify(u) PROVE Orderly(t)'
  BY <1>a, <1>4 DEF Notify
<1>5. ASSUME NEW op \in ops, RegistryRead(op) \/ RegistryWrite(op) \/ RegistryWriteFails(op) PROVE Orderly(t)'
  BY <1>a, <1>5 DEF RegistryRead, RegistryWrite, RegistryWriteFails, callVars, LiveIsServed, Serving
<1>6. ASSUME NEW i \in Instances, OpenInstance(i) PROVE Orderly(t)'
  BY <1>a, <1>6 DEF OpenInstance, callVars
<1>7. ASSUME NEW i \in Instances, RecoveryReads(i) PROVE Orderly(t)'
  <2>1. i \in Opening
    BY <1>7 DEF RecoveryReads, Opening
  <2>2. t \in registry => ~Recovered
    BY <1>0, <2>1 DEF OneRecovery
  <2>3. \A j \in Instances : instance'[j].held \subseteq instance[j].held \cup registry
    BY <1>7 DEF RecoveryReads
  <2>4. UNCHANGED <<call, reports, registry>>
    BY <1>7 DEF RecoveryReads, callVars
  <2> QED
    BY <1>a, <2>2, <2>3, <2>4
<1>8. ASSUME NEW i \in Instances, RecoveryUnlinks(i) \/ UnlinkFails(i) PROVE Orderly(t)'
  <2>1. /\ instance[i].at = "claimed" /\ instance' = [instance EXCEPT ![i].at = "reporting"]
        /\ UNCHANGED <<call, reports>>
    BY <1>8 DEF RecoveryUnlinks, UnlinkFails, callVars
  <2>2. Recovered' /\ \A j \in Instances : instance'[j].held = instance[j].held
    BY <2>1
  <2> QED
    BY <1>a, <2>1, <2>2
<1>9. ASSUME NEW i \in Instances, NEW u \in Tasks, Refire(i, u) PROVE Orderly(t)'
  <2>1. /\ instance[i].at = "reporting" /\ u \in instance[i].held
        /\ reports' = [reports EXCEPT ![u] = @ + 1]
        /\ instance' = [instance EXCEPT ![i] =
             [at |-> IF @.held = {u} THEN "open" ELSE "reporting", held |-> @.held \ {u}]]
        /\ UNCHANGED <<call, registry>>
    BY <1>9 DEF Refire, TakesUp
  <2>2. Recovered'
    BY <2>1
  <2>3. CASE u = t
    <3>1. \A j \in Instances : t \notin instance'[j].held
      BY <1>0, <2>1, <2>3 DEF OneRecovery
    <3> QED
      BY <1>a, <2>1, <2>2, <2>3, <3>1
  <2>4. CASE u # t
    BY <1>a, <2>1, <2>2, <2>4
  <2> QED
    BY <2>3, <2>4
<1>10. ASSUME NEW i \in Instances, NEW u \in Tasks, RefireFails(i, u) PROVE Orderly(t)'
  BY <1>a, <1>10 DEF RefireFails, TakesUp
<1>11. CASE Crash
  <2>1. /\ call' = [u \in Tasks |-> IF call[u] \in {"new", "notified"} THEN call[u] ELSE "lost"]
        /\ instance' = [i \in Instances |-> Closed] /\ registry' \subseteq registry /\ UNCHANGED reports
        /\ \A op \in ops : op.kind = "remove" => op.task \in amiss'
    BY <1>11 DEF Crash
  <2>2. ASSUME t \in registry PROVE call'[t] = "lost" /\ reports[t] = 0
    <3>1. CASE ~Recovered
      BY <1>a, <2>1, <2>2, <3>1
    <3>2. CASE Recovered
      <4>1. Opening = {}
        BY <1>0, <2>2, <3>2 DEF OneRecovery
      <4>2. t \in attended
        <5>1. CASE ops = {}
          BY <1>0, <2>2, <3>2, <4>1, <5>1 DEF UpToOneOp
        <5>2. ASSUME NEW op \in ops PROVE t \in attended
          <6>1. op.kind \in {"add", "remove"} /\ op.task \in Tasks
            BY DEF Op
          <6>2. op.kind = "add" \/ (op.kind = "remove" /\ op.task # t)
            BY <2>1, <6>1
          <6>3. /\ op.kind = "add" => attended \ amiss = (registry \cup {op.task}) \ amiss
                /\ op.kind = "remove" => attended \ amiss = registry \ (amiss \cup {op.task})
            BY <1>0, <3>2, <4>1, Zenon DEF UpToOneOp
          <6> QED
            BY <1>0, <2>2, <6>2, <6>3
        <5> QED
          BY <5>1, <5>2
      <4> QED
        BY <1>0, <1>a, <2>1, <4>2 DEF Answer
    <3> QED
      BY <3>1, <3>2
  <2> QED
    BY <1>a, <2>1, <2>2 DEF Closed
<1>12. CASE UNCHANGED registryVars
  BY <1>a, <1>12 DEF registryVars, callVars
<1> QED
  BY <1>1, <1>2, <1>3, <1>4, <1>5, <1>6, <1>7, <1>8, <1>9, <1>10, <1>11, <1>12
  DEF RegistryNext, RegistryStep, RecoveryStep

\* For any tasks, directories, crashes and failures, and while no two accesses have
\* overlapped, a task has at most one task.completed event unless its entry outlives
\* its report: it was a watchdog's, its worker's stream was lost, or the removal of its
\* entry failed or was cut short by a crash.
THEOREM ReportedOnceCorrect == RegistrySpec => []ReportedOnce
<1> DEFINE All == RegistryInv /\ Answer /\ OneRecovery /\ Unreported
<1>1. RegistryInit => All
  BY RegistryInvInit DEF RegistryInit, Answer, OneRecovery, Unreported, Orderly, Opening, Recovered, Closed
<1>2. All /\ [RegistryNext]_registryVars => All'
  BY RegistryInvStep, AnswerStep, OneRecoveryStep, UnreportedStep, Zenon DEF RegistryInv
<1>3. All => ReportedOnce
  BY DEF Unreported, Orderly, ReportedOnce
<1> QED
  BY <1>1, <1>2, <1>3, PTL DEF RegistrySpec
=============================================================================
