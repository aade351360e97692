------------------------ MODULE WorkflowRunner_proofs ------------------------
(***************************************************************************)
(* The resume supervisor launches a session once and gives up on one that  *)
(* keeps failing: for every set of sessions, passes and jobs, every limit  *)
(* and every bound.  At the end the run queue, in which the supervisor     *)
(* leaves the continuations.                                               *)
(*                                                                         *)
(* A pass looks at resumeInFlight long before it sets the mark.  What makes *)
(* the stale look harmless is RESUME_LOCK: the pass that holds candidates  *)
(* holds the lock, and nobody else sets marks (OnePass, Paired).  A session *)
(* without failures left is parked until something calls on it: the end of *)
(* a subagent passes the gate, a plain continuation does not (GivesUp).    *)
(***************************************************************************)
EXTENDS WorkflowRunner, RunQueue, FiniteSetTheorems, SequenceTheorems, WellFoundedInduction, TLAPS

\* A set of numbers has a least one.
LEMMA LeastOf ==
  ASSUME NEW S \in SUBSET Nat, S # {}
  PROVE  \E x \in S : \A y \in S : x <= y
<1>1. PICK x \in S : \A y \in S : ~(<<y, x>> \in OpToRel(<, Nat))
  BY NatLessThanWellFounded, WFMin
<1>2. \A y \in S : ~(y < x)
  BY <1>1 DEF OpToRel
<1> QED BY <1>2

\* SelectInSeq finds the first element in a set, if there is one.
LEMMA FirstIn ==
  ASSUME NEW S, NEW q \in Seq(S), NEW T, ToSet(q) \cap T # {}
  PROVE  LET i == SelectInSeq(q, LAMBDA x : x \in T)
         IN i \in 1..Len(q) /\ q[i] \in T
<1> DEFINE I == {i \in 1..Len(q) : q[i] \in T}
<1>1. I \in SUBSET Nat /\ I # {}
  BY DEF ToSet
<1>2. Min(I) \in I
  BY <1>1, LeastOf DEF Min
<1> QED BY <1>1, <1>2 DEF SelectInSeq

\* Moving a session to the end of the list keeps every session in it.
LEMMA MovedBack ==
  ASSUME NEW S, NEW q \in Seq(S), ToSet(q) = S, NEW s \in S
  PROVE  Append(RemoveFirst(q, s), s) \in Seq(S) /\ ToSet(Append(RemoveFirst(q, s), s)) = S
<1> DEFINE I == {i \in 1..Len(q) : q[i] = s}
           m == Min(I)
           a == SubSeq(q, 1, m - 1)
           b == SubSeq(q, m + 1, Len(q))
           r == Append(a \o b, s)
<1>1. Len(q) \in Nat /\ DOMAIN q = 1..Len(q) /\ \A i \in 1..Len(q) : q[i] \in S
  OBVIOUS
<1>2. I \in SUBSET Nat /\ I # {}
  BY <1>1 DEF ToSet
<1>3. m \in 1..Len(q) /\ q[m] = s
  <2>1. m \in I
    BY <1>2, LeastOf DEF Min
  <2> QED BY <2>1
<1>4. \E i \in 1..Len(q) : q[i] = s
  BY <1>3
<1>5. RemoveFirst(q, s) = a \o b
  BY <1>2, <1>4 DEF RemoveFirst, RemoveAt, SelectInSeq
<1> HIDE DEF m
<1>6. /\ a \in Seq(S) /\ Len(a) = m - 1
      /\ \A i \in 1..(m - 1) : a[i] = q[i]
  BY <1>1, <1>3
<1>7. /\ b \in Seq(S) /\ Len(b) = Len(q) - m
      /\ \A i \in 1..(Len(q) - m) : b[i] = q[m + i]
  <2>1. m + 1 \in 1..(Len(q) + 1) /\ Len(q) \in (m + 1) - 1..Len(q)
    BY <1>1, <1>3
  <2>2. /\ b \in Seq(S) /\ Len(b) = Len(q) - (m + 1) + 1
        /\ \A i \in 1..(Len(q) - (m + 1) + 1) : b[i] = q[(m + 1) + i - 1]
    BY <2>1, SubSeqProperties
  <2>3. \A i \in Nat : (m + 1) + i - 1 = m + i
    BY <1>1, <1>3
  <2>4. Len(q) - (m + 1) + 1 = Len(q) - m
    BY <1>1, <1>3
  <2> QED BY <2>2, <2>3, <2>4
<1> HIDE DEF a, b
<1> DEFINE c == a \o b
<1>8. /\ c \in Seq(S) /\ Len(c) = Len(q) - 1
      /\ \A i \in 1..(Len(a) + Len(b)) : c[i] = IF i <= Len(a) THEN a[i] ELSE b[i - Len(a)]
  <2>1. Len(c) = Len(a) + Len(b)
    BY <1>6, <1>7, ConcatProperties
  <2>2. Len(a) + Len(b) = Len(q) - 1
    BY <1>1, <1>3, <1>6, <1>7
  <2> QED BY <1>6, <1>7, <2>1, <2>2, ConcatProperties
<1> HIDE DEF c
<1>9. ASSUME NEW i \in 1..(m - 1) PROVE c[i] = q[i]
  <2>1. i \in 1..(Len(a) + Len(b)) /\ i <= Len(a)
    BY <1>1, <1>3, <1>6, <1>7
  <2> QED BY <1>6, <1>8, <2>1
<1>10. ASSUME NEW i \in 1..(Len(q) - m) PROVE c[m - 1 + i] = q[m + i]
  <2>1. m - 1 + i \in 1..(Len(a) + Len(b)) /\ ~(m - 1 + i <= Len(a)) /\ (m - 1 + i) - Len(a) = i
    BY <1>1, <1>3, <1>6, <1>7
  <2>2. c[m - 1 + i] = b[(m - 1 + i) - Len(a)]
    BY <1>8, <2>1
  <2> QED BY <1>7, <2>1, <2>2
<1>11. r = Append(c, s)
  BY DEF c
<1> HIDE DEF r
<1>12. r \in Seq(S) /\ Len(r) = Len(q) /\ r[Len(q)] = s /\ \A i \in 1..(Len(q) - 1) : r[i] = c[i]
  <2>1. /\ r \in Seq(S) /\ Len(r) = Len(c) + 1 /\ r[Len(c) + 1] = s
        /\ \A i \in 1..Len(c) : r[i] = c[i]
    BY <1>8, <1>11, AppendProperties
  <2>2. Len(c) = Len(q) - 1 /\ Len(c) + 1 = Len(q)
    BY <1>1, <1>8
  <2> QED BY <2>1, <2>2
<1>13. \A x \in S : x \in ToSet(r)
  <2> SUFFICES ASSUME NEW x \in S PROVE x \in ToSet(r)
    OBVIOUS
  <2>1. DOMAIN r = 1..Len(q)
    BY <1>1, <1>12
  <2>2. PICK i \in 1..Len(q) : q[i] = x
    BY <1>1 DEF ToSet
  <2>3. CASE i < m
    <3>1. i \in 1..(m - 1) /\ i \in 1..Len(q) /\ i \in 1..(Len(q) - 1)
      BY <1>1, <1>3, <2>3
    <3> QED BY <1>9, <1>12, <2>1, <2>2, <3>1 DEF ToSet
  <2>4. CASE i = m
    <3>1. Len(q) \in 1..Len(q)
      BY <1>1, <1>3
    <3> QED BY <1>3, <1>12, <2>1, <2>2, <2>4, <3>1 DEF ToSet
  <2>5. CASE i > m
    <3>1. /\ i - m \in 1..(Len(q) - m) /\ m + (i - m) = i
          /\ m - 1 + (i - m) \in 1..Len(q) /\ m - 1 + (i - m) \in 1..(Len(q) - 1)
      BY <1>1, <1>3, <2>5
    <3>2. r[m - 1 + (i - m)] = x
      BY <1>10, <1>12, <2>2, <3>1
    <3> QED BY <2>1, <3>1, <3>2 DEF ToSet
  <2> QED BY <1>1, <1>3, <2>3, <2>4, <2>5
<1>14. ToSet(r) \subseteq S
  BY <1>12 DEF ToSet
<1> QED BY <1>5, <1>11, <1>13, <1>14, <1>12 DEF c

-----------------------------------------------------------------------------
(* The inductive invariant.                                                *)

States == {"ready", "blocked", "stopped"}
Triggers == {"none", "plain", "task"}

JobType == [s : Sessions \cup {"none"}, at : {"none", "queued", "check", "loop"},
            task : BOOLEAN, stale : BOOLEAN, lane : BOOLEAN]

\* The typing; every session has its place in the order by lastRunAt.
RunnerTypes ==
  /\ pending \in [Sessions -> Triggers]
  /\ backoff \in [Sessions -> BOOLEAN]
  /\ users \subseteq Sessions
  /\ mark \in [Sessions -> {"none", "fresh", "stale"}]
  /\ wf \in [Sessions -> States]
  /\ failures \in [Sessions -> Nat]
  /\ recent \in Seq(Sessions) /\ ToSet(recent) = Sessions
  /\ lock \in Passes \cup {NoPass}
  /\ cand \in [Passes -> SUBSET Sessions]
  /\ job \in [Jobs -> JobType]
  /\ \A j \in Jobs : /\ job[j].at = "none" <=> job[j] = NoJob
                     /\ job[j].s = "none" <=> job[j] = NoJob
  /\ clean \in BOOLEAN

\* Only the holder of RESUME_LOCK has candidates.
OnePass == \A p \in Passes : cand[p] # {} => lock = p

\* Launches are paired with in-flight marks, and a candidate has none.
Paired ==
  /\ \A j \in Jobs : ~job[j].stale
  /\ \A j, k \in Jobs : job[j].s # "none" /\ job[j].s = job[k].s => j = k
  /\ \A s \in Sessions : mark[s] # "stale" /\ (mark[s] = "none" <=> Of(s) = {})
  /\ \A p \in Passes : \A s \in cand[p] : mark[s] = "none"

\* A session has one run at a time, of a resume or of its user.
OneRun == \A j \in Jobs : job[j].at = "loop" => job[j].s \notin users

\* The session has no failures left, and nobody has called on it since.
GivenUp(s) == failures[s] >= MaxFailures /\ s \notin revived

\* Parked: without a run or a retry, and only a plain continuation may be queued.
Parked(s) ==
  /\ s \notin users
  /\ wf[s] \in {"blocked", "stopped"} /\ ~backoff[s]
  /\ pending[s] # "task"

\* A session that was given up is parked, and is nobody's candidate.
GivesUp ==
  /\ \A p \in Passes : \A s \in cand[p] : ~GivenUp(s)
  /\ \A s \in Sessions : GivenUp(s) => Of(s) = {} /\ Parked(s)

RInv == RunnerTypes /\ OnePass /\ OneRun /\ (clean => Paired /\ GivesUp)

\* The supervisor has just been started.
LEMMA InitRInv == Init => RInv
<1> SUFFICES ASSUME Init PROVE RInv
  OBVIOUS
<1>1. recent \in Seq(Sessions) /\ ToSet(recent) = Sessions
  <2> DEFINE n == Cardinality(Sessions)
  <2>1. n \in Nat /\ ExistsBijection(1..n, Sessions)
    BY SessionsAssumption, FS_CardinalityType
  <2>2. \E f \in SetToSeqs(Sessions) : TRUE
    BY <2>1 DEF ExistsBijection, Bijection, Injection, IsInjective, SetToSeqs
  <2>3. recent \in SetToSeqs(Sessions)
    BY <2>2 DEF Init
  <2>4. recent \in [1..n -> Sessions] /\ recent \in Injection(1..n, Sessions)
    BY <2>3 DEF SetToSeqs, Injection, IsInjective
  <2>5. Cardinality(1..n) = n
    <3>1. 1 \in Int /\ n \in Int
      BY <2>1
    <3>2. Cardinality(1..n) = IF 1 > n THEN 0 ELSE n - 1 + 1
      BY <3>1, FS_Interval
    <3> QED BY <2>1, <3>2
  <2>6. recent \in Surjection(1..n, Sessions)
    BY <2>4, <2>5, SessionsAssumption, FS_Injection
  <2>7. recent \in Seq(Sessions)
    BY <2>1, <2>4, SeqDef
  <2> QED BY <2>4, <2>6, <2>7 DEF Surjection, ToSet
<1>2. \A s \in Sessions : Of(s) = {}
  BY SessionsAssumption DEF Init, Of, NoJob
<1>3. RunnerTypes
  BY <1>1 DEF Init, RunnerTypes, States, Triggers, JobType, NoJob
<1>4. OnePass /\ OneRun
  BY DEF Init, OnePass, OneRun
<1>5. Paired /\ GivesUp
  BY <1>2, LimitAssumption DEF Init, Paired, GivesUp, GivenUp, NoJob
<1> QED BY <1>3, <1>4, <1>5 DEF RInv

-----------------------------------------------------------------------------
(* A pass.                                                                 *)

\* The scan: a candidate has no mark, so no resume, and was not given up.
LEMMA ScanStep ==
  ASSUME RInv, NEW p \in Passes, Scan(p)
  PROVE  RInv'
<1> DEFINE found == {s \in Sessions : Resumable(s)}
<1>1. /\ lock = NoPass
      /\ lock' = IF \E s \in Sessions : Resumable(s) THEN p ELSE NoPass
      /\ cand' = [cand EXCEPT ![p] = found]
      /\ mark' = [s \in Sessions |->
                    IF pending[s] # "none" /\ mark[s] = "stale" THEN "none" ELSE mark[s]]
      /\ UNCHANGED <<pending, wf, failures, backoff, recent, job, users, revived, clean>>
  BY DEF Scan, LockFree, bounds, userVars
<1>3. \A s \in found : /\ mark[s] # "fresh"
                       /\ pending[s] = "task" \/ wf[s] \notin {"blocked", "stopped"}
  BY DEF Resumable
<1>4. lock' = IF found # {} THEN p ELSE NoPass
  BY <1>1
<1> HIDE DEF found
<1>5. found \subseteq Sessions
  BY DEF found
<1>6. \A q \in Passes : cand[q] = {}
  BY <1>1, LimitAssumption DEF RInv, OnePass
<1>7. \A q \in Passes : cand'[q] = IF q = p THEN found ELSE {}
  BY <1>1, <1>6 DEF RInv, RunnerTypes
<1>8. RunnerTypes'
  <2>1. mark' \in [Sessions -> {"none", "fresh", "stale"}]
    BY <1>1 DEF RInv, RunnerTypes
  <2>2. cand' \in [Passes -> SUBSET Sessions] /\ lock' \in Passes \cup {NoPass}
    BY <1>1, <1>4, <1>5 DEF RInv, RunnerTypes
  <2> QED BY <1>1, <2>1, <2>2 DEF RInv, RunnerTypes
<1>9. OnePass' /\ OneRun'
  BY <1>1, <1>4, <1>7 DEF OnePass, OneRun, RInv
<1>10. ASSUME clean PROVE Paired' /\ GivesUp'
  <2>1. Paired /\ GivesUp
    BY <1>10 DEF RInv
  <2>2. mark' = mark
    BY <1>1, <2>1 DEF RInv, RunnerTypes, Paired
  <2>3. \A s \in Sessions : Of(s)' = Of(s) /\ (GivenUp(s)' <=> GivenUp(s)) /\ (Parked(s)' <=> Parked(s))
    BY <1>1 DEF Of, GivenUp, Parked
  <2>4. \A s \in found : mark[s] = "none" /\ ~GivenUp(s)
    BY <1>3, <1>5, <2>1 DEF RInv, RunnerTypes, Paired, GivesUp, Parked
  <2>5. Paired'
    BY <1>1, <1>7, <2>1, <2>2, <2>3, <2>4 DEF Paired
  <2>6. GivesUp'
    BY <1>5, <1>7, <2>1, <2>3, <2>4 DEF GivesUp
  <2> QED BY <2>5, <2>6
<1> QED BY <1>1, <1>8, <1>9, <1>10 DEF RInv

\* What a pass picks is one of its candidates: some candidate has the fewest
\* failures, and every session is in the order by lastRunAt.
LEMMA PickedIsCandidate ==
  ASSUME RunnerTypes, NEW p \in Passes, cand[p] # {}, NEW preferred \in cand[p] \cup {"none"}
  PROVE  Picked(cand[p], preferred) \in cand[p]
<1> DEFINE C == cand[p]
           calm == {s \in C : \A t \in C : failures[s] <= failures[t]}
<1>1. CASE preferred # "none"
  BY <1>1 DEF Picked
<1>2. CASE preferred = "none"
  <2>1. C \subseteq Sessions /\ \A s \in C : failures[s] \in Nat
    BY DEF RunnerTypes
  <2>2. calm # {}
    <3> DEFINE F == {failures[s] : s \in C}
    <3>1. F \in SUBSET Nat /\ F # {}
      BY <2>1
    <3>2. PICK n \in F : \A m \in F : n <= m
      BY <3>1, LeastOf
    <3>3. PICK s \in C : n = failures[s]
      OBVIOUS
    <3>4. \A t \in C : failures[s] <= failures[t]
      BY <3>2, <3>3
    <3> QED BY <3>4
  <2>3. Picked(C, preferred) = recent[SelectInSeq(recent, LAMBDA s : s \in calm)]
    BY <1>2 DEF Picked
  <2>4. calm \subseteq C
    OBVIOUS
  <2> HIDE DEF calm
  <2>5. recent \in Seq(Sessions) /\ ToSet(recent) \cap calm # {}
    BY <2>1, <2>2, <2>4 DEF RunnerTypes
  <2>6. recent[SelectInSeq(recent, LAMBDA s : s \in calm)] \in calm
    BY <2>5, FirstIn
  <2> QED BY <2>3, <2>4, <2>6
<1> QED BY <1>1, <1>2

\* The launch: the candidate had no mark, so it has no resume under way.
LEMMA LaunchStep ==
  ASSUME RInv, NEW p \in Passes, NEW preferred \in cand[p] \cup {"none"}, Launch(p, preferred)
  PROVE  RInv'
<1> DEFINE s == Picked(cand[p], preferred)
           j == CHOOSE i \in Jobs : job[i] = NoJob
           at == IF drain = "no" THEN "queued" ELSE "check"
           task == s \in tasks[p]
           new == [s |-> s, at |-> at, task |-> task, stale |-> FALSE, lane |-> drain = "no"]
<1>1. j \in Jobs /\ job[j] = NoJob
  BY DEF Launch
<1>2. s \in cand[p] /\ s \in Sessions /\ s # "none"
  <2>1. s \in cand[p]
    BY PickedIsCandidate DEF Launch, RInv
  <2> QED BY <2>1, SessionsAssumption DEF RInv, RunnerTypes
<1>3. /\ recent' = Append(RemoveFirst(recent, s), s)
      /\ mark' = [mark EXCEPT ![s] = "fresh"]
      /\ wf' = [wf EXCEPT ![s] = "ready"]
      /\ backoff' = [backoff EXCEPT ![s] = FALSE]
      /\ job' = [job EXCEPT ![j] = new]
      /\ cand' = [cand EXCEPT ![p] = {}]
      /\ lock' = IF lock = p THEN NoPass ELSE lock
      /\ UNCHANGED <<pending, failures, users, revived, clean>>
  BY DEF Launch, bounds, userVars
<1>4. at \in {"queued", "check"}
  OBVIOUS
<1> HIDE DEF s, j, at
<1>a. task \in BOOLEAN
  OBVIOUS
<1> HIDE DEF task
<1>5. new \in JobType /\ new.s = s /\ new.at \in {"queued", "check"} /\ new # NoJob /\ ~new.stale
  BY <1>2, <1>4, <1>a DEF JobType, NoJob
<1> HIDE DEF new
<1>6. \A i \in Jobs : job'[i] = IF i = j THEN new ELSE job[i]
  BY <1>1, <1>3 DEF RInv, RunnerTypes
<1>7. recent' \in Seq(Sessions) /\ ToSet(recent') = Sessions
  BY <1>2, <1>3, MovedBack DEF RInv, RunnerTypes
<1>8. RunnerTypes'
  <2>1. job' \in [Jobs -> JobType]
    BY <1>3, <1>5 DEF RInv, RunnerTypes
  <2>2. \A i \in Jobs : /\ job'[i].at = "none" <=> job'[i] = NoJob
                        /\ job'[i].s = "none" <=> job'[i] = NoJob
    BY <1>2, <1>5, <1>6 DEF RInv, RunnerTypes
  <2>3. mark' \in [Sessions -> {"none", "fresh", "stale"}] /\ wf' \in [Sessions -> States]
    BY <1>3 DEF RInv, RunnerTypes, States
  <2>4. cand' \in [Passes -> SUBSET Sessions] /\ lock' \in Passes \cup {NoPass}
    BY <1>3 DEF RInv, RunnerTypes
  <2>5. backoff' \in [Sessions -> BOOLEAN]
    BY <1>3 DEF RInv, RunnerTypes
  <2> QED BY <1>3, <1>7, <2>1, <2>2, <2>3, <2>4, <2>5 DEF RInv, RunnerTypes
<1>9. lock = p /\ \A q \in Passes : cand'[q] = {}
  <2>1. lock = p
    BY <1>2 DEF RInv, OnePass
  <2> QED BY <1>3, <2>1 DEF RInv, RunnerTypes, OnePass
<1>b. OneRun'
  BY <1>3, <1>5, <1>6 DEF RInv, OneRun
<1>10. ASSUME clean PROVE Paired' /\ GivesUp'
  <2>1. Paired /\ GivesUp
    BY <1>10 DEF RInv
  <2>2. mark[s] = "none" /\ Of(s) = {} /\ ~GivenUp(s)
    BY <1>2, <2>1 DEF Paired, GivesUp
  <2>3. \A t \in Sessions : Of(t)' = IF t = s THEN {j} ELSE Of(t)
    <3>1. job[j].s = "none"
      BY <1>1 DEF NoJob
    <3>2. \A i \in Jobs : job[i].s # s
      BY <2>2 DEF Of
    <3> QED BY <1>1, <1>5, <1>6, <3>1, <3>2, SessionsAssumption DEF Of
  <2>4. \A i, k \in Jobs : job'[i].s # "none" /\ job'[i].s = job'[k].s => i = k
    <3>1. \A i \in Jobs : job[i].s # s
      BY <2>2 DEF Of
    <3> QED BY <1>5, <1>6, <2>1, <3>1 DEF Paired
  <2>5. \A t \in Sessions : mark'[t] = IF t = s THEN "fresh" ELSE mark[t]
    BY <1>3 DEF RInv, RunnerTypes
  <2>6. \A t \in Sessions : /\ GivenUp(t)' <=> GivenUp(t)
                            /\ t # s /\ Parked(t) => Parked(t)'
    BY <1>3 DEF RInv, RunnerTypes, GivenUp, Parked
  <2>7. \A i \in Jobs : ~job'[i].stale
    BY <1>5, <1>6, <2>1 DEF Paired
  <2>8. Paired'
    BY <1>9, <2>1, <2>3, <2>4, <2>5, <2>7 DEF Paired
  <2>9. GivesUp'
    BY <1>9, <2>1, <2>2, <2>3, <2>6 DEF GivesUp
  <2> QED BY <2>8, <2>9
<1> QED BY <1>3, <1>8, <1>9, <1>b, <1>10 DEF RInv, OnePass

-----------------------------------------------------------------------------
(* A launched job.                                                         *)

\* A step of a job that leaves it and the session's mark in place.
LEMMA JobMoves ==
  ASSUME RInv, NEW j \in Jobs, job[j].at # "none",
         NEW at \in {"queued", "check", "loop"}, job' = [job EXCEPT ![j].at = at],
         at = "loop" => job[j].s \notin users,
         UNCHANGED <<sessionVars, passVars, userVars, clean>>
  PROVE  RInv'
<1>1. UNCHANGED <<pending, mark, wf, failures, backoff, recent, lock, cand, users, revived, clean>>
  BY DEF sessionVars, passVars, userVars
<1>2. job[j] # NoJob /\ job[j] \in JobType
  BY DEF NoJob, RInv, RunnerTypes
<1>3. \A i \in Jobs : /\ job'[i].s = job[i].s /\ job'[i].stale = job[i].stale
                      /\ i # j => job'[i] = job[i]
  BY <1>2 DEF RInv, RunnerTypes, JobType
<1>4. job' \in [Jobs -> JobType] /\ job'[j].at = at
  BY <1>2 DEF RInv, RunnerTypes, JobType
<1>5. \A i \in Jobs : /\ job'[i].at = "none" <=> job'[i] = NoJob
                      /\ job'[i].s = "none" <=> job'[i] = NoJob
  <2>1. job'[j].s # "none" /\ job'[j].at # "none" /\ job'[j] # NoJob
    BY <1>2, <1>3, <1>4 DEF RInv, RunnerTypes, NoJob
  <2> QED BY <1>3, <2>1 DEF RInv, RunnerTypes
<1>6. \A s : Of(s)' = Of(s) /\ (GivenUp(s)' <=> GivenUp(s)) /\ (Parked(s)' <=> Parked(s))
  BY <1>1, <1>3 DEF Of, GivenUp, Parked
<1>7. RunnerTypes'
  BY <1>1, <1>4, <1>5 DEF RInv, RunnerTypes
<1>8. OneRun'
  BY <1>1, <1>3, <1>4 DEF RInv, OneRun
<1> QED BY <1>1, <1>3, <1>6, <1>7, <1>8 DEF RInv, OnePass, Paired, GivesUp

\* doResume is over: the mark is dropped with the job, and a session without
\* failures left is parked.
LEMMA JobEnds ==
  ASSUME RInv, NEW j \in Jobs, job[j].at \in {"check", "loop"}, Over(j),
         mark' = Unmarked(job[j].s),
         NEW q \in Triggers, pending' = [pending EXCEPT ![job[j].s] = q],
         NEW w \in States, wf' = [wf EXCEPT ![job[j].s] = w],
         NEW n \in Nat, failures' = [failures EXCEPT ![job[j].s] = n],
         NEW b \in BOOLEAN, backoff' = [backoff EXCEPT ![job[j].s] = b],
         \A t \in Sessions : t # job[j].s => (t \in revived' <=> t \in revived),
         clean /\ n >= MaxFailures /\ job[j].s \notin revived' =>
           job[j].s \notin users /\ w \in {"blocked", "stopped"} /\ ~b /\ q # "task",
         UNCHANGED <<recent, lock, cand, users, clean>>
  PROVE  RInv'
<1> DEFINE s == job[j].s
           next == IF job[j].lane /\ job[j].stale THEN [job[j] EXCEPT !.at = "check", !.lane = FALSE]
                   ELSE NoJob
<1>1. job[j] # NoJob /\ job[j] \in JobType /\ s \in Sessions /\ j \in Of(s)
  BY DEF NoJob, RInv, RunnerTypes, JobType, Of
<1>2. \A i \in Jobs : job'[i] = IF i = j THEN next ELSE job[i]
  BY DEF Over, RInv, RunnerTypes
<1>3. /\ next \in JobType /\ (next.at = "none" <=> next = NoJob) /\ (next.s = "none" <=> next = NoJob)
      /\ next.at # "loop"
  BY <1>1, SessionsAssumption DEF JobType, NoJob
<1>4. job[j].stale \/ next = NoJob
  OBVIOUS
<1>5. job' \in [Jobs -> JobType]
  BY <1>3 DEF Over, RInv, RunnerTypes
<1> HIDE DEF next
<1>6. RunnerTypes'
  <2>1. mark' \in [Sessions -> {"none", "fresh", "stale"}]
    BY DEF Unmarked, RInv, RunnerTypes
  <2>2. /\ wf' \in [Sessions -> States] /\ failures' \in [Sessions -> Nat]
        /\ pending' \in [Sessions -> Triggers] /\ backoff' \in [Sessions -> BOOLEAN]
    BY DEF RInv, RunnerTypes
  <2>3. \A i \in Jobs : /\ job'[i].at = "none" <=> job'[i] = NoJob
                        /\ job'[i].s = "none" <=> job'[i] = NoJob
    BY <1>2, <1>3 DEF RInv, RunnerTypes
  <2> QED BY <1>5, <2>1, <2>2, <2>3 DEF RInv, RunnerTypes
<1>7. OneRun'
  BY <1>2, <1>3 DEF RInv, OneRun
<1>8. ASSUME clean PROVE Paired' /\ GivesUp'
  <2>1. Paired /\ GivesUp
    BY <1>8 DEF RInv
  <2>2. next = NoJob /\ mark[s] # "none"
    BY <1>1, <1>4, <2>1 DEF Paired
  <2>3. \A i \in Jobs : i # j => job[i].s # s
    BY <1>1, <2>1, SessionsAssumption DEF Paired
  <2>4. \A t \in Sessions : Of(t)' = IF t = s THEN {} ELSE Of(t)
    <3>1. \A i \in Jobs : job'[i].s = IF i = j THEN "none" ELSE job[i].s
      BY <1>2, <2>2 DEF NoJob
    <3> QED BY <2>3, <3>1, SessionsAssumption DEF Of
  <2>5. \A t \in Sessions : mark'[t] = IF t = s THEN "none" ELSE mark[t]
    BY DEF Unmarked, RInv, RunnerTypes
  <2>6. \A p \in Passes : s \notin cand[p]
    BY <2>1, <2>2 DEF Paired
  <2>7. \A i \in Jobs : ~job'[i].stale
    BY <1>2, <2>1, <2>2 DEF Paired, NoJob
  <2>8. \A i, k \in Jobs : job'[i].s # "none" /\ job'[i].s = job'[k].s => i = k
    BY <1>2, <2>1, <2>2 DEF Paired, NoJob
  <2>9. \A p \in Passes : cand[p] \subseteq Sessions
    BY DEF RInv, RunnerTypes
  <2>10. Paired'
    BY <2>1, <2>4, <2>5, <2>6, <2>7, <2>8, <2>9 DEF Paired
  <2>11. \A t \in Sessions : t # s => (GivenUp(t)' <=> GivenUp(t)) /\ (Parked(t) => Parked(t)')
    BY <1>1 DEF RInv, RunnerTypes, GivenUp, Parked
  <2>12. ASSUME NEW t \in Sessions, t = s, GivenUp(t)' PROVE Parked(t)'
    <3>1. wf'[t] = w /\ failures'[t] = n /\ pending'[t] = q /\ backoff'[t] = b
      BY <1>1, <2>12 DEF RInv, RunnerTypes
    <3> QED BY <1>8, <2>12, <3>1 DEF GivenUp, Parked
  <2>13. GivesUp'
    BY <2>1, <2>4, <2>6, <2>9, <2>11, <2>12 DEF GivesUp
  <2> QED BY <2>10, <2>13
<1> QED BY <1>6, <1>7, <1>8 DEF RInv, OnePass

\* Every step of executeResumeInLane and doResume.
LEMMA JobStepKeeps ==
  ASSUME RInv, NEW j \in Jobs, JobStep(j)
  PROVE  RInv'
<1> DEFINE s == job[j].s
<1>1. CASE LaneStarts(j)
  BY <1>1, JobMoves DEF LaneStarts, bounds
<1>2. CASE LoopStarts(j)
  BY <1>2, JobMoves DEF LoopStarts, bounds, Busy
<1> DEFINE Fits(q, w, n, b) ==
      /\ q \in Triggers /\ pending' = [pending EXCEPT ![s] = q]
      /\ w \in States /\ wf' = [wf EXCEPT ![s] = w]
      /\ n \in Nat /\ failures' = [failures EXCEPT ![s] = n]
      /\ b \in BOOLEAN /\ backoff' = [backoff EXCEPT ![s] = b]
      /\ clean /\ n >= MaxFailures /\ s \notin revived' =>
           s \notin users /\ w \in {"blocked", "stopped"} /\ ~b /\ q # "task"
<1> DEFINE Rest ==
      /\ job[j].at \in {"check", "loop"} /\ Over(j) /\ mark' = Unmarked(s)
      /\ \A t \in Sessions : t # s => (t \in revived' <=> t \in revived)
      /\ UNCHANGED <<recent, lock, cand, users, clean>>
<1>4. ASSUME Rest, NEW q, NEW w, NEW n, NEW b, Fits(q, w, n, b)
      PROVE  RInv'
  BY <1>4, JobEnds
<1>5. job[j].at \in {"check", "loop"} =>
        /\ s \in Sessions /\ failures[s] \in Nat /\ pending[s] \in Triggers
        /\ pending = [pending EXCEPT ![s] = pending[s]]
        /\ failures = [failures EXCEPT ![s] = failures[s]]
  BY DEF RInv, RunnerTypes, JobType, NoJob
<1>6. CASE KilledBeforeLoop(j)
  <2>1. Rest /\ revived' = revived
    BY <1>6 DEF KilledBeforeLoop, passVars, bounds, userVars
  <2>2. /\ failures' = [failures EXCEPT ![s] = failures[s]] /\ failures[s] \in Nat
        /\ wf' = [wf EXCEPT ![s] = "blocked"] /\ backoff' = [backoff EXCEPT ![s] = FALSE]
        /\ pending' = [pending EXCEPT ![s] = "none"]
    BY <1>5, <1>6 DEF KilledBeforeLoop
  <2>3. clean => ~GivenUp(s)
    <3>1. j \in Of(s) /\ s \in Sessions
      BY <1>5, <2>1 DEF Of
    <3> QED BY <3>1 DEF RInv, GivesUp
  <2>4. Fits("none", "blocked", failures[s], FALSE)
    BY <2>1, <2>2, <2>3 DEF States, Triggers, GivenUp
  <2> QED BY <1>4, <2>1, <2>4
<1>7. CASE LoopEnds(j)
  <2>1. Rest /\ failures' = [failures EXCEPT ![s] = 0]
    BY <1>7 DEF LoopEnds, passVars, bounds
  <2>2. PICK w \in EndStates : wf' = [wf EXCEPT ![s] = w]
    BY <1>7 DEF LoopEnds
  <2>3. /\ pending' = [pending EXCEPT ![s] = pending[s]] /\ backoff' = [backoff EXCEPT ![s] = FALSE]
    BY <1>5, <1>7 DEF LoopEnds
  <2>4. Fits(pending[s], w, 0, FALSE)
    BY <1>5, <2>1, <2>2, <2>3, LimitAssumption DEF States, EndStates
  <2> QED BY <1>4, <2>1, <2>4
<1>8. ASSUME NEW fatal \in BOOLEAN, LoopFails(j, fatal) PROVE RInv'
  <2> DEFINE n == failures[s] + 1
             blocked == Blocked(n, fatal)
             q == IF blocked THEN "none" ELSE IF job[j].task THEN "task" ELSE "plain"
             w == IF blocked THEN "blocked" ELSE "ready"
             b == ~blocked
  <2>1. Rest /\ job[j].at = "loop"
    BY <1>8 DEF LoopFails, passVars, bounds
  <2>2. /\ failures' = [failures EXCEPT ![s] = n] /\ wf' = [wf EXCEPT ![s] = w]
        /\ pending' = [pending EXCEPT ![s] = q] /\ backoff' = [backoff EXCEPT ![s] = b]
    BY <1>8 DEF LoopFails
  <2>3. n \in Nat /\ s \notin users
    BY <1>5, <2>1 DEF RInv, OneRun
  <2>4. blocked \in BOOLEAN /\ (n >= MaxFailures => blocked)
    BY DEF Blocked
  <2> HIDE DEF blocked
  <2>5. q \in Triggers /\ w \in States /\ b \in BOOLEAN
    BY <2>4 DEF Triggers, States
  <2>6. blocked => q = "none" /\ w = "blocked" /\ ~b
    OBVIOUS
  <2> HIDE DEF q, w, b, n
  <2>7. Fits(q, w, n, b)
    BY <2>2, <2>3, <2>4, <2>5, <2>6
  <2> QED BY <1>4, <2>1, <2>7
<1> QED BY <1>1, <1>2, <1>6, <1>7, <1>8 DEF JobStep

-----------------------------------------------------------------------------
(* The runs of a session, and the surroundings.                            *)

\* A step that touches one session but none of its resumes.  If it could disturb
\* a parked session, the session has not been given up any more.
LEMMA SessionMoves ==
  ASSUME RInv, NEW s \in Sessions,
         NEW q \in Triggers, pending' = [pending EXCEPT ![s] = q],
         NEW w \in States, wf' = [wf EXCEPT ![s] = w],
         NEW b \in BOOLEAN, backoff' = [backoff EXCEPT ![s] = b],
         users' \subseteq users \cup {s},
         s \in users' \ users => ~Busy(s),
         revived' \subseteq revived \cup {s}, revived \subseteq revived',
         clean /\ GivenUp(s) /\ Of(s) = {} /\ Parked(s) /\ s \notin revived' =>
           s \notin users' /\ w \in {"blocked", "stopped"} /\ ~b /\ q # "task",
         UNCHANGED <<mark, failures, recent, lock, cand, job, clean>>
  PROVE  RInv'
<1>1. RunnerTypes'
  BY DEF RInv, RunnerTypes
<1>2. OneRun'
  BY DEF RInv, OneRun, Busy, Of
<1>3. ASSUME clean PROVE Paired' /\ GivesUp'
  <2>1. Paired /\ GivesUp
    BY <1>3 DEF RInv
  <2>2. \A t \in Sessions : Of(t)' = Of(t)
    BY DEF Of
  <2>3. Paired'
    BY <2>1, <2>2 DEF Paired
  <2>4. \A t \in Sessions : GivenUp(t)' => GivenUp(t)
    BY DEF GivenUp
  <2>5. \A t \in Sessions : t # s /\ Parked(t) => Parked(t)'
    BY DEF Parked, RInv, RunnerTypes
  <2>6. GivenUp(s)' => Parked(s)'
    <3>1. wf'[s] = w /\ pending'[s] = q /\ backoff'[s] = b
      BY DEF RInv, RunnerTypes
    <3> QED BY <1>3, <2>1, <2>4, <3>1 DEF GivesUp, GivenUp, Parked
  <2>7. \A p \in Passes : cand[p] \subseteq Sessions
    BY DEF RInv, RunnerTypes
  <2>8. GivesUp'
    BY <2>1, <2>2, <2>4, <2>5, <2>6, <2>7 DEF GivesUp
  <2> QED BY <2>3, <2>8
<1> QED BY <1>1, <1>2, <1>3 DEF RInv, OnePass

\* What runs and users do to a session: a busy session has not been given up, and
\* what calls on one that was makes it revived.
LEMMA SessionStepKeeps ==
  ASSUME RInv, NEW s \in Sessions,
         SessionStep(s) \/ UserPrompt(s) \/ EnqueueTask(s) \/ Rearm(s) \/ Cancel(s)
  PROVE  RInv'
<1> USE DEF sessionVars, passVars, userVars, bounds, Event
<1>1. /\ pending[s] \in Triggers /\ wf[s] \in States /\ backoff[s] \in BOOLEAN /\ clean \in BOOLEAN
      /\ pending = [pending EXCEPT ![s] = pending[s]] /\ wf = [wf EXCEPT ![s] = wf[s]]
      /\ backoff = [backoff EXCEPT ![s] = backoff[s]]
  BY DEF RInv, RunnerTypes
<1> DEFINE Fits(q, w, b) ==
      /\ q \in Triggers /\ pending' = [pending EXCEPT ![s] = q]
      /\ w \in States /\ wf' = [wf EXCEPT ![s] = w]
      /\ b \in BOOLEAN /\ backoff' = [backoff EXCEPT ![s] = b]
      /\ clean /\ GivenUp(s) /\ Of(s) = {} /\ Parked(s) /\ s \notin revived' =>
           s \notin users' /\ w \in {"blocked", "stopped"} /\ ~b /\ q # "task"
      /\ users' \subseteq users \cup {s}
      /\ s \in users' \ users => ~Busy(s)
      /\ revived' \subseteq revived \cup {s} /\ revived \subseteq revived'
      /\ UNCHANGED <<mark, failures, recent, lock, cand, job, clean>>
<1>2. ASSUME NEW q, NEW w, NEW b, Fits(q, w, b) PROVE RInv'
  BY <1>2, SessionMoves
<1>3. Busy(s) => ~(Of(s) = {} /\ Parked(s))
  BY DEF Busy, Parked
<1>4. CASE Collect(s)
  <2>1. Fits("none", wf[s], backoff[s])
    BY <1>1, <1>3, <1>4 DEF Collect, Triggers
  <2> QED BY <1>2, <2>1
<1>5. CASE StreamStart(s)
  <2>1. Fits("none", "ready", backoff[s])
    BY <1>1, <1>3, <1>5 DEF StreamStart, Triggers, States
  <2> QED BY <1>2, <2>1
<1>6. CASE EnqueuePlain(s)
  <2>1. Fits("plain", wf[s], backoff[s])
    BY <1>1, <1>3, <1>6 DEF EnqueuePlain, Triggers
  <2> QED BY <1>2, <2>1
<1>7. CASE UserEnds(s)
  <2>1. s \in users /\ users' = users \ {s}
        /\ UNCHANGED <<mark, failures, recent, lock, cand, job, revived, clean>>
    BY <1>7 DEF UserEnds
  <2>2. ~Parked(s)
    BY <2>1 DEF Parked
  <2>3. (\E w \in EndStates : Fits(pending[s], w, backoff[s])) \/ Fits("plain", "ready", TRUE)
    BY <1>1, <1>7, <2>1, <2>2 DEF UserEnds, Triggers, States, EndStates
  <2> QED BY <1>2, <2>3
<1>8. CASE BackoffEnds(s)
  <2>1. Fits(pending[s], wf[s], FALSE)
    BY <1>1, <1>8 DEF BackoffEnds, Parked
  <2> QED BY <1>2, <2>1
<1>9. CASE UserPrompt(s)
  <2>1. Fits(pending[s], wf[s], backoff[s])
    BY <1>1, <1>9 DEF UserPrompt, Revived, GivenUp
  <2> QED BY <1>2, <2>1
<1>10. CASE EnqueueTask(s)
  <2>1. Fits("task", wf[s], backoff[s])
    BY <1>1, <1>10 DEF EnqueueTask, Revived, GivenUp, Triggers
  <2> QED BY <1>2, <2>1
<1>11. CASE Rearm(s)
  <2> DEFINE w == IF wf[s] = "stopped" THEN "ready" ELSE wf[s]
             q == IF Busy(s) THEN pending[s] ELSE "plain"
  <2>1. w \in States /\ q \in Triggers
    BY <1>1 DEF States, Triggers
  <2>2. wf' = [wf EXCEPT ![s] = w] /\ pending' = [pending EXCEPT ![s] = q]
    BY <1>1, <1>11 DEF Rearm
  <2>3. revived' = Revived(s) /\ UNCHANGED <<mark, failures, backoff, recent, lock, cand, job, users, clean>>
    BY <1>1, <1>11 DEF Rearm
  <2> HIDE DEF w, q
  <2>4. Fits(q, w, backoff[s])
    BY <1>1, <2>1, <2>2, <2>3 DEF Revived, GivenUp
  <2> QED BY <1>2, <2>4
<1>12. CASE Cancel(s)
  <2>1. Fits("none", "stopped", backoff[s])
    BY <1>1, <1>12 DEF Cancel, Parked, Triggers, States
  <2> QED BY <1>2, <2>1
<1> QED BY <1>4, <1>5, <1>6, <1>7, <1>8, <1>9, <1>10, <1>11, <1>12 DEF SessionStep

\* What the operator, the clock and the daemon do: an expired mark and a lane
\* reset end the clean history, the rest touches nothing the invariant is about.
LEMMA DaemonSteps ==
  ASSUME RInv, KillCleared \/ DrainEnters \/ LanesReset \/ UNCHANGED vars
               \/ (\E scope \in Sessions \cup {"global"} : KillSwitch(scope))
               \/ (\E s \in Sessions : MarkExpires(s))
  PROVE  RInv'
<1> USE DEF sessionVars, passVars, userVars, bounds, Event
<1>1. clean \in BOOLEAN
  BY DEF RInv, RunnerTypes
<1>2. ASSUME UNCHANGED <<pending, mark, wf, failures, backoff, recent, lock, cand, job, users,
                         revived, clean>>
      PROVE  RInv'
  <2>1. \A s : Of(s)' = Of(s) /\ (GivenUp(s)' <=> GivenUp(s)) /\ (Parked(s)' <=> Parked(s))
    BY <1>2 DEF Of, GivenUp, Parked
  <2>2. RunnerTypes'
    BY <1>2 DEF RInv, RunnerTypes
  <2> QED BY <1>2, <2>1, <2>2 DEF RInv, OnePass, OneRun, Paired, GivesUp
<1>3. ASSUME NEW scope, KillSwitch(scope) PROVE RInv'
  BY <1>1, <1>2, <1>3 DEF KillSwitch
<1>4. CASE KillCleared \/ DrainEnters \/ UNCHANGED vars
  BY <1>1, <1>2, <1>4 DEF KillCleared, DrainEnters, vars
<1>5. ASSUME NEW s \in Sessions, MarkExpires(s) PROVE RInv'
  <2>1. /\ mark' = [mark EXCEPT ![s] = "stale"] /\ clean' = FALSE
        /\ UNCHANGED <<pending, wf, failures, backoff, recent, lock, cand, job, users>>
    BY <1>5 DEF MarkExpires
  <2> QED BY <2>1 DEF RInv, RunnerTypes, OnePass, OneRun
<1>6. CASE LanesReset
  <2>1. /\ clean' = FALSE
        /\ UNCHANGED <<pending, mark, wf, failures, backoff, recent, lock, cand, users>>
        /\ job' = [j \in Jobs |->
                     IF job[j].at = "queued" THEN [job[j] EXCEPT !.at = "check", !.lane = FALSE]
                     ELSE [job[j] EXCEPT !.stale = job[j].lane]]
    BY <1>6 DEF LanesReset
  <2>2. ASSUME NEW j \in Jobs
        PROVE  /\ job'[j] \in JobType
               /\ job'[j].at = "none" <=> job'[j] = NoJob
               /\ job'[j].s = "none" <=> job'[j] = NoJob
               /\ job'[j].s = job[j].s /\ (job'[j].at = "loop" => job[j].at = "loop")
    <3>1. job[j] \in JobType
      BY DEF RInv, RunnerTypes
    <3>2. CASE job[j] = NoJob
      <4>1. job'[j] = [job[j] EXCEPT !.stale = job[j].lane]
        <5>1. job[j].at # "queued"
          BY <3>2 DEF NoJob
        <5> QED BY <2>1, <5>1
      <4>2. job[j].lane = job[j].stale
        BY <3>2 DEF NoJob
      <4>3. job'[j] = NoJob
        BY <3>1, <3>2, <4>1, <4>2 DEF JobType
      <4> QED BY <3>2, <4>3 DEF NoJob, JobType
    <3>3. CASE job[j] # NoJob
      <4>1. job[j].at # "none" /\ job[j].s # "none"
        BY <3>3 DEF RInv, RunnerTypes
      <4>2. /\ job'[j] \in JobType /\ job'[j].at # "none" /\ job'[j].s # "none"
            /\ job'[j].s = job[j].s /\ (job'[j].at = "loop" => job[j].at = "loop")
        BY <2>1, <3>1, <4>1 DEF JobType
      <4> QED BY <4>2 DEF NoJob
    <3> QED BY <3>2, <3>3
  <2>3. job' \in [Jobs -> JobType]
    BY <2>1, <2>2
  <2>4. RunnerTypes'
    BY <2>1, <2>2, <2>3 DEF RInv, RunnerTypes
  <2>5. OnePass'
    BY <2>1 DEF RInv, OnePass
  <2>6. OneRun'
    <3>1. ASSUME NEW j \in Jobs, job'[j].at = "loop" PROVE job'[j].s \notin users'
      <4>1. job[j].at = "loop" /\ job'[j].s = job[j].s
        BY <2>2, <3>1
      <4>2. job[j].s \notin users
        BY <4>1 DEF RInv, OneRun
      <4>3. users' = users
        BY <2>1
      <4> QED BY <4>1, <4>2, <4>3
    <3> QED BY <3>1 DEF OneRun
  <2> QED BY <2>1, <2>4, <2>5, <2>6 DEF RInv
<1> QED BY <1>3, <1>4, <1>5, <1>6

\* Every step keeps the invariant.
LEMMA StepRInv == RInv /\ [Next]_vars => RInv'
<1> SUFFICES ASSUME RInv, [Next]_vars PROVE RInv'
  OBVIOUS
<1>1. ASSUME NEW p \in Passes, PassStep(p) PROVE RInv'
  BY <1>1, ScanStep, LaunchStep DEF PassStep
<1>2. ASSUME NEW j \in Jobs, JobStep(j) PROVE RInv'
  BY <1>2, JobStepKeeps
<1> QED BY <1>1, <1>2, SessionStepKeeps, DaemonSteps DEF Next, Outside

-----------------------------------------------------------------------------
\* Two passes of resumePendingContinuations never launch the same continuation, and
\* resumeInFlight names exactly the sessions with a resume under way, as long as no
\* lane is reset and no mark expires.
THEOREM OneResumePerSessionCorrect == Spec => []OneResumePerSession
<1>1. RInv => OneResumePerSession
  <2> SUFFICES ASSUME RInv, clean, NEW s \in Sessions
               PROVE  Cardinality(Of(s)) <= 1 /\ (Of(s) # {} <=> mark[s] # "none")
    BY DEF OneResumePerSession
  <2>1. Paired
    BY DEF RInv
  <2>2. Of(s) = {} \/ \E j : Of(s) = {j}
    BY <2>1, SessionsAssumption DEF Paired, Of
  <2>3. Cardinality(Of(s)) <= 1
    <3>1. CASE Of(s) = {}
      BY <3>1, FS_EmptySet
    <3>2. ASSUME NEW j, Of(s) = {j} PROVE Cardinality(Of(s)) <= 1
      <4>1. Cardinality({j}) = 1
        BY FS_Singleton
      <4> QED BY <3>2, <4>1
    <3> QED BY <2>2, <3>1, <3>2
  <2> QED BY <2>1, <2>3 DEF Paired
<1> QED BY <1>1, InitRInv, StepRInv, PTL DEF Spec

\* A session that has used up its consecutive failures is left alone until the end
\* of a subagent or its user calls on it: no pass that found it before, no retry
\* and no late stream start brings it back.
THEOREM FailedSessionGivesUpCorrect == Spec => []FailedSessionGivesUp
<1>1. RInv => FailedSessionGivesUp
  BY DEF RInv, GivesUp, GivenUp, Parked, FailedSessionGivesUp
<1> QED BY <1>1, InitRInv, StepRInv, PTL DEF Spec

-----------------------------------------------------------------------------
(* The run queue the continuations go through (module RunQueue): what an    *)
(* uncontended call leaves behind, for every set of lanes and of calls.     *)

\* The keys that an uncontended call c must have left empty so far, and the one
\* it has filled.
QueueProgress(c) ==
  \/ pc[c] = "removing" /\ \A k \in Keys : k \notin left[c] => store[k] = NoEntry
  \/ pc[c] = "lane" /\ target[c] \in Lanes /\ \A k \in Keys : store[k] = NoEntry
  \/ /\ pc[c] = "legacy" /\ target[c] \in Lanes
     /\ \A k \in Keys : store[k] = IF k = target[c] THEN c ELSE NoEntry

\* The store an uncontended call leaves.
QueueExact(c) ==
  \A k \in Keys : store[k] = IF k \in {target[c], "legacy"} /\ target[c] # "none"
                             THEN c ELSE NoEntry

\* The inductive invariant: an uncontended call in progress is the only one and
\* has changed exactly the keys its position says; once it is the last to have
\* finished, nothing is in progress and the store is exactly its entry.
Uncontended ==
  /\ \A c \in Calls : pc[c] \in {"lane", "legacy"} => target[c] \in Lanes
  /\ \A c \in InProgress : alone[c] => InProgress = {c} /\ QueueProgress(c)
  /\ (last # NoEntry /\ alone[last]) => InProgress = {} /\ QueueExact(last)

QInv == TypeOK /\ Uncontended

\* Every key a call removes is a key: remove() names all lanes and the legacy key.
LEMMA RemovedKeysTyped == \A lane : RemovedKeys(lane) = Keys
  BY DEF RemovedKeys

\* The initial, empty queue satisfies the invariant.
LEMMA InitQInv == QueueInit => QInv
  BY CallsAssumption, LanesAssumption DEF QueueInit, QInv, TypeOK, Uncontended, InProgress, Keys

\* Every step of enqueue() and remove() preserves the typing.
LEMMA QueueTypeStep == TypeOK /\ [QueueNext]_queueVars => TypeOK'
<1> SUFFICES ASSUME TypeOK, [QueueNext]_queueVars PROVE TypeOK'
  OBVIOUS
<1> USE CallsAssumption, LanesAssumption DEF TypeOK, Keys
<1>1. ASSUME NEW c \in Calls, NEW lane \in Lanes \cup {"none"}, Begin(c, lane) PROVE TypeOK'
  BY <1>1, RemovedKeysTyped DEF Begin
<1>2. ASSUME NEW c \in Calls, NEW k \in Keys, RemoveKey(c, k) PROVE TypeOK'
  BY <1>2 DEF RemoveKey
<1>3. ASSUME NEW c \in Calls, Removed(c) PROVE TypeOK'
  BY <1>3 DEF Removed
<1>4. ASSUME NEW c \in Calls, WriteLane(c) PROVE TypeOK'
  BY <1>4 DEF WriteLane
<1>5. ASSUME NEW c \in Calls, WriteLegacy(c) PROVE TypeOK'
  BY <1>5 DEF WriteLegacy
<1>6. CASE UNCHANGED queueVars
  BY <1>6 DEF queueVars
<1> QED BY <1>1, <1>2, <1>3, <1>4, <1>5, <1>6 DEF QueueNext

\* Every step preserves what is known of uncontended calls: a call that begins
\* while another is in progress makes both contended.
LEMMA UncontendedStep == QInv /\ [QueueNext]_queueVars => Uncontended'
<1> SUFFICES ASSUME QInv, [QueueNext]_queueVars PROVE Uncontended'
  OBVIOUS
<1> USE CallsAssumption, LanesAssumption DEF QInv, TypeOK, Keys
<1>1. ASSUME NEW c \in Calls, NEW lane \in Lanes \cup {"none"}, Begin(c, lane) PROVE Uncontended'
  <2>1. \A x \in Calls : x # c => pc'[x] = pc[x] /\ target'[x] = target[x] /\ left'[x] = left[x]
    BY <1>1 DEF Begin
  <2>2. pc'[c] = "removing" /\ left'[c] = Keys /\ last' = NoEntry /\ store' = store
    BY <1>1, RemovedKeysTyped DEF Begin
  <2>3. InProgress' = InProgress \cup {c}
    BY <2>1, <2>2 DEF InProgress
  <2>4. \A x \in InProgress' : alone'[x] => x = c /\ InProgress = {}
    BY <1>1, <2>3 DEF Begin, InProgress
  <2>5. \A x \in InProgress' : alone'[x] => InProgress' = {x} /\ QueueProgress(x)'
    BY <2>2, <2>3, <2>4 DEF QueueProgress
  <2> QED BY <2>1, <2>2, <2>5 DEF Uncontended
<1>2. ASSUME NEW c \in Calls, NEW k \in Keys, RemoveKey(c, k) PROVE Uncontended'
  <2>1. InProgress' = InProgress /\ c \in InProgress
    BY <1>2 DEF RemoveKey, InProgress
  <2>2. ~(last # NoEntry /\ alone[last])
    BY <2>1 DEF Uncontended
  <2>3. \A x \in InProgress' : alone'[x] => InProgress' = {x} /\ QueueProgress(x)'
    <3> SUFFICES ASSUME NEW x \in InProgress, alone[x] PROVE InProgress = {x} /\ QueueProgress(x)'
      BY <1>2, <2>1 DEF RemoveKey
    <3>1. x = c /\ InProgress = {c} /\ QueueProgress(c)
      BY <2>1 DEF Uncontended
    <3> QED BY <1>2, <3>1 DEF RemoveKey, QueueProgress
  <2> QED BY <1>2, <2>2, <2>3 DEF Uncontended, RemoveKey
<1>3. ASSUME NEW c \in Calls, Removed(c) PROVE Uncontended'
  <2>1. /\ pc[c] = "removing" /\ left[c] = {} /\ c \in InProgress
        /\ store' = store /\ target' = target /\ left' = left /\ alone' = alone
        /\ \A x \in Calls : x # c => pc'[x] = pc[x]
        /\ pc'[c] = IF target[c] = "none" THEN "done" ELSE "lane"
        /\ last' = IF target[c] = "none" THEN c ELSE last
    BY <1>3 DEF Removed, InProgress
  <2>2. InProgress' = IF target[c] = "none" THEN InProgress \ {c} ELSE InProgress
    BY <2>1 DEF InProgress
  <2>3. ~(last # NoEntry /\ alone[last])
    BY <2>1 DEF Uncontended
  <2>4. alone[c] => InProgress = {c} /\ \A k \in Keys : store[k] = NoEntry
    BY <2>1 DEF Uncontended, QueueProgress
  <2>5. \A x \in InProgress' : alone'[x] => InProgress' = {x} /\ QueueProgress(x)'
    <3> SUFFICES ASSUME NEW x \in InProgress', alone[x] PROVE InProgress' = {x} /\ QueueProgress(x)'
      BY <2>1
    <3>1. x \in InProgress /\ InProgress = {x}
      BY <2>2 DEF Uncontended
    <3>2. x = c /\ target[c] # "none"
      BY <2>1, <2>2, <3>1
    <3> QED BY <2>1, <2>2, <2>4, <3>1, <3>2 DEF QueueProgress
  <2>6. (last' # NoEntry /\ alone'[last']) => InProgress' = {} /\ QueueExact(last)'
    <3> SUFFICES ASSUME last' # NoEntry, alone'[last'] PROVE InProgress' = {} /\ QueueExact(last)'
      OBVIOUS
    <3>1. target[c] = "none" /\ last' = c /\ alone[c]
      BY <2>1, <2>3
    <3> QED BY <2>1, <2>2, <2>4, <3>1 DEF QueueExact
  <2>7. \A x \in Calls : pc'[x] \in {"lane", "legacy"} => target'[x] \in Lanes
    BY <2>1 DEF Uncontended
  <2> QED BY <2>5, <2>6, <2>7 DEF Uncontended
<1>4. ASSUME NEW c \in Calls, WriteLane(c) PROVE Uncontended'
  <2>1. InProgress' = InProgress /\ c \in InProgress
    BY <1>4 DEF WriteLane, InProgress
  <2>2. ~(last # NoEntry /\ alone[last])
    BY <2>1 DEF Uncontended
  <2>3. \A x \in InProgress' : alone'[x] => InProgress' = {x} /\ QueueProgress(x)'
    <3> SUFFICES ASSUME NEW x \in InProgress, alone[x] PROVE InProgress = {x} /\ QueueProgress(x)'
      BY <1>4, <2>1 DEF WriteLane
    <3>1. x = c /\ InProgress = {c} /\ QueueProgress(c)
      BY <2>1 DEF Uncontended
    <3> QED BY <1>4, <3>1 DEF WriteLane, QueueProgress
  <2> QED BY <1>4, <2>2, <2>3 DEF Uncontended, WriteLane
<1>5. ASSUME NEW c \in Calls, WriteLegacy(c) PROVE Uncontended'
  <2>1. InProgress' = InProgress \ {c} /\ c \in InProgress /\ last' = c
    BY <1>5 DEF WriteLegacy, InProgress
  <2>2. \A x \in InProgress' : ~alone'[x]
    BY <1>5, <2>1 DEF Uncontended, WriteLegacy
  <2>3. alone'[c] => InProgress' = {} /\ QueueExact(c)'
    <3> SUFFICES ASSUME alone'[c] PROVE InProgress' = {} /\ QueueExact(c)'
      OBVIOUS
    <3>1. InProgress = {c} /\ QueueProgress(c)
      BY <1>5, <2>1 DEF WriteLegacy, Uncontended
    <3> QED BY <1>5, <2>1, <3>1 DEF WriteLegacy, QueueProgress, QueueExact
  <2>4. \A x \in Calls : pc'[x] \in {"lane", "legacy"} => target'[x] \in Lanes
    BY <1>5 DEF WriteLegacy, Uncontended
  <2> QED BY <2>1, <2>2, <2>3, <2>4 DEF Uncontended, QueueExact
<1>6. CASE UNCHANGED queueVars
  BY <1>6 DEF queueVars, Uncontended, InProgress, QueueProgress, QueueExact
<1> QED BY <1>1, <1>2, <1>3, <1>4, <1>5, <1>6 DEF QueueNext

\* RunQueue.enqueue() and remove() never leave the queue ill-typed.
THEOREM QueueTypeCorrect == QueueSpec => []TypeOK
<1>1. QueueInit => TypeOK
  BY InitQInv DEF QInv
<1> QED BY <1>1, QueueTypeStep, PTL DEF QueueSpec

\* An enqueue() or remove() that no other call overlapped leaves exactly its
\* entry (or none), whatever the calls before it left in the other lanes.
THEOREM UncontendedCallExactCorrect == QueueSpec => []UncontendedCallExact
<1>1. QInv /\ [QueueNext]_queueVars => QInv'
  BY QueueTypeStep, UncontendedStep DEF QInv
<1>2. QInv => UncontendedCallExact
  BY CallsAssumption, LanesAssumption DEF QInv, TypeOK, Uncontended, UncontendedCallExact, QueueExact, Keys
<1> QED BY <1>1, <1>2, InitQInv, PTL DEF QueueSpec
=============================================================================
