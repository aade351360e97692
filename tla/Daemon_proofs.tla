---------------------------- MODULE Daemon_proofs ----------------------------
(***************************************************************************)
(* The command lane under the daemon's drains, restarts and registrations, *)
(* for every set of tasks, every concurrency limit and every bound; at the *)
(* end, the lock file that keeps a second daemon out.                      *)
(*                                                                         *)
(* pump() runs at the end of enqueue() and of executeEntry().  The lemmas  *)
(* follow the code: what the first part of the method leaves behind is a   *)
(* lane in order (LaneOK), and pump() keeps it in order and fills it.      *)
(***************************************************************************)
EXTENDS Daemon, GatewayLock, SequencesExt, FiniteSetTheorems, SequenceTheorems, TLAPS

LaneType == [queue : Seq(Tasks), active : SUBSET Tasks, generation : Nat]

\* A queue in the order of the task ids.
Sorted(q, nn) == \A j, k \in DOMAIN q : j < k => nn[q[j]] < nn[q[k]]

Promises == {"new"} \cup L!Pending \cup L!Settled

RunningOf(pr, hm, gn, i, g) ==
  {t \in Tasks : pr[t] = "running" /\ hm[t] = i /\ gn[t] = g}

\* An accepted task has a LaneState, of its own generation or a later one.
Placed(ss, pr, hm, gn) ==
  \A t \in Tasks : /\ hm[t] \in 0..Len(ss)
                   /\ pr[t] \in L!Pending => hm[t] # 0
                   /\ hm[t] # 0 => gn[t] <= ss[hm[t]].generation

\* The queue of the registered lane: the tasks that wait in it, in order, all
\* of the current generation.
QueueOK(ls, i, pr, hm, gn, nn) ==
  /\ Sorted(ls.queue, nn)
  /\ ToSet(ls.queue) = {t \in Tasks : pr[t] = "queued" /\ hm[t] = i}
  /\ \A t \in ToSet(ls.queue) : gn[t] = ls.generation

\* CapPerGeneration, for every LaneState ever made.
CapOK(ls, i, pr, hm, gn) ==
  /\ ls.active = RunningOf(pr, hm, gn, i, ls.generation)
  /\ \A g \in Nat : /\ IsFiniteSet(RunningOf(pr, hm, gn, i, g))
                    /\ Cardinality(RunningOf(pr, hm, gn, i, g)) <= MaxConcurrent

FifoOK(pr, hm, nn) ==
  \A t, u \in Tasks :
     pr[t] = "queued" /\ pr[u] = "running" /\ hm[t] = hm[u] => nn[u] < nn[t]

LaneOK(ss, i, pr, hm, gn, nn) ==
  /\ ss \in Seq(LaneType)
  /\ i \in 0..Len(ss)
  /\ pr \in [Tasks -> Promises]
  /\ hm \in [Tasks -> Nat]
  /\ gn \in [Tasks -> Nat]
  /\ nn \in [Tasks -> Nat]
  /\ Placed(ss, pr, hm, gn)
  /\ \A k \in 1..Len(ss) : CapOK(ss[k], k, pr, hm, gn)
  /\ FifoOK(pr, hm, nn)
  /\ i # 0 => QueueOK(ss[i], i, pr, hm, gn, nn)

\* A registered lane has waiting tasks only while it is at its limit.
Full(ss, i) ==
  i # 0 /\ ss[i].queue # <<>> => Cardinality(ss[i].active) >= MaxConcurrent

\* A running task belongs to an earlier generation of its LaneState iff it was
\* there at a resetAll(); such a task never waits again.
Stale(ss, pr, hm, gn, pre) ==
  /\ pre \subseteq Tasks
  /\ \A t \in Tasks : pr[t] = "running" => (gn[t] # ss[hm[t]].generation <=> t \in pre)
  /\ \A t \in pre : pr[t] \notin {"new", "queued"}

LaneInv ==
  /\ LaneOK(states, cur, promise, home, gen, id)
  /\ Full(states, cur)
  /\ Stale(states, promise, home, gen, preReset)
  /\ counter \in Nat
  /\ \A t \in Tasks : id[t] <= counter

-----------------------------------------------------------------------------
(* Queues.                                                                 *)

\* queue.push(entry) of the newest entry keeps the queue in order.
LEMMA AppendSorted ==
  ASSUME NEW q \in Seq(Tasks), NEW nn \in [Tasks -> Nat], Sorted(q, nn),
         NEW t \in Tasks, \A u \in ToSet(q) : nn[u] < nn[t]
  PROVE  /\ Append(q, t) \in Seq(Tasks)
         /\ ToSet(Append(q, t)) = ToSet(q) \cup {t}
         /\ Sorted(Append(q, t), nn)
<1>1. /\ Append(q, t) \in Seq(Tasks)
      /\ DOMAIN Append(q, t) = 1..(Len(q) + 1)
      /\ \A i \in 1..Len(q) : Append(q, t)[i] = q[i]
      /\ Append(q, t)[Len(q) + 1] = t
      /\ Len(q) \in Nat
      /\ DOMAIN q = 1..Len(q)
  OBVIOUS
<1>2. ToSet(Append(q, t)) = ToSet(q) \cup {t}
  BY <1>1 DEF ToSet
<1>3. \A i \in 1..Len(q) : nn[q[i]] < nn[t]
  BY <1>1 DEF ToSet
<1>4. ASSUME NEW j \in 1..(Len(q) + 1), NEW k \in 1..(Len(q) + 1), j < k
      PROVE  nn[Append(q, t)[j]] < nn[Append(q, t)[k]]
  <2>1. j \in 1..Len(q)
    BY <1>1, <1>4
  <2>2. CASE k = Len(q) + 1
    BY <1>1, <1>3, <2>1, <2>2
  <2>3. CASE k \in 1..Len(q)
    BY <1>1, <1>4, <2>1, <2>3 DEF Sorted
  <2> QED BY <1>1, <2>2, <2>3
<1>5. Sorted(Append(q, t), nn)
  BY <1>1, <1>4 DEF Sorted
<1> QED BY <1>1, <1>2, <1>5

\* pump() takes a prefix of the queue: what it starts was enqueued before what it
\* leaves, and what it leaves is still in order.
LEMMA PrefixSuffix ==
  ASSUME NEW q \in Seq(Tasks), NEW nn \in [Tasks -> Nat], Sorted(q, nn),
         NEW n \in 0..Len(q)
  PROVE  LET pre == {q[i] : i \in 1..n}
             suf == SubSeq(q, n + 1, Len(q))
         IN  /\ suf \in Seq(Tasks)
             /\ Len(suf) = Len(q) - n
             /\ pre \subseteq ToSet(q)
             /\ ToSet(suf) = ToSet(q) \ pre
             /\ Sorted(suf, nn)
             /\ \A t \in pre, u \in ToSet(suf) : nn[t] < nn[u]
             /\ IsFiniteSet(pre) /\ Cardinality(pre) = n
<1> DEFINE pre == {q[i] : i \in 1..n}
           suf == SubSeq(q, n + 1, Len(q))
<1>1. Len(q) \in Nat /\ DOMAIN q = 1..Len(q) /\ n \in Nat /\ n <= Len(q)
  OBVIOUS
<1>2. \A i \in 1..Len(q) : q[i] \in Tasks /\ nn[q[i]] \in Nat
  BY <1>1
<1>3. /\ suf \in Seq(Tasks)
      /\ Len(suf) = Len(q) - n
      /\ DOMAIN suf = 1..(Len(q) - n)
      /\ \A i \in 1..(Len(q) - n) : suf[i] = q[i + n]
  <2>1. n + 1 \in Int /\ Len(q) \in Int /\ \A i \in (n + 1)..Len(q) : q[i] \in Tasks
    BY <1>1, <1>2
  <2>2. /\ suf \in Seq(Tasks)
        /\ Len(suf) = IF n + 1 <= Len(q) THEN Len(q) - (n + 1) + 1 ELSE 0
        /\ \A i \in 1..(Len(q) - (n + 1) + 1) : suf[i] = q[(n + 1) + i - 1]
    <3> DEFINE m == n + 1
               e == Len(q)
    <3>1. m \in Int /\ e \in Int /\ \A i \in m..e : q[i] \in Tasks
      BY <2>1
    <3> HIDE DEF m, e
    <3>2. /\ SubSeq(q, m, e) \in Seq(Tasks)
          /\ Len(SubSeq(q, m, e)) = IF m <= e THEN e - m + 1 ELSE 0
          /\ \A i \in 1..(e - m + 1) : SubSeq(q, m, e)[i] = q[m + i - 1]
      BY <3>1, SubSeqProperties
    <3> QED BY <3>2 DEF m, e
  <2> HIDE DEF suf
  <2>3. Len(suf) = Len(q) - n /\ Len(q) - (n + 1) + 1 = Len(q) - n
    <3>1. Len(q) - (n + 1) + 1 = Len(q) - n /\ (~(n + 1 <= Len(q)) => Len(q) - n = 0)
      <4>1. \A a, b \in Nat : b <= a =>
              a - (b + 1) + 1 = a - b /\ (~(b + 1 <= a) => a - b = 0)
        OBVIOUS
      <4> QED BY <1>1, <4>1
    <3> QED BY <2>2, <3>1, Zenon
  <2>4. DOMAIN suf = 1..Len(suf)
    BY <2>2
  <2>5. \A i \in 1..(Len(q) - n) : (n + 1) + i - 1 = i + n
    BY <1>1
  <2> QED BY <2>2, <2>3, <2>4, <2>5
<1> HIDE DEF suf
<1>4. \A j, k \in 1..Len(q) : j < k => nn[q[j]] < nn[q[k]]
  BY <1>1 DEF Sorted
<1>5. \A j, k \in 1..Len(q) : q[j] = q[k] => j = k
  BY <1>1, <1>2, <1>4
<1>6. pre \subseteq ToSet(q)
  BY <1>1 DEF ToSet
<1>7. \A i \in 1..(Len(q) - n) : i + n \in 1..Len(q) /\ i + n > n
  BY <1>1
<1>8. \A t \in pre, u \in ToSet(suf) : nn[t] < nn[u]
  <2> SUFFICES ASSUME NEW t \in pre, NEW u \in ToSet(suf) PROVE nn[t] < nn[u]
    OBVIOUS
  <2>1. PICK i \in 1..n : t = q[i]
    OBVIOUS
  <2>2. PICK k \in 1..(Len(q) - n) : u = q[k + n]
    BY <1>3 DEF ToSet
  <2> QED BY <1>1, <1>4, <1>7, <2>1, <2>2
<1>9. ToSet(suf) = ToSet(q) \ pre
  <2>1. ASSUME NEW u \in ToSet(suf) PROVE u \in ToSet(q) /\ u \notin pre
    <3>1. PICK k \in 1..(Len(q) - n) : u = q[k + n]
      BY <1>3 DEF ToSet
    <3>2. u \in ToSet(q)
      BY <1>1, <1>7, <3>1 DEF ToSet
    <3>3. u \notin pre
      BY <1>1, <1>5, <1>7, <3>1
    <3> QED BY <3>2, <3>3
  <2>2. ASSUME NEW u \in ToSet(q), u \notin pre PROVE u \in ToSet(suf)
    <3>1. PICK k \in 1..Len(q) : u = q[k]
      BY <1>1 DEF ToSet
    <3>2. k \notin 1..n
      BY <2>2, <3>1
    <3>3. k - n \in 1..(Len(q) - n) /\ (k - n) + n = k
      BY <1>1, <3>2
    <3>4. suf[k - n] = u
      BY <1>3, <3>1, <3>3
    <3> QED BY <1>3, <3>3, <3>4 DEF ToSet
  <2> QED BY <2>1, <2>2
<1>10. Sorted(suf, nn)
  <2> SUFFICES ASSUME NEW j \in 1..(Len(q) - n), NEW k \in 1..(Len(q) - n), j < k
               PROVE  nn[suf[j]] < nn[suf[k]]
    BY <1>3 DEF Sorted
  <2>1. j + n \in 1..Len(q) /\ k + n \in 1..Len(q) /\ j + n < k + n
    BY <1>1, <1>7
  <2>2. suf[j] = q[j + n] /\ suf[k] = q[k + n]
    BY <1>3
  <2> QED BY <1>4, <2>1, <2>2
<1>11. IsFiniteSet(pre) /\ Cardinality(pre) = n
  <2> DEFINE f == [i \in 1..n |-> q[i]]
  <2>1. f \in [1..n -> pre] /\ \A i \in 1..n : f[i] = q[i]
    OBVIOUS
  <2>2. \A i, j \in 1..n : f[i] = f[j] => i = j
    BY <1>1, <1>5
  <2>3. \A x \in pre : \E i \in 1..n : f[i] = x
    OBVIOUS
  <2> HIDE DEF f
  <2>4. f \in Bijection(1..n, pre)
    BY <2>1, <2>2, <2>3 DEF Bijection, Injection, Surjection, IsInjective
  <2>5. ExistsBijection(1..n, pre)
    BY <2>4 DEF ExistsBijection
  <2>6. IsFiniteSet(pre)
    BY <1>1, <2>5, FS_NatBijection
  <2> QED BY <1>1, <2>5, <2>6, FS_CountingElements
<1> QED BY <1>3, <1>6, <1>8, <1>9, <1>10, <1>11 DEF suf

-----------------------------------------------------------------------------
(* pump(key)                                                               *)

\* The operators Lanes takes from the library are the ones used here.
LEMMA SameOperators ==
  ASSUME NEW S
  PROVE  L!Cardinality(S) = Cardinality(S) /\ L!ToSet(S) = ToSet(S)
BY DEF L!Cardinality, Cardinality, L!ToSet, ToSet, L!IsFiniteSet, IsFiniteSet

\* How many entries pump() takes, and what it makes of the LaneState.
LEMMA PumpTakes ==
  ASSUME NEW ls \in LaneType, NEW nn \in [Tasks -> Nat], Sorted(ls.queue, nn),
         IsFiniteSet(ls.active), Cardinality(ls.active) <= MaxConcurrent,
         ls.active \cap ToSet(ls.queue) = {}
  PROVE  /\ L!Pumped(ls) \in LaneType
         /\ L!Pumped(ls).generation = ls.generation
         /\ L!Pumped(ls).active = ls.active \cup L!Started(ls)
         /\ L!Started(ls) \subseteq ToSet(ls.queue)
         /\ ToSet(L!Pumped(ls).queue) = ToSet(ls.queue) \ L!Started(ls)
         /\ Sorted(L!Pumped(ls).queue, nn)
         /\ \A t \in L!Started(ls), u \in ToSet(L!Pumped(ls).queue) : nn[t] < nn[u]
         /\ IsFiniteSet(L!Pumped(ls).active)
         /\ Cardinality(L!Pumped(ls).active) <= MaxConcurrent
         /\ L!Pumped(ls).queue # <<>> => Cardinality(L!Pumped(ls).active) >= MaxConcurrent
<1> DEFINE q == ls.queue
           n == L!StartedCount(ls)
           suf == SubSeq(q, n + 1, Len(q))
           pre == {q[i] : i \in 1..n}
<1>1. q \in Seq(Tasks) /\ Len(q) \in Nat /\ ls.active \subseteq Tasks
  BY DEF LaneType
<1>2. Cardinality(ls.active) \in Nat /\ MaxConcurrent \in Nat
  BY FS_CardinalityType, MaxConcurrentAssumption
<1>3. /\ n \in 0..Len(q)
      /\ Cardinality(ls.active) + n <= MaxConcurrent
      /\ n # Len(q) => Cardinality(ls.active) + n = MaxConcurrent
  BY <1>1, <1>2, SameOperators DEF L!StartedCount, L!Room
<1> HIDE DEF n
<1>4. /\ suf \in Seq(Tasks)
      /\ Len(suf) = Len(q) - n
      /\ pre \subseteq ToSet(q)
      /\ ToSet(suf) = ToSet(q) \ pre
      /\ Sorted(suf, nn)
      /\ \A t \in pre, u \in ToSet(suf) : nn[t] < nn[u]
      /\ IsFiniteSet(pre) /\ Cardinality(pre) = n
  BY <1>1, <1>3, PrefixSuffix
<1>5. L!Started(ls) = pre
  BY DEF L!Started, n
<1>6. L!Pumped(ls) = [ls EXCEPT !.queue = suf, !.active = @ \cup pre]
  BY <1>5 DEF L!Pumped, n
<1>7. ToSet(q) \subseteq Tasks
  BY <1>1 DEF ToSet
<1> HIDE DEF suf, pre
<1>8. /\ L!Pumped(ls) \in LaneType
      /\ L!Pumped(ls).generation = ls.generation
      /\ L!Pumped(ls).active = ls.active \cup pre
      /\ L!Pumped(ls).queue = suf
  BY <1>1, <1>4, <1>6, <1>7 DEF LaneType
<1>9. ls.active \cap pre = {}
  BY <1>4
<1>10. /\ IsFiniteSet(ls.active \cup pre)
       /\ Cardinality(ls.active \cup pre) = Cardinality(ls.active) + n
  <2>1. Cardinality(ls.active \cap pre) = 0
    BY <1>9, FS_EmptySet
  <2>2. Cardinality(ls.active \cup pre)
          = Cardinality(ls.active) + Cardinality(pre) - Cardinality(ls.active \cap pre)
    BY <1>4, FS_Union
  <2>3. IsFiniteSet(ls.active \cup pre)
    BY <1>4, FS_Union
  <2>4. n \in Nat
    BY <1>1, <1>3
  <2> QED BY <1>2, <1>4, <2>1, <2>2, <2>3, <2>4
<1>11. suf # <<>> => n # Len(q)
  <2>1. suf # <<>> => Len(suf) # 0
    BY <1>4
  <2> QED BY <1>1, <1>3, <1>4, <2>1
<1> QED BY <1>2, <1>3, <1>4, <1>5, <1>8, <1>10, <1>11

\* Replacing one LaneState leaves the others.
LEMMA ReplaceLane ==
  ASSUME NEW ss \in Seq(LaneType), NEW i \in 1..Len(ss), NEW ls \in LaneType
  PROVE  /\ [ss EXCEPT ![i] = ls] \in Seq(LaneType)
         /\ Len([ss EXCEPT ![i] = ls]) = Len(ss)
         /\ [ss EXCEPT ![i] = ls][i] = ls
         /\ \A k \in 1..Len(ss) : k # i => [ss EXCEPT ![i] = ls][k] = ss[k]
BY ExceptSeq

\* The LaneState objects and the promises after pump().
PumpedStates(ss, i) == [ss EXCEPT ![i] = L!Pumped(ss[i])]
PumpedPromises(ss, i, pr) ==
  [t \in Tasks |-> IF t \in L!Started(ss[i]) THEN "running" ELSE pr[t]]

\* The lane is in order and full, no generation has changed, and only waiting
\* tasks of the lane's current generation were started.
PumpResult(ss, i, pr, hm, gn, nn) ==
  /\ LaneOK(PumpedStates(ss, i), i, PumpedPromises(ss, i, pr), hm, gn, nn)
  /\ Full(PumpedStates(ss, i), i)
  /\ Len(PumpedStates(ss, i)) = Len(ss)
  /\ \A k \in 1..Len(ss) : PumpedStates(ss, i)[k].generation = ss[k].generation
  /\ \A t \in L!Started(ss[i]) :
        pr[t] = "queued" /\ hm[t] = i /\ gn[t] = ss[i].generation

\* pump() keeps the lane in order and leaves it full.
LEMMA PumpOK ==
  ASSUME NEW ss, NEW i, NEW pr, NEW hm, NEW gn, NEW nn,
         LaneOK(ss, i, pr, hm, gn, nn), i # 0
  PROVE  PumpResult(ss, i, pr, hm, gn, nn)
<1> DEFINE ss2 == PumpedStates(ss, i)
           pr2 == PumpedPromises(ss, i, pr)
           ls == ss[i]
           st == L!Started(ls)
           lp == L!Pumped(ls)
<1>1. /\ ss \in Seq(LaneType) /\ i \in 1..Len(ss) /\ Len(ss) \in Nat
      /\ pr \in [Tasks -> Promises] /\ nn \in [Tasks -> Nat]
      /\ hm \in [Tasks -> Nat] /\ gn \in [Tasks -> Nat]
      /\ Placed(ss, pr, hm, gn) /\ FifoOK(pr, hm, nn)
      /\ \A k \in 1..Len(ss) : CapOK(ss[k], k, pr, hm, gn)
      /\ QueueOK(ls, i, pr, hm, gn, nn)
  BY DEF LaneOK
<1>2. ls \in LaneType /\ ls.generation \in Nat
  <2>1. ls \in LaneType
    BY <1>1, ElementOfSeq
  <2> QED BY <2>1 DEF LaneType
<1> HIDE DEF ls
<1>3. /\ ls.active = RunningOf(pr, hm, gn, i, ls.generation)
      /\ IsFiniteSet(ls.active) /\ Cardinality(ls.active) <= MaxConcurrent
  BY <1>1, <1>2 DEF CapOK, ls
<1>4. /\ Sorted(ls.queue, nn)
      /\ ToSet(ls.queue) = {t \in Tasks : pr[t] = "queued" /\ hm[t] = i}
      /\ \A t \in ToSet(ls.queue) : gn[t] = ls.generation
  BY <1>1 DEF QueueOK
<1>5. ls.active \cap ToSet(ls.queue) = {}
  BY <1>3, <1>4 DEF RunningOf
<1>6. /\ lp \in LaneType
      /\ lp.generation = ls.generation
      /\ lp.active = ls.active \cup st
      /\ st \subseteq ToSet(ls.queue)
      /\ ToSet(lp.queue) = ToSet(ls.queue) \ st
      /\ Sorted(lp.queue, nn)
      /\ \A t \in st, u \in ToSet(lp.queue) : nn[t] < nn[u]
      /\ IsFiniteSet(lp.active)
      /\ Cardinality(lp.active) <= MaxConcurrent
      /\ lp.queue # <<>> => Cardinality(lp.active) >= MaxConcurrent
  BY <1>1, <1>2, <1>3, <1>4, <1>5, PumpTakes
<1> HIDE DEF st, lp
<1>7. ss2 = [ss EXCEPT ![i] = lp]
  BY DEF lp, ls, PumpedStates
<1>8. pr2 = [t \in Tasks |-> IF t \in st THEN "running" ELSE pr[t]]
  BY DEF st, ls, PumpedPromises
<1> HIDE DEF ss2, pr2
<1>9. /\ ss2 \in Seq(LaneType) /\ Len(ss2) = Len(ss) /\ ss2[i] = lp
      /\ \A k \in 1..Len(ss) : k # i => ss2[k] = ss[k]
  BY <1>1, <1>6, <1>7, ReplaceLane
<1>10. \A k \in 1..Len(ss) : ss2[k].generation = ss[k].generation
  BY <1>6, <1>9 DEF ls
<1>11. \A t \in st : t \in Tasks /\ pr[t] = "queued" /\ hm[t] = i /\ gn[t] = ls.generation
  BY <1>4, <1>6
<1>12. \A t \in Tasks : pr2[t] = IF t \in st THEN "running" ELSE pr[t]
  BY <1>8
<1>13. pr2 \in [Tasks -> Promises]
  <2>1. "running" \in Promises
    BY DEF Promises, L!Pending
  <2> QED BY <1>1, <1>8, <2>1
<1>14. Placed(ss2, pr2, hm, gn)
  <2> SUFFICES ASSUME NEW t \in Tasks
               PROVE  /\ hm[t] \in 0..Len(ss2)
                      /\ pr2[t] \in L!Pending => hm[t] # 0
                      /\ hm[t] # 0 => gn[t] <= ss2[hm[t]].generation
    BY DEF Placed
  <2>1. /\ hm[t] \in 0..Len(ss)
        /\ pr[t] \in L!Pending => hm[t] # 0
        /\ hm[t] # 0 => gn[t] <= ss[hm[t]].generation
    BY <1>1 DEF Placed
  <2>2. pr2[t] \in L!Pending => pr[t] \in L!Pending
    BY <1>11, <1>12 DEF L!Pending
  <2>3. hm[t] # 0 => hm[t] \in 1..Len(ss)
    BY <1>1, <2>1
  <2> QED BY <1>9, <1>10, <2>1, <2>2, <2>3
<1>15. FifoOK(pr2, hm, nn)
  <2> SUFFICES ASSUME NEW t \in Tasks, NEW u \in Tasks,
                      pr2[t] = "queued", pr2[u] = "running", hm[t] = hm[u]
               PROVE  nn[u] < nn[t]
    BY DEF FifoOK
  <2>1. t \notin st /\ pr[t] = "queued"
    BY <1>12
  <2>2. CASE u \in st
    <3>1. t \in ToSet(lp.queue)
      BY <1>4, <1>6, <1>11, <2>1, <2>2
    <3> QED BY <1>6, <2>2, <3>1
  <2>3. CASE u \notin st
    BY <1>1, <1>12, <2>1, <2>3 DEF FifoOK
  <2> QED BY <2>2, <2>3
<1>16. QueueOK(ss2[i], i, pr2, hm, gn, nn)
  <2>1. ToSet(lp.queue) = {t \in Tasks : pr2[t] = "queued" /\ hm[t] = i}
    BY <1>4, <1>6, <1>12
  <2> QED BY <1>4, <1>6, <1>9, <2>1 DEF QueueOK
<1>17. ASSUME NEW k \in 1..Len(ss) PROVE CapOK(ss2[k], k, pr2, hm, gn)
  <2>1. CASE k # i
    <3>1. \A g : RunningOf(pr2, hm, gn, k, g) = RunningOf(pr, hm, gn, k, g)
      BY <1>11, <1>12, <2>1 DEF RunningOf
    <3> QED BY <1>1, <1>9, <2>1, <3>1 DEF CapOK
  <2>2. CASE k = i
    <3>1. \A g : g # ls.generation => RunningOf(pr2, hm, gn, i, g) = RunningOf(pr, hm, gn, i, g)
      BY <1>11, <1>12 DEF RunningOf
    <3>2. RunningOf(pr2, hm, gn, i, ls.generation) = lp.active
      BY <1>3, <1>6, <1>11, <1>12 DEF RunningOf
    <3>3. CapOK(ls, i, pr, hm, gn)
      BY <1>1 DEF ls
    <3> QED BY <1>6, <1>9, <2>2, <3>1, <3>2, <3>3 DEF CapOK
  <2> QED BY <2>1, <2>2
<1>18. LaneOK(ss2, i, pr2, hm, gn, nn)
  BY <1>1, <1>9, <1>13, <1>14, <1>15, <1>16, <1>17 DEF LaneOK
<1>19. Full(ss2, i)
  BY <1>6, <1>9 DEF Full
<1> QED BY <1>9, <1>10, <1>11, <1>18, <1>19 DEF PumpResult, st, ls, ss2, pr2

-----------------------------------------------------------------------------
(* What comes before pump(), and what does not pump.                       *)

\* getLane() or registerWorkspace() puts a new LaneState in the map.
LEMMA NewLaneOK ==
  ASSUME NEW ss, NEW i, NEW pr, NEW hm, NEW gn, NEW nn, LaneOK(ss, i, pr, hm, gn, nn)
  PROVE  /\ LaneOK(Append(ss, L!NewLane), Len(ss) + 1, pr, hm, gn, nn)
         /\ Full(Append(ss, L!NewLane), Len(ss) + 1)
         /\ Len(Append(ss, L!NewLane)) = Len(ss) + 1
         /\ \A k \in 1..Len(ss) : Append(ss, L!NewLane)[k] = ss[k]
         /\ Append(ss, L!NewLane)[Len(ss) + 1] = L!NewLane
         /\ L!NewLane \in LaneType
<1> DEFINE s2 == Append(ss, L!NewLane)
           n == Len(ss) + 1
<1>1. /\ ss \in Seq(LaneType) /\ Len(ss) \in Nat
      /\ pr \in [Tasks -> Promises] /\ nn \in [Tasks -> Nat]
      /\ hm \in [Tasks -> Nat] /\ gn \in [Tasks -> Nat]
      /\ Placed(ss, pr, hm, gn) /\ FifoOK(pr, hm, nn)
      /\ \A k \in 1..Len(ss) : CapOK(ss[k], k, pr, hm, gn)
  BY DEF LaneOK
<1>2. /\ L!NewLane \in LaneType
      /\ L!NewLane.queue = <<>> /\ L!NewLane.active = {} /\ L!NewLane.generation = 0
  BY DEF L!NewLane, LaneType
<1>3. /\ s2 \in Seq(LaneType) /\ Len(s2) = n /\ s2[n] = L!NewLane
      /\ \A k \in 1..Len(ss) : s2[k] = ss[k]
  BY <1>1, <1>2, AppendProperties
<1> HIDE DEF s2
<1>4. \A t \in Tasks : hm[t] \in 0..Len(ss) /\ hm[t] # n
  BY <1>1 DEF Placed
<1>5. Placed(s2, pr, hm, gn)
  BY <1>1, <1>3, <1>4 DEF Placed
<1>6. \A g : RunningOf(pr, hm, gn, n, g) = {}
  BY <1>4 DEF RunningOf
<1>7. CapOK(L!NewLane, n, pr, hm, gn)
  <2>1. IsFiniteSet({}) /\ Cardinality({}) = 0 /\ 0 <= MaxConcurrent
    BY FS_EmptySet, MaxConcurrentAssumption
  <2> HIDE DEF n
  <2> QED BY <1>2, <1>6, <2>1 DEF CapOK
<1>8. \A k \in 1..n : CapOK(s2[k], k, pr, hm, gn)
  <2> SUFFICES ASSUME NEW k \in 1..n PROVE CapOK(s2[k], k, pr, hm, gn)
    OBVIOUS
  <2>1. k = n \/ k \in 1..Len(ss)
    BY <1>1
  <2> QED BY <1>1, <1>3, <1>7, <2>1
<1>9. QueueOK(L!NewLane, n, pr, hm, gn, nn)
  <2>1. ToSet(<<>>) = {} /\ Sorted(<<>>, nn)
    BY DEF ToSet, Sorted
  <2>2. {t \in Tasks : pr[t] = "queued" /\ hm[t] = n} = {}
    BY <1>4
  <2> QED BY <1>2, <2>1, <2>2 DEF QueueOK
<1>10. n \in 0..n
  BY <1>1
<1>11. LaneOK(s2, n, pr, hm, gn, nn)
  BY <1>1, <1>3, <1>5, <1>8, <1>9, <1>10 DEF LaneOK
<1>12. Full(s2, n)
  BY <1>2, <1>3 DEF Full
<1> QED BY <1>2, <1>3, <1>11, <1>12 DEF s2

\* enqueue() has pushed its entry and not pumped yet.
LEMMA EnqueuedOK ==
  ASSUME NEW ss, NEW i, NEW pr, NEW hm, NEW gn, NEW nn,
         LaneOK(ss, i, pr, hm, gn, nn), i # 0,
         NEW t \in Tasks, pr[t] = "new",
         NEW m \in Nat, \A u \in Tasks : nn[u] < m
  PROVE  LaneOK([ss EXCEPT ![i].queue = Append(@, t)], i, [pr EXCEPT ![t] = "queued"],
                [hm EXCEPT ![t] = i], [gn EXCEPT ![t] = ss[i].generation],
                [nn EXCEPT ![t] = m])
<1> DEFINE ls == ss[i]
           lq == [ls EXCEPT !.queue = Append(@, t)]
           s2 == [ss EXCEPT ![i].queue = Append(@, t)]
           p2 == [pr EXCEPT ![t] = "queued"]
           h2 == [hm EXCEPT ![t] = i]
           g2 == [gn EXCEPT ![t] = ss[i].generation]
           n2 == [nn EXCEPT ![t] = m]
<1>1. /\ ss \in Seq(LaneType) /\ i \in 1..Len(ss) /\ Len(ss) \in Nat
      /\ pr \in [Tasks -> Promises] /\ nn \in [Tasks -> Nat]
      /\ hm \in [Tasks -> Nat] /\ gn \in [Tasks -> Nat]
      /\ Placed(ss, pr, hm, gn) /\ FifoOK(pr, hm, nn)
      /\ \A k \in 1..Len(ss) : CapOK(ss[k], k, pr, hm, gn)
      /\ QueueOK(ls, i, pr, hm, gn, nn)
  BY DEF LaneOK
<1>2. ls \in LaneType
  BY <1>1, ElementOfSeq
<1>3. ls.generation \in Nat /\ ls.queue \in Seq(Tasks)
  BY <1>2 DEF LaneType
<1>4. s2 = [ss EXCEPT ![i] = lq]
  BY <1>1, <1>2
<1> HIDE DEF s2
<1>5. /\ p2 \in [Tasks -> Promises] /\ h2 \in [Tasks -> Nat]
      /\ g2 \in [Tasks -> Nat] /\ n2 \in [Tasks -> Nat]
  BY <1>1, <1>3 DEF Promises, L!Pending
<1>6. \A u \in Tasks : /\ p2[u] = IF u = t THEN "queued" ELSE pr[u]
                       /\ h2[u] = IF u = t THEN i ELSE hm[u]
                       /\ g2[u] = IF u = t THEN ls.generation ELSE gn[u]
                       /\ n2[u] = IF u = t THEN m ELSE nn[u]
  BY <1>1
<1> HIDE DEF p2, h2, g2, n2, ls
<1>7. /\ Sorted(ls.queue, nn)
      /\ ToSet(ls.queue) = {u \in Tasks : pr[u] = "queued" /\ hm[u] = i}
      /\ \A u \in ToSet(ls.queue) : gn[u] = ls.generation
  BY <1>1 DEF QueueOK
<1>8. t \notin ToSet(ls.queue) /\ ToSet(ls.queue) \subseteq Tasks
  BY <1>7
<1>9. Sorted(ls.queue, n2)
  <2>1. \A j \in DOMAIN ls.queue : ls.queue[j] \in ToSet(ls.queue)
    BY DEF ToSet
  <2>2. \A j \in DOMAIN ls.queue : n2[ls.queue[j]] = nn[ls.queue[j]]
    BY <1>6, <1>8, <2>1
  <2> QED BY <1>7, <2>2 DEF Sorted
<1>10. \A u \in ToSet(ls.queue) : n2[u] < n2[t]
  BY <1>6, <1>8
<1>11. /\ Append(ls.queue, t) \in Seq(Tasks)
       /\ ToSet(Append(ls.queue, t)) = ToSet(ls.queue) \cup {t}
       /\ Sorted(Append(ls.queue, t), n2)
  BY <1>3, <1>5, <1>9, <1>10, AppendSorted
<1>12. /\ lq \in LaneType /\ lq.queue = Append(ls.queue, t)
       /\ lq.active = ls.active /\ lq.generation = ls.generation
  BY <1>2, <1>11 DEF LaneType
<1> HIDE DEF lq
<1>13. /\ s2 \in Seq(LaneType) /\ Len(s2) = Len(ss) /\ s2[i] = lq
       /\ \A k \in 1..Len(ss) : k # i => s2[k] = ss[k]
  BY <1>1, <1>4, <1>12, ReplaceLane
<1>14. \A k \in 1..Len(ss) : /\ s2[k].generation = ss[k].generation
                             /\ s2[k].active = ss[k].active
  BY <1>12, <1>13 DEF ls
<1>15. Placed(s2, p2, h2, g2)
  <2> SUFFICES ASSUME NEW u \in Tasks
               PROVE  /\ h2[u] \in 0..Len(s2)
                      /\ p2[u] \in L!Pending => h2[u] # 0
                      /\ h2[u] # 0 => g2[u] <= s2[h2[u]].generation
    BY DEF Placed
  <2>1. CASE u = t
    BY <1>1, <1>3, <1>6, <1>12, <1>13, <2>1
  <2>2. CASE u # t
    <3>1. p2[u] = pr[u] /\ h2[u] = hm[u] /\ g2[u] = gn[u]
      BY <1>6, <2>2
    <3>2. /\ hm[u] \in 0..Len(ss)
          /\ pr[u] \in L!Pending => hm[u] # 0
          /\ hm[u] # 0 => gn[u] <= ss[hm[u]].generation
      BY <1>1 DEF Placed
    <3>3. hm[u] # 0 => hm[u] \in 1..Len(ss)
      BY <1>1, <3>2
    <3> QED BY <1>13, <1>14, <3>1, <3>2, <3>3
  <2> QED BY <2>1, <2>2
<1>16. \A k, g : RunningOf(p2, h2, g2, k, g) = RunningOf(pr, hm, gn, k, g)
  BY <1>6 DEF RunningOf
<1>17. ASSUME NEW k \in 1..Len(ss) PROVE CapOK(s2[k], k, p2, h2, g2)
  <2>1. CapOK(ss[k], k, pr, hm, gn)
    BY <1>1
  <2>2. s2[k].active = ss[k].active /\ s2[k].generation = ss[k].generation
    BY <1>14
  <2> QED BY <1>16, <2>1, <2>2 DEF CapOK
<1>18. FifoOK(p2, h2, n2)
  BY <1>1, <1>6 DEF FifoOK
<1>19. QueueOK(lq, i, p2, h2, g2, n2)
  <2>1. ToSet(lq.queue) = {u \in Tasks : p2[u] = "queued" /\ h2[u] = i}
    BY <1>6, <1>7, <1>11, <1>12
  <2>2. \A u \in ToSet(lq.queue) : g2[u] = lq.generation
    BY <1>6, <1>7, <1>8, <1>11, <1>12
  <2> QED BY <1>11, <1>12, <2>1, <2>2 DEF QueueOK
<1>20. LaneOK(s2, i, p2, h2, g2, n2)
  BY <1>1, <1>5, <1>13, <1>15, <1>17, <1>18, <1>19 DEF LaneOK
<1> QED BY <1>20 DEF s2, p2, h2, g2, n2

\* executeEntry() has settled its promise, taken the task off the LaneState it was
\* started by and not pumped yet.
LEMMA DoneOK ==
  ASSUME NEW ss, NEW i, NEW pr, NEW hm, NEW gn, NEW nn, LaneOK(ss, i, pr, hm, gn, nn),
         NEW t \in Tasks, pr[t] = "running", NEW o \in L!Settled
  PROVE  /\ LaneOK([ss EXCEPT ![hm[t]].active = @ \ {t}], i, [pr EXCEPT ![t] = o],
                   hm, gn, nn)
         /\ hm[t] \in 1..Len(ss)
         /\ Len([ss EXCEPT ![hm[t]].active = @ \ {t}]) = Len(ss)
         /\ \A k \in 1..Len(ss) :
               [ss EXCEPT ![hm[t]].active = @ \ {t}][k].generation = ss[k].generation
<1> DEFINE h == hm[t]
           ls == ss[h]
           ld == [ls EXCEPT !.active = @ \ {t}]
           s2 == [ss EXCEPT ![hm[t]].active = @ \ {t}]
           p2 == [pr EXCEPT ![t] = o]
<1>1. /\ ss \in Seq(LaneType) /\ i \in 0..Len(ss) /\ Len(ss) \in Nat
      /\ pr \in [Tasks -> Promises] /\ nn \in [Tasks -> Nat]
      /\ hm \in [Tasks -> Nat] /\ gn \in [Tasks -> Nat]
      /\ Placed(ss, pr, hm, gn) /\ FifoOK(pr, hm, nn)
      /\ \A k \in 1..Len(ss) : CapOK(ss[k], k, pr, hm, gn)
      /\ i # 0 => QueueOK(ss[i], i, pr, hm, gn, nn)
  BY DEF LaneOK
<1>2. h \in 1..Len(ss)
  BY <1>1 DEF Placed, L!Pending
<1>3. ls \in LaneType
  BY <1>1, <1>2, ElementOfSeq
<1>4. s2 = [ss EXCEPT ![h] = ld]
  BY <1>1, <1>2, <1>3
<1>5. p2 \in [Tasks -> Promises] /\ o \notin L!Pending
  BY <1>1 DEF Promises, L!Pending, L!Settled
<1>6. \A u \in Tasks : p2[u] = IF u = t THEN o ELSE pr[u]
  BY <1>1
<1> HIDE DEF s2, p2, h, ls
<1>7. /\ ld \in LaneType /\ ld.queue = ls.queue /\ ld.generation = ls.generation
      /\ ld.active = ls.active \ {t}
  BY <1>3 DEF LaneType
<1> HIDE DEF ld
<1>8. /\ s2 \in Seq(LaneType) /\ Len(s2) = Len(ss) /\ s2[h] = ld
      /\ \A k \in 1..Len(ss) : k # h => s2[k] = ss[k]
  BY <1>1, <1>2, <1>4, <1>7, ReplaceLane
<1>9. \A k \in 1..Len(ss) : /\ s2[k].generation = ss[k].generation
                            /\ s2[k].queue = ss[k].queue
  BY <1>7, <1>8 DEF ls
<1>10. \A k, g : RunningOf(p2, hm, gn, k, g) = RunningOf(pr, hm, gn, k, g) \ {t}
  <2>1. o # "running"
    BY <1>5 DEF L!Pending
  <2> QED BY <1>6, <2>1 DEF RunningOf
<1>11. \A k \in 1..Len(ss) : s2[k].active = ss[k].active \ {t}
  <2> SUFFICES ASSUME NEW k \in 1..Len(ss) PROVE s2[k].active = ss[k].active \ {t}
    OBVIOUS
  <2>1. CASE k = h
    BY <1>7, <1>8, <2>1 DEF ls
  <2>2. CASE k # h
    <3>1. ss[k].active = RunningOf(pr, hm, gn, k, ss[k].generation)
      BY <1>1 DEF CapOK
    <3>2. t \notin ss[k].active
      BY <2>2, <3>1 DEF RunningOf, h
    <3> QED BY <1>8, <2>2, <3>2
  <2> QED BY <2>1, <2>2
<1>12. ASSUME NEW k \in 1..Len(ss) PROVE CapOK(s2[k], k, p2, hm, gn)
  <2>1. CapOK(ss[k], k, pr, hm, gn)
    BY <1>1
  <2>2. s2[k].active = RunningOf(p2, hm, gn, k, s2[k].generation)
    <3>1. ss[k].active = RunningOf(pr, hm, gn, k, ss[k].generation)
      BY <2>1 DEF CapOK
    <3>2. s2[k].active = RunningOf(p2, hm, gn, k, ss[k].generation)
      <4>1. RunningOf(p2, hm, gn, k, ss[k].generation)
              = RunningOf(pr, hm, gn, k, ss[k].generation) \ {t}
        BY <1>10
      <4>2. s2[k].active = ss[k].active \ {t}
        BY <1>11
      <4> QED BY <3>1, <4>1, <4>2
    <3> QED BY <1>9, <3>2
  <2>3. ASSUME NEW g \in Nat
        PROVE  /\ IsFiniteSet(RunningOf(p2, hm, gn, k, g))
               /\ Cardinality(RunningOf(p2, hm, gn, k, g)) <= MaxConcurrent
    <3> DEFINE r == RunningOf(pr, hm, gn, k, g)
               r2 == RunningOf(p2, hm, gn, k, g)
    <3>1. IsFiniteSet(r) /\ Cardinality(r) <= MaxConcurrent
      BY <2>1 DEF CapOK
    <3>2. r2 \in SUBSET r
      BY <1>10
    <3>3. IsFiniteSet(r2) /\ Cardinality(r2) <= Cardinality(r)
      BY <3>1, <3>2, FS_Subset
    <3>4. Cardinality(r) \in Nat /\ Cardinality(r2) \in Nat /\ MaxConcurrent \in Nat
      BY <3>1, <3>3, FS_CardinalityType, MaxConcurrentAssumption
    <3> HIDE DEF r, r2
    <3>5. Cardinality(r2) <= MaxConcurrent
      BY <3>1, <3>3, <3>4
    <3> QED BY <3>3, <3>5 DEF r2
  <2> QED BY <2>2, <2>3 DEF CapOK
<1>13. Placed(s2, p2, hm, gn)
  <2> SUFFICES ASSUME NEW u \in Tasks
               PROVE  /\ hm[u] \in 0..Len(s2)
                      /\ p2[u] \in L!Pending => hm[u] # 0
                      /\ hm[u] # 0 => gn[u] <= s2[hm[u]].generation
    BY DEF Placed
  <2>1. /\ hm[u] \in 0..Len(ss)
        /\ pr[u] \in L!Pending => hm[u] # 0
        /\ hm[u] # 0 => gn[u] <= ss[hm[u]].generation
    BY <1>1 DEF Placed
  <2>2. hm[u] # 0 => hm[u] \in 1..Len(ss)
    BY <1>1, <2>1
  <2> QED BY <1>5, <1>6, <1>8, <1>9, <2>1, <2>2
<1>14. \A u \in Tasks : p2[u] = "queued" <=> pr[u] = "queued"
  BY <1>5, <1>6 DEF L!Pending
<1>15. FifoOK(p2, hm, nn)
  <2>1. \A u \in Tasks : p2[u] = "running" => pr[u] = "running"
    BY <1>5, <1>6 DEF L!Pending
  <2> QED BY <1>1, <1>14, <2>1 DEF FifoOK
<1>16. i # 0 => QueueOK(s2[i], i, p2, hm, gn, nn)
  <2> SUFFICES ASSUME i # 0 PROVE QueueOK(s2[i], i, p2, hm, gn, nn)
    OBVIOUS
  <2>1. s2[i].generation = ss[i].generation /\ s2[i].queue = ss[i].queue
    BY <1>1, <1>9
  <2>2. {u \in Tasks : p2[u] = "queued" /\ hm[u] = i}
          = {u \in Tasks : pr[u] = "queued" /\ hm[u] = i}
    BY <1>14
  <2> QED BY <1>1, <2>1, <2>2 DEF QueueOK
<1>17. LaneOK(s2, i, p2, hm, gn, nn)
  BY <1>1, <1>5, <1>8, <1>12, <1>13, <1>15, <1>16 DEF LaneOK
<1> QED BY <1>2, <1>8, <1>9, <1>17 DEF s2, p2, h

\* The promises of a lane's queue are rejected: nobody waits in it any more.
LEMMA ClearedOK ==
  ASSUME NEW ss, NEW i, NEW pr, NEW hm, NEW gn, NEW nn,
         LaneOK(ss, i, pr, hm, gn, nn), i # 0,
         NEW p2, p2 = [u \in Tasks |-> IF u \in ToSet(ss[i].queue) THEN "cleared" ELSE pr[u]]
  PROVE  /\ LaneOK(ss, 0, p2, hm, gn, nn)
         /\ \A u \in Tasks : /\ p2[u] = "queued" => hm[u] # i
                             /\ p2[u] = "running" <=> pr[u] = "running"
                             /\ p2[u] \in L!Pending => pr[u] \in L!Pending
                             /\ p2[u] = "new" => pr[u] = "new"
                             /\ p2[u] = "queued" => pr[u] = "queued"
                             /\ p2[u] # "resolved" \/ pr[u] = "resolved"
<1>1. /\ ss \in Seq(LaneType) /\ i \in 0..Len(ss) /\ Len(ss) \in Nat
      /\ pr \in [Tasks -> Promises] /\ nn \in [Tasks -> Nat]
      /\ hm \in [Tasks -> Nat] /\ gn \in [Tasks -> Nat]
      /\ Placed(ss, pr, hm, gn) /\ FifoOK(pr, hm, nn)
      /\ \A k \in 1..Len(ss) : CapOK(ss[k], k, pr, hm, gn)
      /\ QueueOK(ss[i], i, pr, hm, gn, nn)
  BY DEF LaneOK
<1>2. ToSet(ss[i].queue) = {u \in Tasks : pr[u] = "queued" /\ hm[u] = i}
  BY <1>1 DEF QueueOK
<1>3. \A u \in Tasks : p2[u] = IF pr[u] = "queued" /\ hm[u] = i THEN "cleared" ELSE pr[u]
  BY <1>2
<1>4. p2 \in [Tasks -> Promises]
  BY <1>1 DEF Promises, L!Settled
<1>5. \A u \in Tasks : /\ p2[u] = "queued" => hm[u] # i /\ pr[u] = "queued"
                       /\ p2[u] = "running" <=> pr[u] = "running"
                       /\ p2[u] \in L!Pending => pr[u] \in L!Pending
                       /\ p2[u] = "new" => pr[u] = "new"
                       /\ p2[u] # "resolved" \/ pr[u] = "resolved"
  BY <1>3 DEF L!Pending
<1>6. Placed(ss, p2, hm, gn)
  BY <1>1, <1>5 DEF Placed
<1>7. FifoOK(p2, hm, nn)
  BY <1>1, <1>5 DEF FifoOK
<1>8. \A k, g : RunningOf(p2, hm, gn, k, g) = RunningOf(pr, hm, gn, k, g)
  BY <1>5 DEF RunningOf
<1>9. ASSUME NEW k \in 1..Len(ss) PROVE CapOK(ss[k], k, p2, hm, gn)
  BY <1>1, <1>8 DEF CapOK
<1>10. 0 \in 0..Len(ss)
  BY <1>1
<1>11. LaneOK(ss, 0, p2, hm, gn, nn)
  BY <1>1, <1>4, <1>6, <1>7, <1>9, <1>10 DEF LaneOK
<1> QED BY <1>5, <1>11

\* What resetAll() makes of the LaneState objects ss.
ResetResult(s2, ss, i, pr, hm, gn, nn) ==
  /\ LaneOK(s2, i, pr, hm, gn, nn)
  /\ Full(s2, i)
  /\ s2[i].generation = ss[i].generation + 1
  /\ \A k \in 1..Len(ss) : k # i => s2[k] = ss[k]

\* resetAll() on a lane whose queue has been rejected.
LEMMA ResetOK ==
  ASSUME NEW ss, NEW i, NEW pr, NEW hm, NEW gn, NEW nn,
         LaneOK(ss, 0, pr, hm, gn, nn), i \in 1..Len(ss),
         \A u \in Tasks : pr[u] = "queued" => hm[u] # i,
         NEW lr \in LaneType, lr.queue = <<>>, lr.active = {},
         lr.generation = ss[i].generation + 1
  PROVE  ResetResult([ss EXCEPT ![i] = lr], ss, i, pr, hm, gn, nn)
<1> DEFINE s2 == [ss EXCEPT ![i] = lr]
<1>1. /\ ss \in Seq(LaneType) /\ Len(ss) \in Nat
      /\ pr \in [Tasks -> Promises] /\ nn \in [Tasks -> Nat]
      /\ hm \in [Tasks -> Nat] /\ gn \in [Tasks -> Nat]
      /\ Placed(ss, pr, hm, gn) /\ FifoOK(pr, hm, nn)
      /\ \A k \in 1..Len(ss) : CapOK(ss[k], k, pr, hm, gn)
  BY DEF LaneOK
<1>2. ss[i] \in LaneType
  BY <1>1, ElementOfSeq
<1>3. ss[i].generation \in Nat
  BY <1>2 DEF LaneType
<1>4. /\ s2 \in Seq(LaneType) /\ Len(s2) = Len(ss) /\ s2[i] = lr
      /\ \A k \in 1..Len(ss) : k # i => s2[k] = ss[k]
  BY <1>1, ReplaceLane
<1> HIDE DEF s2
<1>5. \A u \in Tasks : /\ hm[u] \in 0..Len(ss)
                       /\ pr[u] \in L!Pending => hm[u] # 0
                       /\ hm[u] # 0 => gn[u] <= ss[hm[u]].generation
  BY <1>1 DEF Placed
<1>6. \A u \in Tasks : hm[u] = i => gn[u] \in Nat /\ gn[u] <= ss[i].generation
  BY <1>1, <1>5
<1>7. Placed(s2, pr, hm, gn)
  <2> SUFFICES ASSUME NEW u \in Tasks, hm[u] # 0
               PROVE  gn[u] <= s2[hm[u]].generation
    BY <1>4, <1>5 DEF Placed
  <2>1. CASE hm[u] = i
    BY <1>3, <1>4, <1>6, <2>1
  <2>2. CASE hm[u] # i
    BY <1>1, <1>4, <1>5, <2>2
  <2> QED BY <2>1, <2>2
<1>8. ASSUME NEW k \in 1..Len(ss) PROVE CapOK(s2[k], k, pr, hm, gn)
  <2>1. CASE k # i
    BY <1>1, <1>4, <2>1
  <2>2. CASE k = i
    <3>1. RunningOf(pr, hm, gn, i, ss[i].generation + 1) = {}
      BY <1>3, <1>6 DEF RunningOf
    <3>2. CapOK(ss[i], i, pr, hm, gn)
      BY <1>1
    <3> QED BY <1>4, <2>2, <3>1, <3>2 DEF CapOK
  <2> QED BY <2>1, <2>2
<1>9. QueueOK(lr, i, pr, hm, gn, nn)
  <2>1. ToSet(<<>>) = {} /\ Sorted(<<>>, nn)
    BY DEF ToSet, Sorted
  <2>2. {u \in Tasks : pr[u] = "queued" /\ hm[u] = i} = {}
    OBVIOUS
  <2> QED BY <2>1, <2>2 DEF QueueOK
<1>10. LaneOK(s2, i, pr, hm, gn, nn)
  BY <1>1, <1>4, <1>7, <1>8, <1>9 DEF LaneOK
<1>11. Full(s2, i)
  BY <1>4 DEF Full
<1> QED BY <1>4, <1>10, <1>11 DEF ResetResult, s2

-----------------------------------------------------------------------------
(* The actions of the lane.                                                *)

\* What runs after a step ran before, with the generations unchanged, or is
\* current and was never reset.
StaysCurrent(ss, pr, hm, gn, pre, s2, p2, h2, g2) ==
  \A u \in Tasks : p2[u] = "running" =>
     \/ /\ pr[u] = "running" /\ h2[u] = hm[u] /\ g2[u] = gn[u]
        /\ s2[hm[u]].generation = ss[hm[u]].generation
     \/ (u \notin pre /\ g2[u] = s2[h2[u]].generation)

\* A step that starts only current tasks, and ages none, leaves the stale ones.
LEMMA StaleKept ==
  ASSUME NEW ss, NEW pr, NEW hm, NEW gn, NEW pre, Stale(ss, pr, hm, gn, pre),
         NEW s2, NEW p2, NEW h2, NEW g2,
         StaysCurrent(ss, pr, hm, gn, pre, s2, p2, h2, g2),
         \A u \in pre : p2[u] \notin {"new", "queued"}
  PROVE  Stale(s2, p2, h2, g2, pre)
<1>1. ASSUME NEW u \in Tasks, p2[u] = "running"
      PROVE  g2[u] # s2[h2[u]].generation <=> u \in pre
  <2>1. CASE /\ pr[u] = "running" /\ h2[u] = hm[u] /\ g2[u] = gn[u]
             /\ s2[hm[u]].generation = ss[hm[u]].generation
    BY <2>1 DEF Stale
  <2>2. CASE u \notin pre /\ g2[u] = s2[h2[u]].generation
    BY <2>2
  <2> QED BY <1>1, <2>1, <2>2 DEF StaysCurrent
<1> QED BY <1>1 DEF Stale

\* getLane(), with or without a lane in the map.
LEMMA WithLaneOK ==
  ASSUME LaneInv
  PROVE  /\ LaneOK(L!WithLane, L!LaneIndex, promise, home, gen, id)
         /\ L!LaneIndex # 0
         /\ Len(states) \in Nat /\ Len(L!WithLane) \in Nat /\ Len(states) <= Len(L!WithLane)
         /\ \A k \in 1..Len(states) : L!WithLane[k] = states[k]
         /\ \A u \in Tasks : promise[u] \in L!Pending => home[u] \in 1..Len(states)
         /\ L!LaneIndex \in 1..Len(L!WithLane)
         /\ \A u \in Tasks : promise[u] = "queued" /\ home[u] = L!LaneIndex => u \notin preReset
<1>1. LaneOK(states, cur, promise, home, gen, id) /\ states \in Seq(LaneType)
  BY DEF LaneInv, LaneOK
<1>2. Len(states) \in Nat /\ cur \in 0..Len(states)
  BY <1>1 DEF LaneOK
<1>3. \A u \in Tasks : promise[u] \in L!Pending => home[u] \in 1..Len(states)
  BY <1>1 DEF LaneOK, Placed
<1>4. \A u \in Tasks : promise[u] = "queued" => u \notin preReset
  BY DEF LaneInv, Stale
<1>5. CASE cur = 0
  <2>1. L!WithLane = Append(states, L!NewLane) /\ L!LaneIndex = Len(states) + 1
    BY <1>5 DEF L!WithLane, L!LaneIndex
  <2>2. /\ LaneOK(Append(states, L!NewLane), Len(states) + 1, promise, home, gen, id)
        /\ Len(Append(states, L!NewLane)) = Len(states) + 1
        /\ \A k \in 1..Len(states) : Append(states, L!NewLane)[k] = states[k]
    BY <1>1, NewLaneOK
  <2> HIDE DEF LaneInv
  <2> QED BY <1>2, <1>3, <1>4, <2>1, <2>2
<1>6. CASE cur # 0
  BY <1>1, <1>2, <1>3, <1>4, <1>6 DEF L!WithLane, L!LaneIndex
<1> QED BY <1>5, <1>6

\* enqueue() while draining.
LEMMA RefusedStep ==
  ASSUME LaneInv, NEW t \in Tasks, promise[t] = "new",
         promise' = [promise EXCEPT ![t] = "refused"],
         UNCHANGED <<states, cur, home, gen, id, counter, preReset>>
  PROVE  LaneInv'
<1>1. /\ states \in Seq(LaneType) /\ cur \in 0..Len(states)
      /\ promise \in [Tasks -> Promises] /\ home \in [Tasks -> Nat]
      /\ gen \in [Tasks -> Nat] /\ id \in [Tasks -> Nat]
      /\ Placed(states, promise, home, gen) /\ FifoOK(promise, home, id)
      /\ \A k \in 1..Len(states) : CapOK(states[k], k, promise, home, gen)
      /\ cur # 0 => QueueOK(states[cur], cur, promise, home, gen, id)
      /\ Stale(states, promise, home, gen, preReset)
  BY DEF LaneInv, LaneOK
<1>2. promise' \in [Tasks -> Promises]
  BY <1>1 DEF Promises, L!Settled
<1>3. \A u \in Tasks : /\ promise'[u] \in L!Pending <=> promise[u] \in L!Pending
                       /\ promise'[u] = "queued" <=> promise[u] = "queued"
                       /\ promise'[u] = "running" <=> promise[u] = "running"
                       /\ promise'[u] = "new" => promise[u] = "new"
  BY <1>1 DEF L!Pending
<1>4. Placed(states, promise', home, gen) /\ FifoOK(promise', home, id)
  BY <1>1, <1>3 DEF Placed, FifoOK
<1>5. \A k, g : RunningOf(promise', home, gen, k, g) = RunningOf(promise, home, gen, k, g)
  BY <1>3 DEF RunningOf
<1>6. ASSUME NEW k \in 1..Len(states) PROVE CapOK(states[k], k, promise', home, gen)
  BY <1>1, <1>5 DEF CapOK
<1>7. {u \in Tasks : promise'[u] = "queued" /\ home[u] = cur}
        = {u \in Tasks : promise[u] = "queued" /\ home[u] = cur}
  BY <1>3
<1>8. cur # 0 => QueueOK(states[cur], cur, promise', home, gen, id)
  BY <1>1, <1>7 DEF QueueOK
<1>9. LaneOK(states, cur, promise', home, gen, id)
  BY <1>1, <1>2, <1>4, <1>6, <1>8 DEF LaneOK
<1>10. Stale(states, promise', home, gen, preReset)
  BY <1>1, <1>3 DEF Stale
<1> QED BY <1>9, <1>10 DEF LaneInv, Full

\* enqueue() of a lane that takes the task: push and pump().
LEMMA AcceptedStep ==
  ASSUME LaneInv, NEW t \in Tasks, promise[t] = "new",
         home' = [home EXCEPT ![t] = L!LaneIndex],
         gen' = [gen EXCEPT ![t] = L!WithLane[L!LaneIndex].generation],
         counter' = counter + 1,
         id' = [id EXCEPT ![t] = counter + 1],
         L!PumpLane([L!WithLane EXCEPT ![L!LaneIndex].queue = Append(@, t)],
                    L!LaneIndex, [promise EXCEPT ![t] = "queued"]),
         preReset' = preReset
  PROVE  LaneInv'
<1> DEFINE wl == L!WithLane
           li == L!LaneIndex
           se == [wl EXCEPT ![li].queue = Append(@, t)]
           pe == [promise EXCEPT ![t] = "queued"]
<1>1. /\ LaneOK(wl, li, promise, home, gen, id) /\ li # 0
      /\ li \in 1..Len(wl) /\ Len(wl) \in Nat /\ Len(states) <= Len(wl) /\ Len(states) \in Nat
      /\ \A k \in 1..Len(states) : wl[k] = states[k]
      /\ \A u \in Tasks : promise[u] \in L!Pending => home[u] \in 1..Len(states)
  BY WithLaneOK
<1>2. /\ counter \in Nat /\ counter + 1 \in Nat /\ id \in [Tasks -> Nat]
      /\ \A u \in Tasks : id[u] <= counter /\ id[u] < counter + 1
  <2>1. counter \in Nat /\ id \in [Tasks -> Nat] /\ \A u \in Tasks : id[u] <= counter
    BY DEF LaneInv, LaneOK
  <2> QED BY <2>1
<1>3. Stale(states, promise, home, gen, preReset) /\ promise \in [Tasks -> Promises]
  BY DEF LaneInv, LaneOK
<1>4. states' = PumpedStates(se, li) /\ cur' = li /\ promise' = PumpedPromises(se, li, pe)
  BY DEF L!PumpLane, PumpedStates, PumpedPromises
<1> HIDE DEF wl, li
<1>5. LaneOK(se, li, pe, home', gen', id')
  BY <1>1, <1>2, EnqueuedOK DEF wl, li
<1>6. /\ se \in Seq(LaneType) /\ Len(se) = Len(wl)
      /\ \A k \in 1..Len(wl) : se[k].generation = wl[k].generation
  <2>1. wl \in Seq(LaneType)
    BY <1>1 DEF LaneOK
  <2>2. wl[li] \in LaneType
    BY <1>1, <2>1, ElementOfSeq
  <2>3. se = [wl EXCEPT ![li] = [wl[li] EXCEPT !.queue = Append(@, t)]]
    BY <1>1, <2>1
  <2>4. /\ [wl[li] EXCEPT !.queue = Append(@, t)] \in LaneType
        /\ [wl[li] EXCEPT !.queue = Append(@, t)].generation = wl[li].generation
    <3>1. Append(wl[li].queue, t) \in Seq(Tasks)
      BY <2>2, AppendProperties DEF LaneType
    <3> DEFINE aq == Append(wl[li].queue, t)
    <3> HIDE DEF aq
    <3>2. /\ [wl[li] EXCEPT !.queue = aq] \in LaneType
          /\ [wl[li] EXCEPT !.queue = aq].generation = wl[li].generation
      BY <2>2, <3>1 DEF LaneType, aq
    <3> QED BY <2>2, <3>2 DEF aq
  <2> HIDE DEF se
  <2> QED BY <1>1, <2>1, <2>3, <2>4, ReplaceLane
<1> HIDE DEF se, pe
<1>7. /\ LaneOK(states', li, promise', home', gen', id')
      /\ Full(states', li)
      /\ Len(states') = Len(se)
      /\ \A k \in 1..Len(se) : states'[k].generation = se[k].generation
      /\ \A u \in L!Started(se[li]) :
            pe[u] = "queued" /\ home'[u] = li /\ gen'[u] = se[li].generation
  <2>1. li # 0
    BY <1>1
  <2>2. PumpResult(se, li, pe, home', gen', id')
    BY <1>5, <2>1, PumpOK
  <2> QED BY <1>4, <2>2 DEF PumpResult
<1>8. \A u \in Tasks : pe[u] = IF u = t THEN "queued" ELSE promise[u]
  BY <1>3 DEF pe
<1>9. home \in [Tasks -> Nat] /\ gen \in [Tasks -> Nat]
  BY DEF LaneInv, LaneOK
<1>10. \A u \in Tasks : u # t => home'[u] = home[u] /\ gen'[u] = gen[u]
  BY <1>9
<1>11. t \notin preReset /\ \A u \in preReset : u \in Tasks /\ promise[u] \notin {"new", "queued"}
  BY <1>3 DEF Stale
<1>12. ASSUME NEW u \in Tasks, promise'[u] = "running"
       PROVE  \/ /\ promise[u] = "running" /\ home'[u] = home[u] /\ gen'[u] = gen[u]
                 /\ states'[home[u]].generation = states[home[u]].generation
              \/ (u \notin preReset /\ gen'[u] = states'[home'[u]].generation)
  <2>1. CASE u \in L!Started(se[li])
    <3>1. u \notin preReset
      BY <1>7, <1>8, <1>11, <2>1
    <3>2. states'[li].generation = se[li].generation
      BY <1>1, <1>6, <1>7
    <3> QED BY <1>7, <2>1, <3>1, <3>2
  <2>2. CASE u \notin L!Started(se[li])
    <3>1. u # t /\ promise[u] = "running"
      BY <1>4, <1>8, <1>12, <2>2 DEF PumpedPromises
    <3>2. home[u] \in 1..Len(states)
      BY <1>1, <3>1 DEF L!Pending
    <3>3. states'[home[u]].generation = states[home[u]].generation
      BY <1>1, <1>6, <1>7, <3>2
    <3> QED BY <1>10, <3>1, <3>3
  <2> QED BY <2>1, <2>2
<1>13. \A u \in preReset : promise'[u] \notin {"new", "queued"}
  BY <1>4, <1>8, <1>11 DEF PumpedPromises
<1>14. Stale(states', promise', home', gen', preReset')
  <2>1. StaysCurrent(states, promise, home, gen, preReset, states', promise', home', gen')
    BY <1>12 DEF StaysCurrent
  <2> QED BY <1>3, <1>13, <2>1, StaleKept
<1>15. \A u \in Tasks : id'[u] <= counter'
  BY <1>2
<1>16. counter' \in Nat
  BY <1>2
<1> QED BY <1>4, <1>7, <1>14, <1>15, <1>16 DEF LaneInv

\* enqueue()
LEMMA EnqueueStep ==
  ASSUME LaneInv, NEW t \in Tasks, L!Enqueue(t)
  PROVE  LaneInv'
<1>1. CASE L!IsDraining
  BY <1>1, RefusedStep DEF L!Enqueue
<1>2. CASE ~L!IsDraining
  BY <1>2, AcceptedStep DEF L!Enqueue
<1> QED BY <1>1, <1>2

\* executeEntry() from its await to the end of `finally`; a task from before a
\* resetAll() is never resolved.
LEMMA CompleteStep ==
  ASSUME LaneInv, NEW t \in Tasks, L!Complete(t)
  PROVE  /\ LaneInv'
         /\ \A u \in preReset : promise[u] \in L!Pending => promise'[u] # "resolved"
<1> DEFINE wl == L!WithLane
           li == L!LaneIndex
           sd == [wl EXCEPT ![home[t]].active = @ \ {t}]
<1>1. PICK ok \in BOOLEAN :
        L!PumpLane(sd, li, [promise EXCEPT ![t] = L!Outcome(t, ok)])
  BY DEF L!Complete
<1> DEFINE o == L!Outcome(t, ok)
           pd == [promise EXCEPT ![t] = o]
<1>2. promise[t] = "running" /\ UNCHANGED <<home, gen, id, counter, preReset>>
  BY DEF L!Complete
<1>3. /\ LaneOK(wl, li, promise, home, gen, id) /\ li # 0
      /\ li \in 1..Len(wl) /\ Len(wl) \in Nat /\ Len(states) <= Len(wl) /\ Len(states) \in Nat
      /\ \A k \in 1..Len(states) : wl[k] = states[k]
      /\ \A u \in Tasks : promise[u] \in L!Pending => home[u] \in 1..Len(states)
      /\ \A u \in Tasks : promise[u] = "queued" /\ home[u] = li => u \notin preReset
  BY WithLaneOK
<1>4. /\ Stale(states, promise, home, gen, preReset) /\ promise \in [Tasks -> Promises]
      /\ counter \in Nat /\ \A u \in Tasks : id[u] <= counter
  BY DEF LaneInv, LaneOK
<1>5. o \in L!Settled /\ o \notin {"new", "queued", "running"}
  BY DEF L!Outcome, L!Settled
<1>6. states' = PumpedStates(sd, li) /\ cur' = li /\ promise' = PumpedPromises(sd, li, pd)
  BY <1>1 DEF L!PumpLane, PumpedStates, PumpedPromises
<1>7. t \in preReset => o # "resolved"
  BY <1>2, <1>4 DEF Stale, L!Outcome
<1> HIDE DEF wl, li, o
<1>8. /\ LaneOK(sd, li, pd, home, gen, id)
      /\ Len(sd) = Len(wl)
      /\ \A k \in 1..Len(wl) : sd[k].generation = wl[k].generation
  BY <1>2, <1>3, <1>5, DoneOK
<1>9. \A u \in Tasks : pd[u] = IF u = t THEN o ELSE promise[u]
  BY <1>4
<1> HIDE DEF sd, pd
<1>10. PumpResult(sd, li, pd, home, gen, id)
  BY <1>3, <1>8, PumpOK
<1>11. /\ LaneOK(states', li, promise', home, gen, id)
       /\ Full(states', li)
       /\ Len(states') = Len(sd)
       /\ \A k \in 1..Len(sd) : states'[k].generation = sd[k].generation
       /\ \A u \in L!Started(sd[li]) :
             pd[u] = "queued" /\ home[u] = li /\ gen[u] = sd[li].generation
  BY <1>6, <1>10 DEF PumpResult
<1>12. \A u \in Tasks : promise'[u] = IF u \in L!Started(sd[li]) THEN "running" ELSE pd[u]
  BY <1>6 DEF PumpedPromises
<1>13. \A u \in preReset : u \in Tasks /\ promise[u] \notin {"new", "queued"}
  BY <1>4 DEF Stale
<1>14. ASSUME NEW u \in Tasks, promise'[u] = "running"
       PROVE  \/ /\ promise[u] = "running" /\ home'[u] = home[u] /\ gen'[u] = gen[u]
                 /\ states'[home[u]].generation = states[home[u]].generation
              \/ (u \notin preReset /\ gen'[u] = states'[home'[u]].generation)
  <2>1. CASE u \in L!Started(sd[li])
    <3>1. u # t /\ promise[u] = "queued"
      BY <1>5, <1>9, <1>11, <2>1
    <3>2. u \notin preReset
      BY <1>13, <3>1
    <3>3. states'[li].generation = sd[li].generation
      BY <1>3, <1>8, <1>11
    <3> QED BY <1>2, <1>11, <2>1, <3>2, <3>3
  <2>2. CASE u \notin L!Started(sd[li])
    <3>1. u # t /\ promise[u] = "running"
      BY <1>5, <1>9, <1>12, <1>14, <2>2
    <3>2. home[u] \in 1..Len(states)
      BY <1>3, <3>1 DEF L!Pending
    <3>3. states'[home[u]].generation = states[home[u]].generation
      BY <1>3, <1>8, <1>11, <3>2
    <3> QED BY <1>2, <3>1, <3>3
  <2> QED BY <2>1, <2>2
<1>15. \A u \in preReset : promise'[u] \notin {"new", "queued"}
  <2>1. \A u \in preReset : pd[u] \notin {"new", "queued"}
    BY <1>5, <1>9, <1>13
  <2> QED BY <1>12, <1>13, <2>1
<1>16. Stale(states', promise', home', gen', preReset')
  <2>1. StaysCurrent(states, promise, home, gen, preReset, states', promise', home', gen')
    BY <1>14 DEF StaysCurrent
  <2>2. preReset' = preReset
    BY <1>2
  <2> QED BY <1>4, <1>15, <2>1, <2>2, StaleKept
<1>17. LaneInv'
  BY <1>2, <1>4, <1>6, <1>11, <1>16 DEF LaneInv
<1>18. ASSUME NEW u \in preReset, promise[u] \in L!Pending PROVE promise'[u] # "resolved"
  <2>1. CASE u = t
    BY <1>7, <1>9, <1>12, <1>13, <2>1
  <2>2. CASE u # t
    BY <1>9, <1>12, <1>13, <1>18, <2>2 DEF L!Pending
  <2> QED BY <2>1, <2>2
<1> QED BY <1>17, <1>18

\* registerWorkspace()
LEMMA RegisterStep ==
  ASSUME LaneInv, L!Register
  PROVE  LaneInv'
<1>1. /\ states' = Append(states, L!NewLane) /\ cur' = Len(states) + 1
      /\ UNCHANGED <<promise, home, gen, id, counter, preReset>>
  BY DEF L!Register
<1>2. /\ LaneOK(states, cur, promise, home, gen, id)
      /\ Stale(states, promise, home, gen, preReset)
      /\ counter \in Nat /\ \A u \in Tasks : id[u] <= counter
  BY DEF LaneInv
<1>3. /\ LaneOK(states', cur', promise, home, gen, id) /\ Full(states', cur')
      /\ \A k \in 1..Len(states) : states'[k] = states[k]
  BY <1>1, <1>2, NewLaneOK
<1>4. \A u \in Tasks : promise[u] = "running" => home[u] \in 1..Len(states)
  BY <1>2 DEF LaneOK, Placed, L!Pending
<1>5. Stale(states', promise, home, gen, preReset)
  BY <1>2, <1>3, <1>4 DEF Stale
<1> QED BY <1>1, <1>2, <1>3, <1>5 DEF LaneInv

\* unregisterWorkspace()
LEMMA UnregisterStep ==
  ASSUME LaneInv, L!Unregister
  PROVE  /\ LaneInv'
         /\ \A u \in Tasks : promise'[u] # "resolved" \/ promise[u] = "resolved"
<1>1. /\ cur # 0 /\ cur' = 0
      /\ promise' = [u \in Tasks |->
                       IF u \in ToSet(states[cur].queue) THEN "cleared" ELSE promise[u]]
      /\ UNCHANGED <<states, home, gen, id, counter, preReset>>
  BY SameOperators DEF L!Unregister, L!ClearQueue
<1>2. /\ LaneOK(states, cur, promise, home, gen, id)
      /\ Stale(states, promise, home, gen, preReset)
      /\ counter \in Nat /\ \A u \in Tasks : id[u] <= counter
  BY DEF LaneInv
<1>3. /\ LaneOK(states, 0, promise', home, gen, id)
      /\ \A u \in Tasks : /\ promise'[u] = "running" <=> promise[u] = "running"
                          /\ promise'[u] = "new" => promise[u] = "new"
                          /\ promise'[u] = "queued" => promise[u] = "queued"
                          /\ promise'[u] # "resolved" \/ promise[u] = "resolved"
  BY <1>1, <1>2, ClearedOK
<1>4. Stale(states, promise', home, gen, preReset)
  BY <1>2, <1>3 DEF Stale
<1>5. Full(states, 0)
  BY DEF Full
<1> QED BY <1>1, <1>2, <1>3, <1>4, <1>5 DEF LaneInv

\* resetAll()
LEMMA ResetStep ==
  ASSUME LaneInv, L!ResetAll
  PROVE  /\ LaneInv'
         /\ \A u \in Tasks : promise'[u] # "resolved" \/ promise[u] = "resolved"
<1>1. /\ preReset' = preReset \cup
             {u \in Tasks : promise[u] \in L!Pending /\ home[u] = cur}
      /\ UNCHANGED <<cur, home, gen, id, counter>>
  BY DEF L!ResetAll
<1>2. /\ LaneOK(states, cur, promise, home, gen, id)
      /\ Stale(states, promise, home, gen, preReset)
      /\ counter \in Nat /\ \A u \in Tasks : id[u] <= counter
      /\ Full(states, cur)
  BY DEF LaneInv
<1>3. /\ states \in Seq(LaneType) /\ cur \in 0..Len(states) /\ Len(states) \in Nat
      /\ Placed(states, promise, home, gen) /\ gen \in [Tasks -> Nat]
  BY <1>2 DEF LaneOK
<1>4. CASE cur = 0
  <2>1. UNCHANGED <<states, promise>>
    BY <1>4 DEF L!ResetAll
  <2>2. preReset' = preReset
    BY <1>1, <1>3, <1>4 DEF Placed
  <2> QED BY <1>1, <1>2, <2>1, <2>2 DEF LaneInv
<1>5. CASE cur # 0
  <2> DEFINE lr == [queue |-> <<>>, active |-> {}, generation |-> states[cur].generation + 1]
  <2>1. /\ states' = [states EXCEPT ![cur] = lr]
        /\ promise' = [u \in Tasks |->
                         IF u \in ToSet(states[cur].queue) THEN "cleared" ELSE promise[u]]
    BY <1>5, SameOperators DEF L!ResetAll, L!ClearQueue
  <2>2. cur \in 1..Len(states)
    BY <1>3, <1>5
  <2>3. states[cur] \in LaneType
    BY <1>3, <2>2, ElementOfSeq
  <2>4. states[cur].generation \in Nat
    BY <2>3 DEF LaneType
  <2>5. /\ lr \in LaneType /\ lr.queue = <<>> /\ lr.active = {}
        /\ lr.generation = states[cur].generation + 1
    BY <2>4 DEF LaneType
  <2>6. /\ LaneOK(states, 0, promise', home, gen, id)
        /\ \A u \in Tasks : /\ promise'[u] = "queued" => home[u] # cur
                            /\ promise'[u] = "running" <=> promise[u] = "running"
                            /\ promise'[u] = "new" => promise[u] = "new"
                            /\ promise'[u] = "queued" => promise[u] = "queued"
                            /\ promise'[u] # "resolved" \/ promise[u] = "resolved"
    BY <1>2, <1>5, <2>1, ClearedOK
  <2> HIDE DEF lr
  <2>7. /\ LaneOK(states', cur, promise', home, gen, id)
        /\ Full(states', cur)
        /\ states'[cur].generation = states[cur].generation + 1
        /\ \A k \in 1..Len(states) : k # cur => states'[k] = states[k]
    <3>1. ResetResult([states EXCEPT ![cur] = lr], states, cur, promise', home, gen, id)
      BY <2>2, <2>5, <2>6, ResetOK
    <3> QED BY <2>1, <3>1 DEF ResetResult
  <2>8. Stale(states', promise', home, gen, preReset')
    <3>1. preReset' \subseteq Tasks
      BY <1>1, <1>2 DEF Stale
    <3>2. ASSUME NEW u \in Tasks, promise'[u] = "running"
          PROVE  gen[u] # states'[home[u]].generation <=> u \in preReset'
      <4>1. promise[u] = "running"
        BY <2>6, <3>2
      <4>2. /\ home[u] \in 1..Len(states) /\ gen[u] \in Nat
            /\ gen[u] <= states[home[u]].generation
        BY <1>3, <4>1 DEF Placed, L!Pending
      <4>3. CASE home[u] = cur
        BY <1>1, <2>4, <2>7, <4>1, <4>2, <4>3 DEF L!Pending
      <4>4. CASE home[u] # cur
        BY <1>1, <1>2, <2>7, <4>1, <4>2, <4>4 DEF Stale
      <4> QED BY <4>3, <4>4
    <3>3. ASSUME NEW u \in preReset' PROVE promise'[u] \notin {"new", "queued"}
      <4>1. CASE u \in preReset
        BY <1>2, <2>6, <4>1 DEF Stale
      <4>2. CASE u \in Tasks /\ promise[u] \in L!Pending /\ home[u] = cur
        BY <2>6, <4>2 DEF L!Pending
      <4> QED BY <1>1, <3>3, <4>1, <4>2
    <3> QED BY <3>1, <3>2, <3>3 DEF Stale
  <2> QED BY <1>1, <1>2, <2>6, <2>7, <2>8 DEF LaneInv
<1> QED BY <1>4, <1>5

-----------------------------------------------------------------------------
(* The daemon.                                                             *)

\* No step hands a result to the caller of a task from before a resetAll().
StaleStep == \A t \in preReset : promise[t] \in L!Pending => promise'[t] # "resolved"

\* enqueue() settles no task by resolving it, and takes none while draining.
LEMMA EnqueueKeeps ==
  ASSUME LaneInv, NEW t \in Tasks, L!Enqueue(t)
  PROVE  /\ StaleStep
         /\ L!IsDraining => /\ UNCHANGED <<home, cur, preReset>>
                            /\ \A u \in Tasks : promise'[u] \in L!Pending
                                                  => promise[u] \in L!Pending
<1>1. promise \in [Tasks -> Promises] /\ preReset \subseteq Tasks
  BY DEF LaneInv, LaneOK, Stale
<1>2. CASE L!IsDraining
  <2>1. promise' = [promise EXCEPT ![t] = "refused"] /\ UNCHANGED <<home, cur, preReset>>
    BY <1>2 DEF L!Enqueue
  <2> QED BY <1>1, <2>1 DEF StaleStep, L!Pending
<1>3. CASE ~L!IsDraining
  <2> DEFINE se == [L!WithLane EXCEPT ![L!LaneIndex].queue = Append(@, t)]
  <2>1. promise' = PumpedPromises(se, L!LaneIndex, [promise EXCEPT ![t] = "queued"])
    BY <1>3 DEF L!Enqueue, L!PumpLane, PumpedPromises
  <2>2. \A u \in Tasks : promise'[u] \in {"running", "queued", promise[u]}
    BY <1>1, <2>1 DEF PumpedPromises
  <2> QED BY <1>1, <1>3, <2>2 DEF StaleStep, L!Pending
<1> QED BY <1>2, <1>3

\* executeEntry() makes no task pending, and a lane it registers is empty.
LEMMA CompleteKeeps ==
  ASSUME LaneInv, NEW t \in Tasks, L!Complete(t)
  PROVE  /\ preReset' = preReset
         /\ \A u \in Tasks : promise'[u] \in L!Pending /\ home'[u] = cur'
                               => promise[u] \in L!Pending /\ home[u] = cur
<1> DEFINE wl == L!WithLane
           li == L!LaneIndex
           sd == [wl EXCEPT ![home[t]].active = @ \ {t}]
<1>1. PICK ok \in BOOLEAN :
        L!PumpLane(sd, li, [promise EXCEPT ![t] = L!Outcome(t, ok)])
  BY DEF L!Complete
<1> DEFINE o == L!Outcome(t, ok)
           pd == [promise EXCEPT ![t] = o]
<1>2. promise[t] = "running" /\ UNCHANGED <<home, preReset>>
  BY DEF L!Complete
<1>3. /\ LaneOK(wl, li, promise, home, gen, id) /\ li # 0
      /\ \A u \in Tasks : promise[u] \in L!Pending => home[u] \in 1..Len(states)
      /\ Len(states) \in Nat
  BY WithLaneOK
<1>4. promise \in [Tasks -> Promises]
  BY DEF LaneInv, LaneOK
<1>5. o \in L!Settled /\ o \notin L!Pending
  BY DEF L!Outcome, L!Settled, L!Pending
<1>6. cur' = li /\ promise' = PumpedPromises(sd, li, pd)
  BY <1>1 DEF L!PumpLane, PumpedPromises
<1> HIDE DEF wl, o
<1>7. LaneOK(sd, li, pd, home, gen, id)
  BY <1>2, <1>3, <1>5, DoneOK
<1>8. \A u \in Tasks : pd[u] = IF u = t THEN o ELSE promise[u]
  BY <1>4
<1> HIDE DEF sd, pd, li
<1>9. PumpResult(sd, li, pd, home, gen, id)
  BY <1>3, <1>7, PumpOK
<1>10. \A u \in L!Started(sd[li]) : pd[u] = "queued"
  BY <1>9 DEF PumpResult
<1>11. ASSUME NEW u \in Tasks, promise'[u] \in L!Pending, home'[u] = cur'
       PROVE  promise[u] \in L!Pending /\ home[u] = cur
  <2>1. promise[u] \in L!Pending
    BY <1>5, <1>6, <1>8, <1>10, <1>11 DEF PumpedPromises, L!Pending
  <2>2. home[u] = li /\ home[u] \in 1..Len(states)
    BY <1>2, <1>3, <1>6, <1>11, <2>1
  <2>3. CASE cur = 0
    BY <1>3, <2>2, <2>3 DEF li, L!LaneIndex
  <2>4. CASE cur # 0
    BY <2>1, <2>2, <2>4 DEF li, L!LaneIndex
  <2> QED BY <2>3, <2>4
<1> QED BY <1>2, <1>11

\* isIdle() asks for active tasks only; the lane then has no waiting ones either,
\* because it would have started them.
LEMMA IdleIsDrained ==
  ASSUME LaneInv, IsIdle
  PROVE  \A t \in Tasks : promise[t] \in L!Pending /\ home[t] = cur => t \in preReset
<1> SUFFICES ASSUME NEW t \in Tasks, promise[t] \in L!Pending, home[t] = cur
             PROVE  t \in preReset
  OBVIOUS
<1>1. /\ states \in Seq(LaneType) /\ cur \in 0..Len(states)
      /\ Placed(states, promise, home, gen)
      /\ \A k \in 1..Len(states) : CapOK(states[k], k, promise, home, gen)
      /\ cur # 0 => QueueOK(states[cur], cur, promise, home, gen, id)
      /\ Full(states, cur) /\ Stale(states, promise, home, gen, preReset)
  BY DEF LaneInv, LaneOK
<1>2. cur # 0
  BY <1>1 DEF Placed
<1>3. states[cur].active = {}
  BY <1>2 DEF IsIdle
<1>4. states[cur].queue = <<>>
  <2>1. ~(Cardinality({}) >= MaxConcurrent)
    BY FS_EmptySet, MaxConcurrentAssumption
  <2> QED BY <1>1, <1>2, <1>3, <2>1 DEF Full
<1>5. promise[t] # "queued"
  <2>1. ToSet(<<>>) = {}
    BY DEF ToSet
  <2> QED BY <1>1, <1>2, <1>4, <2>1 DEF QueueOK
<1>6. promise[t] = "running"
  BY <1>5 DEF L!Pending
<1>7. CapOK(states[cur], cur, promise, home, gen)
  BY <1>1, <1>2
<1>8. gen[t] # states[cur].generation
  BY <1>3, <1>6, <1>7 DEF CapOK, RunningOf
<1> QED BY <1>1, <1>6, <1>8 DEF Stale

DInv == LaneInv /\ GracefulDrain

\* Steps of the lifecycle that leave the lane alone.
LEMMA LaneUntouched ==
  ASSUME LaneInv, UNCHANGED laneVars
  PROVE  LaneInv' /\ StaleStep
<1>1. UNCHANGED <<states, cur, promise, home, gen, id, counter, preReset>>
  BY DEF laneVars
<1>2. LaneInv'
  BY <1>1 DEF LaneInv
<1>3. StaleStep
  BY <1>1 DEF StaleStep, L!Pending
<1> QED BY <1>2, <1>3

\* A start, a signal, the end of a shutdown or a restart, a foreign lock change:
\* none of them makes a drain complete, or changes what it left.
LEMMA LifecycleStep ==
  ASSUME DInv,
         \/ StartCall \/ StartRead \/ StartLocked \/ StartRefused \/ StartDone
         \/ Shutdown \/ ReleaseReads \/ ShutdownReleased \/ RestartSignal
         \/ RestartRead \/ RestartDone \/ RestartFailed \/ OutsideLockChange
  PROVE  DInv' /\ StaleStep
<1>1. UNCHANGED laneVars /\ timedOut' = timedOut /\ (drain' = drain \/ drain' # "drained")
  BY DEF StartCall, StartRead, StartLocked, StartRefused, StartDone, Shutdown, ReleaseReads,
         ShutdownReleased, RestartSignal, RestartRead, RestartDone, RestartFailed,
         OutsideLockChange, BeginDrain, AcquireReads, laneAndDrain, L!DrainEnter, L!DrainReset
<1>2. LaneInv' /\ StaleStep
  BY <1>1, LaneUntouched DEF DInv
<1>3. GracefulDrain'
  BY <1>1 DEF DInv, GracefulDrain, laneVars
<1> QED BY <1>2, <1>3 DEF DInv

\* The end of the drain of a shutdown.
LEMMA ShutdownDrainedStep ==
  ASSUME DInv, ShutdownDrained
  PROVE  DInv' /\ StaleStep
<1>1. UNCHANGED laneVars /\ timedOut' = ~IsIdle
  BY DEF ShutdownDrained, DrainDone
<1>2. LaneInv' /\ StaleStep
  BY <1>1, LaneUntouched DEF DInv
<1>3. GracefulDrain'
  <2>1. CASE IsIdle
    BY <1>1, <2>1, IdleIsDrained DEF DInv, GracefulDrain, laneVars
  <2>2. CASE ~IsIdle
    BY <1>1, <2>2 DEF GracefulDrain
  <2> QED BY <2>1, <2>2
<1> QED BY <1>2, <1>3 DEF DInv

\* The end of the drain of a restart, with its resetAll().
LEMMA RestartResetStep ==
  ASSUME DInv, RestartReset
  PROVE  DInv' /\ StaleStep
<1>1. L!ResetAll /\ LaneInv
  BY DEF RestartReset, DInv
<1>2. /\ LaneInv'
      /\ \A u \in Tasks : promise'[u] # "resolved" \/ promise[u] = "resolved"
  BY <1>1, ResetStep
<1>3. StaleStep
  BY <1>1, <1>2 DEF StaleStep, L!Pending, LaneInv, Stale
<1>4. GracefulDrain'
  <2>1. /\ \A u \in Tasks : promise[u] \in L!Pending /\ home[u] = cur => u \in preReset'
        /\ UNCHANGED <<home, cur>>
    BY <1>1 DEF L!ResetAll
  <2>2. \A u \in Tasks : promise'[u] \in L!Pending => promise[u] \in L!Pending
    BY <1>1 DEF L!ResetAll, L!ClearQueue, L!Pending
  <2> QED BY <2>1, <2>2 DEF GracefulDrain
<1> QED BY <1>2, <1>3, <1>4 DEF DInv

\* enqueue() and executeEntry().
LEMMA WorkStep ==
  ASSUME DInv, NEW t \in Tasks, Work(t)
  PROVE  DInv' /\ StaleStep
<1>1. timedOut' = timedOut
  BY DEF Work, daemonVars
<1>2. CASE L!Enqueue(t)
  <2>1. LaneInv' /\ StaleStep
    BY <1>2, EnqueueStep, EnqueueKeeps DEF DInv
  <2>2. drain' = drain
    BY <1>2 DEF L!Enqueue
  <2>3. GracefulDrain'
    <3>1. CASE drain = "drained"
      <4>1. L!IsDraining
        BY <3>1 DEF L!IsDraining
      <4>2. /\ UNCHANGED <<home, cur, preReset>>
            /\ \A u \in Tasks : promise'[u] \in L!Pending => promise[u] \in L!Pending
        BY <1>2, <4>1, EnqueueKeeps DEF DInv
      <4> QED BY <1>1, <2>2, <4>2 DEF DInv, GracefulDrain
    <3>2. CASE drain # "drained"
      BY <2>2, <3>2 DEF GracefulDrain
    <3> QED BY <3>1, <3>2
  <2> QED BY <2>1, <2>3 DEF DInv
<1>3. CASE L!Complete(t)
  <2>1. LaneInv' /\ StaleStep
    BY <1>3, CompleteStep DEF DInv, StaleStep
  <2>2. drain' = drain
    BY <1>3 DEF L!Complete
  <2>3. GracefulDrain'
    BY <1>1, <1>3, <2>2, CompleteKeeps DEF DInv, GracefulDrain
  <2> QED BY <2>1, <2>3 DEF DInv
<1> QED BY <1>2, <1>3 DEF Work

\* registerWorkspace() and unregisterWorkspace().
LEMMA RegistryStep ==
  ASSUME DInv, Registry
  PROVE  DInv' /\ StaleStep
<1>1. UNCHANGED <<drain, timedOut>> /\ LaneInv
  BY DEF Registry, daemonVars, DInv
<1>2. \A u \in Tasks : promise[u] \in L!Pending => home[u] \in 1..Len(states)
  BY <1>1, WithLaneOK
<1>3. Len(states) \in Nat
  BY <1>1, WithLaneOK
<1>4. CASE L!Register
  <2>1. LaneInv'
    BY <1>1, <1>4, RegisterStep
  <2>2. UNCHANGED <<promise, home, preReset>> /\ cur' = Len(states) + 1
    BY <1>4 DEF L!Register
  <2>3. StaleStep
    BY <2>2 DEF StaleStep, L!Pending
  <2>4. GracefulDrain'
    BY <1>2, <1>3, <2>2 DEF GracefulDrain
  <2> QED BY <2>1, <2>3, <2>4 DEF DInv
<1>5. CASE L!Unregister
  <2>1. /\ LaneInv'
        /\ \A u \in Tasks : promise'[u] # "resolved" \/ promise[u] = "resolved"
    BY <1>1, <1>5, UnregisterStep
  <2>2. UNCHANGED <<home, preReset>> /\ cur' = 0
    BY <1>5 DEF L!Unregister
  <2>3. StaleStep
    BY <1>1, <2>1 DEF StaleStep, L!Pending, LaneInv, Stale
  <2>4. \A u \in Tasks : promise'[u] \in L!Pending => promise[u] \in L!Pending
    BY <1>5 DEF L!Unregister, L!ClearQueue, L!Pending
  <2>5. GracefulDrain'
    BY <1>2, <1>3, <2>2, <2>4 DEF GracefulDrain
  <2> QED BY <2>1, <2>3, <2>5 DEF DInv
<1> QED BY <1>4, <1>5 DEF Registry

\* Nothing has been enqueued yet.
LEMMA InitDInv == Init => DInv
<1> SUFFICES ASSUME Init PROVE DInv
  OBVIOUS
<1>1. /\ states = <<>> /\ cur = 0 /\ counter = 0 /\ preReset = {} /\ drain = "idle"
      /\ promise = [t \in Tasks |-> "new"] /\ home = [t \in Tasks |-> 0]
      /\ gen = [t \in Tasks |-> 0] /\ id = [t \in Tasks |-> 0]
  BY DEF Init, L!Init
<1>2. /\ promise \in [Tasks -> Promises] /\ home \in [Tasks -> Nat]
      /\ gen \in [Tasks -> Nat] /\ id \in [Tasks -> Nat]
  BY <1>1 DEF Promises
<1>3. states \in Seq(LaneType) /\ Len(states) = 0
  BY <1>1
<1>4. Placed(states, promise, home, gen) /\ FifoOK(promise, home, id)
  BY <1>1, <1>3 DEF Placed, FifoOK, L!Pending
<1>5. LaneOK(states, cur, promise, home, gen, id)
  BY <1>1, <1>2, <1>3, <1>4 DEF LaneOK
<1>6. Stale(states, promise, home, gen, preReset) /\ Full(states, cur)
  BY <1>1 DEF Stale, Full
<1>7. \A t \in Tasks : id[t] <= counter
  BY <1>1
<1>8. GracefulDrain
  BY <1>1 DEF GracefulDrain
<1> QED BY <1>1, <1>5, <1>6, <1>7, <1>8 DEF DInv, LaneInv

\* Every step keeps the lane in order and resolves no task from before a reset.
LEMMA DaemonStep ==
  ASSUME DInv, [Next]_vars
  PROVE  DInv' /\ StaleStep
<1>1. CASE Next
  BY <1>1, LifecycleStep, ShutdownDrainedStep, RestartResetStep, WorkStep, RegistryStep
  DEF Next, Lifecycle
<1>2. CASE UNCHANGED vars
  <2>1. UNCHANGED laneVars /\ UNCHANGED <<drain, timedOut>>
    BY <1>2 DEF vars, laneAndDrain, daemonVars
  <2>2. LaneInv' /\ StaleStep
    BY <2>1, LaneUntouched DEF DInv
  <2>3. GracefulDrain'
    BY <2>1 DEF DInv, GracefulDrain, laneVars
  <2> QED BY <2>2, <2>3 DEF DInv
<1> QED BY <1>1, <1>2

\* The lane is in order at all times.
THEOREM LaneAlwaysInOrder == Spec => []DInv
<1>1. DInv /\ [Next]_vars => DInv'
  BY DaemonStep
<1> QED BY <1>1, InitDInv, PTL DEF Spec

\* Between two resets a LaneState never runs more than maxConcurrent tasks, and
\* activeTaskIds lists exactly those of its current generation.
THEOREM CapPerGenerationAlways == Spec => []CapPerGeneration
<1>1. DInv => CapPerGeneration
  <2> SUFFICES ASSUME DInv PROVE CapPerGeneration
    OBVIOUS
  <2>1. /\ states \in Seq(LaneType)
        /\ \A i \in 1..Len(states) : CapOK(states[i], i, promise, home, gen)
    BY DEF DInv, LaneInv, LaneOK
  <2>2. ASSUME NEW i \in 1..Len(states)
        PROVE  /\ states[i].active = L!Running(i, states[i].generation)
               /\ \A g \in 0..states[i].generation :
                     L!Cardinality(L!Running(i, g)) <= MaxConcurrent
    <3>1. \A g : L!Running(i, g) = RunningOf(promise, home, gen, i, g)
      BY DEF L!Running, RunningOf
    <3>2. CapOK(states[i], i, promise, home, gen)
      BY <2>1
    <3>3. states[i].active = L!Running(i, states[i].generation)
      BY <3>1, <3>2 DEF CapOK
    <3>4. ASSUME NEW g \in 0..states[i].generation
          PROVE  L!Cardinality(L!Running(i, g)) <= MaxConcurrent
      <4>1. states[i] \in LaneType
        BY <2>1, ElementOfSeq
      <4>2. g \in Nat
        BY <4>1 DEF LaneType
      <4>3. Cardinality(RunningOf(promise, home, gen, i, g)) <= MaxConcurrent
        BY <3>2, <4>2 DEF CapOK
      <4>4. L!Running(i, g) = RunningOf(promise, home, gen, i, g)
        BY <3>1
      <4> QED BY <4>3, <4>4, SameOperators
    <3> QED BY <3>3, <3>4
  <2> QED BY <2>2 DEF CapPerGeneration, L!CapPerGeneration
<1> QED BY <1>1, LaneAlwaysInOrder, PTL

\* A task never runs before one of its LaneState that was enqueued earlier and
\* still waits.
THEOREM FifoAlways == Spec => []Fifo
<1>1. DInv => Fifo
  BY DEF DInv, LaneInv, LaneOK, FifoOK, Fifo, L!Fifo
<1> QED BY <1>1, LaneAlwaysInOrder, PTL

\* A drain that did not time out leaves no accepted task of the registered lane
\* behind, although it only waited for the active ones.
THEOREM GracefulDrainAlways == Spec => []GracefulDrain
<1>1. DInv => GracefulDrain
  BY DEF DInv
<1> QED BY <1>1, LaneAlwaysInOrder, PTL

\* The caller of a task that was in the registered lane at a resetAll() never gets
\* its result afterwards.
THEOREM StaleNeverResolvesAlways == Spec => StaleNeverResolves
<1>1. DInv /\ [Next]_vars => [StaleStep]_(L!vars)
  BY DaemonStep
<1> QED BY <1>1, LaneAlwaysInOrder, PTL
  DEF Spec, StaleNeverResolves, L!StaleNeverResolves, StaleStep

\* Between the read and the write or the unlink the file is what the read found,
\* unless another process changed it.
WindowInv ==
    /\ at \in {"acquireWrite", "reacquireWrite"} /\ ~raced => lockFile \in {"none", "dead"}
    /\ at = "unlink" /\ ~raced => lockFile = "self"

\* The daemon overwrites or unlinks the lock file of a live process only if the
\* file changed hands after acquire() or release() read it.
THEOREM ForeignLockKeptAlways == Spec => ForeignLockKept
<1>1. Init => WindowInv
  BY DEF Init, WindowInv
<1>2. ASSUME WindowInv, [Next]_vars
      PROVE  /\ WindowInv'
             /\ lockFile = "live" /\ at' # at /\ ~raced => lockFile' = "live"
  <2>1. CASE StartCall \/ Shutdown \/ RestartSignal
    BY <1>2, <2>1 DEF WindowInv, StartCall, Shutdown, RestartSignal, BeginDrain
  <2>2. CASE StartRead \/ RestartRead \/ ReleaseReads
    BY <2>2 DEF WindowInv, StartRead, RestartRead, ReleaseReads, AcquireReads, AcquireOk, OwnLock
  <2>3. CASE StartLocked \/ RestartDone
    BY <1>2, <2>3 DEF WindowInv, StartLocked, RestartDone
  <2>4. CASE StartRefused \/ StartDone \/ ShutdownDrained \/ RestartReset \/ RestartFailed
    BY <2>4 DEF WindowInv, StartRefused, StartDone, ShutdownDrained, RestartReset, RestartFailed
  <2>5. CASE ShutdownReleased
    BY <1>2, <2>5 DEF WindowInv, ShutdownReleased, Unlink
  <2>6. CASE OutsideLockChange
    BY <2>6 DEF WindowInv, OutsideLockChange
  <2>7. CASE Registry \/ (\E t \in Tasks : Work(t)) \/ UNCHANGED vars
    BY <1>2, <2>7 DEF WindowInv, Registry, Work, vars, daemonVars
  <2> QED BY <1>2, <2>1, <2>2, <2>3, <2>4, <2>5, <2>6, <2>7 DEF Next, Lifecycle
<1>3. WindowInv /\ [Next]_vars => WindowInv'
  BY <1>2
<1>4. WindowInv /\ [Next]_vars
        => [lockFile = "live" /\ at' # at /\ ~raced => lockFile' = "live"]_vars
  BY <1>2
<1> QED BY <1>1, <1>3, <1>4, PTL DEF Spec, ForeignLockKept

-----------------------------------------------------------------------------
(* daemon.lock, as any number of processes race for it (module GatewayLock). *)

\* What the window of an acquire() without overlap excludes: another window, and a
\* holder.
WindowIsAlone ==
    ~overlapped => \A p, q \in Procs :
        p # q /\ pc[p] = "writing" => pc[q] \notin {"writing", "held", "unlinking"}

LockInv == TypeOK /\ HolderNamed /\ WindowIsAlone

\* Without overlapping acquire() calls the lock file names every holder, whatever
\* crashes and releases happen.
THEOREM HolderNamedCorrect == LockSpec => []HolderNamed
<1>1. LockInit => LockInv
    BY DEF LockInit, LockInv, TypeOK, HolderNamed, WindowIsAlone, PCs
<1>2. LockInv /\ [LockNext]_lockVars => LockInv'
  <2> SUFFICES ASSUME LockInv, [LockNext]_lockVars PROVE LockInv'
    OBVIOUS
  <2> USE DEF LockInv, TypeOK, PCs
  <2>1. ASSUME NEW p \in Procs, AcquireRead(p) PROVE LockInv'
    <3>1. TypeOK'
      BY <2>1 DEF AcquireRead
    <3>2. HolderNamed'
      BY <2>1 DEF AcquireRead, HolderNamed
    <3>3. CASE MayTake(p)
      BY <2>1, <3>1, <3>2, <3>3
      DEF AcquireRead, MayTake, IsRunning, HolderNamed, WindowIsAlone
    <3>4. CASE ~MayTake(p)
      BY <2>1, <3>1, <3>2, <3>4 DEF AcquireRead, WindowIsAlone
    <3>5. QED
      BY <3>3, <3>4
  <2>2. ASSUME NEW p \in Procs, AcquireWrite(p) PROVE LockInv'
    BY <2>2 DEF AcquireWrite, HolderNamed, WindowIsAlone
  <2>3. ASSUME NEW p \in Procs, AcquireFailed(p) PROVE LockInv'
    BY <2>3 DEF AcquireFailed, HolderNamed, WindowIsAlone
  <2>4. ASSUME NEW p \in Procs, ReleaseRead(p) PROVE LockInv'
    BY <2>4 DEF ReleaseRead, HolderNamed, WindowIsAlone
  <2>5. ASSUME NEW p \in Procs, ReleaseUnlink(p) PROVE LockInv'
    BY <2>5 DEF ReleaseUnlink, HolderNamed, WindowIsAlone
  <2>6. ASSUME NEW p \in Procs, Crash(p) PROVE LockInv'
    BY <2>6 DEF Crash, HolderNamed, WindowIsAlone
  <2>7. CASE UNCHANGED lockVars
    BY <2>7 DEF lockVars, HolderNamed, WindowIsAlone
  <2>8. QED
    BY <2>1, <2>2, <2>3, <2>4, <2>5, <2>6, <2>7 DEF LockNext
<1>3. LockInv => HolderNamed
    BY DEF LockInv
<1>4. QED
    BY <1>1, <1>2, <1>3, PTL DEF LockSpec
=============================================================================
