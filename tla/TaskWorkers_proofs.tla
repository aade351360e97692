-------------------------- MODULE TaskWorkers_proofs --------------------------
(***************************************************************************)
(* The worker pool keeps track of its requests, for every set of tasks,     *)
(* pool size and bound: a request that is awaited is the current one of its *)
(* worker, and what settles it is what happened to its own run.             *)
(***************************************************************************)
EXTENDS TaskWorkers, FiniteSetTheorems, SequenceTheorems, WellFoundedInduction, TLAPS

\* Where a call is before its task is handed to a worker.
Waiting == {"waitReady", "waitFreed", "waitSpawned"}
Before == {"new", "refused", "called"} \cup Waiting
Awaiting == {"announcing", "running"}

CallType == [at : Before \cup Awaiting \cup {"settling", "notified", "failed"},
             on : Workers \cup {0}, kill : BOOLEAN]
WorkerType == [proc : {"none", "booting", "alive", "dying", "dead", "gone"}, listed : BOOLEAN,
               ready : BOOLEAN, busy : BOOLEAN, current : Tasks \cup {None},
               active : Tasks \cup {None}, stop : BOOLEAN]
Command == [type : {"run", "cancel"}, task : Tasks]
Message == [type : {"done", "error", "canceled"}, task : Tasks, ok : BOOLEAN]

Saved == {"new", "running", "stopped", "finished"}

Types ==
  /\ task \in [Tasks -> CallType]
  /\ done \in [Tasks -> {"pending", "ok", "error"}]
  /\ worker \in [Workers -> WorkerType]
  /\ stdin \in [Workers -> Seq(Command)] /\ stdout \in [Workers -> Seq(Message)]
  /\ assigner \in Tasks \cup {None} /\ child \in Tasks \cup {None}
  /\ standby \in Workers \cup {0}
  /\ session \in [Tasks -> Tasks \cup {None}] /\ saved \in [Tasks -> Saved] /\ deaf \subseteq Workers
  /\ aborted \subseteq Tasks /\ cut \subseteq Tasks /\ returned \subseteq Tasks

\* A worker process that has not been spawned has nothing to do.
Unused == \A w \in Workers : worker[w].proc = "none" =>
            ~worker[w].ready /\ worker[w].current = None /\ worker[w].active = None

\* `busy` and `current` go together, and a current request has one worker and is
\* unsettled as long as that is read.
Slots ==
  /\ \A w \in Workers : worker[w].busy <=> worker[w].current # None
  /\ \A w \in Workers, t \in Tasks : worker[w].current = t =>
       (w \notin deaf => done[t] = "pending") /\ task[t].at \notin Before
  /\ \A v, w \in Workers : worker[v].current # None /\ worker[v].current = worker[w].current => v = w
  /\ \A t \in Tasks : task[t].at \in Before => done[t] = "pending"

\* A call that waits for a worker holds WORKER_ASSIGN_LOCK, and its worker is free.
Places ==
  /\ \A t \in Tasks : task[t].at \in Waiting => assigner = t
  /\ \A t \in Tasks : task[t].at \in {"waitReady", "waitSpawned"} =>
       task[t].on \in Workers /\ ~worker[task[t].on].busy
  /\ \A t \in Tasks : task[t].at \in Awaiting \cup {"settling"} => task[t].on \in Workers
  /\ child # None => task[child].at \in Awaiting
  /\ \A t \in Tasks : task[t].at = "new" => t \notin aborted

\* Whatever is unsettled and somewhere in a worker or its pipes is that worker's
\* current request.
Traced ==
  \A w \in Workers :
    /\ \A c \in ToSet(stdin[w]) : done[c.task] = "pending" => worker[w].current = c.task
    /\ \A m \in ToSet(stdout[w]) : done[m.task] = "pending" => worker[w].current = m.task
    /\ worker[w].active # None /\ done[worker[w].active] = "pending" =>
         worker[w].current = worker[w].active

\* A cancel is on its way only for a task that was aborted, and has been taken only by
\* a run of its session.
CancelsAborted ==
  \A w \in Workers :
    /\ \A c \in ToSet(stdin[w]) : c.type = "cancel" => c.task \in aborted
    /\ worker[w].active # None /\ worker[w].stop => Canceled(worker[w].active)

\* The messages tell the truth.
Believable(m) ==
  /\ m.type = "canceled" => m.task \in aborted
  /\ m.type # "canceled" /\ done[m.task] = "pending" =>
       IF m.type = "done" /\ m.ok THEN m.task \in returned ELSE m.task \in cut \/ Canceled(m.task)

Truthful == \A w \in Workers : \A m \in ToSet(stdout[w]) : Believable(m)

TInv ==
  /\ Types /\ Unused /\ Slots /\ Places /\ AwaitedIsCurrent
  /\ Traced /\ CancelsAborted /\ Truthful /\ SettledByOwnRun

-----------------------------------------------------------------------------
(* Sequences and the least worker of a set.                                 *)

\* A set of naturals has a least element.
LEMMA LeastOf ==
  ASSUME NEW S \in SUBSET Nat, S # {}
  PROVE  \E x \in S : \A y \in S : x <= y
<1>1. PICK x \in S : \A y \in S : ~(<<y, x>> \in OpToRel(<, Nat))
  BY NatLessThanWellFounded, WFMin
<1>2. \A y \in S : ~(y < x)
  BY <1>1 DEF OpToRel
<1> QED BY <1>2

\* What is in a pipe after something is written to it ...
LEMMA Wrote ==
  ASSUME NEW S, NEW s \in Seq(S), NEW e \in S
  PROVE  Append(s, e) \in Seq(S) /\ ToSet(Append(s, e)) = ToSet(s) \cup {e}
<1>1. /\ Append(s, e) \in Seq(S) /\ Len(Append(s, e)) = Len(s) + 1
      /\ \A i \in 1..Len(s) : Append(s, e)[i] = s[i]
      /\ Append(s, e)[Len(s) + 1] = e
  BY AppendProperties
<1>2. Len(s) \in Nat /\ DOMAIN s = 1..Len(s) /\ DOMAIN Append(s, e) = 1..(Len(s) + 1)
  BY <1>1
<1>3. \A x : x \in ToSet(Append(s, e)) => x \in ToSet(s) \cup {e}
  BY <1>1, <1>2 DEF ToSet
<1>4. \A x : x \in ToSet(s) => x \in ToSet(Append(s, e))
  BY <1>1, <1>2 DEF ToSet
<1>5. e \in ToSet(Append(s, e))
  BY <1>1, <1>2 DEF ToSet
<1> QED BY <1>1, <1>3, <1>4, <1>5

\* ... and after its first line is read, or its last one lost.
LEMMA Took ==
  ASSUME NEW S, NEW s \in Seq(S), s # <<>>
  PROVE  /\ Head(s) \in ToSet(s) /\ Head(s) \in S
         /\ Tail(s) \in Seq(S) /\ ToSet(Tail(s)) \subseteq ToSet(s)
         /\ Front(s) \in Seq(S) /\ ToSet(Front(s)) \subseteq ToSet(s)
<1>1. Len(s) \in Nat \ {0} /\ DOMAIN s = 1..Len(s) /\ Head(s) = s[1] /\ \A i \in 1..Len(s) : s[i] \in S
  BY EmptySeq, HeadTailProperties
<1>2. /\ Tail(s) \in Seq(S) /\ Len(Tail(s)) = Len(s) - 1
      /\ \A i \in 1..(Len(s) - 1) : Tail(s)[i] = s[i + 1]
  BY HeadTailProperties
<1>3. ToSet(Tail(s)) \subseteq ToSet(s)
  <2>1. DOMAIN Tail(s) = 1..(Len(s) - 1)
    BY <1>2
  <2>2. \A i \in 1..(Len(s) - 1) : i + 1 \in 1..Len(s)
    BY <1>1
  <2> QED BY <1>1, <1>2, <2>1, <2>2 DEF ToSet
<1>4. /\ Front(s) \in Seq(S) /\ DOMAIN Front(s) = 1..(Len(s) - 1)
      /\ \A i \in 1..(Len(s) - 1) : Front(s)[i] = s[i]
  <2>1. \A i \in 1..(Len(s) - 1) : s[i] \in S
    BY <1>1
  <2>2. Len(s) - 1 \in Nat
    BY <1>1
  <2>3. Front(s) = [i \in 1..(Len(s) - 1) |-> s[i]]
    BY DEF Front
  <2> QED BY <2>1, <2>2, <2>3, SeqDef
<1>5. ToSet(Front(s)) \subseteq ToSet(s)
  <2>1. \A i \in 1..(Len(s) - 1) : i \in 1..Len(s)
    BY <1>1
  <2> QED BY <1>1, <1>4, <2>1 DEF ToSet
<1>6. Head(s) \in ToSet(s) /\ Head(s) \in S
  BY <1>1 DEF ToSet
<1> QED BY <1>2, <1>3, <1>4, <1>5, <1>6

\* An empty pipe has no lines.
LEMMA NothingIn == ToSet(<<>>) = {}
  BY DEF ToSet

\* First takes one of the workers it is given.
LEMMA FirstOf ==
  ASSUME NEW S \in SUBSET Workers, S # {}
  PROVE  First(S) \in S
<1>1. S \in SUBSET Nat
  BY TaskWorkersAssumption DEF Workers
<1> QED BY <1>1, LeastOf DEF First

-----------------------------------------------------------------------------
(* The workers, as the invariant sees them.                                 *)

\* vs are the workers ws, but for the processes that run them.
Like(ws, vs) ==
  /\ vs \in [Workers -> WorkerType]
  /\ \A w \in Workers :
       /\ vs[w].current = ws[w].current /\ vs[w].active = ws[w].active
       /\ vs[w].busy <=> ws[w].busy
       /\ vs[w].active # None => (vs[w].stop <=> ws[w].stop)
       /\ vs[w].proc = "none" => ws[w].proc = "none" /\ (vs[w].ready <=> ws[w].ready)

\* A worker that has not been spawned has nothing to do.
Vacant(ws) ==
  \A w \in Workers : ws[w].proc = "none" =>
    ~ws[w].ready /\ ~ws[w].busy /\ ws[w].current = None /\ ws[w].active = None

\* Spawning a worker changes none that is in use.
LEMMA SpawnedLike ==
  ASSUME NEW ws \in [Workers -> WorkerType], Vacant(ws), Unspawned(ws) # {}
  PROVE  First(Unspawned(ws)) \in Unspawned(ws) /\ Like(ws, Spawned(ws))
<1> DEFINE u == First(Unspawned(ws))
           fresh == [NoWorker EXCEPT !.proc = "booting", !.listed = TRUE]
<1>1. u \in Unspawned(ws)
  BY FirstOf DEF Unspawned
<1>2. fresh.proc = "booting" /\ ~fresh.busy /\ fresh.current = None /\ fresh.active = None
  BY DEF NoWorker
<1>3. fresh \in WorkerType
  BY DEF NoWorker, WorkerType
<1>4. Spawned(ws) = [ws EXCEPT ![u] = fresh]
  BY DEF Spawned
<1> HIDE DEF u, fresh
<1>5. u \in Workers /\ ~ws[u].busy /\ ws[u].current = None /\ ws[u].active = None
  BY <1>1 DEF Vacant, Unspawned
<1>6. Spawned(ws) \in [Workers -> WorkerType]
  BY <1>3, <1>4
<1>7. \A w \in Workers : Spawned(ws)[w] = IF w = u THEN fresh ELSE ws[w]
  BY <1>4, <1>5
<1>8. Like(ws, Spawned(ws))
  BY <1>2, <1>5, <1>6, <1>7 DEF Like
<1> QED BY <1>1, <1>8 DEF u

\* ensureStandbyWorker spawns one at most.
LEMMA EnsureStandbyLike ==
  ASSUME NEW ws \in [Workers -> WorkerType], Vacant(ws), EnsureStandby(ws)
  PROVE  Like(ws, worker') /\ (standby' = standby \/ standby' \in Workers)
<1>1. CASE worker' = ws /\ standby' = standby
  BY <1>1 DEF Like
<1>2. CASE Unspawned(ws) # {} /\ worker' = Spawned(ws) /\ standby' = First(Unspawned(ws))
  BY <1>2, SpawnedLike DEF Unspawned
<1> QED BY <1>1, <1>2 DEF EnsureStandby

\* The request t, or none, is put on worker w; nothing else about the workers changes
\* but the processes that run them.
Seats(ws, vs, w, t) ==
  /\ vs \in [Workers -> WorkerType]
  /\ \A v \in Workers :
       /\ vs[v].current = (IF v = w THEN t ELSE ws[v].current)
       /\ vs[v].busy <=> (IF v = w THEN t # None ELSE ws[v].busy)
       /\ vs[v].active = ws[v].active
       /\ vs[v].active # None => (vs[v].stop <=> ws[v].stop)
       /\ vs[v].proc = "none" => ws[v].proc = "none" /\ (vs[v].ready <=> ws[v].ready)

\* assignWorker puts the request on a spawned worker and ensures a standby.
LEMMA Seated ==
  ASSUME worker \in [Workers -> WorkerType], Vacant(worker), NEW w \in Workers, NEW t \in Tasks,
         worker[w].proc # "none",
         EnsureStandby([worker EXCEPT ![w].busy = TRUE, ![w].current = t])
  PROVE  Seats(worker, worker', w, t) /\ (standby' = standby \/ standby' \in Workers)
<1> DEFINE vs == [worker EXCEPT ![w].busy = TRUE, ![w].current = t]
<1>1. /\ vs \in [Workers -> WorkerType]
      /\ \A v \in Workers :
           /\ vs[v].current = (IF v = w THEN t ELSE worker[v].current)
           /\ vs[v].busy <=> (v = w \/ worker[v].busy)
           /\ vs[v].active = worker[v].active
           /\ vs[v].stop <=> worker[v].stop
           /\ vs[v].proc = worker[v].proc /\ (vs[v].ready <=> worker[v].ready)
  BY DEF WorkerType
<1>2. EnsureStandby(vs)
  OBVIOUS
<1> HIDE DEF vs
<1>3. Vacant(vs)
  BY <1>1 DEF Vacant
<1>4. Like(vs, worker') /\ (standby' = standby \/ standby' \in Workers)
  BY <1>1, <1>2, <1>3, EnsureStandbyLike
<1> QED BY <1>1, <1>4, TaskWorkersAssumption DEF Like, Seats

\* A worker whose request is over is free, and a standby is ensured.
LEMMA Unseated ==
  ASSUME worker \in [Workers -> WorkerType], Vacant(worker), NEW w \in Workers,
         EnsureStandby([worker EXCEPT ![w].current = None, ![w].busy = FALSE])
  PROVE  Seats(worker, worker', w, None) /\ (standby' = standby \/ standby' \in Workers)
<1> DEFINE vs == [worker EXCEPT ![w].current = None, ![w].busy = FALSE]
<1>1. /\ vs \in [Workers -> WorkerType]
      /\ \A v \in Workers :
           /\ vs[v].current = (IF v = w THEN None ELSE worker[v].current)
           /\ vs[v].busy <=> (v # w /\ worker[v].busy)
           /\ vs[v].active = worker[v].active
           /\ vs[v].stop <=> worker[v].stop
           /\ vs[v].proc = worker[v].proc /\ (vs[v].ready <=> worker[v].ready)
  BY DEF WorkerType
<1>2. EnsureStandby(vs)
  OBVIOUS
<1> HIDE DEF vs
<1>3. Vacant(vs)
  BY <1>1 DEF Vacant
<1>4. Like(vs, worker') /\ (standby' = standby \/ standby' \in Workers)
  BY <1>1, <1>2, <1>3, EnsureStandbyLike
<1> QED BY <1>1, <1>4 DEF Like, Seats

\* A signal changes the process only.
LEMMA KilledLike ==
  ASSUME worker \in [Workers -> WorkerType], NEW w \in Workers
  PROVE  /\ Like(worker, [worker EXCEPT ![w] = Killed(w)])
         /\ Like(worker, [worker EXCEPT ![w] = [Killed(w) EXCEPT !.listed = FALSE]])
<1> DEFINE k == Killed(w)
           l == [k EXCEPT !.listed = FALSE]
<1>1. /\ k \in WorkerType
      /\ k.current = worker[w].current /\ k.active = worker[w].active
      /\ k.busy <=> worker[w].busy
      /\ k.stop <=> worker[w].stop
      /\ k.ready <=> worker[w].ready
      /\ k.proc = "none" => worker[w].proc = "none"
  BY DEF Killed, WorkerType
<1> HIDE DEF k
<1>2. /\ l \in WorkerType
      /\ l.current = k.current /\ l.active = k.active /\ l.proc = k.proc
      /\ l.busy <=> k.busy
      /\ l.stop <=> k.stop
      /\ l.ready <=> k.ready
  BY <1>1 DEF WorkerType
<1> HIDE DEF l
<1>3. Like(worker, [worker EXCEPT ![w] = k]) /\ Like(worker, [worker EXCEPT ![w] = l])
  BY <1>1, <1>2 DEF Like
<1> QED BY <1>3 DEF k, l

\* Taking a worker off the list changes the list only.
LEMMA UnlistedLike ==
  ASSUME NEW ws \in [Workers -> WorkerType], NEW w \in Workers
  PROVE  Like(ws, [ws EXCEPT ![w].listed = FALSE])
<1> DEFINE k == [ws[w] EXCEPT !.listed = FALSE]
<1>1. /\ k \in WorkerType
      /\ k.current = ws[w].current /\ k.active = ws[w].active /\ k.proc = ws[w].proc
      /\ k.busy <=> ws[w].busy
      /\ k.stop <=> ws[w].stop
      /\ k.ready <=> ws[w].ready
  BY DEF WorkerType
<1> HIDE DEF k
<1>2. Like(ws, [ws EXCEPT ![w] = k])
  BY <1>1 DEF Like
<1> QED BY <1>2 DEF k

-----------------------------------------------------------------------------
(* Steps that leave the requests where they are.                            *)

\* The pipes may lose lines, and take cancels of aborted tasks; runs may return, tasks
\* be aborted or be cut off; a call that begins takes a session.
PipesShrink ==
  /\ stdin' \in [Workers -> Seq(Command)] /\ stdout' \in [Workers -> Seq(Message)]
  /\ \A v \in Workers : ToSet(stdout'[v]) \subseteq ToSet(stdout[v])
  /\ \A v \in Workers : \A c \in ToSet(stdin'[v]) :
       \/ c \in ToSet(stdin[v])
       \/ c.task \in aborted' /\ (done[c.task] = "pending" => worker[v].current = c.task)

Grows ==
  /\ returned \subseteq returned' /\ aborted \subseteq aborted' /\ cut \subseteq cut'
  /\ returned' \subseteq Tasks /\ aborted' \subseteq Tasks /\ cut' \subseteq Tasks
  /\ session' \in [Tasks -> Tasks \cup {None}] /\ saved' \in [Tasks -> Saved] /\ deaf' = deaf
  /\ \A t \in Tasks : IF task[t].at = "new" THEN t \in aborted' => t \in aborted
                      ELSE session'[t] = session[t]

\* Nothing happens to the child sessions.
Aside == session' = session /\ saved' = saved /\ deaf' = deaf /\ returned' = returned

Pipes == Traced /\ CancelsAborted /\ Truthful /\ SettledByOwnRun
Calls == Unused /\ Slots /\ Places /\ AwaitedIsCurrent

\* What is in the pipes of the right type.
LEMMA PipeTypes ==
  ASSUME Types, NEW w \in Workers
  PROVE  /\ \A c \in ToSet(stdin[w]) : c \in Command /\ c.task \in Tasks
         /\ \A m \in ToSet(stdout[w]) : m \in Message /\ m.task \in Tasks
<1>1. /\ stdin[w] \in Seq(Command) /\ stdout[w] \in Seq(Message)
  BY DEF Types
<1>2. /\ \A c \in ToSet(stdin[w]) : c \in Command
      /\ \A m \in ToSet(stdout[w]) : m \in Message
  BY <1>1 DEF ToSet
<1> QED BY <1>2 DEF Command, Message

\* A task that was aborted, settled or given to a worker has its session for good.
LEMMA SessionKept ==
  ASSUME TInv, Grows, NEW t \in Tasks,
         t \in aborted \/ done[t] # "pending" \/ \E w \in Workers : worker[w].current = t
  PROVE  session'[t] = session[t]
<1>1. task[t].at # "new"
  BY DEF TInv, Slots, Places, Before
<1> QED BY <1>1 DEF Grows

\* What was canceled stays so.
LEMMA CanceledKept ==
  ASSUME TInv, Grows, NEW t \in Tasks, Canceled(t),
         done[t] # "pending" \/ \E w \in Workers : worker[w].current = t
  PROVE  Canceled(t)'
<1>1. PICK u \in aborted : session[u] = session[t]
  BY DEF Canceled
<1>2. u \in Tasks /\ u \in aborted'
  BY <1>1 DEF TInv, Types, Grows
<1>3. session'[u] = session[u] /\ session'[t] = session[t]
  BY <1>1, <1>2, SessionKept
<1> QED BY <1>1, <1>2, <1>3 DEF Canceled

\* If the requests stay on their workers, what the pipes say of them stays true.
LEMMA PipesKept ==
  ASSUME TInv, Like(worker, worker'), done' = done, PipesShrink, Grows
  PROVE  Pipes'
<1>1. \A v \in Workers :
        /\ worker'[v].current = worker[v].current /\ worker'[v].active = worker[v].active
        /\ worker'[v].active # None => (worker'[v].stop <=> worker[v].stop)
  BY DEF Like
<1>2. Traced'
  BY <1>1 DEF TInv, Traced, PipesShrink
<1>3. CancelsAborted'
  <2>1. ASSUME NEW v \in Workers, NEW t \in Tasks, worker[v].active = t, worker[v].stop
        PROVE  Canceled(t)'
    <3>1. Canceled(t)
      BY <2>1, TaskWorkersAssumption DEF TInv, CancelsAborted
    <3>2. done[t] # "pending" \/ worker[v].current = t
      BY <2>1, TaskWorkersAssumption DEF TInv, Traced
    <3> QED BY <3>1, <3>2, CanceledKept
  <2>2. \A v \in Workers : worker[v].active \in Tasks \cup {None}
    BY DEF TInv, Types, WorkerType
  <2>3. \A v \in Workers, t \in Tasks : worker'[v].active = t /\ worker'[v].stop =>
          \E u \in aborted' : session'[u] = session'[t]
    BY <1>1, <2>1, TaskWorkersAssumption DEF Canceled
  <2>4. \A v \in Workers : worker'[v].active # None /\ worker'[v].stop =>
          \E u \in aborted' : session'[u] = session'[worker'[v].active]
    BY <1>1, <2>2, <2>3
  <2>5. \A v \in Workers : \A c \in ToSet(stdin'[v]) : c.type = "cancel" => c.task \in aborted'
    BY DEF TInv, CancelsAborted, PipesShrink, Grows
  <2> QED BY <2>4, <2>5 DEF CancelsAborted, Canceled
<1>4. Truthful'
  <2>1. ASSUME NEW v \in Workers, NEW m \in ToSet(stdout[v])
        PROVE  Believable(m)'
    <3>1. m.task \in Tasks /\ (done[m.task] = "pending" => worker[v].current = m.task)
      BY PipeTypes DEF TInv, Traced
    <3>2. Believable(m)
      BY DEF TInv, Truthful
    <3>3. done[m.task] = "pending" /\ Canceled(m.task) => Canceled(m.task)'
      BY <3>1, CanceledKept
    <3> QED BY <3>2, <3>3 DEF Believable, Grows
  <2> QED BY <2>1 DEF Truthful, PipesShrink
<1>5. SettledByOwnRun'
  <2>1. ASSUME NEW t \in Tasks, done[t] = "error", Canceled(t)
        PROVE  Canceled(t)'
    BY <2>1, CanceledKept
  <2> QED BY <2>1 DEF TInv, SettledByOwnRun, Grows
<1> QED BY <1>2, <1>3, <1>4, <1>5 DEF Pipes

\* If calls and requests stay where they are, they still match.
LEMMA CallsKept ==
  ASSUME TInv, Like(worker, worker'), done' = done, task' = task, assigner' = assigner,
         child' \in {child, None}, Grows
  PROVE  Calls'
<1>1. /\ worker' \in [Workers -> WorkerType]
      /\ \A v \in Workers :
           /\ worker'[v].current = worker[v].current /\ worker'[v].active = worker[v].active
           /\ worker'[v].busy <=> worker[v].busy
           /\ worker'[v].proc = "none" => worker[v].proc = "none" /\ (worker'[v].ready <=> worker[v].ready)
  BY DEF Like
<1>2. Unused'
  BY <1>1 DEF TInv, Unused
<1>3. Slots'
  BY <1>1 DEF TInv, Slots, Grows
<1>4. Places'
  BY <1>1 DEF TInv, Places, Grows
<1>5. AwaitedIsCurrent'
  BY <1>1 DEF TInv, AwaitedIsCurrent, Places, Awaiting
<1> QED BY <1>2, <1>3, <1>4, <1>5 DEF Calls

\* One call moves on, and takes or passes on the lock; r is its new record.
Moves(t, r) ==
  /\ task' = [task EXCEPT ![t] = r] /\ r \in CallType
  /\ r.at \in Before => task[t].at \in Before
  /\ r.at \in Waiting => assigner' = t
  /\ assigner' = assigner \/ assigner \in {None, t}
  /\ r.at \in {"waitReady", "waitSpawned"} => r.on \in Workers /\ ~worker[r.on].busy
  /\ r.at \in Awaiting => task[t].at \in Awaiting /\ r.on = task[t].on
  /\ r.at = "settling" => r.on \in Workers
  /\ child' \in {child, None} /\ (child' = t => r.at \in Awaiting)
  /\ r.at # "new"

\* A call that moves on without a new request still matches its worker.
LEMMA CallMoves ==
  ASSUME TInv, Like(worker, worker'), done' = done, deaf' = deaf, aborted' = aborted,
         NEW t \in Tasks, NEW r, Moves(t, r)
  PROVE  Calls' /\ task' \in [Tasks -> CallType]
<1>1. /\ worker' \in [Workers -> WorkerType]
      /\ \A v \in Workers :
           /\ worker'[v].current = worker[v].current /\ worker'[v].active = worker[v].active
           /\ worker'[v].busy <=> worker[v].busy
           /\ worker'[v].proc = "none" => worker[v].proc = "none" /\ (worker'[v].ready <=> worker[v].ready)
  BY DEF Like
<1>2. \A u \in Tasks : task'[u] = IF u = t THEN r ELSE task[u]
  BY DEF TInv, Types, Moves
<1>3. Unused'
  BY <1>1 DEF TInv, Unused
<1>4. Slots'
  BY <1>1, <1>2 DEF TInv, Slots, Moves
<1>5. Places'
  <2>1. \A u \in Tasks : task'[u].at \in Waiting => assigner' = u
    BY <1>2, TaskWorkersAssumption DEF TInv, Places, Moves
  <2>2. \A u \in Tasks : task'[u].at \in {"waitReady", "waitSpawned"} =>
          task'[u].on \in Workers /\ ~worker'[task'[u].on].busy
    BY <1>1, <1>2 DEF TInv, Places, Moves
  <2>3. \A u \in Tasks : task'[u].at \in Awaiting \cup {"settling"} => task'[u].on \in Workers
    BY <1>2 DEF TInv, Places, Moves
  <2>4. child' # None => task'[child'].at \in Awaiting
    BY <1>2 DEF TInv, Types, Places, Moves
  <2>5. \A u \in Tasks : task'[u].at = "new" => u \notin aborted'
    BY <1>2 DEF TInv, Places, Moves
  <2> QED BY <2>1, <2>2, <2>3, <2>4, <2>5 DEF Places
<1>6. AwaitedIsCurrent'
  BY <1>1, <1>2 DEF TInv, AwaitedIsCurrent, Places, Moves, Awaiting
<1> QED BY <1>3, <1>4, <1>5, <1>6 DEF Calls, TInv, Types, Moves

\* The record of a call.
LEMMA CallIs ==
  ASSUME NEW at \in Before \cup Awaiting \cup {"settling", "notified", "failed"},
         NEW w \in Workers \cup {0}
  PROVE  Call(at, w) \in CallType /\ Call(at, w).at = at /\ Call(at, w).on = w
  BY DEF Call, CallType

\* Nothing happens to the pipes.
LEMMA PipesSame ==
  ASSUME Types, stdin' = stdin, stdout' = stdout
  PROVE  PipesShrink
  BY DEF Types, PipesShrink

\* No run returns, no task is aborted or cut off.
LEMMA GrowsNot ==
  ASSUME Types, Aside, aborted' = aborted, cut' = cut
  PROVE  Grows
  BY DEF Types, Grows, Aside

\* A worker's own requests are tasks.
LEMMA UnsettledTasks ==
  ASSUME Types, NEW w \in Workers
  PROVE  /\ Unsettled(w) \subseteq Tasks /\ \A t \in Unsettled(w) : done[t] = "pending"
         /\ \A t \in Tasks : done[t] = "pending" /\ (worker[w].current = t \/ worker[w].active = t) =>
              t \in Unsettled(w)
<1>1. worker[w].current \in Tasks \cup {None} /\ worker[w].active \in Tasks \cup {None}
  BY DEF Types, WorkerType
<1> QED BY <1>1, TaskWorkersAssumption DEF Unsettled

\* Unchanged workers are as they were.
LEMMA LikeSelf == ASSUME Types, worker' = worker PROVE Like(worker, worker')
  BY DEF Types, Like

\* TaskTool.execute is entered: refused, or on its way to a worker.
LEMMA CallTaskStep ==
  ASSUME TInv, NEW t \in Tasks, CallTask(t)
  PROVE  TInv'
<1> DEFINE Rec(a) == [task[t] EXCEPT !.at = a]
<1>1. /\ task[t].at = "new" /\ child' \in {child, None} /\ saved' = saved /\ deaf' = deaf
      /\ done' = done /\ assigner' = assigner /\ aborted' = aborted /\ returned' = returned /\ cut' = cut
      /\ worker' = worker /\ stdin' = stdin /\ stdout' = stdout /\ standby' = standby
  BY DEF CallTask, poolVars, history
<1>2. PICK a \in {"refused", "called"} : task' = [task EXCEPT ![t] = Rec(a)]
  BY DEF CallTask
<1>3. Rec(a) \in CallType /\ Rec(a).at = a
  BY DEF TInv, Types, CallType, Before
<1> HIDE DEF Rec
<1>4. child' # t
  BY <1>1, TaskWorkersAssumption DEF TInv, Places, Awaiting
<1>5. Moves(t, Rec(a))
  BY <1>1, <1>2, <1>3, <1>4 DEF Moves, Before, Waiting, Awaiting
<1>6. Types /\ Like(worker, worker')
  BY <1>1, LikeSelf DEF TInv
<1>7. Calls' /\ task' \in [Tasks -> CallType]
  BY <1>1, <1>5, <1>6, CallMoves
<1>8. Grows
  <2>1. session' = session \/ \E s \in Tasks : session' = [session EXCEPT ![t] = s]
    BY DEF CallTask, ChildSessions
  <2>2. /\ session' \in [Tasks -> Tasks \cup {None}]
        /\ \A u \in Tasks : u # t => session'[u] = session[u]
    BY <1>6, <2>1 DEF Types
  <2> QED BY <1>1, <1>6, <2>2 DEF Grows, Types
<1>9. Pipes'
  BY <1>1, <1>6, <1>8, PipesSame, PipesKept
<1>10. Types'
  BY <1>1, <1>6, <1>7, <1>8 DEF Types, Grows
<1> QED BY <1>7, <1>9, <1>10 DEF TInv, Calls, Pipes

\* A call that moves on while requests, pipes and tasks stay what they are keeps
\* the invariant.
LEMMA MovesKeeps ==
  ASSUME TInv, NEW t \in Tasks, NEW r, Moves(t, r), Like(worker, worker'), done' = done,
         assigner' \in Tasks \cup {None}, standby' \in Workers \cup {0},
         stdin' = stdin, stdout' = stdout, Aside, aborted' = aborted,
         cut \subseteq cut', cut' \subseteq Tasks
  PROVE  TInv'
<1>1. Types
  BY DEF TInv
<1>2. Calls' /\ task' \in [Tasks -> CallType]
  BY CallMoves DEF Aside
<1>3. PipesShrink /\ Grows
  BY <1>1, PipesSame DEF Grows, Types, Aside
<1>4. Pipes'
  BY <1>3, PipesKept
<1>5. Types'
  BY <1>1, <1>2 DEF Types, Like, Moves, Aside
<1> QED BY <1>2, <1>4, <1>5 DEF TInv, Calls, Pipes

\* The await of TaskWorkerEvent.Assigned ends.
LEMMA AnnouncedStep ==
  ASSUME TInv, NEW t \in Tasks, Announced(t)
  PROVE  TInv'
<1>1. /\ task[t].at = "announcing"
      /\ done' = done /\ assigner' = assigner /\ aborted' = aborted /\ Aside /\ cut' = cut
      /\ worker' = worker /\ stdin' = stdin /\ stdout' = stdout /\ standby' = standby
  BY DEF Announced, poolVars, history, Aside
<1>2. Types /\ Like(worker, worker') /\ assigner' \in Tasks \cup {None} /\ standby' \in Workers \cup {0}
      /\ cut' \subseteq Tasks
  BY <1>1, LikeSelf DEF TInv, Types
<1>3. CASE task' = [task EXCEPT ![t] = Call("failed", 0)] /\ child' = None
  <2> DEFINE r == Call("failed", 0)
  <2>1. r \in CallType /\ r.at = "failed"
    BY CallIs
  <2>2. task' = [task EXCEPT ![t] = r]
    BY <1>3
  <2> HIDE DEF r
  <2>3. Moves(t, r)
    BY <1>1, <1>3, <2>1, <2>2, TaskWorkersAssumption DEF Moves, Before, Waiting, Awaiting
  <2> QED BY <1>1, <1>2, <2>3, MovesKeeps
<1>4. CASE task' = [task EXCEPT ![t].at = "running"] /\ child' = child
  <2> DEFINE r == [task[t] EXCEPT !.at = "running"]
  <2>1. r \in CallType /\ r.at = "running" /\ r.on = task[t].on
    BY DEF TInv, Types, CallType, Awaiting
  <2>2. task' = [task EXCEPT ![t] = r]
    BY <1>4
  <2> HIDE DEF r
  <2>3. Moves(t, r)
    BY <1>1, <1>4, <2>1, <2>2 DEF Moves, Before, Waiting, Awaiting
  <2> QED BY <1>1, <1>2, <2>3, MovesKeeps
<1> QED BY <1>3, <1>4 DEF Announced

\* run.done or a watchdog ends the race.
LEMMA OutcomeStep ==
  ASSUME TInv, NEW t \in Tasks, NEW kill \in BOOLEAN, Outcome(t, kill)
  PROVE  TInv'
<1> DEFINE r == [task[t] EXCEPT !.at = "settling", !.kill = kill]
<1>1. /\ task[t].at = "running" /\ task' = [task EXCEPT ![t] = r] /\ child' = None
      /\ done' = done /\ assigner' = assigner /\ aborted' = aborted /\ Aside /\ cut' = cut
      /\ worker' = worker /\ stdin' = stdin /\ stdout' = stdout /\ standby' = standby
  BY DEF Outcome, poolVars, history, Aside, TInv, Types
<1>2. Types /\ Like(worker, worker') /\ assigner' \in Tasks \cup {None} /\ standby' \in Workers \cup {0}
      /\ cut' \subseteq Tasks
  BY <1>1, LikeSelf DEF TInv, Types
<1>3. r \in CallType /\ r.at = "settling" /\ r.on = task[t].on
  BY DEF TInv, Types, CallType
<1> HIDE DEF r
<1>4. r.on \in Workers
  BY <1>1, <1>3 DEF TInv, Places, Awaiting
<1>5. Moves(t, r)
  BY <1>1, <1>3, <1>4, TaskWorkersAssumption DEF Moves, Before, Waiting, Awaiting
<1> QED BY <1>1, <1>2, <1>5, MovesKeeps

\* The detached completion kills the worker if it has to, and reports.
LEMMA ReapStep ==
  ASSUME TInv, NEW t \in Tasks, Reap(t)
  PROVE  TInv'
<1> DEFINE r == Call("notified", 0)
           w == task[t].on
<1>1. /\ task[t].at = "settling" /\ task' = [task EXCEPT ![t] = r] /\ child' = child
      /\ done' = done /\ assigner' = assigner /\ aborted' = aborted /\ Aside
      /\ stdin' = stdin /\ stdout' = stdout /\ standby' = standby
      /\ \/ worker' = [worker EXCEPT ![w] = Killed(w)] /\ cut' = cut \cup Unsettled(w)
         \/ worker' = worker /\ cut' = cut
  BY DEF Reap, Aside
<1>2. r \in CallType /\ r.at = "notified"
  BY CallIs
<1>3. w \in Workers
  BY <1>1 DEF TInv, Places
<1> HIDE DEF r, w
<1>4. Types /\ assigner' \in Tasks \cup {None} /\ standby' \in Workers \cup {0}
  BY <1>1 DEF TInv, Types
<1>5. Like(worker, worker') /\ cut \subseteq cut' /\ cut' \subseteq Tasks
  <2>1. CASE worker' = worker /\ cut' = cut
    BY <1>4, <2>1, LikeSelf DEF Types
  <2>2. CASE worker' = [worker EXCEPT ![w] = Killed(w)] /\ cut' = cut \cup Unsettled(w)
    <3>1. Like(worker, worker')
      BY <1>3, <1>4, <2>2, KilledLike DEF Types
    <3>2. Unsettled(w) \subseteq Tasks
      BY <1>3, <1>4, UnsettledTasks
    <3> QED BY <1>4, <2>2, <3>1, <3>2 DEF Types
  <2> QED BY <1>1, <2>1, <2>2
<1>6. child' # t
  BY <1>1, TaskWorkersAssumption DEF TInv, Places, Awaiting
<1>7. Moves(t, r)
  BY <1>1, <1>2, <1>6 DEF Moves, Before, Waiting, Awaiting
<1> QED BY <1>1, <1>4, <1>5, <1>7, MovesKeeps

-----------------------------------------------------------------------------
(* getReadyWorker and what follows.                                         *)

\* The call holds the lock, or may take it.
Holding(t) ==
  /\ task[t].at \in {"called"} \cup Waiting /\ assigner \in {None, t}
  /\ Aside /\ UNCHANGED <<aborted, cut>>

\* The active child is not a call that has no worker yet.
LEMMA NotChild ==
  ASSUME TInv, NEW t \in Tasks, Holding(t)
  PROVE  child # t
  BY TaskWorkersAssumption DEF TInv, Places, Holding, Waiting, Awaiting

\* getReadyWorker or assignWorker throws and the lock is disposed of.
LEMMA FailsStep ==
  ASSUME TInv, NEW t \in Tasks, Holding(t), Fails(t)
  PROVE  TInv'
<1> DEFINE r == Call("failed", 0)
<1>1. /\ task' = [task EXCEPT ![t] = r] /\ assigner' = None /\ child' = child
      /\ done' = done /\ aborted' = aborted /\ Aside /\ cut' = cut
      /\ worker' = worker /\ stdin' = stdin /\ stdout' = stdout /\ standby' = standby
  BY DEF Fails, poolVars, Holding
<1>2. r \in CallType /\ r.at = "failed"
  BY CallIs
<1> HIDE DEF r
<1>3. Types /\ Like(worker, worker') /\ standby' \in Workers \cup {0} /\ cut' \subseteq Tasks
  BY <1>1, LikeSelf DEF TInv, Types
<1>4. Moves(t, r)
  BY <1>1, <1>2, NotChild DEF Moves, Before, Waiting, Awaiting, Holding
<1> QED BY <1>1, <1>3, <1>4, MovesKeeps

\* getReadyWorker awaits a worker that nobody has yet.
LEMMA WaitStep ==
  ASSUME TInv, NEW t \in Tasks, Holding(t), NEW at \in Waiting, NEW w \in Workers \cup {0},
         Wait(t, at, w), Like(worker, worker'), standby' = standby,
         at \in {"waitReady", "waitSpawned"} => w \in Workers /\ ~worker[w].busy
  PROVE  TInv'
<1> DEFINE r == Call(at, w)
<1>1. /\ task' = [task EXCEPT ![t] = r] /\ assigner' = t /\ child' = child
      /\ done' = done /\ aborted' = aborted /\ Aside /\ cut' = cut
      /\ stdin' = stdin /\ stdout' = stdout
  BY DEF Wait, Holding
<1>2. r \in CallType /\ r.at = at /\ r.on = w
  BY CallIs DEF Before
<1> HIDE DEF r
<1>3. Types /\ standby' \in Workers \cup {0} /\ cut' \subseteq Tasks
  BY <1>1 DEF TInv, Types
<1>4. Moves(t, r)
  BY <1>1, <1>2, NotChild DEF Moves, Before, Waiting, Awaiting, Holding
<1> QED BY <1>1, <1>3, <1>4, MovesKeeps

\* Under the invariant a process that was never spawned has nothing to do.
LEMMA VacantNow == ASSUME TInv PROVE Vacant(worker)
  BY DEF TInv, Unused, Slots, Vacant

\* A new worker is awaited, or cannot be spawned.
LEMMA SpawnAndWaitStep ==
  ASSUME TInv, NEW t \in Tasks, Holding(t), SpawnAndWait(t)
  PROVE  TInv'
<1>1. CASE Fails(t)
  BY <1>1, FailsStep
<1>2. CASE /\ Unspawned(worker) # {}
           /\ Wait(t, "waitSpawned", First(Unspawned(worker)))
           /\ worker' = Spawned(worker) /\ UNCHANGED standby
  <2> DEFINE w == First(Unspawned(worker))
  <2>1. w \in Unspawned(worker) /\ Like(worker, worker')
    BY <1>2, VacantNow, SpawnedLike DEF TInv, Types
  <2>2. Wait(t, "waitSpawned", w)
    BY <1>2
  <2> HIDE DEF w
  <2>3. w \in Workers /\ ~worker[w].busy
    BY <2>1, VacantNow DEF Unspawned, Vacant
  <2>4. w \in Workers \cup {0} /\ "waitSpawned" \in Waiting
    BY <2>3 DEF Waiting
  <2> QED BY <1>2, <2>1, <2>2, <2>3, <2>4, WaitStep
<1> QED BY <1>1, <1>2 DEF SpawnAndWait

\* At the cap a busy worker is awaited.
LEMMA AtCapStep ==
  ASSUME TInv, NEW t \in Tasks, Holding(t), AtCap(t)
  PROVE  TInv'
<1>1. CASE SpawnAndWait(t)
  BY <1>1, SpawnAndWaitStep
<1>2. CASE Wait(t, "waitFreed", 0) /\ UNCHANGED <<worker, standby>>
  <2>1. Like(worker, worker') /\ "waitFreed" \in Waiting
    BY <1>2, LikeSelf DEF TInv, Waiting
  <2> QED BY <1>2, <2>1, WaitStep
<1> QED BY <1>1, <1>2 DEF AtCap

\* A command to w, if it is written at all, is the only thing new in the pipes.
LEMMA WrittenFacts ==
  ASSUME Types, NEW w \in Workers, NEW type \in {"run", "cancel"}, NEW t \in Tasks
  PROVE  /\ Written(w, type, t) \in [Workers -> Seq(Command)]
         /\ \A v \in Workers : \A c \in ToSet(Written(w, type, t)[v]) :
              c \in ToSet(stdin[v]) \/ (v = w /\ c.type = type /\ c.task = t)
<1> DEFINE new == [type |-> type, task |-> t]
           q == Append(stdin[w], new)
<1>1. new \in Command /\ new.type = type /\ new.task = t
  BY DEF Command
<1>2. stdin \in [Workers -> Seq(Command)]
  BY DEF Types
<1>3. Written(w, type, t) = stdin \/ Written(w, type, t) = [stdin EXCEPT ![w] = q]
  BY DEF Written
<1> HIDE DEF new
<1>4. q \in Seq(Command) /\ ToSet(q) = ToSet(stdin[w]) \cup {new}
  BY <1>1, <1>2, Wrote
<1> HIDE DEF q
<1> QED BY <1>1, <1>2, <1>3, <1>4

\* The worker taken is free and has a process; the call is nobody's request yet.
LEMMA DispatchStep ==
  ASSUME TInv, NEW t \in Tasks, NEW w \in Workers, Holding(t), Dispatch(t, w),
         worker[w].ready, ~worker[w].busy
  PROVE  TInv'
<1>1. CASE Fails(t)
  BY <1>1, FailsStep
<1>2. CASE ~Fails(t)
  <2> DEFINE r == Call("announcing", w)
  <2>1. /\ task' = [task EXCEPT ![t] = r] /\ assigner' = None /\ child' = t
        /\ stdin' = Written(w, "run", t) /\ stdout' = stdout /\ done' = done
        /\ aborted' = aborted /\ cut' = cut
        /\ session' = session /\ saved' = saved /\ deaf' = deaf /\ returned' = returned
        /\ EnsureStandby([worker EXCEPT ![w].busy = TRUE, ![w].current = t])
    BY <1>2 DEF Dispatch, Holding, Aside
  <2>2. r \in CallType /\ r.at = "announcing" /\ r.on = w
    BY CallIs DEF Awaiting
  <2> HIDE DEF r
  <2>3. Types /\ Unused /\ Slots /\ Places /\ AwaitedIsCurrent /\ Pipes
    BY DEF TInv, Pipes
  <2>4. worker[w].current = None /\ worker[w].proc # "none"
    BY <2>3 DEF Unused, Slots
  <2>5. /\ task[t].at \in Before /\ done[t] = "pending"
        /\ \A v \in Workers : worker[v].current # t
    BY <2>3 DEF Holding, Before, Slots
  <2>6. Seats(worker, worker', w, t) /\ standby' \in Workers \cup {0}
    BY <2>1, <2>3, <2>4, VacantNow, Seated DEF Types
  <2>7. /\ stdin' \in [Workers -> Seq(Command)]
        /\ \A v \in Workers : \A c \in ToSet(stdin'[v]) :
             c \in ToSet(stdin[v]) \/ (v = w /\ c.type = "run" /\ c.task = t)
    BY <2>1, <2>3, WrittenFacts
  <2>8. /\ task' \in [Tasks -> CallType]
        /\ \A u \in Tasks : task'[u] = IF u = t THEN r ELSE task[u]
    BY <2>1, <2>2, <2>3 DEF Types
  <2>9. /\ worker' \in [Workers -> WorkerType]
        /\ \A v \in Workers :
             /\ worker'[v].current = (IF v = w THEN t ELSE worker[v].current)
             /\ worker'[v].busy <=> (v = w \/ worker[v].busy)
             /\ worker'[v].active = worker[v].active
             /\ worker'[v].active # None => (worker'[v].stop <=> worker[v].stop)
             /\ worker'[v].proc = "none" => worker[v].proc = "none" /\ (worker'[v].ready <=> worker[v].ready)
    BY <2>6, TaskWorkersAssumption DEF Seats
  <2>10. Types'
    BY <2>1, <2>3, <2>6, <2>7, <2>8, <2>9 DEF Types
  <2>11. Unused'
    BY <2>3, <2>4, <2>9 DEF Unused
  <2>12. Slots'
    <3>1. \A v \in Workers : worker'[v].busy <=> worker'[v].current # None
      BY <2>3, <2>9, TaskWorkersAssumption DEF Slots
    <3>2. \A v \in Workers, u \in Tasks : worker'[v].current = u =>
            (v \notin deaf' => done'[u] = "pending") /\ task'[u].at \notin Before
      BY <2>1, <2>2, <2>3, <2>5, <2>8, <2>9 DEF Slots, Before, Waiting
    <3>3. \A v, x \in Workers : worker'[v].current # None /\ worker'[v].current = worker'[x].current => v = x
      BY <2>3, <2>5, <2>9 DEF Slots
    <3>4. \A u \in Tasks : task'[u].at \in Before => done'[u] = "pending"
      BY <2>1, <2>3, <2>5, <2>8 DEF Slots
    <3> QED BY <3>1, <3>2, <3>3, <3>4 DEF Slots
  <2>13. Places'
    <3>1. \A u \in Tasks : u # t => task[u].at \notin Waiting
      BY <2>3, TaskWorkersAssumption DEF Places, Holding
    <3>2. \A u \in Tasks : task'[u].at \notin Waiting
      BY <2>2, <2>8, <3>1 DEF Waiting
    <3> QED BY <2>1, <2>2, <2>3, <2>8, <3>2 DEF Places, Waiting, Awaiting
  <2>14. AwaitedIsCurrent'
    BY <2>1, <2>2, <2>3, <2>4, <2>8, <2>9, TaskWorkersAssumption
    DEF AwaitedIsCurrent, Places, Awaiting
  <2>15. Traced'
    <3>1. ASSUME NEW v \in Workers, NEW u \in Tasks, worker[v].current = u
          PROVE  worker'[v].current = u
      BY <2>4, <2>9, <3>1, TaskWorkersAssumption
    <3>2. ASSUME NEW v \in Workers, NEW c \in ToSet(stdin'[v]), done[c.task] = "pending"
          PROVE  worker'[v].current = c.task
      BY <2>3, <2>7, <2>9, <3>1, <3>2, PipeTypes DEF Traced, Pipes
    <3>3. ASSUME NEW v \in Workers, NEW m \in ToSet(stdout[v]), done[m.task] = "pending"
          PROVE  worker'[v].current = m.task
      BY <2>3, <3>1, <3>3, PipeTypes DEF Traced, Pipes
    <3>4. ASSUME NEW v \in Workers, worker[v].active # None, done[worker[v].active] = "pending"
          PROVE  worker'[v].current = worker[v].active
      BY <2>3, <3>1, <3>4 DEF Traced, Pipes, Types, WorkerType
    <3> QED BY <2>1, <2>9, <3>2, <3>3, <3>4 DEF Traced
  <2>16. CancelsAborted'
    <3>1. \A v \in Workers : \A c \in ToSet(stdin'[v]) : c.type = "cancel" => c.task \in aborted'
      BY <2>1, <2>3, <2>7 DEF CancelsAborted, Pipes
    <3>2. \A v \in Workers : worker'[v].active # None /\ worker'[v].stop =>
            \E u \in aborted' : session'[u] = session'[worker'[v].active]
      BY <2>1, <2>3, <2>9 DEF CancelsAborted, Canceled, Pipes
    <3> QED BY <3>1, <3>2 DEF CancelsAborted, Canceled
  <2>17. Truthful' /\ SettledByOwnRun'
    BY <2>1, <2>3 DEF Truthful, Believable, Canceled, SettledByOwnRun, Pipes
  <2> QED BY <2>10, <2>11, <2>12, <2>13, <2>14, <2>15, <2>16, <2>17 DEF TInv
<1> QED BY <1>1, <1>2

\* getReadyWorker up to its first await.
LEMMA AssignStep ==
  ASSUME TInv, NEW t \in Tasks, Assign(t)
  PROVE  TInv'
<1>1. Holding(t)
  BY DEF Assign, MayAssign, Holding, Aside
<1>2. CASE Fails(t)
  BY <1>1, <1>2, FailsStep
<1>3. CASE IdleReady(worker) # {} /\ Dispatch(t, First(IdleReady(worker)))
  <2> DEFINE w == First(IdleReady(worker))
  <2>1. w \in IdleReady(worker) /\ Dispatch(t, w)
    BY <1>3, FirstOf DEF IdleReady, Listed
  <2> HIDE DEF w
  <2>2. w \in Workers /\ worker[w].ready /\ ~worker[w].busy
    BY <2>1 DEF IdleReady, Listed
  <2> QED BY <1>1, <2>1, <2>2, DispatchStep
<1>4. CASE \E w \in Listed(worker) : ~worker[w].busy /\ Wait(t, "waitReady", w) /\ UNCHANGED <<worker, standby>>
  <2>1. PICK w \in Workers : ~worker[w].busy /\ Wait(t, "waitReady", w) /\ UNCHANGED <<worker, standby>>
    BY <1>4 DEF Listed
  <2>2. Like(worker, worker') /\ "waitReady" \in Waiting
    BY <2>1, LikeSelf DEF TInv, Waiting
  <2> QED BY <1>1, <2>1, <2>2, WaitStep
<1>5. CASE AtCap(t)
  BY <1>1, <1>5, AtCapStep
<1>6. LET free == {w \in Listed(worker) : ~worker[w].busy}
      IN free # {} => First(free) \in Listed(worker) /\ ~worker[First(free)].busy
  <2> DEFINE free == {w \in Listed(worker) : ~worker[w].busy}
  <2>1. free \in SUBSET Workers
    BY DEF Listed
  <2>2. free # {} => First(free) \in free
    BY <2>1, FirstOf
  <2> QED BY <2>2
<1> QED BY <1>2, <1>3, <1>4, <1>5, <1>6 DEF Assign

\* getReadyWorker after an await: the worker it waited for is still free, because nobody else
\* could take the lock.
LEMMA AssignedStep ==
  ASSUME TInv, NEW t \in Tasks, Assigned(t)
  PROVE  TInv'
<1>1. Holding(t)
  BY DEF Assigned, Holding, Aside, TInv, Places, Waiting
<1>2. CASE Fails(t)
  BY <1>1, <1>2, FailsStep
<1>3. CASE IdleReady(worker) # {} /\ Dispatch(t, First(IdleReady(worker)))
  <2> DEFINE w == First(IdleReady(worker))
  <2>1. w \in IdleReady(worker) /\ Dispatch(t, w)
    BY <1>3, FirstOf DEF IdleReady, Listed
  <2> HIDE DEF w
  <2>2. w \in Workers /\ worker[w].ready /\ ~worker[w].busy
    BY <2>1 DEF IdleReady, Listed
  <2> QED BY <1>1, <2>1, <2>2, DispatchStep
<1>4. CASE /\ task[t].at \in {"waitReady", "waitSpawned"}
           /\ worker[task[t].on].ready /\ Dispatch(t, task[t].on)
  <2>1. task[t].on \in Workers /\ ~worker[task[t].on].busy
    BY <1>4 DEF TInv, Places
  <2> QED BY <1>1, <1>4, <2>1, DispatchStep
<1>5. CASE AtCap(t) \/ SpawnAndWait(t)
  BY <1>1, <1>5, AtCapStep, SpawnAndWaitStep
<1> QED BY <1>2, <1>3, <1>4, <1>5 DEF Assigned

-----------------------------------------------------------------------------
(* Aborts, cancels and kills.                                               *)

\* The calls stay where they are; the pipes and the tasks may change as in PipesShrink.
LEMMA QuietKeeps ==
  ASSUME TInv, Like(worker, worker'), done' = done, task' = task, assigner' = assigner,
         child' \in {child, None}, standby' \in Workers \cup {0}, PipesShrink, Grows
  PROVE  TInv'
<1>1. Calls' /\ Pipes'
  BY CallsKept, PipesKept
<1>2. Types'
  BY DEF TInv, Types, Like, PipesShrink, Grows
<1> QED BY <1>1, <1>2 DEF TInv, Calls, Pipes

\* A cancel goes to the worker whose request it is, or is about a settled task.
LEMMA CancelShrinks ==
  ASSUME TInv, NEW w \in Workers, NEW t \in Tasks, aborted' = aborted \cup {t},
         stdin' = Written(w, "cancel", t), stdout' = stdout, Aside, cut' = cut,
         done[t] = "pending" => worker[w].current = t
  PROVE  PipesShrink /\ Grows
<1>1. Types
  BY DEF TInv
<1>2. /\ stdin' \in [Workers -> Seq(Command)]
      /\ \A v \in Workers : \A c \in ToSet(stdin'[v]) :
           c \in ToSet(stdin[v]) \/ (v = w /\ c.type = "cancel" /\ c.task = t)
  BY <1>1, WrittenFacts
<1>3. PipesShrink
  BY <1>1, <1>2 DEF PipesShrink, Types
<1>4. task[t].at # "new"
  BY DEF TInv, Slots, Before
<1> QED BY <1>1, <1>3, <1>4 DEF Grows, Types, Aside

\* The abort listener of a call cancels what it has dispatched.
LEMMA AbortStep ==
  ASSUME TInv, NEW t \in Tasks, Abort(t)
  PROVE  TInv'
<1>1. /\ aborted' = aborted \cup {t} /\ child' = child /\ worker' = worker /\ cut' = cut
      /\ task' = task /\ done' = done /\ assigner' = assigner /\ stdout' = stdout
      /\ standby' = standby /\ Aside
  BY DEF Abort, Canceling, Aside
<1>2. Types /\ Like(worker, worker') /\ standby' \in Workers \cup {0}
  BY <1>1, LikeSelf DEF TInv, Types
<1>3. PipesShrink /\ Grows
  <2>1. CASE task[t].at = "announcing"
    <3>1. /\ task[t].on \in Workers /\ stdin' = Written(task[t].on, "cancel", t)
          /\ done[t] = "pending" => worker[task[t].on].current = t
      BY <2>1 DEF Abort, TInv, Places, Awaiting, AwaitedIsCurrent
    <3> QED BY <1>1, <3>1, CancelShrinks
  <2>2. CASE task[t].at # "announcing"
    <3>1. stdin' = stdin
      BY <2>2 DEF Abort
    <3>2. task[t].at # "new"
      BY DEF Abort
    <3> QED BY <1>1, <1>2, <3>1, <3>2, PipesSame DEF Grows, Types, Aside
  <2> QED BY <2>1, <2>2
<1> QED BY <1>1, <1>2, <1>3, QuietKeeps

\* The operator cancels a worker's current request.
LEMMA CancelByJobIdStep ==
  ASSUME TInv, NEW w \in Workers, CancelByJobId(w)
  PROVE  TInv'
<1> DEFINE t == worker[w].current
<1>1. /\ aborted' = aborted \cup {t} /\ child' = child /\ worker' = worker /\ cut' = cut
      /\ task' = task /\ done' = done /\ assigner' = assigner /\ stdout' = stdout
      /\ standby' = standby /\ Aside /\ stdin' = Written(w, "cancel", t)
  BY DEF CancelByJobId, Canceling, Aside
<1>2. Types /\ Like(worker, worker') /\ standby' \in Workers \cup {0}
  BY <1>1, LikeSelf DEF TInv, Types
<1>3. t \in Tasks
  BY <1>2 DEF CancelByJobId, Types, WorkerType
<1>4. PipesShrink /\ Grows
  BY <1>1, <1>3, CancelShrinks
<1> QED BY <1>1, <1>2, <1>4, QuietKeeps

\* The parent's active child is canceled, or its worker killed.
LEMMA TerminateActiveChildStep ==
  ASSUME TInv, TerminateActiveChild
  PROVE  TInv'
<1> DEFINE w == task[child].on
<1>1. /\ child \in Tasks /\ child' = None
      /\ task' = task /\ done' = done /\ assigner' = assigner /\ stdout' = stdout
      /\ standby' = standby /\ Aside
  BY DEF TerminateActiveChild, Canceling, Aside, TInv, Types
<1>2. w \in Workers /\ (done[child] = "pending" => worker[w].current = child)
  BY <1>1, TaskWorkersAssumption DEF TInv, Places, AwaitedIsCurrent, Awaiting
<1>3. Types /\ standby' \in Workers \cup {0}
  BY <1>1 DEF TInv, Types
<1>4. CASE aborted' = aborted /\ stdin' = stdin /\ worker' = worker /\ cut' = cut
  <2>1. Like(worker, worker') /\ PipesShrink /\ Grows
    BY <1>1, <1>3, <1>4, LikeSelf, PipesSame, GrowsNot
  <2> QED BY <1>1, <1>3, <2>1, QuietKeeps
<1>5. CASE /\ aborted' = aborted \cup {child} /\ stdin' = Written(w, "cancel", child)
           /\ worker' = worker /\ cut' = cut
  <2>1. Like(worker, worker')
    BY <1>3, <1>5, LikeSelf
  <2>2. PipesShrink /\ Grows
    BY <1>1, <1>2, <1>5, CancelShrinks
  <2> QED BY <1>1, <1>3, <2>1, <2>2, QuietKeeps
<1>6. CASE /\ worker' = [worker EXCEPT ![w] = Killed(w)] /\ cut' = cut \cup Unsettled(w)
           /\ aborted' = aborted /\ stdin' = stdin
  <2>1. Like(worker, worker')
    BY <1>2, <1>3, <1>6, KilledLike DEF Types
  <2>2. PipesShrink /\ Grows
    BY <1>1, <1>2, <1>3, <1>6, PipesSame, UnsettledTasks DEF Grows, Types, Aside
  <2> QED BY <1>1, <1>3, <2>1, <2>2, QuietKeeps
<1> QED BY <1>4, <1>5, <1>6 DEF TerminateActiveChild

\* The emergency stop cancels every current request.
LEMMA TerminateAllStep ==
  ASSUME TInv, TerminateAllActiveWorkers
  PROVE  TInv'
<1> DEFINE active == {w \in Listed(worker) : worker[w].current # None}
<1>1. /\ aborted' = aborted \cup {worker[w].current : w \in active}
      /\ child' = None /\ worker' = worker /\ cut' = cut
      /\ task' = task /\ done' = done /\ assigner' = assigner /\ stdout' = stdout
      /\ standby' = standby /\ Aside
  BY DEF TerminateAllActiveWorkers, Canceling, Aside
<1>2. stdin' = [w \in Workers |-> IF w \in active THEN Written(w, "cancel", worker[w].current)[w] ELSE stdin[w]]
  BY DEF TerminateAllActiveWorkers
<1>3. Types /\ Like(worker, worker') /\ standby' \in Workers \cup {0}
  BY <1>1, LikeSelf DEF TInv, Types
<1>4. \A w \in active : w \in Workers /\ worker[w].current \in Tasks
  BY <1>3 DEF Listed, Types, WorkerType
<1> HIDE DEF active
<1>5. \A w \in active : worker[w].current \in aborted'
  BY <1>1
<1>6. \A w \in active :
        /\ Written(w, "cancel", worker[w].current) \in [Workers -> Seq(Command)]
        /\ \A c \in ToSet(Written(w, "cancel", worker[w].current)[w]) :
             c \in ToSet(stdin[w]) \/ c.task = worker[w].current
  <2> TAKE w \in active
  <2>1. w \in Workers /\ worker[w].current \in Tasks
    BY <1>4
  <2> QED BY <1>3, <2>1, WrittenFacts
<1>7. stdin' \in [Workers -> Seq(Command)]
  BY <1>2, <1>3, <1>6 DEF Types
<1>8. \A v \in Workers : \A c \in ToSet(stdin'[v]) :
        c \in ToSet(stdin[v]) \/ (v \in active /\ c.task = worker[v].current)
  BY <1>2, <1>6
<1>9. PipesShrink
  BY <1>1, <1>3, <1>5, <1>7, <1>8 DEF PipesShrink, Types
<1>10. Grows
  <2>1. \A w \in active : task[worker[w].current].at # "new"
    BY <1>4 DEF TInv, Slots, Before
  <2> QED BY <1>1, <1>3, <1>4, <2>1 DEF Grows, Types, Aside
<1> QED BY <1>1, <1>3, <1>9, <1>10, QuietKeeps

\* A standby that is not ready in time leaves the pool.
LEMMA StandbyEndsStep ==
  ASSUME TInv, StandbyEnds
  PROVE  TInv'
<1>1. /\ standby \in Workers /\ standby' = 0 /\ stdin' = stdin /\ stdout' = stdout
      /\ Aside /\ cut' = cut /\ task' = task /\ done' = done
      /\ assigner' = assigner /\ child' = child /\ aborted' = aborted
      /\ worker' \in {worker, [worker EXCEPT ![standby] = [Killed(standby) EXCEPT !.listed = FALSE]]}
  BY DEF StandbyEnds, callVars, history, Aside, TInv, Types
<1>2. Types /\ Like(worker, worker') /\ PipesShrink /\ Grows
  BY <1>1, LikeSelf, KilledLike, PipesSame, GrowsNot DEF TInv, Types
<1> QED BY <1>1, <1>2, QuietKeeps

\* The idle timer kills a worker without a request.
LEMMA IdleReapStep ==
  ASSUME TInv, NEW w \in Workers, IdleReap(w)
  PROVE  TInv'
<1>1. /\ stdin' = stdin /\ stdout' = stdout /\ standby' = standby
      /\ Aside /\ cut' = cut /\ task' = task /\ done' = done
      /\ assigner' = assigner /\ child' = child /\ aborted' = aborted
      /\ worker' = [worker EXCEPT ![w] = [Killed(w) EXCEPT !.listed = FALSE]]
  BY DEF IdleReap, callVars, history, Aside
<1>2. Types /\ Like(worker, worker') /\ PipesShrink /\ Grows /\ standby' \in Workers \cup {0}
  BY <1>1, KilledLike, PipesSame, GrowsNot DEF TInv, Types
<1> QED BY <1>1, <1>2, QuietKeeps

-----------------------------------------------------------------------------
(* The worker process.                                                      *)

\* A step of the process of w: nothing the daemon keeps is changed.
Works(w) ==
  /\ task' = task /\ done' = done /\ assigner' = assigner /\ child' = child
  /\ aborted' = aborted /\ standby' = standby /\ session' = session /\ deaf' = deaf
  /\ worker[w].proc # "none" /\ worker' \in [Workers -> WorkerType]
  /\ \A v \in Workers :
       /\ v # w => worker'[v] = worker[v]
       /\ worker'[v].current = worker[v].current
       /\ worker'[v].busy <=> worker[v].busy
  /\ worker'[w].proc # "none"

\* A step of a process leaves calls and requests as they match.
LEMMA WorksCalls ==
  ASSUME TInv, NEW w \in Workers, Works(w)
  PROVE  Calls'
<1>1. Unused'
  BY DEF TInv, Unused, Works
<1>2. Slots'
  BY DEF TInv, Slots, Works
<1>3. Places'
  BY DEF TInv, Places, Works
<1>4. AwaitedIsCurrent'
  BY DEF TInv, AwaitedIsCurrent, Places, Works, Awaiting
<1> QED BY <1>1, <1>2, <1>3, <1>4 DEF Calls

\* A worker that has booted has no request more than before.
LEMMA BootedLike ==
  ASSUME NEW ws \in [Workers -> WorkerType], NEW w \in Workers, NEW b \in BOOLEAN
  PROVE  Like(ws, [ws EXCEPT ![w].proc = "alive", ![w].ready = b])
<1> DEFINE vs == [ws EXCEPT ![w].proc = "alive", ![w].ready = b]
<1>1. vs \in [Workers -> WorkerType] /\ vs[w].proc = "alive"
  BY DEF WorkerType
<1>2. \A v \in Workers : v # w => vs[v] = ws[v]
  OBVIOUS
<1>3. vs[w].current = ws[w].current /\ vs[w].active = ws[w].active
  BY DEF WorkerType
<1>4. (vs[w].busy <=> ws[w].busy) /\ (vs[w].stop <=> ws[w].stop)
  BY DEF WorkerType
<1> HIDE DEF vs
<1>5. Like(ws, vs)
  BY <1>1, <1>2, <1>3, <1>4 DEF Like
<1> QED BY <1>5 DEF vs

\* The worker reports that it is ready.
LEMMA BootsStep ==
  ASSUME TInv, NEW w \in Workers, Boots(w)
  PROVE  TInv'
<1>1. /\ stdin' = stdin /\ stdout' = stdout /\ standby' = standby
      /\ Aside /\ cut' = cut /\ task' = task /\ done' = done
      /\ assigner' = assigner /\ child' = child /\ aborted' = aborted
      /\ worker' = [worker EXCEPT ![w].proc = "alive", ![w].ready = w \notin deaf]
  BY DEF Boots, Process, callVars, Aside
<1>2. Like(worker, worker')
  <2>1. worker \in [Workers -> WorkerType]
    BY DEF TInv, Types
  <2>2. (w \notin deaf) \in BOOLEAN
    OBVIOUS
  <2> QED BY <1>1, <2>1, <2>2, BootedLike
<1>3. Types /\ PipesShrink /\ Grows /\ standby' \in Workers \cup {0}
  BY <1>1, PipesSame, GrowsNot DEF TInv, Types
<1> QED BY <1>1, <1>2, <1>3, QuietKeeps

\* The child's last message is on disk.
LEMMA FinishesStep ==
  ASSUME TInv, NEW w \in Workers, Finishes(w)
  PROVE  TInv'
<1>1. /\ stdin' = stdin /\ stdout' = stdout /\ standby' = standby
      /\ saved' = [saved EXCEPT ![session[worker[w].active]] = "finished"]
      /\ session' = session /\ deaf' = deaf /\ returned' = returned
      /\ cut' = cut /\ task' = task /\ done' = done
      /\ assigner' = assigner /\ child' = child /\ aborted' = aborted
      /\ worker' = worker /\ worker[w].active # None
  BY DEF Finishes, Process, callVars
<1>2. Types /\ Like(worker, worker') /\ PipesShrink /\ standby' \in Workers \cup {0}
  BY <1>1, PipesSame, LikeSelf DEF TInv, Types
<1>3. saved' \in [Tasks -> Saved]
  BY <1>1, <1>2 DEF Types, Saved
<1>4. Grows
  BY <1>1, <1>2, <1>3 DEF Types, Grows
<1> QED BY <1>1, <1>2, <1>4, QuietKeeps

\* A line of w is new in its stdout.
LEMMA SayFacts ==
  ASSUME Types, NEW w \in Workers, NEW type \in {"done", "error", "canceled"}, NEW t \in Tasks,
         NEW ok \in BOOLEAN, Say(w, type, t, ok)
  PROVE  /\ stdout' \in [Workers -> Seq(Message)]
         /\ \A v \in Workers : \A m \in ToSet(stdout'[v]) :
              m \in ToSet(stdout[v]) \/ (v = w /\ m = [type |-> type, task |-> t, ok |-> ok])
<1> DEFINE new == [type |-> type, task |-> t, ok |-> ok]
           q == Append(stdout[w], new)
<1>1. new \in Message
  BY DEF Message
<1>2. stdout \in [Workers -> Seq(Message)]
  BY DEF Types
<1>3. stdout' = stdout \/ stdout' = [stdout EXCEPT ![w] = q]
  BY DEF Say
<1> HIDE DEF new
<1>4. q \in Seq(Message) /\ ToSet(q) = ToSet(stdout[w]) \cup {new}
  BY <1>1, <1>2, Wrote
<1> HIDE DEF q
<1>5. /\ stdout' \in [Workers -> Seq(Message)]
      /\ \A v \in Workers : \A m \in ToSet(stdout'[v]) :
           m \in ToSet(stdout[v]) \/ (v = w /\ m = new)
  BY <1>1, <1>2, <1>3, <1>4
<1> QED BY <1>5 DEF new

\* What w says is about its own request, and true.
Honest(w, type, t, ok) ==
  /\ done[t] = "pending" => worker[w].current = t
  /\ type = "canceled" => t \in aborted
  /\ type # "canceled" /\ done[t] = "pending" =>
       IF type = "done" /\ ok THEN t \in returned' ELSE t \in cut' \/ Canceled(t)

\* A run may have returned, and its task be cut off.
Ends ==
  /\ returned \subseteq returned' /\ returned' \subseteq Tasks
  /\ cut \subseteq cut' /\ cut' \subseteq Tasks

\* A true line about the own request keeps the pipes true.
LEMMA SayKeeps ==
  ASSUME TInv, NEW w \in Workers, Works(w), NEW type \in {"done", "error", "canceled"}, NEW t \in Tasks,
         NEW ok \in BOOLEAN, Say(w, type, t, ok), Honest(w, type, t, ok),
         Ends
  PROVE  /\ stdout' \in [Workers -> Seq(Message)]
         /\ \A v \in Workers : \A m \in ToSet(stdout'[v]) :
              done[m.task] = "pending" => worker[v].current = m.task
         /\ Truthful' /\ SettledByOwnRun'
<1> DEFINE new == [type |-> type, task |-> t, ok |-> ok]
<1>1. new.type = type /\ new.task = t /\ (new.ok <=> ok)
  OBVIOUS
<1>2. /\ stdout' \in [Workers -> Seq(Message)]
      /\ \A v \in Workers : \A m \in ToSet(stdout'[v]) :
           m \in ToSet(stdout[v]) \/ (v = w /\ m = new)
  BY SayFacts DEF TInv
<1> HIDE DEF new
<1>3. \A v \in Workers : \A m \in ToSet(stdout'[v]) :
        done[m.task] = "pending" => worker[v].current = m.task
  BY <1>1, <1>2 DEF Honest, TInv, Traced
<1>4. Truthful'
  <2>1. ASSUME NEW v \in Workers, NEW m \in ToSet(stdout[v])
        PROVE  Believable(m)'
    BY <2>1 DEF TInv, Truthful, Believable, Canceled, Works, Ends
  <2>2. ASSUME NEW m, m = new PROVE Believable(m)'
    BY <1>1, <2>2 DEF Honest, Believable, Canceled, Works
  <2> QED BY <1>2, <2>1, <2>2 DEF Truthful
<1>5. SettledByOwnRun'
  BY DEF TInv, SettledByOwnRun, Canceled, Works, Ends
<1> QED BY <1>2, <1>3, <1>4, <1>5

\* The run of w is t's, or over; b says whether it was told to stop.
Active(ws, vs, w, t, b) ==
  /\ vs \in [Workers -> WorkerType] /\ vs[w].proc = ws[w].proc
  /\ \A v \in Workers :
       /\ v # w => vs[v] = ws[v]
       /\ vs[v].current = ws[v].current
       /\ vs[v].busy <=> ws[v].busy
       /\ vs[v].active = (IF v = w THEN t ELSE ws[v].active)
       /\ vs[v].stop <=> (IF v = w THEN b ELSE ws[v].stop)

LEMMA RunIs ==
  ASSUME NEW ws \in [Workers -> WorkerType], NEW w \in Workers, NEW t \in Tasks \cup {None},
         NEW b \in BOOLEAN
  PROVE  Active(ws, [ws EXCEPT ![w].active = t, ![w].stop = b], w, t, b)
<1> DEFINE vs == [ws EXCEPT ![w].active = t, ![w].stop = b]
<1>1. vs \in [Workers -> WorkerType] /\ vs[w].proc = ws[w].proc
  BY DEF WorkerType
<1>2. \A v \in Workers : v # w => vs[v] = ws[v]
  OBVIOUS
<1>3. vs[w].current = ws[w].current /\ vs[w].active = t
  BY DEF WorkerType
<1>4. (vs[w].busy <=> ws[w].busy) /\ (vs[w].stop <=> b)
  BY DEF WorkerType
<1> HIDE DEF vs
<1>5. Active(ws, vs, w, t, b)
  BY <1>1, <1>2, <1>3, <1>4 DEF Active
<1> QED BY <1>5 DEF vs

\* Stopping a session is of the right type.
LEMMA StoppedType ==
  ASSUME Types, NEW t
  PROVE  Stopped(t) \in [Tasks -> Saved]
  BY DEF Types, Stopped, Saved

\* The loop of a run returns or throws, and the worker says so.
LEMMA LoopEndsStep ==
  ASSUME TInv, NEW w \in Workers, LoopEnds(w)
  PROVE  TInv'
<1> DEFINE t == worker[w].active
<1>1. /\ worker[w].proc \in {"alive", "dying"} /\ t # None
      /\ worker' = [worker EXCEPT ![w].active = None, ![w].stop = FALSE]
      /\ stdin' = stdin /\ session' = session /\ deaf' = deaf /\ saved' \in {saved, Stopped(t)}
      /\ task' = task /\ done' = done /\ assigner' = assigner /\ child' = child
      /\ aborted' = aborted /\ standby' = standby
  BY DEF LoopEnds, Runs, Process, callVars
<1>2. Types /\ t \in Tasks
  BY <1>1 DEF TInv, Types, WorkerType
<1>3. /\ Works(w)
      /\ \A v \in Workers :
           /\ worker'[v].active = (IF v = w THEN None ELSE worker[v].active)
           /\ v # w => (worker'[v].stop <=> worker[v].stop)
  <2>1. worker \in [Workers -> WorkerType]
    BY <1>2 DEF Types
  <2>2. Active(worker, worker', w, None, FALSE)
    BY <1>1, <2>1, RunIs
  <2> QED BY <1>1, <2>2 DEF Works, Active
<1>4. done[t] = "pending" => worker[w].current = t
  BY <1>1 DEF TInv, Traced
<1>5. worker[w].stop => Canceled(t)
  BY <1>1 DEF TInv, CancelsAborted
<1>6. saved' \in [Tasks -> Saved]
  BY <1>1, <1>2, StoppedType DEF Types
<1> HIDE DEF t
<1> DEFINE Good == /\ stdout' \in [Workers -> Seq(Message)]
                   /\ \A v \in Workers : \A m \in ToSet(stdout'[v]) :
                        done[m.task] = "pending" => worker[v].current = m.task
                   /\ Truthful' /\ SettledByOwnRun' /\ Ends
<1>7. Good
  <2>1. CASE /\ Say(w, "done", t, ~worker[w].stop) /\ UNCHANGED cut
             /\ returned' = IF worker[w].stop THEN returned ELSE returned \cup ({t} \cap Unsettled(w))
    <3>1. Honest(w, "done", t, ~worker[w].stop)
      BY <1>2, <1>4, <1>5, <2>1, UnsettledTasks DEF Honest
    <3>2. Ends /\ (~worker[w].stop) \in BOOLEAN
      BY <1>2, <2>1 DEF Types, Ends
    <3> QED BY <1>1, <1>2, <1>3, <2>1, <3>1, <3>2, SayKeeps
  <2>2. CASE Say(w, "done", t, FALSE) /\ cut' = cut \cup ({t} \cap Unsettled(w)) /\ UNCHANGED returned
    <3>1. Ends
      BY <1>2, <2>2 DEF Types, Ends
    <3>2. Honest(w, "done", t, FALSE)
      BY <1>2, <1>4, <2>2, UnsettledTasks DEF Honest
    <3> QED BY <1>1, <1>2, <1>3, <2>2, <3>1, <3>2, SayKeeps
  <2> QED BY <2>1, <2>2 DEF LoopEnds, t
<1>8. Traced' /\ CancelsAborted'
  BY <1>1, <1>3, <1>7 DEF TInv, Traced, CancelsAborted, Canceled, Works
<1>9. Types'
  BY <1>1, <1>2, <1>3, <1>6, <1>7 DEF Types, Works, Ends
<1> QED BY <1>3, <1>7, <1>8, <1>9, WorksCalls DEF TInv, Calls

\* The line that was read leaves the pipe.
LEMMA ReadFacts ==
  ASSUME Types, NEW w \in Workers, stdin[w] # <<>>, stdin' = [stdin EXCEPT ![w] = Tail(@)]
  PROVE  /\ stdin' \in [Workers -> Seq(Command)]
         /\ \A v \in Workers : ToSet(stdin'[v]) \subseteq ToSet(stdin[v])
         /\ Head(stdin[w]) \in ToSet(stdin[w]) /\ Head(stdin[w]) \in Command
<1> DEFINE q == Tail(stdin[w])
<1>1. stdin \in [Workers -> Seq(Command)] /\ stdin[w] \in Seq(Command)
  BY DEF Types
<1>2. /\ q \in Seq(Command) /\ ToSet(q) \subseteq ToSet(stdin[w])
      /\ Head(stdin[w]) \in ToSet(stdin[w]) /\ Head(stdin[w]) \in Command
  BY <1>1, Took
<1>3. stdin' = [stdin EXCEPT ![w] = q]
  OBVIOUS
<1> HIDE DEF q
<1> QED BY <1>1, <1>2, <1>3

\* The worker starts or bounces a run, or takes a cancel.
LEMMA ReadsCommandStep ==
  ASSUME TInv, NEW w \in Workers, ReadsCommand(w)
  PROVE  TInv'
<1> DEFINE c == Head(stdin[w])
           t == c.task
           a == worker[w].active
<1>1. /\ worker[w].proc = "alive" /\ stdin[w] # <<>> /\ returned' = returned
      /\ session' = session /\ deaf' = deaf
      /\ saved' \in {saved, Stopped(t), [saved EXCEPT ![session[t]] = "running"]}
      /\ stdin' = [stdin EXCEPT ![w] = Tail(@)]
      /\ task' = task /\ done' = done /\ assigner' = assigner /\ child' = child
      /\ aborted' = aborted /\ standby' = standby
  BY DEF ReadsCommand, Process, callVars
<1>2. Types
  BY DEF TInv
<1>3. /\ stdin' \in [Workers -> Seq(Command)]
      /\ \A v \in Workers : ToSet(stdin'[v]) \subseteq ToSet(stdin[v])
      /\ c \in ToSet(stdin[w]) /\ c \in Command
  BY <1>1, <1>2, ReadFacts
<1>4. t \in Tasks /\ c.type \in {"run", "cancel"}
  BY <1>3 DEF Command
<1>5. done[t] = "pending" => worker[w].current = t
  BY <1>3 DEF TInv, Traced
<1>6. c.type = "cancel" => t \in aborted
  BY <1>3 DEF TInv, CancelsAborted
<1>10. saved' \in [Tasks -> Saved]
  <2>1. [saved EXCEPT ![session[t]] = "running"] \in [Tasks -> Saved]
    BY <1>2 DEF Types, Saved
  <2>2. saved \in [Tasks -> Saved] /\ Stopped(t) \in [Tasks -> Saved]
    BY <1>2, StoppedType DEF Types
  <2> HIDE DEF t
  <2> QED BY <1>1, <2>1, <2>2
<1>7. CASE c.type = "run" /\ a # None
  <2>1. Say(w, "error", t, FALSE) /\ cut' = cut \cup ({t} \cap Unsettled(w)) /\ worker' = worker
    BY <1>7 DEF ReadsCommand
  <2> HIDE DEF t, c
  <2>2. Works(w)
    BY <1>1, <1>2, <2>1 DEF Works, Types
  <2>3. Ends
    BY <1>1, <1>2, <1>4, <2>1 DEF Types, Ends
  <2>4. Honest(w, "error", t, FALSE)
    BY <1>2, <1>4, <1>5, <2>1, UnsettledTasks DEF Honest
  <2>5. /\ stdout' \in [Workers -> Seq(Message)]
        /\ \A v \in Workers : \A m \in ToSet(stdout'[v]) :
             done[m.task] = "pending" => worker[v].current = m.task
        /\ Truthful' /\ SettledByOwnRun'
    BY <1>1, <1>4, <2>1, <2>2, <2>3, <2>4, SayKeeps
  <2>6. Traced' /\ CancelsAborted'
    BY <1>1, <1>3, <2>1, <2>5 DEF TInv, Traced, CancelsAborted, Canceled
  <2>7. Types'
    BY <1>1, <1>2, <1>3, <1>10, <2>1, <2>3, <2>5 DEF Types, Ends
  <2> QED BY <2>2, <2>5, <2>6, <2>7, WorksCalls DEF TInv, Calls
<1>8. CASE c.type = "run" /\ a = None
  <2>1. /\ worker' = [worker EXCEPT ![w].active = t, ![w].stop = FALSE]
        /\ stdout' = stdout /\ cut' = cut
    BY <1>8 DEF ReadsCommand
  <2> HIDE DEF t, c
  <2>2. /\ Works(w)
        /\ \A v \in Workers :
             /\ worker'[v].active = (IF v = w THEN t ELSE worker[v].active)
             /\ worker'[v].stop <=> (v # w /\ worker[v].stop)
    <3>1. worker \in [Workers -> WorkerType]
      BY <1>2 DEF Types
    <3>2. Active(worker, worker', w, t, FALSE)
      BY <1>4, <2>1, <3>1, RunIs
    <3> QED BY <1>1, <3>2 DEF Works, Active
  <2>3. Traced' /\ CancelsAborted'
    <3>1. Traced'
      BY <1>1, <1>3, <1>5, <2>1, <2>2 DEF TInv, Traced, Works
    <3>2. \A v \in Workers : worker'[v].active # None /\ worker'[v].stop =>
            \E u \in aborted' : session'[u] = session'[worker'[v].active]
      BY <1>1, <2>2 DEF TInv, CancelsAborted, Canceled
    <3>3. \A v \in Workers : \A e \in ToSet(stdin'[v]) : e.type = "cancel" => e.task \in aborted'
      BY <1>1, <1>3 DEF TInv, CancelsAborted
    <3> QED BY <3>1, <3>2, <3>3 DEF CancelsAborted, Canceled
  <2>4. Truthful' /\ SettledByOwnRun'
    BY <1>1, <2>1 DEF TInv, Truthful, Believable, Canceled, SettledByOwnRun
  <2>5. Types'
    BY <1>1, <1>2, <1>3, <1>10, <2>1, <2>2 DEF Types, Works
  <2> QED BY <2>2, <2>3, <2>4, <2>5, WorksCalls DEF TInv, Calls
<1>9. CASE c.type = "cancel"
  <2>1. /\ worker' = [worker EXCEPT ![w].stop = @ \/ (a # None /\ session[a] = session[t])]
        /\ Say(w, "canceled", t, FALSE) /\ cut' = cut
    BY <1>9 DEF ReadsCommand
  <2> HIDE DEF t, c
  <2>2. /\ Works(w)
        /\ \A v \in Workers :
             /\ worker'[v].active = worker[v].active
             /\ worker'[v].stop <=>
                  (worker[v].stop \/ (v = w /\ a # None /\ session[a] = session[t]))
    <3> DEFINE b == worker[w].stop \/ (a # None /\ session[a] = session[t])
    <3>1. worker \in [Workers -> WorkerType] /\ a \in Tasks \cup {None} /\ b \in BOOLEAN
      BY <1>2 DEF Types, WorkerType
    <3>2. worker' = [worker EXCEPT ![w].active = a, ![w].stop = b]
      BY <2>1, <3>1 DEF WorkerType
    <3> HIDE DEF b
    <3>3. Active(worker, worker', w, a, b)
      BY <3>1, <3>2, RunIs
    <3> QED BY <1>1, <3>3 DEF Works, Active, b
  <2>3. Ends
    BY <1>1, <1>2, <2>1 DEF Types, Ends
  <2>4. Honest(w, "canceled", t, FALSE)
    BY <1>5, <1>6, <1>9 DEF Honest
  <2>5. /\ stdout' \in [Workers -> Seq(Message)]
        /\ \A v \in Workers : \A m \in ToSet(stdout'[v]) :
             done[m.task] = "pending" => worker[v].current = m.task
        /\ Truthful' /\ SettledByOwnRun'
    BY <1>1, <1>4, <2>1, <2>2, <2>3, <2>4, SayKeeps
  <2>6. Traced' /\ CancelsAborted'
    <3>1. Traced'
      BY <1>1, <1>3, <2>1, <2>2, <2>5 DEF TInv, Traced, Works
    <3>2. \A v \in Workers : worker'[v].active # None /\ worker'[v].stop =>
            \E u \in aborted' : session'[u] = session'[worker'[v].active]
      BY <1>1, <1>6, <1>9, <2>2 DEF TInv, CancelsAborted, Canceled
    <3>3. \A v \in Workers : \A e \in ToSet(stdin'[v]) : e.type = "cancel" => e.task \in aborted'
      BY <1>1, <1>3 DEF TInv, CancelsAborted
    <3> QED BY <3>1, <3>2, <3>3 DEF CancelsAborted, Canceled
  <2>7. Types'
    BY <1>1, <1>2, <1>3, <1>10, <2>2, <2>3, <2>5 DEF Types, Works, Ends
  <2> QED BY <2>2, <2>5, <2>6, <2>7, WorksCalls DEF TInv, Calls
<1> HIDE DEF t, a, c
<1> QED BY <1>4, <1>7, <1>8, <1>9

\* The process of w is gone, and its run with it.
Ended(ws, vs, w) ==
  /\ vs \in [Workers -> WorkerType] /\ vs[w].proc = "dead"
  /\ \A v \in Workers :
       /\ v # w => vs[v] = ws[v]
       /\ vs[v].current = ws[v].current
       /\ vs[v].busy <=> ws[v].busy
       /\ vs[v].active = (IF v = w THEN None ELSE ws[v].active)

\* What is left of a worker when its process ends.
LEMMA DeadEnded ==
  ASSUME NEW ws \in [Workers -> WorkerType], NEW w \in Workers
  PROVE  Ended(ws, [ws EXCEPT ![w].proc = "dead", ![w].active = None, ![w].stop = FALSE], w)
<1> DEFINE vs == [ws EXCEPT ![w].proc = "dead", ![w].active = None, ![w].stop = FALSE]
<1>1. vs \in [Workers -> WorkerType] /\ vs[w].proc = "dead"
  <2> DEFINE k == [ws[w] EXCEPT !.proc = "dead", !.active = None, !.stop = FALSE]
  <2>1. k \in WorkerType /\ k.proc = "dead"
    BY DEF WorkerType
  <2>2. vs = [ws EXCEPT ![w] = k]
    OBVIOUS
  <2> HIDE DEF k, vs
  <2> QED BY <2>1, <2>2
<1>2. \A v \in Workers : v # w => vs[v] = ws[v]
  OBVIOUS
<1>3. vs[w].current = ws[w].current /\ vs[w].active = None
  BY DEF WorkerType
<1>4. vs[w].busy <=> ws[w].busy
  BY DEF WorkerType
<1> HIDE DEF vs
<1>5. Ended(ws, vs, w)
  BY <1>1, <1>2, <1>3, <1>4 DEF Ended
<1> QED BY <1>5 DEF vs

\* The process ends; its unread commands and perhaps its last line are lost.
LEMMA DiesStep ==
  ASSUME TInv, NEW w \in Workers, Dies(w)
  PROVE  TInv'
<1> DEFINE q == Front(stdout[w])
<1>1. /\ worker[w].proc # "none" /\ worker' = [worker EXCEPT ![w].proc = "dead", ![w].active = None, ![w].stop = FALSE]
      /\ cut' = cut \cup Unsettled(w) /\ stdin' = [stdin EXCEPT ![w] = <<>>]
      /\ task' = task /\ done' = done /\ assigner' = assigner /\ child' = child
      /\ aborted' = aborted /\ standby' = standby /\ session' = session /\ deaf' = deaf
      /\ returned' = returned /\ saved' \in {saved, Stopped(worker[w].active)}
      /\ stdout' = stdout \/ (stdout[w] # <<>> /\ stdout' = [stdout EXCEPT ![w] = q])
  BY DEF Dies, Process, callVars
<1>2. Types
  BY DEF TInv
<1>3. /\ Works(w)
      /\ \A v \in Workers :
           /\ worker'[v].active = (IF v = w THEN None ELSE worker[v].active)
           /\ v # w => (worker'[v].stop <=> worker[v].stop)
  <2>1. worker \in [Workers -> WorkerType]
    BY <1>2 DEF Types
  <2>2. Ended(worker, worker', w)
    BY <1>1, <2>1, DeadEnded
  <2> QED BY <1>1, <2>2 DEF Works, Ended
<1>4. /\ stdin' \in [Workers -> Seq(Command)]
      /\ \A v \in Workers : ToSet(stdin'[v]) \subseteq ToSet(stdin[v])
  <2>1. <<>> \in Seq(Command) /\ ToSet(<<>>) = {}
    BY NothingIn
  <2> QED BY <1>1, <1>2, <2>1 DEF Types
<1>5. stdout[w] # <<>> => q \in Seq(Message) /\ ToSet(q) \subseteq ToSet(stdout[w])
  BY <1>2, Took DEF Types
<1> HIDE DEF q
<1>6. /\ stdout' \in [Workers -> Seq(Message)]
      /\ \A v \in Workers : ToSet(stdout'[v]) \subseteq ToSet(stdout[v])
  BY <1>1, <1>2, <1>5 DEF Types
<1>7. cut \subseteq cut' /\ cut' \subseteq Tasks
  BY <1>1, <1>2, UnsettledTasks DEF Types
<1>8. Traced'
  BY <1>1, <1>3, <1>4, <1>6 DEF TInv, Traced, Works
<1>9. CancelsAborted'
  BY <1>1, <1>3, <1>4 DEF TInv, CancelsAborted, Canceled, Works
<1>10. Truthful'
  BY <1>1, <1>6, <1>7 DEF TInv, Truthful, Believable, Canceled
<1>11. SettledByOwnRun'
  BY <1>1, <1>7 DEF TInv, SettledByOwnRun, Canceled
<1>13. saved' \in [Tasks -> Saved]
  BY <1>1, <1>2, StoppedType DEF Types
<1>12. Types'
  BY <1>13, <1>1, <1>2, <1>3, <1>4, <1>6, <1>7 DEF Types, Works
<1> QED BY <1>3, <1>8, <1>9, <1>10, <1>11, <1>12, WorksCalls DEF TInv, Calls

-----------------------------------------------------------------------------
(* The reader of a worker's stdout.                                         *)

\* The request of w, if it has one, is settled with x; the worker is free after that,
\* or not read any more, and its run may be over.
Settles(w, x) ==
  /\ task' = task /\ assigner' = assigner /\ child' = child
  /\ aborted' = aborted /\ stdin' = stdin
  /\ session' = session /\ saved' = saved /\ returned' = returned
  /\ w \notin deaf /\ deaf' \in {deaf, deaf \cup {w}}
  /\ standby' \in Workers \cup {0}
  /\ stdout' \in [Workers -> Seq(Message)]
  /\ \A v \in Workers : ToSet(stdout'[v]) \subseteq ToSet(stdout[v])
  /\ cut \subseteq cut' /\ cut' \subseteq Tasks
  /\ done' = IF worker[w].current = None THEN done ELSE [done EXCEPT ![worker[w].current] = x]
  /\ worker' \in [Workers -> WorkerType]
  /\ \A v \in Workers :
       /\ worker'[v].current = (IF v = w /\ w \notin deaf' THEN None ELSE worker[v].current)
       /\ worker'[v].busy <=> (worker[v].busy /\ (v = w => w \in deaf'))
       /\ worker'[v].active \in {worker[v].active, None}
       /\ worker'[v].active # None => (worker'[v].stop <=> worker[v].stop)
       /\ worker'[v].proc = "none" => worker[v].proc = "none" /\ (worker'[v].ready <=> worker[v].ready)
  /\ worker[w].current # None =>
       /\ x = "ok" => worker[w].current \in returned
       /\ x = "error" => worker[w].current \in cut' \/ Canceled(worker[w].current)

\* Settling the current request, for the reason the pipes or the exit give, keeps the invariant.
LEMMA SettlesKeeps ==
  ASSUME TInv, NEW w \in Workers, NEW x \in {"ok", "error"}, Settles(w, x)
  PROVE  TInv'
<1>1. Types /\ Unused /\ Slots /\ Places /\ AwaitedIsCurrent /\ Pipes
  BY DEF TInv, Pipes
<1>2. worker[w].current \in Tasks \cup {None} /\ \A v \in Workers : worker[v].active \in Tasks \cup {None}
  BY <1>1 DEF Types, WorkerType
<1>3. /\ done' \in [Tasks -> {"pending", "ok", "error"}]
      /\ \A u \in Tasks : done'[u] = IF u = worker[w].current THEN x ELSE done[u]
  BY <1>1, <1>2, TaskWorkersAssumption DEF Settles, Types
<1>4. \A u \in Tasks : done'[u] = "pending" => done[u] = "pending" /\ worker[w].current # u
  BY <1>3
<1>5. Types'
  BY <1>1, <1>3 DEF Settles, Types
<1>6. Unused'
  BY <1>1, TaskWorkersAssumption DEF Settles, Unused
<1>7. Slots'
  <2>1. \A v \in Workers : worker'[v].busy <=> worker'[v].current # None
    <3>1. CASE w \in deaf'
      BY <1>1, <3>1 DEF Slots, Settles
    <3>2. CASE w \notin deaf'
      BY <1>1, <3>2 DEF Slots, Settles
    <3> QED BY <3>1, <3>2
  <2>2. \A v, y \in Workers : worker'[v].current # None /\ worker'[v].current = worker'[y].current => v = y
    <3>1. \A v \in Workers : worker'[v].current \in {worker[v].current, None}
      BY DEF Settles
    <3>2. \A v, y \in Workers : worker[v].current # None /\ worker[v].current = worker[y].current => v = y
      BY <1>1 DEF Slots
    <3> QED BY <3>1, <3>2
  <2>3. \A v \in Workers, u \in Tasks : worker'[v].current = u =>
          (v \notin deaf' => done'[u] = "pending") /\ task'[u].at \notin Before
    <3> TAKE v \in Workers, u \in Tasks
    <3> HAVE worker'[v].current = u
    <3>1. worker[v].current = u /\ u # None /\ (v = w => w \in deaf') /\ (v \notin deaf' => v \notin deaf)
      BY TaskWorkersAssumption DEF Settles
    <3>2. v \notin deaf' => worker[w].current # u
      BY <1>1, <3>1 DEF Slots
    <3> QED BY <1>1, <1>3, <3>1, <3>2 DEF Slots, Settles
  <2>4. \A u \in Tasks : task'[u].at \in Before => done'[u] = "pending"
    <3> TAKE u \in Tasks
    <3> HAVE task'[u].at \in Before
    <3>1. done[u] = "pending" /\ worker[w].current # u
      BY <1>1 DEF Slots, Settles
    <3> QED BY <1>3, <3>1
  <2> QED BY <2>1, <2>2, <2>3, <2>4 DEF Slots
<1>8. Places'
  BY <1>1 DEF Places, Settles
<1>9. AwaitedIsCurrent'
  <2>1. ASSUME NEW u \in Tasks, task'[u].at \in {"announcing", "running"}, done'[u] = "pending"
        PROVE  worker'[task'[u].on].current = u
    <3>1. task'[u] = task[u] /\ task[u].on \in Workers
      BY <1>1, <2>1 DEF Places, Awaiting, Settles
    <3>2. worker[task[u].on].current = u /\ task[u].on # w
      BY <1>1, <1>4, <2>1, <3>1 DEF AwaitedIsCurrent
    <3> QED BY <3>1, <3>2 DEF Settles
  <2> QED BY <2>1 DEF AwaitedIsCurrent
<1>10. Traced'
  <2>1. ASSUME NEW v \in Workers, NEW u \in Tasks, done'[u] = "pending",
               done[u] = "pending" => worker[v].current = u
        PROVE  worker'[v].current = u
    BY <1>4, <2>1 DEF Settles
  <2>2. ASSUME NEW v \in Workers, NEW c \in ToSet(stdin[v]), done'[c.task] = "pending"
        PROVE  worker'[v].current = c.task
    BY <1>1, <2>1, <2>2, PipeTypes DEF Traced, Pipes
  <2>3. ASSUME NEW v \in Workers, NEW m \in ToSet(stdout[v]), done'[m.task] = "pending"
        PROVE  worker'[v].current = m.task
    BY <1>1, <2>1, <2>3, PipeTypes DEF Traced, Pipes
  <2>4. ASSUME NEW v \in Workers, worker'[v].active # None, done'[worker'[v].active] = "pending"
        PROVE  worker'[v].current = worker'[v].active
    <3>1. worker'[v].active = worker[v].active /\ worker[v].active \in Tasks
      BY <1>2, <2>4 DEF Settles
    <3>2. done[worker[v].active] = "pending" => worker[v].current = worker[v].active
      BY <1>1, <3>1, TaskWorkersAssumption DEF Traced, Pipes
    <3> QED BY <2>1, <2>4, <3>1, <3>2
  <2> QED BY <2>2, <2>3, <2>4 DEF Traced, Settles
<1>11. CancelsAborted'
  BY <1>1 DEF CancelsAborted, Canceled, Pipes, Settles
<1>12. Truthful'
  <2>1. ASSUME NEW v \in Workers, NEW m \in ToSet(stdout[v])
        PROVE  Believable(m)'
    <3>1. m.task \in Tasks
      BY <1>1, <2>1, PipeTypes
    <3> QED BY <1>1, <1>4, <2>1, <3>1 DEF Truthful, Believable, Canceled, Pipes, Settles
  <2> QED BY <2>1 DEF Truthful, Settles
<1>13. SettledByOwnRun'
  <2>1. ASSUME NEW u \in Tasks
        PROVE  /\ done'[u] = "ok" => u \in returned'
               /\ done'[u] = "error" => u \in cut' \/ Canceled(u)'
    <3>1. CASE u = worker[w].current
      BY <1>3, <3>1, TaskWorkersAssumption DEF Settles, Canceled
    <3>2. CASE u # worker[w].current
      BY <1>1, <1>3, <3>2 DEF Settles, Canceled, SettledByOwnRun, Pipes
    <3> QED BY <3>1, <3>2
  <2> QED BY <2>1 DEF SettledByOwnRun
<1> QED BY <1>5, <1>6, <1>7, <1>8, <1>9, <1>10, <1>11, <1>12, <1>13 DEF TInv

\* A line settles the current request if it is about it, and is dropped otherwise.
LEMMA ReadsMessageStep ==
  ASSUME TInv, NEW w \in Workers, ReadsMessage(w)
  PROVE  TInv'
<1> DEFINE m == Head(stdout[w])
           t == worker[w].current
           q == Tail(stdout[w])
           ok == m.type = "done" /\ m.ok
           x == IF ok THEN "ok" ELSE "error"
<1>1. /\ stdout[w] # <<>> /\ w \notin deaf /\ stdout' = [stdout EXCEPT ![w] = q]
      /\ task' = task /\ assigner' = assigner /\ child' = child
      /\ aborted' = aborted /\ stdin' = stdin /\ Aside /\ cut' = cut
      /\ IF About(w, m) THEN Free(w, ok) ELSE done' = done /\ worker' = worker /\ standby' = standby
  BY DEF ReadsMessage, Reader, Aside
<1>2. Types
  BY DEF TInv
<1>3. q \in Seq(Message) /\ ToSet(q) \subseteq ToSet(stdout[w]) /\ m \in ToSet(stdout[w])
  BY <1>1, <1>2, Took DEF Types
<1> HIDE DEF q, m
<1>4. /\ stdout' \in [Workers -> Seq(Message)]
      /\ \A v \in Workers : ToSet(stdout'[v]) \subseteq ToSet(stdout[v])
  BY <1>1, <1>2, <1>3 DEF Types
<1>5. CASE ~About(w, m)
  <2>1. done' = done /\ worker' = worker /\ standby' = standby
    BY <1>1, <1>5
  <2>2. Like(worker, worker') /\ Grows /\ PipesShrink /\ standby' \in Workers \cup {0}
    BY <1>1, <1>2, <1>4, <2>1, LikeSelf, GrowsNot DEF PipesShrink, Types
  <2> QED BY <1>1, <2>1, <2>2, QuietKeeps
<1>6. CASE About(w, m)
  <2>1. /\ done' = [done EXCEPT ![t] = x]
        /\ EnsureStandby([worker EXCEPT ![w].current = None, ![w].busy = FALSE])
    BY <1>1, <1>6 DEF Free
  <2>2. t # None /\ t \in Tasks /\ IF m.type = "canceled" THEN session[t] = session[m.task] ELSE t = m.task
    BY <1>2, <1>6 DEF About, Types, WorkerType
  <2>3. done[t] = "pending"
    BY <1>1, <2>2 DEF TInv, Slots
  <2>4. IF ok THEN t \in returned ELSE t \in cut \/ Canceled(t)
    <3>1. Believable(m)
      BY <1>3 DEF TInv, Truthful
    <3>2. CASE m.type = "canceled"
      BY <2>2, <3>1, <3>2 DEF Believable, Canceled
    <3>3. CASE m.type # "canceled"
      BY <2>2, <2>3, <3>1, <3>3 DEF Believable
    <3> QED BY <3>2, <3>3
  <2>5. x \in {"ok", "error"} /\ (x = "ok" => t \in returned) /\ (x = "error" => t \in cut \/ Canceled(t))
    BY <2>4
  <2>6. Seats(worker, worker', w, None) /\ (standby' = standby \/ standby' \in Workers)
    BY <1>2, <2>1, VacantNow, Unseated DEF Types
  <2> HIDE DEF x, t
  <2>7. Settles(w, x)
    BY <1>1, <1>2, <1>4, <2>1, <2>2, <2>5, <2>6 DEF Settles, Seats, Types, Aside, t
  <2> QED BY <2>5, <2>7, SettlesKeeps
<1> QED BY <1>5, <1>6

\* The exit handler rejects the request the worker leaves behind.
LEMMA ExitsStep ==
  ASSUME TInv, NEW w \in Workers, Exits(w)
  PROVE  TInv'
<1> DEFINE k == [NoWorker EXCEPT !.proc = "gone", !.ready = @ \/ worker[w].ready]
<1>1. /\ worker' = [worker EXCEPT ![w] = k] /\ worker[w].proc = "dead"
      /\ stdout' = stdout /\ standby' = standby /\ cut' = cut \cup Unsettled(w)
      /\ task' = task /\ assigner' = assigner /\ child' = child /\ w \notin deaf
      /\ aborted' = aborted /\ stdin' = stdin /\ Aside
  BY DEF Exits, Reader, Aside
<1>2. Types
  BY DEF TInv
<1>3. k \in WorkerType /\ k.proc = "gone" /\ ~k.busy /\ k.current = None /\ k.active = None
  BY <1>2 DEF NoWorker, WorkerType, Types
<1> HIDE DEF k
<1>4. /\ worker' \in [Workers -> WorkerType]
      /\ \A v \in Workers : worker'[v] = IF v = w THEN k ELSE worker[v]
  BY <1>1, <1>2, <1>3 DEF Types
<1>5. done' = IF worker[w].current = None THEN done ELSE [done EXCEPT ![worker[w].current] = "error"]
  BY DEF Exits, Rejected
<1>6. worker[w].current # None => worker[w].current \in cut'
  <2>1. worker[w].current \in Tasks \cup {None}
    BY <1>2 DEF Types, WorkerType
  <2>2. worker[w].current # None => done[worker[w].current] = "pending"
    BY <1>1, <2>1 DEF TInv, Slots
  <2> QED BY <1>1, <1>2, <2>1, <2>2, UnsettledTasks
<1>7. cut \subseteq cut' /\ cut' \subseteq Tasks
  BY <1>1, <1>2, UnsettledTasks DEF Types
<1>8. Settles(w, "error")
  BY <1>1, <1>2, <1>3, <1>4, <1>5, <1>6, <1>7 DEF Settles, Types, Aside
<1> QED BY <1>8, SettlesKeeps

\* The reader throws: the request of the worker is rejected, and its lines are lost.
LEMMA StreamFailsStep ==
  ASSUME TInv, NEW w \in Workers, StreamFails(w)
  PROVE  TInv'
<1>1. /\ worker' = [worker EXCEPT ![w].listed = FALSE] /\ w \notin deaf /\ deaf' = deaf \cup {w}
      /\ stdout' = [stdout EXCEPT ![w] = <<>>] /\ standby' = standby /\ cut' = cut \cup Unsettled(w)
      /\ task' = task /\ assigner' = assigner /\ child' = child
      /\ aborted' = aborted /\ stdin' = stdin
      /\ session' = session /\ saved' = saved /\ returned' = returned
  BY DEF StreamFails, Reader
<1>2. Types
  BY DEF TInv
<1>3. Like(worker, worker')
  <2>1. worker \in [Workers -> WorkerType]
    BY <1>2 DEF Types
  <2> QED BY <1>1, <2>1, UnlistedLike
<1>4. /\ stdout' \in [Workers -> Seq(Message)]
      /\ \A v \in Workers : ToSet(stdout'[v]) \subseteq ToSet(stdout[v])
  <2>1. <<>> \in Seq(Message) /\ ToSet(<<>>) = {}
    BY NothingIn
  <2> QED BY <1>1, <1>2, <2>1 DEF Types
<1>5. done' = IF worker[w].current = None THEN done ELSE [done EXCEPT ![worker[w].current] = "error"]
  BY DEF StreamFails, Rejected
<1>6. worker[w].current # None => worker[w].current \in cut'
  <2>1. worker[w].current \in Tasks \cup {None}
    BY <1>2 DEF Types, WorkerType
  <2>2. worker[w].current # None => done[worker[w].current] = "pending"
    BY <1>1, <2>1 DEF TInv, Slots
  <2> QED BY <1>1, <1>2, <2>1, <2>2, UnsettledTasks
<1>7. cut \subseteq cut' /\ cut' \subseteq Tasks
  BY <1>1, <1>2, UnsettledTasks DEF Types
<1>8. Settles(w, "error")
  BY <1>1, <1>2, <1>3, <1>4, <1>5, <1>6, <1>7 DEF Settles, Types, Like
<1> QED BY <1>8, SettlesKeeps

-----------------------------------------------------------------------------
\* The invariant holds at first ...
LEMMA InvInit == Init => TInv
<1> SUFFICES ASSUME Init PROVE TInv
  OBVIOUS
<1> DEFINE r == Call("new", 0)
<1>1. r \in CallType /\ r.at = "new"
  BY CallIs DEF Before
<1>2. NoWorker \in WorkerType /\ NoWorker.proc = "none" /\ ~NoWorker.busy /\ ~NoWorker.ready
      /\ NoWorker.current = None /\ NoWorker.active = None
  BY DEF NoWorker, WorkerType
<1>3. /\ task = [t \in Tasks |-> r] /\ done = [t \in Tasks |-> "pending"]
      /\ worker = [w \in Workers |-> NoWorker]
      /\ stdin = [w \in Workers |-> <<>>] /\ stdout = [w \in Workers |-> <<>>]
      /\ assigner = None /\ standby = 0 /\ child = None /\ aborted = {} /\ cut = {} /\ returned = {}
      /\ session = [t \in Tasks |-> None] /\ saved = [t \in Tasks |-> "new"] /\ deaf = {}
  BY DEF Init
<1> HIDE DEF r
<1>4. <<>> \in Seq(Command) /\ <<>> \in Seq(Message)
  OBVIOUS
<1>5. \A w \in Workers : ToSet(stdin[w]) = {} /\ ToSet(stdout[w]) = {}
  BY <1>3, NothingIn
<1>6. Types
  BY <1>1, <1>2, <1>3, <1>4 DEF Types, Saved
<1>7. Unused
  BY <1>2, <1>3 DEF Unused
<1>8. Slots
  BY <1>1, <1>2, <1>3, TaskWorkersAssumption DEF Slots
<1>9. Places /\ AwaitedIsCurrent
  BY <1>1, <1>3 DEF Places, AwaitedIsCurrent, Waiting, Awaiting
<1>10. Traced /\ CancelsAborted /\ Truthful
  BY <1>2, <1>3, <1>5 DEF Traced, CancelsAborted, Truthful
<1>11. SettledByOwnRun
  BY <1>3 DEF SettledByOwnRun
<1> QED BY <1>6, <1>7, <1>8, <1>9, <1>10, <1>11 DEF TInv

\* ... and every step keeps it.
LEMMA InvNext == TInv /\ [Next]_vars => TInv'
<1> SUFFICES ASSUME TInv, [Next]_vars PROVE TInv'
  OBVIOUS
<1>1. ASSUME NEW t \in Tasks, CallTask(t) \/ TaskStep(t) \/ SilentKill(t) \/ Abort(t)
      PROVE  TInv'
  <2>1. CASE \E kill \in BOOLEAN : Outcome(t, kill)
    BY <2>1, OutcomeStep
  <2>2. ASSUME RunEnds(t) \/ DiskTerminal(t) \/ WorkerDead(t) \/ SilentKill(t)
        PROVE  \E kill \in BOOLEAN : Outcome(t, kill)
    BY <2>2 DEF RunEnds, DiskTerminal, WorkerDead, SilentKill
  <2> QED BY <1>1, <2>1, <2>2, CallTaskStep, AssignStep, AssignedStep, AnnouncedStep, ReapStep, AbortStep
          DEF TaskStep
<1>2. ASSUME NEW w \in Workers,
             ProcessStep(w) \/ ReaderStep(w) \/ StreamFails(w) \/ Dies(w) \/ IdleReap(w) \/ CancelByJobId(w)
      PROVE  TInv'
  BY <1>2, BootsStep, ReadsCommandStep, FinishesStep, LoopEndsStep, ReadsMessageStep, ExitsStep,
     StreamFailsStep, DiesStep, IdleReapStep, CancelByJobIdStep
  DEF ProcessStep, ReaderStep
<1>3. CASE StandbyEnds \/ TerminateActiveChild \/ TerminateAllActiveWorkers
  BY <1>3, StandbyEndsStep, TerminateActiveChildStep, TerminateAllStep
<1>4. CASE UNCHANGED vars
  <2>1. /\ stdin' = stdin /\ stdout' = stdout /\ standby' = standby
        /\ Aside /\ cut' = cut /\ task' = task /\ done' = done
        /\ assigner' = assigner /\ child' = child /\ aborted' = aborted /\ worker' = worker
    BY <1>4 DEF vars, callVars, poolVars, history, Aside
  <2>2. Like(worker, worker') /\ Grows /\ PipesShrink /\ standby' \in Workers \cup {0}
    BY <2>1, LikeSelf, GrowsNot, PipesSame DEF TInv, Types
  <2> QED BY <2>1, <2>2, QuietKeeps
<1> QED BY <1>1, <1>2, <1>3, <1>4 DEF Next

\* In every execution the pool of tool/task.ts is in order: the calls, the workers'
\* current requests, what is in their pipes and the outcomes agree.
THEOREM PoolInOrder == Spec => []TInv
  BY InvInit, InvNext, PTL DEF Spec

\* In every execution, with any number of tasks and workers: a request that waits for its
\* answer is the current one of its worker (task.ts, TaskWorker.current), whatever worker
\* was reaped, killed, crashed or reassigned meanwhile.
THEOREM AwaitedIsCurrentCorrect == Spec => []AwaitedIsCurrent
<1>1. TInv => AwaitedIsCurrent
  BY DEF TInv
<1> QED BY <1>1, PoolInOrder, PTL

\* In every execution a request is answered "ok" only when its own run has returned without
\* having been canceled, and rejected only when a call of its session was canceled or its
\* own run was lost: a late line of a canceled run never settles the next request of that
\* worker, unless that goes on with the same session.
THEOREM SettledByOwnRunCorrect == Spec => []SettledByOwnRun
<1>1. TInv => SettledByOwnRun
  BY DEF TInv
<1> QED BY <1>1, PoolInOrder, PTL
=============================================================================
