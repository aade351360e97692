----------------------------- MODULE Cron_proofs -----------------------------
(***************************************************************************)
(* A scheduled task fires once per due time, not before its timestamp, and *)
(* releases the subsession that announced it: for every period, staleness  *)
(* threshold, number of ticks and bound.                                   *)
(***************************************************************************)
EXTENDS Cron, TLAPS

JobType == [exists : BOOLEAN, enabled : BOOLEAN, kind : {"at", "every"}, at : Nat,
            wake : WakeModes, payload : Payloads, next : Nat, linked : BOOLEAN, ran : BOOLEAN]
TickType == [at : {"idle", "read", "run"}, now : Nat, job : JobType]

CronTypes ==
  /\ now \in Nat /\ now >= 2
  /\ up \in BOOLEAN
  /\ job \in JobType /\ (job.enabled => job.exists)
  /\ sub \in {"none", "scheduled", "released"}
  /\ creating \in {"nothing", "session", "link"}
  /\ tick \in [Ticks -> TickType]
  /\ clean \in BOOLEAN /\ pushed \in BOOLEAN /\ bypassed \in BOOLEAN
  /\ spent \in SUBSET Nat

\* The next run of an enabled one-shot is not before its timestamp; if it has
\* none, the timestamp has passed at time t.
Timely(j, t) ==
  j.enabled /\ j.kind = "at" => IF j.next = Unset THEN j.at <= t ELSE j.at <= j.next

Told(j, s, b) == j.linked /\ j.ran => s = "released" \/ b

\* What a tick in flight knows of the job is still so.
InStep(k) ==
  /\ up /\ tick[k].now <= now
  /\ \A d \in spent : d <= tick[k].now
  /\ tick[k].at = "read" =>
       /\ tick[k].job = Snapshot(job) /\ job.enabled
       /\ pushed \/ Timely(job, tick[k].now)
  /\ tick[k].at = "run" =>
       /\ tick[k].job.kind = job.kind /\ tick[k].job.at = job.at
       /\ job.linked => sub = "released" \/ bypassed

\* The history as long as it is kept.
Orderly ==
  /\ \A k, l \in Ticks : tick[k].at # "idle" /\ tick[l].at # "idle" => k = l
  /\ \A k \in Ticks : tick[k].at # "idle" => InStep(k)
  /\ \A d \in spent : d <= now
  /\ up /\ job.enabled /\ job.next \in spent => \E k \in Ticks : tick[k].at = "run"
  /\ pushed \/ Timely(job, now)
  /\ creating # "nothing" => ~job.ran /\ ~InFlight
  /\ Told(job, sub, bypassed)

CInv ==
  /\ CronTypes
  /\ \A k \in Ticks : tick[k].at # "idle" => up
  /\ ~refired /\ ~early
  /\ IF clean THEN Orderly ELSE spent = {}

\* Nothing is scheduled yet.
LEMMA InitCInv == Init => CInv
<1> SUFFICES ASSUME Init PROVE CInv
  OBVIOUS
<1>1. NoJob \in JobType
  BY DEF NoJob, JobType, Unset, WakeModes, Payloads
<1>2. Idle \in TickType
  BY <1>1 DEF Idle, TickType, Unset
<1>3. \A k \in Ticks : tick[k].at = "idle"
  BY DEF Init, Idle
<1>4. CronTypes
  <2>1. ~NoJob.enabled
    BY DEF NoJob
  <2>2. tick \in [Ticks -> TickType]
    BY <1>2 DEF Init
  <2>3. job \in JobType /\ ~job.enabled
    BY <1>1, <2>1 DEF Init
  <2>4. /\ now \in Nat /\ now >= 2 /\ spent \in SUBSET Nat
        /\ sub = "none" /\ creating = "nothing"
    BY DEF Init
  <2>5. up \in BOOLEAN /\ clean \in BOOLEAN /\ pushed \in BOOLEAN /\ bypassed \in BOOLEAN
    BY Zenon DEF Init
  <2> QED BY <2>2, <2>3, <2>4, <2>5 DEF CronTypes
<1>5. Orderly
  BY <1>3 DEF Init, Orderly, Timely, Told, NoJob
<1> QED BY <1>3, <1>4, <1>5 DEF Init, CInv

\* computeNextRunAtMs: strictly later, and for a one-shot its timestamp or nothing.
LEMMA NextTime ==
  ASSUME NEW j \in JobType, NEW t \in Nat, NEW n \in ComputeNext(j, t)
  PROVE  /\ n \in Nat
         /\ n # Unset => n > t
         /\ j.kind = "at" => n = j.at \/ (n = Unset /\ j.at <= t)
         /\ j.kind # "at" => n # Unset
<1>1. j.at \in Nat /\ Period \in Nat
  BY CronAssumption DEF JobType
<1>2. CASE j.kind = "at"
  BY <1>1, <1>2 DEF ComputeNext, Unset
<1>3. CASE j.kind # "at"
  BY <1>1, <1>3 DEF ComputeNext, Unset
<1> QED BY <1>2, <1>3

\* seededNextRunAtMs: the next run of a job that is switched on is timely.
LEMMA SeedTimely ==
  ASSUME CronTypes, NEW j \in JobType, NEW n \in Seeded(j)
  PROVE  n \in Nat /\ Timely([j EXCEPT !.next = n], now)
<1>1. CASE ~j.enabled
  BY <1>1 DEF Seeded, Unset, Timely, JobType
<1>2. CASE j.enabled /\ j.kind # "at"
  <2>1. n \in Nat
    BY <1>2, NextTime DEF Seeded, CronTypes
  <2> QED BY <1>2, <2>1 DEF Timely, JobType
<1>3. CASE j.enabled /\ j.kind = "at"
  <2>1. n \in ComputeNext(j, now) /\ now \in Nat
    BY <1>3 DEF Seeded, CronTypes
  <2>2. n \in Nat /\ (n = j.at \/ (n = Unset /\ j.at <= now))
    BY <1>3, <2>1, NextTime
  <2>3. j.at = Unset => j.at <= now
    BY <2>1 DEF Unset
  <2> QED BY <2>2, <2>3 DEF Timely, JobType
<1> QED BY <1>1, <1>2, <1>3

-----------------------------------------------------------------------------
(* The tools and routes.                                                   *)

\* A call that sets the next run forgets the due times; any call ends the history if
\* a tick is in flight.
LEMMA CallKeeps ==
  ASSUME CInv, NEW dues, NEW push \in BOOLEAN, Call(dues, push),
         dues = {} \/ (dues = spent /\ job'.next = job.next /\ job'.enabled = job.enabled),
         job' \in JobType, job'.enabled => job'.exists,
         creating' \in {"nothing", "session", "link"},
         sub' \in {"none", "scheduled", "released"},
         clean => /\ push \/ Timely(job', now)
                  /\ Told(job', sub', bypassed) /\ (creating' # "nothing" => ~job'.ran)
  PROVE  CInv'
<1>1. /\ clean' = (clean /\ ~InFlight) /\ spent' = (IF clean /\ ~InFlight THEN dues ELSE {})
      /\ pushed' = (clean /\ ~InFlight /\ push)
      /\ bypassed' = (clean /\ ~InFlight /\ bypassed)
      /\ UNCHANGED <<refired, early, now, up, tick>>
  BY DEF Call, Remember
<1>2. CronTypes'
  BY <1>1 DEF CInv, CronTypes
<1>3. ASSUME clean' PROVE Orderly'
  <2>1. clean /\ Orderly /\ spent' = dues /\ \A k \in Ticks : tick'[k].at = "idle" /\ tick[k].at = "idle"
    BY <1>1, <1>3 DEF InFlight, CInv
  <2>2. pushed' \/ Timely(job, now)'
    BY <1>1, <1>3 DEF Timely
  <2>3. Told(job, sub, bypassed)' /\ (creating' # "nothing" => ~job'.ran)
    BY <1>1, <1>3, <2>1 DEF Told
  <2>4. job'.enabled /\ up => job'.next \notin spent'
    BY <2>1 DEF Orderly
  <2>5. \A d \in spent' : d <= now
    BY <2>1 DEF Orderly
  <2> QED BY <1>1, <2>1, <2>2, <2>3, <2>4, <2>5 DEF Orderly, InFlight
<1> QED BY <1>1, <1>2, <1>3 DEF CInv

\* cron_create and the create route seed a schedule that is not early.
LEMMA CreateStep ==
  ASSUME CInv, NEW j \in JobType, j.exists, ~j.ran, NEW tool \in BOOLEAN, Create(j, tool)
  PROVE  CInv'
<1>1. Call({}, FALSE) /\ creating' \in {"nothing", "session"} /\ sub' = sub
  BY DEF Create
<1>2. PICK n \in Seeded(j) : job' = [j EXCEPT !.next = n]
  BY DEF Create
<1>3. n \in Nat /\ Timely([j EXCEPT !.next = n], now)
  BY SeedTimely DEF CInv
<1>4. job' \in JobType /\ job'.exists /\ ~job'.ran
  BY <1>2, <1>3 DEF JobType
<1>5. Timely(job', now)
  BY <1>2, <1>3
<1> QED BY <1>1, <1>4, <1>5, CallKeeps DEF CInv, CronTypes, Told

\* cron_update, PATCH and run-now leave the subsession and what the job has done.
LEMMA EditKeeps ==
  ASSUME CInv, NEW dues, NEW push \in BOOLEAN, Call(dues, push),
         dues = {} \/ (dues = spent /\ job'.next = job.next /\ job'.enabled = job.enabled),
         job' \in JobType, job'.exists, clean => push \/ Timely(job', now),
         job'.linked = job.linked, job'.ran = job.ran, UNCHANGED <<sub, creating>>
  PROVE  CInv'
<1>1. clean => Told(job', sub', bypassed) /\ (creating' # "nothing" => ~job'.ran)
  BY DEF CInv, Orderly, Told
<1>2. sub' \in {"none", "scheduled", "released"} /\ creating' \in {"nothing", "session", "link"}
  BY DEF CInv, CronTypes
<1> QED BY <1>1, <1>2, CallKeeps

\* An edit of the schedule computes the next run anew.
LEMMA RescheduleStep ==
  ASSUME CInv, NEW s, s.kind \in {"at", "every"}, s.at \in Nat, Reschedule(s)
  PROVE  CInv'
<1> DEFINE j == [job EXCEPT !.kind = s.kind, !.at = s.at]
<1>1. j \in JobType /\ j.linked = job.linked /\ j.ran = job.ran
      /\ j.exists /\ now \in Nat
  BY DEF CInv, CronTypes, JobType, Reschedule
<1>2. PICK n \in ComputeNext(j, now) : job' = [j EXCEPT !.next = n]
  BY DEF Reschedule
<1> HIDE DEF j
<1>3. n \in Nat /\ (j.kind = "at" => n = j.at \/ (n = Unset /\ j.at <= now))
  BY <1>1, NextTime
<1>4. job' \in JobType /\ job'.exists /\ job'.linked = job.linked /\ job'.ran = job.ran
  BY <1>1, <1>2, <1>3 DEF JobType
<1>5. Timely(job', now)
  <2>1. job'.next = n /\ job'.at = j.at /\ j.at \in Nat /\ job'.kind = j.kind
    BY <1>1, <1>2 DEF JobType
  <2> QED BY <1>1, <1>3, <2>1 DEF Timely, Unset
<1> QED BY <1>4, <1>5, EditKeeps DEF Reschedule

\* A patch seeds a schedule that is not early, or leaves the schedule alone.
LEMMA PatchStep ==
  ASSUME CInv, NEW j \in JobType, NEW reseed \in BOOLEAN, Patch(j, reseed),
         j.exists = job.exists, j.linked = job.linked, j.ran = job.ran,
         reseed \/ (j.enabled = job.enabled /\ j.kind = job.kind /\ j.at = job.at)
  PROVE  CInv'
<1>1. job.exists /\ UNCHANGED <<sub, creating>> /\ job \in JobType
  BY DEF Patch, CInv, CronTypes
<1>2. CASE reseed
  <2>1. Call({}, FALSE)
    BY <1>2 DEF Patch
  <2>2. PICK n \in Seeded(j) : job' = [j EXCEPT !.next = n]
    BY <1>2 DEF Patch
  <2>3. n \in Nat /\ Timely([j EXCEPT !.next = n], now)
    BY SeedTimely DEF CInv
  <2>4. job' \in JobType /\ job'.exists /\ job'.linked = job.linked /\ job'.ran = job.ran
    BY <1>1, <2>2, <2>3 DEF JobType
  <2>5. Timely(job', now)
    BY <2>2, <2>3
  <2> QED BY <1>1, <2>1, <2>4, <2>5, EditKeeps
<1>3. CASE ~reseed
  <2>1. Call(spent, pushed) /\ job' = [j EXCEPT !.next = job.next] /\ pushed \in BOOLEAN
    BY <1>3 DEF Patch, CInv, CronTypes
  <2>2. /\ job' \in JobType /\ job'.exists /\ job'.linked = job.linked /\ job'.ran = job.ran
        /\ job'.next = job.next /\ job'.enabled = job.enabled /\ job'.kind = job.kind /\ job'.at = job.at
    BY <1>1, <1>3, <2>1 DEF JobType
  <2>3. clean => pushed \/ Timely(job', now)
    BY <2>2 DEF CInv, Orderly, Timely
  <2> QED BY <1>1, <2>1, <2>2, <2>3, EditKeeps
<1> QED BY <1>2, <1>3

\* A run the user asks for is recorded as such.
LEMMA RunNowStep == CInv /\ RunNow => CInv'
<1> SUFFICES ASSUME CInv, RunNow PROVE CInv'
  OBVIOUS
<1>1. now - 1 \in Nat
  BY DEF CInv, CronTypes
<1>2. /\ job' \in JobType /\ job'.exists
      /\ job'.linked = job.linked /\ job'.ran = job.ran
  BY <1>1 DEF CInv, CronTypes, JobType, RunNow
<1> QED BY <1>2, EditKeeps DEF RunNow

\* Removing a job, with or without its subsession, ends what is said of it.
LEMMA RemoveStep ==
  ASSUME CInv, NEW cancel \in BOOLEAN, Remove(cancel)
  PROVE  CInv'
<1>1. job' \in JobType /\ ~job'.enabled /\ ~job'.linked /\ ~job'.ran
  BY DEF Remove, Removed, NoJob, JobType, Unset, WakeModes, Payloads
<1>2. sub' \in {sub, "released"} /\ creating' = creating /\ Call({}, FALSE)
  BY DEF Remove, Released
<1>3. Told(job', sub', bypassed) /\ Timely(job', now)
  BY <1>1 DEF Told, Timely
<1>4. sub' \in {"none", "scheduled", "released"} /\ creating' \in {"nothing", "session", "link"}
  BY <1>2 DEF CInv, CronTypes
<1> QED BY <1>1, <1>2, <1>3, <1>4, CallKeeps

\* The subsession is made, then linked to a job that has not run.
LEMMA DormantStep == CInv /\ (CreateDormant \/ LinkDormant) => CInv'
<1> SUFFICES ASSUME CInv, CreateDormant \/ LinkDormant PROVE CInv'
  OBVIOUS
<1>1. CASE CreateDormant
  <2>1. /\ creating = "session" /\ creating' = "link" /\ sub' = "scheduled"
        /\ UNCHANGED <<now, up, job, tick, clean, spent, pushed, bypassed, refired, early>>
    BY <1>1 DEF CreateDormant, history
  <2>2. CronTypes'
    BY <2>1 DEF CInv, CronTypes
  <2>3. ASSUME clean PROVE Orderly'
    <3>1. Orderly /\ ~job.ran /\ ~InFlight
      BY <2>1, <2>3 DEF CInv, Orderly
    <3>2. InFlight' = InFlight
      BY <2>1 DEF InFlight
    <3>3. \A k \in Ticks : tick'[k].at = "idle"
      BY <2>1, <3>1 DEF InFlight
    <3> QED BY <2>1, <3>1, <3>2, <3>3 DEF Orderly, Timely, Told
  <2> QED BY <2>1, <2>2, <2>3 DEF CInv
<1>2. CASE LinkDormant
  <2>1. /\ creating = "link" /\ creating' = "nothing"
        /\ clean' = (clean /\ ~InFlight)
        /\ spent' = (IF clean /\ ~InFlight THEN spent ELSE {})
        /\ pushed' = (clean /\ ~InFlight /\ pushed)
        /\ bypassed' = (clean /\ ~InFlight /\ bypassed)
        /\ UNCHANGED <<now, up, sub, tick, refired, early>>
    BY <1>2 DEF LinkDormant, Remember
  <2>2. /\ job' \in JobType /\ job'.exists = job.exists /\ job'.enabled = job.enabled
        /\ job'.kind = job.kind /\ job'.at = job.at /\ job'.next = job.next /\ job'.ran = job.ran
    BY <1>2 DEF LinkDormant, Update, CInv, CronTypes, JobType
  <2>3. CronTypes'
    BY <2>1, <2>2 DEF CInv, CronTypes
  <2>4. ASSUME clean' PROVE Orderly'
    <3>1. Orderly /\ ~job.ran /\ ~InFlight
      BY <2>1, <2>4 DEF CInv, Orderly
    <3>2. \A k \in Ticks : tick'[k].at = "idle" /\ tick[k].at = "idle"
      BY <2>1, <3>1 DEF InFlight
    <3> QED BY <2>1, <2>2, <2>4, <3>1, <3>2 DEF Orderly, Timely, Told, InFlight
  <2> QED BY <2>1, <2>3, <2>4 DEF CInv
<1> QED BY <1>1, <1>2

-----------------------------------------------------------------------------
(* The heartbeat.                                                          *)

\* A tick begins: alone, or the history ends.
LEMMA TickStartsStep ==
  ASSUME CInv, NEW k \in Ticks, TickStarts(k)
  PROVE  CInv'
<1> DEFINE t == [at |-> "read", now |-> now, job |-> Snapshot(job)]
<1>1. /\ up /\ job.enabled /\ tick' = [tick EXCEPT ![k] = t]
      /\ clean' = (clean /\ ~InFlight /\ creating = "nothing")
      /\ spent' = (IF clean /\ ~InFlight /\ creating = "nothing" THEN spent ELSE {})
      /\ pushed' = (clean /\ ~InFlight /\ creating = "nothing" /\ pushed)
      /\ bypassed' = (clean /\ ~InFlight /\ creating = "nothing" /\ bypassed)
      /\ UNCHANGED <<now, up, job, sub, creating, refired, early>>
  BY DEF TickStarts, Remember, store
<1>2. t \in TickType /\ t.at = "read" /\ t.now = now /\ t.job = Snapshot(job)
  <2>1. Snapshot(job) \in JobType
    BY DEF CInv, CronTypes, Snapshot, JobType
  <2> QED BY <2>1 DEF CInv, CronTypes, TickType
<1> HIDE DEF t
<1>3. \A l \in Ticks : tick'[l] = IF l = k THEN t ELSE tick[l]
  BY <1>1 DEF CInv, CronTypes
<1>4. CronTypes'
  BY <1>1, <1>2 DEF CInv, CronTypes
<1>5. ASSUME clean' PROVE Orderly'
  <2>1. /\ Orderly /\ ~InFlight /\ creating = "nothing"
        /\ spent' = spent /\ pushed' = pushed /\ bypassed' = bypassed
    <3>1. clean /\ ~InFlight /\ creating = "nothing"
      BY <1>1, <1>5
    <3>2. pushed \in BOOLEAN /\ bypassed \in BOOLEAN
      BY DEF CInv, CronTypes
    <3> QED BY <1>1, <3>1, <3>2 DEF CInv
  <2>2. \A l \in Ticks : l # k => tick'[l].at = "idle"
    BY <1>3, <2>1 DEF InFlight
  <2>3. ~(job.next \in spent)
    BY <1>1, <2>1 DEF Orderly, InFlight
  <2>4. now \in Nat
    BY DEF CInv, CronTypes
  <2>5. InStep(k)'
    BY <1>1, <1>2, <1>3, <2>1, <2>4 DEF InStep, Orderly, Timely, Snapshot
  <2>6. \A l \in Ticks : tick'[l].at # "idle" => l = k
    BY <2>2
  <2>7. Timely(job, now)' = Timely(job, now) /\ (Told(job, sub, bypassed) => Told(job, sub, bypassed)')
    BY <1>1, <2>1 DEF Timely, Told
  <2> QED BY <1>1, <2>1, <2>3, <2>5, <2>6, <2>7 DEF Orderly
<1>6. \A l \in Ticks : tick'[l].at # "idle" => up'
  BY <1>1
<1> QED BY <1>1, <1>4, <1>5, <1>6 DEF CInv

\* The parts of a record a tick looks at.
SameTask(j, o) ==
  /\ j.kind = o.kind /\ j.at = o.at /\ j.next = o.next
  /\ j.linked = o.linked /\ j.payload = o.payload

\* A tick that evaluates the job as it is: nobody has fired this due time.
LEMMA ReadIsFresh ==
  ASSUME CInv, clean, NEW k \in Ticks, tick[k].at = "read"
  PROVE  /\ tick[k].job = Snapshot(job) /\ SameTask(tick[k].job, job)
         /\ job.enabled /\ job.exists
         /\ ~(job.next \in spent)
         /\ pushed \/ Timely(job, tick[k].now)
         /\ tick[k].now \in Nat /\ tick[k].now <= now /\ now \in Nat
         /\ \A d \in spent : d <= tick[k].now
<1>1. InStep(k) /\ Orderly
  BY DEF CInv, Orderly
<1>2. \A l \in Ticks : tick[l].at # "run"
  BY <1>1 DEF Orderly
<1>3. SameTask(Snapshot(job), job)
  BY DEF SameTask, Snapshot, CInv, CronTypes, JobType
<1> QED BY <1>1, <1>2, <1>3 DEF InStep, Orderly, CInv, CronTypes, TickType

\* What the end of an evaluation must leave behind.
LEMMA TickEnds ==
  ASSUME CInv, NEW k \in Ticks, tick[k].at # "idle", tick' = [tick EXCEPT ![k] = Idle],
         UNCHANGED <<now, up, creating, refired, early>>,
         clean' \in BOOLEAN, pushed' \in BOOLEAN, bypassed' \in BOOLEAN,
         IF clean' THEN clean /\ UNCHANGED <<spent, pushed, bypassed>> ELSE spent' = {},
         job' \in JobType, job'.enabled => job'.exists,
         sub' \in {"none", "scheduled", "released"},
         clean' => /\ job'.enabled => job'.next \notin spent
                   /\ pushed \/ Timely(job', now)
                   /\ Told(job', sub', bypassed')
  PROVE  CInv'
<1>1. Idle \in TickType /\ Idle.at = "idle"
  BY DEF Idle, NoJob, TickType, JobType, Unset, WakeModes, Payloads
<1>2. \A l \in Ticks : tick'[l] = IF l = k THEN Idle ELSE tick[l]
  BY DEF CInv, CronTypes
<1>3. CronTypes'
  BY <1>1 DEF CInv, CronTypes
<1>4. ASSUME clean' PROVE Orderly'
  <2>1. Orderly /\ clean /\ spent' = spent /\ pushed' = pushed /\ bypassed' = bypassed
    BY <1>4 DEF CInv
  <2>2. \A l \in Ticks : tick'[l].at = "idle"
    BY <1>1, <1>2, <2>1 DEF Orderly
  <2>3. creating = "nothing"
    BY <2>1 DEF Orderly, InFlight
  <2>4. (pushed \/ Timely(job, now))' /\ Told(job, sub, bypassed)'
    BY <1>4, <2>1 DEF Timely, Told
  <2> QED BY <1>4, <2>1, <2>2, <2>3, <2>4 DEF Orderly
<1>5. \A l \in Ticks : tick'[l].at # "idle" => up'
  BY <1>1, <1>2 DEF CInv
<1> QED BY <1>3, <1>4, <1>5 DEF CInv
\* Not due, missed, or waiting for an event that does not come: the schedule moves
\* on, or a missed one-shot is settled.
LEMMA SkipStep ==
  ASSUME CInv, NEW k \in Ticks, Skip(k) \/ SkipStale(k) \/ SkipNoEvents(k)
  PROVE  CInv'
<1> DEFINE j == tick[k].job
           t == tick[k].now
<1>1. /\ tick[k].at = "read" /\ tick' = [tick EXCEPT ![k] = Idle]
      /\ UNCHANGED <<now, up, creating, clean, spent, pushed, bypassed, refired, early>>
  BY DEF Skip, SkipStale, SkipNoEvents, history, store
<1>2. j \in JobType /\ t \in Nat /\ job \in JobType /\ (job.enabled => job.exists)
  BY DEF CInv, CronTypes, TickType
<1> DEFINE Moved(n) == job' = [job EXCEPT !.next = n] /\ sub' = sub /\ n # Unset
           Settled == /\ job' = [job EXCEPT !.enabled = FALSE, !.next = Unset, !.ran = TRUE]
                      /\ sub' = Released(j)
<1>3. \/ \E n \in ComputeNext(j, t) : Moved(n)
      \/ Settled
      \/ job' = job /\ sub' \in {sub, "released"}
  <2>1. CASE Skip(k)
    BY <2>1 DEF Skip, store
  <2>2. CASE SkipStale(k)
    BY <2>2 DEF SkipStale, Update, Released
  <2>3. CASE SkipNoEvents(k)
    BY <2>3 DEF SkipNoEvents, AdvanceNext, Update
  <2> QED BY <2>1, <2>2, <2>3
<1>4. ASSUME clean
      PROVE  /\ SameTask(j, job) /\ job.enabled /\ job.next \notin spent
             /\ pushed \/ Timely(job, now)
             /\ \A d \in spent : d <= t
             /\ Told(job, sub, bypassed)
  <2>1. SameTask(j, job) /\ job.enabled /\ job.next \notin spent /\ \A d \in spent : d <= t
    BY <1>1, <1>4, ReadIsFresh
  <2>2. (pushed \/ Timely(job, t)) /\ t <= now /\ t \in Nat /\ now \in Nat
    BY <1>1, <1>4, ReadIsFresh
  <2>3. Timely(job, t) => Timely(job, now)
    BY <1>2, <2>2 DEF Timely, JobType
  <2>4. Told(job, sub, bypassed)
    BY <1>4 DEF CInv, Orderly
  <2> QED BY <2>1, <2>2, <2>3, <2>4
<1>5. sub \in {"none", "scheduled", "released"}
  BY DEF CInv, CronTypes
<1>6. CASE job' = job /\ sub' \in {sub, "released"}
  <2>1. Told(job, sub, bypassed) => Told(job', sub', bypassed')
    BY <1>1, <1>6 DEF Told
  <2>2. Timely(job, now) => Timely(job', now)
    BY <1>6
  <2> QED BY <1>1, <1>2, <1>4, <1>5, <1>6, <2>1, <2>2, TickEnds DEF CInv, CronTypes
<1>7. ASSUME NEW n \in ComputeNext(j, t), Moved(n) PROVE CInv'
  <2>1. n \in Nat /\ n > t /\ (j.kind = "at" => n = j.at)
    BY <1>2, <1>7, NextTime
  <2>2. /\ job' \in JobType /\ job'.exists = job.exists /\ job'.enabled = job.enabled
        /\ job'.next = n /\ job'.kind = job.kind /\ job'.at = job.at
        /\ job'.linked = job.linked /\ job'.ran = job.ran
    BY <1>2, <1>7, <2>1 DEF JobType
  <2>3. ASSUME clean PROVE job'.next \notin spent /\ Timely(job', now) /\ Told(job', sub', bypassed')
    <3>1. n \notin spent
      BY <1>2, <1>4, <2>1, <2>3 DEF CInv, CronTypes
    <3>2. Timely(job', now)
      BY <1>2, <1>4, <1>7, <2>1, <2>2, <2>3 DEF Timely, JobType, SameTask
    <3> QED BY <1>1, <1>4, <1>7, <2>2, <2>3, <3>1, <3>2 DEF Told
  <2> QED BY <1>1, <1>2, <1>5, <1>7, <2>2, <2>3, TickEnds DEF CInv, CronTypes
<1>8. CASE Settled
  <2>1. job' \in JobType /\ ~job'.enabled /\ job'.linked = job.linked
    BY <1>2, <1>8 DEF JobType, Unset
  <2>2. sub' \in {sub, "released"} /\ (j.linked => sub' = "released")
    BY <1>8 DEF Released
  <2>3. clean => Timely(job', now) /\ Told(job', sub', bypassed')
    BY <1>4, <2>1, <2>2 DEF Timely, Told, SameTask
  <2> QED BY <1>1, <1>5, <2>1, <2>2, <2>3, TickEnds DEF CInv, CronTypes
<1> QED BY <1>3, <1>6, <1>7, <1>8

\* executeJobRun begins: the due time is spent from now on.
LEMMA FireStep ==
  ASSUME CInv, NEW k \in Ticks, Fire(k)
  PROVE  CInv'
<1> DEFINE j == tick[k].job
           t == tick[k].now
           run == [at |-> "run", now |-> t, 
                  job |-> [NoJob EXCEPT !.kind = j.kind, !.at = j.at, !.payload = j.payload]]
<1>1. /\ tick[k].at = "read" /\ Due(j, t)
      /\ sub' = (IF j.payload = "turn" THEN Released(j) ELSE sub)
      /\ bypassed' = (bypassed \/ (clean /\ j.linked /\ sub # "released" /\ j.payload # "turn"))
      /\ refired' = (refired \/ j.next \in spent)
      /\ spent' = (IF clean THEN spent \cup {j.next} ELSE spent)
      /\ early' = (early \/ (clean /\ j.kind = "at" /\ j.at > t /\ ~pushed))
      /\ UNCHANGED <<now, up, job, creating, clean, pushed>>
  BY DEF Fire
<1>2. j \in JobType /\ t \in Nat /\ tick[k] \in TickType /\ j.next \in Nat
  BY DEF CInv, CronTypes, TickType, JobType
<1>3. run \in TickType /\ run.at = "run" /\ run.now = t /\ run.job.kind = j.kind /\ run.job.at = j.at
  BY <1>2 DEF TickType, JobType, NoJob, Unset, WakeModes, Payloads
<1>4. tick' = [tick EXCEPT ![k] = run]
  <2> DEFINE x == [NoJob EXCEPT !.kind = j.kind, !.at = j.at, !.payload = j.payload]
  <2>1. tick' = [tick EXCEPT ![k].at = "run", ![k].job = x]
    BY DEF Fire
  <2> HIDE DEF x
  <2>2. tick' = [tick EXCEPT ![k] = [tick[k] EXCEPT !.at = "run", !.job = x]]
    BY <2>1 DEF CInv, CronTypes
  <2>3. [tick[k] EXCEPT !.at = "run", !.job = x] = [at |-> "run", now |-> t, job |-> x]
    <3> DEFINE r == [tick[k] EXCEPT !.at = "run"]
    <3>1. r \in TickType /\ r.at = "run" /\ r.now = t
      BY <1>2 DEF TickType
    <3> HIDE DEF r
    <3>2. [r EXCEPT !.job = x] = [at |-> "run", now |-> t, job |-> x]
      BY <3>1 DEF TickType
    <3> QED BY <3>2 DEF r
  <2> QED BY <2>2, <2>3 DEF x
<1> HIDE DEF run
<1>5. \A l \in Ticks : tick'[l] = IF l = k THEN run ELSE tick[l]
  BY <1>4 DEF CInv, CronTypes
<1>6. CronTypes'
  <2>1. bypassed' \in BOOLEAN
    BY <1>1 DEF CInv, CronTypes
  <2> QED BY <1>1, <1>2, <1>3, <1>4, <2>1 DEF CInv, CronTypes, Released
<1>7. ~refired'
  BY <1>1, ReadIsFresh DEF CInv, SameTask
<1>8. ~early'
  <2> SUFFICES ASSUME clean, j.kind = "at", j.at > t, ~pushed PROVE FALSE
    BY <1>1 DEF CInv
  <2>1. SameTask(j, job) /\ job.enabled /\ Timely(job, t)
    BY <1>1, ReadIsFresh
  <2> QED BY <1>1, <1>2, <2>1 DEF Timely, Due, JobType, SameTask
<1>9. ASSUME clean PROVE Orderly'
  <2>1. Orderly /\ InStep(k)
    BY <1>1, <1>9 DEF CInv, Orderly
  <2>2. SameTask(j, job) /\ t <= now /\ now \in Nat /\ \A d \in spent : d <= t
    BY <1>1, <1>9, ReadIsFresh
  <2>3. j.next <= t
    BY <1>1, <1>2 DEF Due, Unset
  <2>4. \A d \in spent' : d <= t /\ d <= now
    BY <1>1, <1>2, <1>9, <2>2, <2>3 DEF CInv, CronTypes
  <2>5. job.linked => sub' = "released" \/ bypassed'
    BY <1>1, <1>9, <2>2 DEF Released, SameTask
  <2>6. up
    BY <2>1 DEF InStep
  <2>7. InStep(k)'
    BY <1>1, <1>3, <1>5, <2>2, <2>4, <2>5, <2>6 DEF InStep, SameTask
  <2>8. \A l \in Ticks : tick'[l].at # "idle" => l = k
    BY <1>1, <1>5, <2>1 DEF Orderly
  <2>9. creating = "nothing"
    BY <1>1, <2>1 DEF Orderly, InFlight
  <2>10. (pushed \/ Timely(job, now))'
    BY <1>1, <2>1 DEF Orderly, Timely
  <2>11. Told(job, sub, bypassed)'
    BY <1>1, <2>5 DEF Told
  <2>12. tick'[k].at = "run"
    BY <1>3, <1>5
  <2> QED BY <1>1, <2>4, <2>7, <2>8, <2>9, <2>10, <2>11, <2>12 DEF Orderly
<1>10. \A l \in Ticks : tick'[l].at # "idle" => up'
  BY <1>1 DEF CInv
<1>11. ~clean => spent' = {}
  BY <1>1 DEF CInv
<1> QED BY <1>1, <1>6, <1>7, <1>8, <1>9, <1>10, <1>11 DEF CInv
\* What a run in flight knows.
LEMMA RunKnows ==
  ASSUME CInv, NEW k \in Ticks, tick[k].at = "run"
  PROVE  /\ tick[k].job \in JobType /\ tick[k].now \in Nat
         /\ clean => /\ tick[k].job.kind = job.kind /\ tick[k].job.at = job.at
                     /\ job.linked => sub = "released" \/ bypassed
                     /\ \A d \in spent : d \in Nat /\ d <= tick[k].now
<1>1. tick[k].job \in JobType /\ tick[k].now \in Nat /\ spent \subseteq Nat
  BY DEF CInv, CronTypes, TickType
<1>2. ASSUME clean PROVE InStep(k)
  BY <1>2 DEF CInv, Orderly
<1> QED BY <1>1, <1>2 DEF InStep

\* The run ends with its final update: the next time is a new one, or the one-shot
\* is switched off.
LEMMA RunEndsStep ==
  ASSUME CInv, NEW k \in Ticks, RunEnds(k)
  PROVE  CInv'
<1> DEFINE j == tick[k].job
           t == tick[k].now
<1>1. /\ tick[k].at = "run" /\ tick' = [tick EXCEPT ![k] = Idle]
      /\ UNCHANGED <<now, up, creating, sub, clean, spent, pushed, bypassed, refired, early>>
  BY DEF RunEnds, history
<1>2. PICK n \in ComputeNext(j, t) : job' = IF job.exists THEN Final(j, n) ELSE job
  BY DEF RunEnds, Update
<1>3. job \in JobType /\ (job.enabled => job.exists) /\ sub \in {"none", "scheduled", "released"}
  BY DEF CInv, CronTypes
<1>4. /\ j \in JobType /\ t \in Nat
      /\ clean => /\ j.kind = job.kind /\ j.at = job.at /\ (job.linked => sub = "released" \/ bypassed)
                  /\ \A d \in spent : d \in Nat /\ d <= t
  BY <1>1, RunKnows
<1>5. /\ n \in Nat /\ (n # Unset => n > t)
      /\ j.kind = "at" => n = j.at \/ (n = Unset /\ j.at <= t)
      /\ j.kind # "at" => n # Unset
  BY <1>4, NextTime
<1>6. CASE ~job.exists
  <2>1. job' = job /\ ~job.enabled
    BY <1>2, <1>3, <1>6
  <2>2. clean => Timely(job', now) /\ Told(job', sub', bypassed')
    BY <1>1, <1>4, <2>1 DEF Timely, Told
  <2> QED BY <1>1, <1>3, <2>1, <2>2, TickEnds DEF CInv, CronTypes
<1>7. CASE job.exists
  <2>1. job' = [job EXCEPT !.enabled = @ /\ ~(n = Unset /\ j.kind = "at"), !.next = n, !.ran = TRUE]
    BY <1>2, <1>7 DEF Final
  <2>2. /\ job' \in JobType /\ job'.exists /\ job'.next = n /\ job'.linked = job.linked
        /\ job'.kind = job.kind /\ job'.at = job.at
        /\ job'.enabled => ~(n = Unset /\ j.kind = "at")
    BY <1>3, <1>5, <1>7, <2>1 DEF JobType
  <2>3. job'.enabled => n # Unset
    BY <1>5, <2>2
  <2>4. ASSUME clean, job'.enabled PROVE n \notin spent
    BY <1>4, <1>5, <2>3, <2>4
  <2>5. ASSUME clean PROVE Timely(job', now)
    BY <1>3, <1>4, <1>5, <2>2, <2>3, <2>5 DEF Timely, JobType
  <2>6. clean => Told(job', sub', bypassed')
    BY <1>1, <1>4, <2>2 DEF Told
  <2> QED BY <1>1, <1>3, <2>2, <2>4, <2>5, <2>6, TickEnds DEF CInv, CronTypes
<1> QED BY <1>6, <1>7

\* The run ends without it: a recurring job still moves on.
LEMMA RunUnsettledStep ==
  ASSUME CInv, NEW k \in Ticks, RunUnsettled(k)
  PROVE  CInv'
<1> DEFINE j == tick[k].job
           t == tick[k].now
<1>1. /\ tick[k].at = "run" /\ tick' = [tick EXCEPT ![k] = Idle]
      /\ clean' = (clean /\ j.kind # "at")
      /\ spent' = (IF clean /\ j.kind # "at" THEN spent ELSE {})
      /\ pushed' = (clean /\ j.kind # "at" /\ pushed)
      /\ bypassed' = (clean /\ j.kind # "at" /\ bypassed)
      /\ UNCHANGED <<now, up, creating, sub, refired, early>>
  BY DEF RunUnsettled, Remember
<1>2. PICK n \in ComputeNext(j, t), ran \in BOOLEAN :
        job' = IF job.exists /\ n # Unset THEN [job EXCEPT !.next = n, !.ran = @ \/ ran] ELSE job
  BY DEF RunUnsettled, Update
<1>3. /\ job \in JobType /\ (job.enabled => job.exists)
      /\ sub \in {"none", "scheduled", "released"} /\ pushed \in BOOLEAN /\ bypassed \in BOOLEAN
  BY DEF CInv, CronTypes
<1>4. /\ j \in JobType /\ t \in Nat
      /\ clean => /\ j.kind = job.kind /\ (job.linked => sub = "released" \/ bypassed)
                  /\ \A d \in spent : d \in Nat /\ d <= t
  BY <1>1, RunKnows
<1>5. n \in Nat /\ (n # Unset => n > t) /\ (j.kind # "at" => n # Unset)
  BY <1>4, NextTime
<1>6. /\ job' \in JobType /\ job'.exists = job.exists /\ job'.enabled = job.enabled
      /\ job'.kind = job.kind /\ job'.linked = job.linked
      /\ job.exists /\ n # Unset => job'.next = n
  BY <1>2, <1>3, <1>5 DEF JobType
<1>7. ASSUME clean' PROVE /\ clean /\ spent' = spent /\ pushed' = pushed /\ bypassed' = bypassed
                          /\ job'.enabled => job'.next \notin spent
                          /\ Timely(job', now) /\ Told(job', sub', bypassed')
  <2>1. clean /\ j.kind # "at" /\ spent' = spent
    BY <1>1, <1>7
  <2>2. pushed' = pushed /\ bypassed' = bypassed
    BY <1>1, <1>3, <2>1, Zenon
  <2>3. job'.enabled => job'.next \notin spent
    BY <1>3, <1>4, <1>5, <1>6, <2>1
  <2>4. Timely(job', now) /\ Told(job', sub', bypassed')
    BY <1>1, <1>4, <1>6, <2>1, <2>2 DEF Timely, Told
  <2> QED BY <2>1, <2>2, <2>3, <2>4
<1>8. /\ clean' \in BOOLEAN /\ pushed' \in BOOLEAN /\ bypassed' \in BOOLEAN
      /\ (~clean' => spent' = {})
      /\ (job'.enabled => job'.exists)
  BY <1>1, <1>3, <1>6
<1>9. sub' \in {"none", "scheduled", "released"} /\ tick[k].at # "idle"
  BY <1>1, <1>3
<1>10. IF clean' THEN clean /\ UNCHANGED <<spent, pushed, bypassed>> ELSE spent' = {}
  BY <1>7, <1>8
<1> QED BY <1>1, <1>6, <1>7, <1>8, <1>9, <1>10, TickEnds

-----------------------------------------------------------------------------
(* The daemon and the clock.                                               *)

\* A crash ends all ticks and keeps the files.
LEMMA CrashStep == CInv /\ Crash => CInv'
<1> SUFFICES ASSUME CInv, Crash PROVE CInv'
  OBVIOUS
<1>1. /\ ~up' /\ tick' = [l \in Ticks |-> Idle] /\ creating' = "nothing"
      /\ UNCHANGED <<now, job, sub, clean, spent, pushed, bypassed, refired, early>>
  BY DEF Crash, history
<1>2. Idle \in TickType /\ Idle.at = "idle" /\ up' \in BOOLEAN
  BY DEF Idle, NoJob, TickType, JobType, Unset, WakeModes, Payloads, Crash
<1>3. \A l \in Ticks : tick'[l].at = "idle"
  BY <1>1, <1>2
<1>4. CronTypes'
  BY <1>1, <1>2 DEF CInv, CronTypes
<1>5. clean => Orderly'
  BY <1>1, <1>3 DEF CInv, Orderly, Timely, Told
<1> QED BY <1>1, <1>3, <1>4, <1>5 DEF CInv

\* recoverSchedules: what is past is skipped, whether it was fired or not.
LEMMA BootStep == CInv /\ Boot => CInv'
<1> SUFFICES ASSUME CInv, Boot PROVE CInv'
  OBVIOUS
<1> DEFINE past == {d \in {job.next} : d # Unset /\ d <= now}
<1>1. /\ ~up /\ up' = TRUE /\ clean' = (clean /\ TRUE)
      /\ spent' = (IF clean /\ TRUE THEN spent \cup past ELSE {})
      /\ pushed' = (clean /\ TRUE /\ pushed)
      /\ bypassed' = (clean /\ TRUE /\ bypassed)
      /\ UNCHANGED <<now, sub, creating, tick, refired, early>>
  BY DEF Boot, Remember
<1>2. PICK n \in ComputeNext(job, now) : job' = IF job.enabled THEN Recovered(n) ELSE job
  BY DEF Boot
<1>3. /\ job \in JobType /\ (job.enabled => job.exists) /\ now \in Nat
      /\ clean \in BOOLEAN /\ pushed \in BOOLEAN /\ bypassed \in BOOLEAN /\ spent \subseteq Nat
  BY DEF CInv, CronTypes
<1>4. /\ n \in Nat /\ (n # Unset => n > now)
      /\ job.kind = "at" => n = job.at \/ (n = Unset /\ job.at <= now)
      /\ job.kind # "at" => n # Unset
  BY <1>3, NextTime
<1>5. \A k \in Ticks : tick[k].at = "idle"
  BY <1>1 DEF CInv
<1> DEFINE Off == [job EXCEPT !.enabled = FALSE, !.next = Unset]
           On == [job EXCEPT !.next = n]
<1>6. \/ job' = job /\ (job.enabled => job.next > now)
      \/ job' = Off
      \/ job' = On /\ n # Unset
  BY <1>2, <1>4 DEF Recovered
<1>7. /\ job' \in JobType /\ (job'.enabled => job'.exists)
      /\ job'.linked = job.linked /\ job'.ran = job.ran
      /\ job'.kind = job.kind /\ job'.at = job.at
      /\ job'.enabled => job'.next > now /\ (job' = job \/ job'.next = n)
  <2>1. CASE job' = job /\ (job.enabled => job.next > now)
    BY <1>3, <2>1
  <2>2. CASE job' = Off
    BY <1>3, <2>2 DEF JobType, Unset
  <2>3. CASE job' = On /\ n # Unset
    BY <1>3, <1>4, <2>3 DEF JobType
  <2> QED BY <1>6, <2>1, <2>2, <2>3
<1>8. past \subseteq Nat /\ \A d \in past : d <= now
  BY <1>3 DEF JobType
<1>9. CronTypes'
  BY <1>1, <1>3, <1>7, <1>8 DEF CInv, CronTypes
<1>10. ASSUME clean PROVE Orderly'
  <2>1. Orderly /\ spent' = spent \cup past
    BY <1>1, <1>10 DEF CInv
  <2>2. pushed' = pushed /\ bypassed' = bypassed
    BY <1>1, <1>3, <1>10, Zenon
  <2>3. \A d \in spent' : d \in Nat /\ d <= now
    BY <1>3, <1>8, <2>1 DEF Orderly
  <2>4. job'.enabled => job'.next \notin spent'
    <3>1. job'.next \in Nat
      BY <1>7 DEF JobType
    <3> QED BY <1>3, <1>7, <2>3, <3>1
  <2>5. pushed \/ Timely(job', now)
    <3>1. CASE job' = job
      BY <2>1, <3>1 DEF Orderly
    <3>2. CASE job'.next = n /\ job'.enabled
      BY <1>3, <1>4, <1>7, <3>2 DEF Timely, JobType, Unset
    <3>3. CASE ~job'.enabled
      BY <3>3 DEF Timely
    <3> QED BY <1>7, <3>1, <3>2, <3>3
  <2>6. Told(job', sub, bypassed)
    BY <1>7, <2>1 DEF Orderly, Told
  <2>7. creating # "nothing" => ~job'.ran
    BY <1>7, <2>1 DEF Orderly
  <2>8. (pushed \/ Timely(job, now))' /\ Told(job, sub, bypassed)'
    BY <1>1, <2>2, <2>5, <2>6 DEF Timely, Told
  <2>9. \A k \in Ticks : tick'[k].at = "idle"
    BY <1>1, <1>5
  <2>10. ~InFlight'
    BY <2>9 DEF InFlight
  <2>11. \A d \in spent' : d <= now'
    BY <1>1, <2>3
  <2> QED BY <1>1, <2>4, <2>7, <2>8, <2>9, <2>10, <2>11 DEF Orderly
<1>11. ~clean => spent' = {}
  BY <1>1
<1> QED BY <1>1, <1>3, <1>5, <1>9, <1>10, <1>11 DEF CInv

\* What has passed stays passed.
LEMMA TimeStep == CInv /\ TimePasses => CInv'
<1> SUFFICES ASSUME CInv, TimePasses PROVE CInv'
  OBVIOUS
<1>1. /\ now' = now + 1
      /\ UNCHANGED <<up, job, sub, creating, tick, clean, spent, pushed, bypassed, refired, early>>
  BY DEF TimePasses, store, history
<1>2. now \in Nat /\ spent \subseteq Nat /\ job \in JobType /\ tick \in [Ticks -> TickType]
  BY DEF CInv, CronTypes
<1>3. CronTypes'
  BY <1>1, <1>2 DEF CInv, CronTypes
<1>4. ASSUME clean PROVE Orderly'
  <2>1. Orderly
    BY <1>4 DEF CInv
  <2>2. \A k \in Ticks : tick[k].at # "idle" => InStep(k)'
    <3> SUFFICES ASSUME NEW k \in Ticks, tick[k].at # "idle" PROVE InStep(k)'
      OBVIOUS
    <3>1. InStep(k) /\ tick[k].now \in Nat
      BY <1>2, <2>1 DEF Orderly, TickType
    <3>2. tick[k].now <= now'
      BY <1>1, <1>2, <3>1 DEF InStep
    <3>3. Snapshot(job)' = Snapshot(job) /\ Timely(job, tick[k].now)' = Timely(job, tick[k].now)
      BY <1>1 DEF Snapshot, Timely
    <3> QED BY <1>1, <3>1, <3>2, <3>3 DEF InStep
  <2>3. Timely(job, now) => Timely(job, now)'
    BY <1>1, <1>2 DEF Timely, JobType
  <2>4. \A d \in spent : d <= now'
    BY <1>1, <1>2, <2>1 DEF Orderly
  <2> QED BY <1>1, <2>1, <2>2, <2>3, <2>4 DEF Orderly, Told, InFlight
<1> QED BY <1>1, <1>3, <1>4 DEF CInv

\* Every step keeps the invariant.
LEMMA StepCInv == CInv /\ [Next]_vars => CInv'
<1> SUFFICES ASSUME CInv, [Next]_vars PROVE CInv'
  OBVIOUS
<1>1. CASE User
  <2>1. \A s \in Schedules : s.kind \in {"at", "every"} /\ s.at \in Nat
    BY CronAssumption DEF Schedules, Timestamps, Unset
  <2>2. ASSUME NEW s \in Schedules, NEW tool \in BOOLEAN,
               LET j == Timed([NoJob EXCEPT !.exists = TRUE, !.enabled = TRUE], s)
               IN \E d \in Switched(j) \cup Replaced(j) : Create(d, tool)
        PROVE  CInv'
    <3> DEFINE j == Timed([NoJob EXCEPT !.exists = TRUE, !.enabled = TRUE], s)
    <3>1. j \in JobType /\ j.exists /\ ~j.ran
      BY <2>1 DEF Timed, NoJob, JobType, Unset, WakeModes, Payloads
    <3>2. PICK d \in Switched(j) \cup Replaced(j) : Create(d, tool)
      BY <2>2
    <3> HIDE DEF j
    <3>3. d \in JobType /\ d.exists /\ ~d.ran
      BY <3>1 DEF Switched, Replaced, JobType
    <3> QED BY <3>2, <3>3, CreateStep
  <2>3. ASSUME NEW s \in Schedules, Reschedule(s) PROVE CInv'
    BY <2>1, <2>3, RescheduleStep
  <2>4. job \in JobType
    BY DEF CInv, CronTypes
  <2>5. ASSUME NEW s \in Schedules, Patch(Timed(job, s), TRUE) PROVE CInv'
    <3> DEFINE j == Timed(job, s)
    <3>1. j \in JobType /\ j.exists = job.exists /\ j.linked = job.linked /\ j.ran = job.ran
      BY <2>1, <2>4 DEF Timed, JobType
    <3>2. Patch(j, TRUE)
      BY <2>5
    <3> HIDE DEF j
    <3> QED BY <3>1, <3>2, PatchStep
  <2>6. ASSUME NEW j \in Switched(job), Patch(j, TRUE) PROVE CInv'
    <3>1. j \in JobType /\ j.exists = job.exists /\ j.linked = job.linked /\ j.ran = job.ran
      BY <2>4 DEF Switched, JobType
    <3> QED BY <2>6, <3>1, PatchStep
  <2>7. ASSUME NEW j \in Replaced(job), Patch(j, FALSE) PROVE CInv'
    <3>1. /\ j \in JobType /\ j.exists = job.exists /\ j.linked = job.linked /\ j.ran = job.ran
          /\ j.enabled = job.enabled /\ j.kind = job.kind /\ j.at = job.at
      BY <2>4 DEF Replaced, JobType
    <3> QED BY <2>7, <3>1, PatchStep
  <2> QED BY <1>1, <2>2, <2>3, <2>5, <2>6, <2>7, RunNowStep, RemoveStep DEF User
<1>2. ASSUME NEW k \in Ticks, TickStarts(k) \/ TickStep(k) PROVE CInv'
  BY <1>2, TickStartsStep, SkipStep, FireStep, RunEndsStep, RunUnsettledStep DEF TickStep
<1>3. CASE UNCHANGED vars
  <2>1. UNCHANGED <<now, up, job, sub, creating, tick, clean, spent, pushed, bypassed, refired, early>>
    BY <1>3 DEF vars, store, history
  <2> QED BY <2>1 DEF CInv, CronTypes, Orderly, InStep, Timely, Told, InFlight
<1> QED BY <1>1, <1>2, <1>3, DormantStep, CrashStep, BootStep, TimeStep DEF Next

\* The argument in one place: the schedule, the history and the subsession agree.
THEOREM CronInOrder == Spec => []CInv
  BY InitCInv, StepCInv, PTL DEF Spec

\* A due time is fired at most once and never once it has passed with the daemon
\* down, whatever the calls, crashes and clock do, while ticks and calls do not
\* overlap and runs are settled.
THEOREM FiresOncePerDueCorrect == Spec => []FiresOncePerDue
<1>1. CInv => FiresOncePerDue
  BY DEF CInv, FiresOncePerDue
<1> QED BY <1>1, CronInOrder, PTL

\* A one-shot that the user does not run by hand never fires before its timestamp.
THEOREM OneShotNotEarlyCorrect == Spec => []OneShotNotEarly
<1>1. CInv => OneShotNotEarly
  BY DEF CInv, OneShotNotEarly
<1> QED BY <1>1, CronInOrder, PTL

\* Once the task has taken a turn, or a tick has settled it as missed, its dormant
\* subsession has been released.
THEOREM RunReleasesSubsessionCorrect == Spec => []RunReleasesSubsession
<1>1. CInv => RunReleasesSubsession
  BY DEF CInv, Orderly, Told, RunReleasesSubsession
<1> QED BY <1>1, CronInOrder, PTL
=============================================================================
