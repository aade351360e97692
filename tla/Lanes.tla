-------------------------------- MODULE Lanes --------------------------------
(***************************************************************************)
(* daemon/lanes.ts: one command lane (lane keys do not interact), with the *)
(* drain flag of daemon/drain.ts that closes it.  A LaneState object keeps *)
(* its identity: a running task holds on to the object it was started by,  *)
(* while pump() and enqueue() look the lane up in the map again.  Module   *)
(* Daemon says who takes these actions and when.                           *)
(***************************************************************************)
EXTENDS Naturals, FiniteSets, SequencesExt

CONSTANTS
    Tasks,          \* the tasks handed to enqueue(), each at most once
    MaxConcurrent   \* concurrency limit of the lane

VARIABLES
    states,    \* every LaneState object ever made for the lane
    cur,       \* index of the one in the map, 0 if the lane is not registered
    promise,   \* where each task is, and how its promise was settled
    home,      \* the LaneState object a task was queued in
    gen,       \* QueueEntry.generation
    id,        \* QueueEntry.id
    counter,   \* taskIdCounter
    drain,     \* Drain.state
    resets,    \* resetAll() calls so far
    registry,  \* register / unregister calls so far
    preReset   \* history: tasks in the registered lane at some resetAll()

laneVars == <<states, cur, promise, home, gen, id, counter, resets, registry,
              preReset>>
vars == <<laneVars, drain>>

Settled == {"refused", "resolved", "failed", "cleared"}
Pending == {"queued", "running"}

NewLane == [queue |-> <<>>, active |-> {}, generation |-> 0]

Init ==
    /\ states = <<>>
    /\ cur = 0
    /\ promise = [t \in Tasks |-> "new"]
    /\ home = [t \in Tasks |-> 0]
    /\ gen = [t \in Tasks |-> 0]
    /\ id = [t \in Tasks |-> 0]
    /\ counter = 0
    /\ drain = "idle"
    /\ resets = 0
    /\ registry = 0
    /\ preReset = {}

-----------------------------------------------------------------------------
\* Drain.isDraining()
IsDraining == drain \in {"draining", "drained"}

\* getLane(): auto-registers an unknown lane.
WithLane == IF cur = 0 THEN Append(states, NewLane) ELSE states
LaneIndex == IF cur = 0 THEN Len(states) + 1 ELSE cur

\* pump(): how many entries leave the queue, which, and what is left.
RoomOffByOne(ls) == (MaxConcurrent + 1) - Cardinality(ls.active)
Room(ls) == MaxConcurrent - Cardinality(ls.active)

StartedCount(ls) ==
    IF Cardinality(ls.active) >= MaxConcurrent THEN 0
    ELSE IF Len(ls.queue) < Room(ls) THEN Len(ls.queue) ELSE Room(ls)

StartedNewestFirst(ls) ==
    {ls.queue[Len(ls.queue) + 1 - i] : i \in 1..StartedCount(ls)}
Started(ls) == {ls.queue[i] : i \in 1..StartedCount(ls)}

Pumped(ls) ==
    [ls EXCEPT !.queue = SubSeq(@, StartedCount(ls) + 1, Len(@)),
               !.active = @ \cup Started(ls)]

\* pump(key) after the objects have become `ss`; `settled` has the promises.
PumpLane(ss, i, settled) ==
    /\ states' = [ss EXCEPT ![i] = Pumped(@)]
    /\ cur' = i
    /\ promise' = [t \in Tasks |->
                     IF t \in Started(ss[i]) THEN "running" ELSE settled[t]]

-----------------------------------------------------------------------------
\* enqueue(): refused while draining, otherwise queued and pumped at once.
Enqueue(t) ==
    /\ promise[t] = "new"
    /\ \/ /\ IsDraining
          /\ promise' = [promise EXCEPT ![t] = "refused"]
          /\ UNCHANGED <<states, cur, home, gen, id, counter>>
       \/ /\ ~IsDraining
          /\ home' = [home EXCEPT ![t] = LaneIndex]
          /\ gen' = [gen EXCEPT ![t] = WithLane[LaneIndex].generation]
          /\ counter' = counter + 1
          /\ id' = [id EXCEPT ![t] = counter + 1]
          /\ PumpLane([WithLane EXCEPT ![LaneIndex].queue = Append(@, t)],
                      LaneIndex, [promise EXCEPT ![t] = "queued"])
    /\ UNCHANGED <<drain, resets, registry, preReset>>

\* How executeEntry() settles the promise of a task that returned or threw.
OutcomeIgnoresGeneration(t, ok) == IF ok THEN "resolved" ELSE "failed"
Outcome(t, ok) ==
    IF ~ok THEN "failed"
    ELSE IF gen[t] # states[home[t]].generation THEN "cleared" ELSE "resolved"

\* executeEntry() without the pump in `finally`.
CompleteWithoutPump(t) ==
    /\ promise[t] = "running"
    /\ states' = [states EXCEPT ![home[t]].active = @ \ {t}]
    /\ \E ok \in BOOLEAN : promise' = [promise EXCEPT ![t] = Outcome(t, ok)]
    /\ UNCHANGED <<cur, home, gen, id, counter, drain, resets, registry, preReset>>

\* executeEntry() after its await, `finally` included.
Complete(t) ==
    /\ promise[t] = "running"
    /\ \E ok \in BOOLEAN :
         PumpLane([WithLane EXCEPT ![home[t]].active = @ \ {t}], LaneIndex,
                  [promise EXCEPT ![t] = Outcome(t, ok)])
    /\ UNCHANGED <<home, gen, id, counter, drain, resets, registry, preReset>>

\* The entries whose promise is rejected when a lane is reset or dropped.
ClearQueue(i) ==
    promise' = [t \in Tasks |->
                  IF t \in ToSet(states[i].queue) THEN "cleared" ELSE promise[t]]

\* resetAll()
ResetAll ==
    /\ IF cur = 0 THEN UNCHANGED <<states, promise>>
       ELSE /\ states' = [states EXCEPT ![cur] =
                  [queue |-> <<>>, active |-> {}, generation |-> @.generation + 1]]
            /\ ClearQueue(cur)
    /\ preReset' = preReset \cup {t \in Tasks : promise[t] \in Pending /\ home[t] = cur}
    /\ resets' = resets + 1
    /\ UNCHANGED <<cur, home, gen, id, counter, registry>>

\* registerWorkspace(): puts a new LaneState in the map, whatever was there.
Register ==
    /\ states' = Append(states, NewLane)
    /\ cur' = Len(states) + 1
    /\ registry' = registry + 1
    /\ UNCHANGED <<promise, home, gen, id, counter, resets, preReset>>

\* unregisterWorkspace()
Unregister ==
    /\ cur # 0
    /\ ClearQueue(cur)
    /\ cur' = 0
    /\ registry' = registry + 1
    /\ UNCHANGED <<states, home, gen, id, counter, resets, preReset>>

\* Drain.enter(), complete() and reset()
DrainEnter == drain' = IF drain = "idle" THEN "draining" ELSE drain
DrainComplete == drain' = "drained"
DrainReset == drain' = "idle"

-----------------------------------------------------------------------------
Running(i, g) ==
    {t \in Tasks : promise[t] = "running" /\ home[t] = i /\ gen[t] = g}

\* Of the tasks started by one LaneState between two resets, never more than
\* maxConcurrent run at a time, and activeTaskIds lists exactly those of the
\* current generation: late completions from before a reset must not free
\* room that was never theirs.
CapPerGeneration ==
    \A i \in 1..Len(states) :
        /\ states[i].active = Running(i, states[i].generation)
        /\ \A g \in 0..states[i].generation :
              Cardinality(Running(i, g)) <= MaxConcurrent

\* First in, first out: a task never runs before one of its lane that was
\* enqueued earlier and still waits.
Fifo ==
    \A t, u \in Tasks :
        promise[t] = "queued" /\ promise[u] = "running" /\ home[t] = home[u]
            => id[u] < id[t]

\* The caller of a task that was in the registered lane at a resetAll() never
\* gets its result afterwards ("invalidate stale task completions").
StaleNeverResolves ==
    [][\A t \in preReset : promise[t] \in Pending => promise'[t] # "resolved"]_vars

\* Every task that enqueue() accepts has its promise settled, unless its
\* LaneState is taken out of the map under it: nobody pumps a queue that
\* registerWorkspace() has replaced.
EveryTaskSettles ==
    \A t \in Tasks : promise[t] \in Pending ~> promise[t] \in Settled \/ home[t] # cur
=============================================================================
