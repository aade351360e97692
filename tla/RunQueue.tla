------------------------------ MODULE RunQueue ------------------------------
(***************************************************************************)
(* The stored run queue of ONE session: session/queue.ts.  A session has a  *)
(* storage key per lane plus a legacy key, and nothing serialises the calls *)
(* that touch them: enqueue() is called by the notice appender (critical),  *)
(* by the run loop and by the resume supervisor (normal), remove() by       *)
(* cancel, by the model stream's "start" and by the operator.  Every await  *)
(* on a storage key is one step, so two calls may interleave anywhere.      *)
(* Storage reads and writes of one key are atomic (Storage takes that key's *)
(* lock, util/lock.ts).                                                     *)
(***************************************************************************)
EXTENDS Naturals, FiniteSets

CONSTANTS Lanes,    \* LANES_BY_PRIORITY
          Calls,    \* calls of enqueue() and remove(), one execution each
          NoEntry   \* an absent key

ASSUME CallsAssumption == NoEntry \notin Calls
ASSUME LanesAssumption == "legacy" \notin Lanes /\ "none" \notin Lanes

\* "legacy" is ["session_workflow_queue", sid], a lane is ["run_queue", lane, sid].
Keys == Lanes \cup {"legacy"}

VARIABLES
  store,    \* [Keys -> Calls \cup {NoEntry}]: the call that wrote the entry
  pc,       \* [Calls -> where the call is]
  target,   \* [Calls -> the lane an enqueue writes, or "none" for a remove]
  left,     \* [Calls -> the keys remove() has still to delete]
  alone,    \* [Calls -> no other call was in progress during this one]
  last      \* the call that finished last, while nothing has begun after it

queueVars == <<store, pc, target, left, alone, last>>

QueueInit ==
  /\ store = [k \in Keys |-> NoEntry]
  /\ pc = [c \in Calls |-> "idle"]
  /\ target = [c \in Calls |-> "none"]
  /\ left = [c \in Calls |-> {}]
  /\ alone = [c \in Calls |-> TRUE]
  /\ last = NoEntry

InProgress == {c \in Calls : pc[c] \notin {"idle", "done"}}

\* A plausible bug: enqueue() clears only the lane it is about to write.
RemoveOwnLaneOnly(lane) == IF lane = "none" THEN Keys ELSE {lane, "legacy"}

\* LANES_BY_PRIORITY plus the legacy key, whatever lane the caller names.
RemovedKeys(lane) == Keys

\* A call begins: enqueue() starts with remove(), whose deletions run in a
\* Promise.all.  The two history variables record whether calls overlap.
Begin(c, lane) ==
  /\ pc[c] = "idle"
  /\ pc' = [pc EXCEPT ![c] = "removing"]
  /\ target' = [target EXCEPT ![c] = lane]
  /\ left' = [left EXCEPT ![c] = RemovedKeys(lane)]
  /\ alone' = [x \in Calls |->
                 IF x = c THEN InProgress = {}
                 ELSE alone[x] /\ x \notin InProgress]
  /\ last' = NoEntry
  /\ UNCHANGED store

\* Storage.remove of one key; failures are swallowed (the key was absent).
RemoveKey(c, k) ==
  /\ pc[c] = "removing" /\ k \in left[c]
  /\ store' = [store EXCEPT ![k] = NoEntry]
  /\ left' = [left EXCEPT ![c] = @ \ {k}]
  /\ UNCHANGED <<pc, target, alone, last>>

\* The Promise.all settles: remove() returns, enqueue() goes on to write.
Removed(c) ==
  /\ pc[c] = "removing" /\ left[c] = {}
  /\ pc' = [pc EXCEPT ![c] = IF target[c] = "none" THEN "done" ELSE "lane"]
  /\ last' = IF target[c] = "none" THEN c ELSE last
  /\ UNCHANGED <<store, target, left, alone>>

WriteLane(c) ==
  /\ pc[c] = "lane"
  /\ store' = [store EXCEPT ![target[c]] = c]
  /\ pc' = [pc EXCEPT ![c] = "legacy"]
  /\ UNCHANGED <<target, left, alone, last>>

WriteLegacy(c) ==
  /\ pc[c] = "legacy"
  /\ store' = [store EXCEPT !["legacy"] = c]
  /\ pc' = [pc EXCEPT ![c] = "done"]
  /\ last' = c
  /\ UNCHANGED <<target, left, alone>>

QueueNext ==
  \E c \in Calls :
    \/ \E lane \in Lanes \cup {"none"} : Begin(c, lane)
    \/ \E k \in Keys : RemoveKey(c, k)
    \/ Removed(c)
    \/ WriteLane(c)
    \/ WriteLegacy(c)

QueueSpec == QueueInit /\ [][QueueNext]_queueVars

-----------------------------------------------------------------------------
\* State types; only a call that is removing has keys left to remove.
TypeOK ==
  /\ store \in [Keys -> Calls \cup {NoEntry}]
  /\ pc \in [Calls -> {"idle", "removing", "lane", "legacy", "done"}]
  /\ target \in [Calls -> Lanes \cup {"none"}]
  /\ left \in [Calls -> SUBSET Keys]
  /\ alone \in [Calls -> BOOLEAN]
  /\ last \in Calls \cup {NoEntry}
  /\ \A c \in Calls : left[c] # {} => pc[c] = "removing"

\* What RunQueue.enqueue()/remove() promise a caller nobody races: after an
\* enqueue that overlapped no other call the session has exactly that entry, in
\* that lane and under the legacy key, whatever earlier (racing) calls left
\* behind; after such a remove it has none.
UncontendedCallExact ==
  (last # NoEntry /\ alone[last] /\ InProgress = {}) =>
     store = [k \in Keys |-> IF k \in {target[last], "legacy"} /\ target[last] # "none"
                             THEN last ELSE NoEntry]
=============================================================================
