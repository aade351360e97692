------------------------------- MODULE RWLock -------------------------------
(***************************************************************************)
(* util/lock.ts: the in-process readers-writer lock, for one key (keys do  *)
(* not interact).  Lock objects have an identity: the closures of a client *)
(* keep the object they were created with, while process() works on the    *)
(* one the map holds, and an empty lock is deleted from the map.           *)
(***************************************************************************)
EXTENDS Naturals, FiniteSets, Sequences, SequencesExt

CONSTANTS
    Clients,   \* callers of Lock.read and Lock.write
    Objs,      \* identities of lock objects
    NoObj      \* the map has no lock for the key

ASSUME ClientsAssumption == IsFiniteSet(Clients)
ASSUME NoObjAssumption == NoObj \notin Objs

VARIABLES
    cur,    \* the object the map holds for the key, or NoObj
    lock,   \* the fields of every lock object
    obj,    \* the object each client's closures refer to
    pc      \* idle, wantR, wantW (promise pending), reading, writing

vars == <<cur, lock, obj, pc>>

NewLock == [readers |-> 0, writer |-> FALSE,
            waitingReaders |-> <<>>, waitingWriters |-> <<>>]

Init ==
    /\ cur = NoObj
    /\ lock = [o \in Objs |-> NewLock]
    /\ obj = [c \in Clients |-> NoObj]
    /\ pc = [c \in Clients |-> "idle"]

-----------------------------------------------------------------------------
\* get(): the object of the key, or a new one that nobody refers to.
Get(o) ==
    IF cur = NoObj THEN o \in Objs /\ \A c \in Clients : obj[c] # o ELSE o = cur

Got == IF cur = NoObj THEN NewLock ELSE lock[cur]

ReadOvertakesWriters(l) == ~l.writer
ReadIgnoresHolder(l) == l.waitingWriters = <<>>
ReadGranted(l) == ~l.writer /\ l.waitingWriters = <<>>

WriteGranted(l) == ~l.writer /\ l.readers = 0

Read(c) ==
    /\ pc[c] = "idle"
    /\ \E o \in Objs :
        /\ Get(o)
        /\ cur' = o
        /\ obj' = [obj EXCEPT ![c] = o]
        /\ \/ /\ ReadGranted(Got)
              /\ lock' = [lock EXCEPT ![o] = [Got EXCEPT !.readers = @ + 1]]
              /\ pc' = [pc EXCEPT ![c] = "reading"]
           \/ /\ ~ReadGranted(Got)
              /\ lock' = [lock EXCEPT
                    ![o] = [Got EXCEPT !.waitingReaders = Append(@, c)]]
              /\ pc' = [pc EXCEPT ![c] = "wantR"]

Write(c) ==
    /\ pc[c] = "idle"
    /\ \E o \in Objs :
        /\ Get(o)
        /\ cur' = o
        /\ obj' = [obj EXCEPT ![c] = o]
        /\ \/ /\ WriteGranted(Got)
              /\ lock' = [lock EXCEPT ![o] = [Got EXCEPT !.writer = TRUE]]
              /\ pc' = [pc EXCEPT ![c] = "writing"]
           \/ /\ ~WriteGranted(Got)
              /\ lock' = [lock EXCEPT
                    ![o] = [Got EXCEPT !.waitingWriters = Append(@, c)]]
              /\ pc' = [pc EXCEPT ![c] = "wantW"]

-----------------------------------------------------------------------------
(* process(key): the clients it wakes, what it makes of the mapped object, *)
(* and whether it deletes the object.                                      *)

HeldOffByOne(l) == l.writer \/ l.readers >= 0
Held(l) == l.writer \/ l.readers > 0

\* Writers go first, one at a time; with none waiting, all readers go.
WokenWriters(l) ==
    IF Held(l) \/ l.waitingWriters = <<>> THEN {} ELSE {Head(l.waitingWriters)}

WokenReaders(l) ==
    IF Held(l) \/ l.waitingWriters # <<>> THEN {} ELSE ToSet(l.waitingReaders)

Processed(l) ==
    IF Held(l) THEN l
    ELSE IF l.waitingWriters # <<>>
    THEN [l EXCEPT !.writer = TRUE, !.waitingWriters = Tail(@)]
    ELSE [l EXCEPT !.readers = Len(l.waitingReaders), !.waitingReaders = <<>>]

\* The clean-up is reached only if no writer was woken.
Empty(l) == ~Held(l) /\ l.waitingReaders = <<>> /\ l.waitingWriters = <<>>

DisposedLock(c) ==
    IF pc[c] = "reading" THEN [lock[obj[c]] EXCEPT !.readers = @ - 1]
    ELSE [lock[obj[c]] EXCEPT !.writer = FALSE]

\* [Symbol.dispose]() of a client's handle: undo the grant on its own object,
\* then process() the object in the map.
Dispose(c) ==
    /\ pc[c] \in {"reading", "writing"}
    /\ LET disposed == [lock EXCEPT ![obj[c]] = DisposedLock(c)]
       IN IF cur = NoObj
          THEN /\ lock' = disposed
               /\ pc' = [pc EXCEPT ![c] = "idle"]
               /\ UNCHANGED cur
          ELSE LET l == disposed[cur]
               IN /\ lock' = [disposed EXCEPT ![cur] = Processed(l)]
                  /\ cur' = IF Empty(Processed(l)) THEN NoObj ELSE cur
                  /\ pc' = [d \in Clients |->
                              IF d = c THEN "idle"
                              ELSE IF d \in WokenWriters(l) THEN "writing"
                              ELSE IF d \in WokenReaders(l) THEN "reading"
                              ELSE pc[d]]
    /\ obj' = [obj EXCEPT ![c] = NoObj]

Next == \E c \in Clients : Read(c) \/ Write(c) \/ Dispose(c)

Spec == Init /\ [][Next]_vars
FairSpec == Spec /\ \A c \in Clients : WF_vars(Dispose(c))

-----------------------------------------------------------------------------
\* Nobody waits for a lock that nobody holds: the last dispose always hands
\* the lock on.
NoLostWakeup ==
    (\E c \in Clients : pc[c] \in {"wantR", "wantW"})
        => \E c \in Clients : pc[c] \in {"reading", "writing"}

RW == INSTANCE ReadersWriters WITH mode <- pc

\* Every step of lock.ts, wake-ups of several waiters in one dispose included, is
\* a step of an abstract readers-writer lock.
Implements == RW!Safety

\* A waiting writer is served although readers keep coming (process(): "Prioritize
\* writers to prevent starvation").
WriterServed == RW!WriterServed
=============================================================================
