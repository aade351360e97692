---------------------------- MODULE RWLock_proofs ----------------------------
(***************************************************************************)
(* lock.ts implements the abstract readers-writer lock and loses no        *)
(* wake-up, for every finite set of clients and every supply of objects.   *)
(*                                                                         *)
(* The argument is about one lock object and the clients' program counters *)
(* (Matches below): each half of a method - the grant, the queueing, the   *)
(* release, process() - keeps the two in agreement, and the actions are    *)
(* put together from these halves.                                         *)
(***************************************************************************)
EXTENDS RWLock, FiniteSetTheorems, SequenceTheorems, TLAPS

-----------------------------------------------------------------------------
(* Queues of distinct clients.                                             *)

\* waiting.push(c) of a client that is not in the queue.
LEMMA AppendDistinct ==
  ASSUME NEW S, NEW s \in Seq(S), IsInjective(s), NEW x \in S, x \notin ToSet(s)
  PROVE  /\ Append(s, x) \in Seq(S)
         /\ ToSet(Append(s, x)) = ToSet(s) \cup {x}
         /\ IsInjective(Append(s, x))
<1>1. /\ Append(s, x) \in Seq(S)
      /\ DOMAIN Append(s, x) = 1..(Len(s) + 1)
      /\ \A i \in 1..Len(s) : Append(s, x)[i] = s[i]
      /\ Append(s, x)[Len(s) + 1] = x
      /\ Len(s) \in Nat
      /\ DOMAIN s = 1..Len(s)
  OBVIOUS
<1>2. ToSet(Append(s, x)) = ToSet(s) \cup {x}
  BY <1>1 DEF ToSet
<1>3. IsInjective(Append(s, x))
  BY <1>1 DEF ToSet, IsInjective
<1> QED BY <1>1, <1>2, <1>3

\* waitingWriters.shift().
LEMMA TailDistinct ==
  ASSUME NEW S, NEW s \in Seq(S), IsInjective(s), s # <<>>
  PROVE  /\ Tail(s) \in Seq(S)
         /\ Head(s) \in ToSet(s)
         /\ ToSet(Tail(s)) = ToSet(s) \ {Head(s)}
         /\ IsInjective(Tail(s))
<1>1. /\ Tail(s) \in Seq(S)
      /\ DOMAIN Tail(s) = 1..(Len(s) - 1)
      /\ \A i \in 1..(Len(s) - 1) : Tail(s)[i] = s[i + 1]
      /\ Head(s) = s[1]
      /\ Len(s) \in Nat \ {0}
      /\ DOMAIN s = 1..Len(s)
  OBVIOUS
<1>2. Head(s) \in ToSet(s)
  BY <1>1 DEF ToSet
<1>3. IsInjective(Tail(s))
  BY <1>1 DEF IsInjective
<1>4. ASSUME NEW y \in ToSet(Tail(s)) PROVE y \in ToSet(s) /\ y # Head(s)
  BY <1>1 DEF ToSet, IsInjective
<1>5. ASSUME NEW y \in ToSet(s), y # Head(s) PROVE y \in ToSet(Tail(s))
  <2>1. PICK i \in 1..Len(s) : y = s[i]
    BY <1>1 DEF ToSet
  <2>2. i # 1 /\ i - 1 \in 1..(Len(s) - 1) /\ (i - 1) + 1 = i
    BY <1>1, <1>5, <2>1
  <2>3. Tail(s)[i - 1] = y
    BY <1>1, <2>1, <2>2
  <2> QED BY <1>1, <2>2, <2>3 DEF ToSet
<1> QED BY <1>1, <1>2, <1>3, <1>4, <1>5

\* A queue of distinct clients is as long as it has clients: process() sets
\* readers to the number of readers it wakes.
LEMMA LenDistinct ==
  ASSUME NEW S, NEW s \in Seq(S), IsInjective(s)
  PROVE  Cardinality(ToSet(s)) = Len(s)
<1>1. Len(s) \in Nat /\ DOMAIN s = 1..Len(s) /\ s \in [1..Len(s) -> S]
  OBVIOUS
<1>2. s \in Bijection(1..Len(s), ToSet(s))
  <2>1. s \in [1..Len(s) -> ToSet(s)]
    BY <1>1 DEF ToSet
  <2> QED BY <1>1, <2>1 DEF ToSet, IsInjective, Bijection, Injection, Surjection
<1>3. ExistsBijection(1..Len(s), ToSet(s))
  BY <1>2 DEF ExistsBijection
<1> QED BY <1>1, <1>3, FS_CountingElements

-----------------------------------------------------------------------------
(* One lock object and the clients' program counters.                      *)

LockType == [readers : Nat, writer : BOOLEAN,
             waitingReaders : Seq(Clients), waitingWriters : Seq(Clients)]

In(p, m) == {c \in Clients : p[c] = m}

\* The fields of the object are what the program counters say: it counts the
\* readers, knows of the writer, and queues each waiting client once.
Matches(l, p) ==
  /\ l \in LockType
  /\ l.readers = Cardinality(In(p, "reading"))
  /\ l.writer = (In(p, "writing") # {})
  /\ ToSet(l.waitingReaders) = In(p, "wantR") /\ IsInjective(l.waitingReaders)
  /\ ToSet(l.waitingWriters) = In(p, "wantW") /\ IsInjective(l.waitingWriters)

\* Any set of clients can be counted.
LEMMA CountIn ==
  ASSUME NEW p, NEW m
  PROVE  /\ IsFiniteSet(In(p, m))
         /\ Cardinality(In(p, m)) \in Nat
         /\ Cardinality(In(p, m)) = 0 <=> In(p, m) = {}
<1>1. In(p, m) \in SUBSET Clients
  BY DEF In
<1>2. IsFiniteSet(In(p, m))
  BY <1>1, ClientsAssumption, FS_Subset
<1> QED BY <1>2, FS_CardinalityType, FS_EmptySet

\* The object is held iff some client holds it.
LEMMA HeldMeans ==
  ASSUME NEW l, NEW p, Matches(l, p)
  PROVE  Held(l) <=> In(p, "reading") # {} \/ In(p, "writing") # {}
BY CountIn DEF Matches, Held, LockType

\* A new object, for a key nobody uses.
LEMMA NewLockMatches ==
  ASSUME NEW p \in [Clients -> RW!Modes], \A c \in Clients : p[c] = "idle"
  PROVE  Matches(NewLock, p)
<1>1. NewLock \in LockType
  BY DEF NewLock, LockType
<1>2. \A m : m # "idle" => In(p, m) = {}
  BY DEF In
<1>3. ToSet(<<>>) = {} /\ IsInjective(<<>>)
  BY DEF ToSet, IsInjective
<1> QED BY <1>1, <1>2, <1>3, CountIn DEF Matches, NewLock

\* read() that is granted: readers++.
LEMMA GrantRead ==
  ASSUME NEW l, NEW p \in [Clients -> RW!Modes], Matches(l, p),
         NEW c \in Clients, p[c] = "idle"
  PROVE  Matches([l EXCEPT !.readers = @ + 1], [p EXCEPT ![c] = "reading"])
<1> DEFINE q == [p EXCEPT ![c] = "reading"]
<1>1. /\ In(q, "reading") = In(p, "reading") \cup {c} /\ c \notin In(p, "reading")
      /\ \A n : n # "reading" /\ n # "idle" => In(q, n) = In(p, n)
  BY DEF In
<1>2. Cardinality(In(q, "reading")) = l.readers + 1
  BY <1>1, CountIn, FS_AddElement DEF Matches
<1> HIDE DEF q
<1>3. Matches([l EXCEPT !.readers = @ + 1], q)
  BY <1>1, <1>2 DEF Matches, LockType
<1> QED BY <1>3 DEF q

\* read() that has to wait.
LEMMA QueueReader ==
  ASSUME NEW l, NEW p \in [Clients -> RW!Modes], Matches(l, p),
         NEW c \in Clients, p[c] = "idle"
  PROVE  Matches([l EXCEPT !.waitingReaders = Append(@, c)],
                 [p EXCEPT ![c] = "wantR"])
<1> DEFINE q == [p EXCEPT ![c] = "wantR"]
<1>1. /\ In(q, "wantR") = In(p, "wantR") \cup {c} /\ c \notin In(p, "wantR")
      /\ \A n : n # "wantR" /\ n # "idle" => In(q, n) = In(p, n)
  BY DEF In
<1> HIDE DEF q
<1>2. /\ Append(l.waitingReaders, c) \in Seq(Clients)
      /\ ToSet(Append(l.waitingReaders, c)) = In(q, "wantR")
      /\ IsInjective(Append(l.waitingReaders, c))
  <2>1. /\ l.waitingReaders \in Seq(Clients) /\ IsInjective(l.waitingReaders)
        /\ ToSet(l.waitingReaders) = In(p, "wantR")
    BY DEF Matches, LockType
  <2>2. c \notin ToSet(l.waitingReaders)
    BY <1>1, <2>1
  <2>3. /\ Append(l.waitingReaders, c) \in Seq(Clients)
        /\ ToSet(Append(l.waitingReaders, c)) = ToSet(l.waitingReaders) \cup {c}
        /\ IsInjective(Append(l.waitingReaders, c))
    BY <2>1, <2>2, AppendDistinct, Zenon
  <2> QED BY <1>1, <2>1, <2>3
<1>3. Matches([l EXCEPT !.waitingReaders = Append(@, c)], q)
  BY <1>1, <1>2 DEF Matches, LockType
<1> QED BY <1>3 DEF q

\* write() that is granted.
LEMMA GrantWrite ==
  ASSUME NEW l, NEW p \in [Clients -> RW!Modes], Matches(l, p),
         NEW c \in Clients, p[c] = "idle"
  PROVE  Matches([l EXCEPT !.writer = TRUE], [p EXCEPT ![c] = "writing"])
<1> DEFINE q == [p EXCEPT ![c] = "writing"]
<1>1. /\ In(q, "writing") = In(p, "writing") \cup {c}
      /\ \A n : n # "writing" /\ n # "idle" => In(q, n) = In(p, n)
  BY DEF In
<1> HIDE DEF q
<1>2. In(q, "writing") # {}
  BY <1>1
<1>3. Matches([l EXCEPT !.writer = TRUE], q)
  BY <1>1, <1>2 DEF Matches, LockType
<1> QED BY <1>3 DEF q

\* write() that has to wait.
LEMMA QueueWriter ==
  ASSUME NEW l, NEW p \in [Clients -> RW!Modes], Matches(l, p),
         NEW c \in Clients, p[c] = "idle"
  PROVE  Matches([l EXCEPT !.waitingWriters = Append(@, c)],
                 [p EXCEPT ![c] = "wantW"])
<1> DEFINE q == [p EXCEPT ![c] = "wantW"]
<1>1. /\ In(q, "wantW") = In(p, "wantW") \cup {c} /\ c \notin In(p, "wantW")
      /\ \A n : n # "wantW" /\ n # "idle" => In(q, n) = In(p, n)
  BY DEF In
<1> HIDE DEF q
<1>2. /\ Append(l.waitingWriters, c) \in Seq(Clients)
      /\ ToSet(Append(l.waitingWriters, c)) = In(q, "wantW")
      /\ IsInjective(Append(l.waitingWriters, c))
  <2>1. /\ l.waitingWriters \in Seq(Clients) /\ IsInjective(l.waitingWriters)
        /\ ToSet(l.waitingWriters) = In(p, "wantW")
    BY DEF Matches, LockType
  <2>2. c \notin ToSet(l.waitingWriters)
    BY <1>1, <2>1
  <2>3. /\ Append(l.waitingWriters, c) \in Seq(Clients)
        /\ ToSet(Append(l.waitingWriters, c)) = ToSet(l.waitingWriters) \cup {c}
        /\ IsInjective(Append(l.waitingWriters, c))
    BY <2>1, <2>2, AppendDistinct, Zenon
  <2> QED BY <1>1, <2>1, <2>3
<1>3. Matches([l EXCEPT !.waitingWriters = Append(@, c)], q)
  BY <1>1, <1>2 DEF Matches, LockType
<1> QED BY <1>3 DEF q

\* dispose() of a reader: readers--, and somebody was counted.
LEMMA ReleaseRead ==
  ASSUME NEW l, NEW p \in [Clients -> RW!Modes], Matches(l, p),
         NEW c \in Clients, p[c] = "reading"
  PROVE  Matches([l EXCEPT !.readers = @ - 1], [p EXCEPT ![c] = "idle"])
<1> DEFINE q == [p EXCEPT ![c] = "idle"]
<1>1. /\ In(q, "reading") = In(p, "reading") \ {c} /\ c \in In(p, "reading")
      /\ \A n : n # "reading" /\ n # "idle" => In(q, n) = In(p, n)
  BY DEF In
<1> HIDE DEF q
<1>2. Cardinality(In(q, "reading")) = l.readers - 1
  <2>1. IsFiniteSet(In(p, "reading"))
    BY CountIn
  <2>2. Cardinality(In(p, "reading") \ {c}) = Cardinality(In(p, "reading")) - 1
    BY <1>1, <2>1, FS_RemoveElement
  <2> QED BY <1>1, <2>2 DEF Matches
<1>3. l.readers - 1 \in Nat
  BY <1>2, CountIn
<1>4. Matches([l EXCEPT !.readers = @ - 1], q)
  BY <1>1, <1>2, <1>3 DEF Matches, LockType
<1> QED BY <1>4 DEF q

\* dispose() of the writer: it was the only one.
LEMMA ReleaseWrite ==
  ASSUME NEW l, NEW p \in [Clients -> RW!Modes], Matches(l, p), RW!Exclusive(p),
         NEW c \in Clients, p[c] = "writing"
  PROVE  Matches([l EXCEPT !.writer = FALSE], [p EXCEPT ![c] = "idle"])
<1> DEFINE q == [p EXCEPT ![c] = "idle"]
<1>1. /\ In(q, "writing") = In(p, "writing") \ {c}
      /\ \A n : n # "writing" /\ n # "idle" => In(q, n) = In(p, n)
  BY DEF In
<1>2. In(q, "writing") = {}
  BY <1>1 DEF RW!Exclusive, In
<1> HIDE DEF q
<1>3. Matches([l EXCEPT !.writer = FALSE], q)
  BY <1>1, <1>2 DEF Matches, LockType
<1> QED BY <1>3 DEF q

-----------------------------------------------------------------------------
(* process(key)                                                            *)

\* The program counters after process() has resolved the promises it picked.
Woken(l, p) ==
  [d \in Clients |-> IF d \in WokenWriters(l) THEN "writing"
                     ELSE IF d \in WokenReaders(l) THEN "reading" ELSE p[d]]

\* Some client waits, some client holds the lock.
Waits(p) == \E c \in Clients : p[c] \in {"wantR", "wantW"}
Holds(p) == \E c \in Clients : p[c] \in {"reading", "writing"}

\* What process() leaves: object and clients agree, clients move only from
\* waiting to holding, a writer is alone, no one waits for a free lock, and an
\* object that is deleted is in nobody's hands.
Handed(l, p) ==
  /\ Woken(l, p) \in [Clients -> RW!Modes]
  /\ Matches(Processed(l), Woken(l, p))
  /\ RW!Exclusive(Woken(l, p))
  /\ \A d \in Clients : \/ Woken(l, p)[d] = p[d]
                        \/ (p[d] = "wantR" /\ Woken(l, p)[d] = "reading")
                        \/ (p[d] = "wantW" /\ Woken(l, p)[d] = "writing")
  /\ Waits(Woken(l, p)) => Holds(Woken(l, p))

\* A lock still held is left alone.
LEMMA ProcessHeld ==
  ASSUME NEW l, NEW p \in [Clients -> RW!Modes], Matches(l, p), RW!Exclusive(p),
         Held(l)
  PROVE  Handed(l, p)
<1>1. WokenWriters(l) = {} /\ WokenReaders(l) = {} /\ Processed(l) = l
  BY DEF WokenWriters, WokenReaders, Processed
<1>2. Woken(l, p) = p
  BY <1>1 DEF Woken
<1>3. Holds(p)
  BY HeldMeans DEF Holds, In
<1> QED BY <1>1, <1>2, <1>3 DEF Handed

\* The first waiting writer gets a free lock.
LEMMA ProcessWriter ==
  ASSUME NEW l, NEW p \in [Clients -> RW!Modes], Matches(l, p),
         ~Held(l), l.waitingWriters # <<>>
  PROVE  Handed(l, p)
<1> DEFINE w == Head(l.waitingWriters)
           q == Woken(l, p)
<1>1. /\ l.waitingWriters \in Seq(Clients) /\ IsInjective(l.waitingWriters)
      /\ ToSet(l.waitingWriters) = In(p, "wantW")
  BY DEF Matches, LockType
<1>2. /\ Tail(l.waitingWriters) \in Seq(Clients)
      /\ w \in In(p, "wantW")
      /\ ToSet(Tail(l.waitingWriters)) = In(p, "wantW") \ {w}
      /\ IsInjective(Tail(l.waitingWriters))
  BY <1>1, TailDistinct, Zenon
<1>3. WokenWriters(l) = {w} /\ WokenReaders(l) = {}
  BY DEF WokenWriters, WokenReaders
<1>4. In(p, "reading") = {} /\ In(p, "writing") = {}
  BY HeldMeans
<1> HIDE DEF w
<1>5. q = [p EXCEPT ![w] = "writing"]
  BY <1>2, <1>3 DEF Woken, In
<1>6. w \in Clients /\ p[w] = "wantW"
  BY <1>2 DEF In
<1> HIDE DEF q
<1>7. /\ In(q, "reading") = {} /\ In(q, "writing") = {w}
      /\ In(q, "wantR") = In(p, "wantR") /\ In(q, "wantW") = In(p, "wantW") \ {w}
  BY <1>4, <1>5, <1>6 DEF In
<1>8. Processed(l) = [l EXCEPT !.writer = TRUE, !.waitingWriters = Tail(@)]
  BY DEF Processed
<1>9. Matches(Processed(l), q)
  <2>1. /\ l \in LockType /\ l.readers = 0
        /\ ToSet(l.waitingReaders) = In(p, "wantR") /\ IsInjective(l.waitingReaders)
    BY <1>4, CountIn DEF Matches
  <2>2. Cardinality(In(q, "reading")) = 0
    BY <1>7, CountIn
  <2> DEFINE tl == Tail(l.waitingWriters)
  <2>3. Processed(l) = [l EXCEPT !.writer = TRUE, !.waitingWriters = tl]
    BY <1>8, <2>1 DEF LockType
  <2>4. tl \in Seq(Clients) /\ ToSet(tl) = In(q, "wantW") /\ IsInjective(tl)
    BY <1>2, <1>7
  <2> HIDE DEF tl
  <2>5. /\ Processed(l) \in LockType
        /\ Processed(l).readers = 0 /\ Processed(l).writer = TRUE
        /\ Processed(l).waitingReaders = l.waitingReaders
        /\ Processed(l).waitingWriters = tl
    BY <2>1, <2>3, <2>4 DEF LockType
  <2> QED BY <1>7, <2>1, <2>2, <2>4, <2>5 DEF Matches
<1>10. /\ q \in [Clients -> RW!Modes]
       /\ RW!Exclusive(q)
       /\ \A d \in Clients : q[d] = p[d] \/ (p[d] = "wantW" /\ q[d] = "writing")
       /\ Holds(q)
  <2>1. q \in [Clients -> RW!Modes]
    BY <1>5, <1>6 DEF RW!Modes
  <2>2. RW!Exclusive(q)
    BY <1>7 DEF RW!Exclusive, In
  <2>3. \A d \in Clients : q[d] = p[d] \/ (p[d] = "wantW" /\ q[d] = "writing")
    <3>1. \A d \in Clients : q[d] = IF d = w THEN "writing" ELSE p[d]
      BY <1>5
    <3> QED BY <1>6, <3>1
  <2>4. Holds(q)
    BY <1>5, <1>6 DEF Holds
  <2> QED BY <2>1, <2>2, <2>3, <2>4
<1> QED BY <1>9, <1>10 DEF Handed, q

\* With no writer waiting, all waiting readers get a free lock.
LEMMA ProcessReaders ==
  ASSUME NEW l, NEW p \in [Clients -> RW!Modes], Matches(l, p),
         ~Held(l), l.waitingWriters = <<>>
  PROVE  Handed(l, p)
<1> DEFINE q == Woken(l, p)
<1>1. /\ l.waitingReaders \in Seq(Clients) /\ IsInjective(l.waitingReaders)
      /\ ToSet(l.waitingReaders) = In(p, "wantR")
      /\ ToSet(<<>>) = In(p, "wantW")
  BY DEF Matches, LockType
<1>2. ToSet(<<>>) = {} /\ IsInjective(<<>>)
  BY DEF ToSet, IsInjective
<1>3. WokenWriters(l) = {} /\ WokenReaders(l) = In(p, "wantR")
  BY <1>1 DEF WokenWriters, WokenReaders
<1>4. In(p, "reading") = {} /\ In(p, "writing") = {} /\ In(p, "wantW") = {}
  BY <1>1, <1>2, HeldMeans
<1>5. q = [d \in Clients |-> IF p[d] = "wantR" THEN "reading" ELSE p[d]]
  BY <1>3 DEF Woken, In
<1> HIDE DEF q
<1>6. /\ In(q, "reading") = In(p, "wantR") /\ In(q, "writing") = {}
      /\ In(q, "wantR") = {} /\ In(q, "wantW") = {}
  BY <1>4, <1>5 DEF In
<1>7. Cardinality(In(q, "reading")) = Len(l.waitingReaders)
  BY <1>1, <1>6, LenDistinct
<1>8. Processed(l) = [l EXCEPT !.readers = Len(l.waitingReaders), !.waitingReaders = <<>>]
  BY DEF Processed
<1>9. Matches(Processed(l), q)
  <2>1. l \in LockType /\ l.writer = FALSE
    BY <1>4 DEF Matches
  <2>2. Len(l.waitingReaders) \in Nat
    BY <1>1
  <2>3. /\ Processed(l) \in LockType
        /\ Processed(l).readers = Len(l.waitingReaders)
        /\ Processed(l).writer = FALSE
        /\ Processed(l).waitingReaders = <<>> /\ Processed(l).waitingWriters = <<>>
    BY <1>8, <2>1, <2>2 DEF LockType
  <2> QED BY <1>2, <1>6, <1>7, <2>3 DEF Matches
<1>10. /\ q \in [Clients -> RW!Modes]
       /\ RW!Exclusive(q)
       /\ \A d \in Clients : q[d] = p[d] \/ (p[d] = "wantR" /\ q[d] = "reading")
       /\ ~Waits(q)
  <2>1. q \in [Clients -> RW!Modes]
    BY <1>5 DEF RW!Modes
  <2>2. RW!Exclusive(q)
    BY <1>6 DEF RW!Exclusive, In
  <2>3. \A d \in Clients : q[d] = p[d] \/ (p[d] = "wantR" /\ q[d] = "reading")
    <3>1. \A d \in Clients : q[d] = IF p[d] = "wantR" THEN "reading" ELSE p[d]
      BY <1>5
    <3> QED BY <3>1
  <2>4. ~Waits(q)
    BY <1>6 DEF Waits, In
  <2> QED BY <2>1, <2>2, <2>3, <2>4
<1> QED BY <1>9, <1>10 DEF Handed, q

\* process() in all its cases.
LEMMA ProcessHands ==
  ASSUME NEW l, NEW p \in [Clients -> RW!Modes], Matches(l, p), RW!Exclusive(p)
  PROVE  Handed(l, p)
BY ProcessHeld, ProcessWriter, ProcessReaders

\* The clean-up deletes only an object no client refers to.
LEMMA EmptyIsUnused ==
  ASSUME NEW l, NEW p \in [Clients -> RW!Modes], Matches(l, p), Empty(l)
  PROVE  \A c \in Clients : p[c] = "idle"
<1>1. In(p, "reading") = {} /\ In(p, "writing") = {}
  BY HeldMeans DEF Empty
<1>2. ToSet(<<>>) = {}
  BY DEF ToSet
<1>3. In(p, "wantR") = {} /\ In(p, "wantW") = {}
  BY <1>2 DEF Matches, Empty
<1> QED BY <1>1, <1>3 DEF In, RW!Modes

-----------------------------------------------------------------------------
(* The specification.                                                      *)

\* Every client that is not idle refers to the object in the map, which agrees
\* with the program counters; without an object all clients are idle.
IInv ==
  /\ cur \in Objs \cup {NoObj}
  /\ lock \in [Objs -> LockType]
  /\ pc \in [Clients -> RW!Modes]
  /\ obj = [c \in Clients |-> IF pc[c] = "idle" THEN NoObj ELSE cur]
  /\ IF cur = NoObj THEN \A c \in Clients : pc[c] = "idle" ELSE Matches(lock[cur], pc)
  /\ RW!Exclusive(pc)
  /\ Waits(pc) => Holds(pc)

\* Nobody has asked yet.
LEMMA InitIInv == Init => IInv
<1> SUFFICES ASSUME Init PROVE IInv
  OBVIOUS
<1>1. NewLock \in LockType
  BY DEF NewLock, LockType
<1>2. pc \in [Clients -> RW!Modes] /\ \A c \in Clients : pc[c] = "idle"
  BY DEF Init, RW!Modes
<1>3. obj = [c \in Clients |-> IF pc[c] = "idle" THEN NoObj ELSE cur]
  BY DEF Init
<1>4. RW!Exclusive(pc) /\ ~Waits(pc)
  BY <1>2 DEF RW!Exclusive, Waits
<1> QED BY <1>1, <1>2, <1>3, <1>4 DEF Init, IInv

\* get() returns an object that agrees with the program counters.
LEMMA GotMatches == IInv => Matches(Got, pc)
BY NewLockMatches DEF IInv, Got

\* What a grant to client c must bring about for the invariant and the abstract
\* step to follow.
LEMMA AskStep ==
  ASSUME IInv, NEW c \in Clients, NEW o \in Objs, NEW m \in RW!Modes, NEW l,
         pc[c] = "idle", <<"idle", m>> \in RW!Moves,
         Get(o), cur' = o, obj' = [obj EXCEPT ![c] = o],
         lock' = [lock EXCEPT ![o] = l], pc' = [pc EXCEPT ![c] = m],
         Matches(l, [pc EXCEPT ![c] = m]),
         RW!Exclusive([pc EXCEPT ![c] = m]),
         Waits([pc EXCEPT ![c] = m]) => Holds([pc EXCEPT ![c] = m])
  PROVE  IInv' /\ RW!Step
<1>1. pc' \in [Clients -> RW!Modes] /\ pc'[c] = m /\ m # "idle"
  BY DEF IInv, RW!Moves
<1>2. o # NoObj
  BY NoObjAssumption
<1>3. l \in LockType
  BY DEF Matches
<1>4. lock' \in [Objs -> LockType] /\ lock'[o] = l
  BY <1>3 DEF IInv
<1>5. obj' = [d \in Clients |-> IF pc'[d] = "idle" THEN NoObj ELSE cur']
  <2>1. \A d \in Clients : pc[d] # "idle" => cur = o
    BY DEF IInv, Get
  <2>2. \A d \in Clients : obj'[d] = IF d = c THEN o ELSE obj[d]
    BY DEF IInv
  <2>3. \A d \in Clients : pc'[d] = IF d = c THEN m ELSE pc[d]
    BY DEF IInv
  <2>4. \A d \in Clients : obj[d] = IF pc[d] = "idle" THEN NoObj ELSE cur
    BY DEF IInv
  <2>5. \A d \in Clients : obj'[d] = IF pc'[d] = "idle" THEN NoObj ELSE cur'
    BY <1>1, <2>1, <2>2, <2>3, <2>4
  <2>6. obj' = [d \in Clients |-> obj'[d]]
    BY DEF IInv
  <2> QED BY <2>5, <2>6
<1>6. IInv'
  BY <1>1, <1>2, <1>4, <1>5 DEF IInv
<1>7. RW!Step
  <2>1. \A d \in Clients : pc'[d] = pc[d] \/ <<pc[d], pc'[d]>> \in RW!Moves
    BY DEF IInv
  <2> QED BY <1>1, <2>1 DEF RW!Step
<1> QED BY <1>6, <1>7

\* Lock.read(), granted or queued.
LEMMA ReadStep ==
  ASSUME IInv, NEW c \in Clients, Read(c)
  PROVE  IInv' /\ RW!Step
<1>1. PICK o \in Objs : Read(c)!2!(o)
  BY DEF Read
<1>2. pc \in [Clients -> RW!Modes] /\ pc[c] = "idle" /\ Matches(Got, pc)
  BY GotMatches DEF IInv, Read
<1>3. CASE ReadGranted(Got)
  <2> DEFINE q == [pc EXCEPT ![c] = "reading"]
  <2>1. Matches([Got EXCEPT !.readers = @ + 1], q)
    BY <1>2, GrantRead
  <2>2. In(pc, "writing") = {}
    BY <1>2, <1>3 DEF Matches, ReadGranted
  <2>3. RW!Exclusive(q) /\ Holds(q)
    BY <1>2, <2>2 DEF RW!Exclusive, Holds, In
  <2>4. "reading" \in RW!Modes /\ <<"idle", "reading">> \in RW!Moves
    BY DEF RW!Modes, RW!Moves
  <2> QED BY <1>1, <1>2, <1>3, <2>1, <2>3, <2>4, AskStep
<1>4. CASE ~ReadGranted(Got)
  <2> DEFINE q == [pc EXCEPT ![c] = "wantR"]
  <2>1. Matches([Got EXCEPT !.waitingReaders = Append(@, c)], q)
    BY <1>2, QueueReader
  <2>2. Holds(pc)
    <3>1. CASE Got.writer
      BY <1>2, <3>1 DEF Matches, Holds, In
    <3>2. CASE Got.waitingWriters # <<>>
      <4>1. /\ Got.waitingWriters \in Seq(Clients) /\ IsInjective(Got.waitingWriters)
            /\ ToSet(Got.waitingWriters) = In(pc, "wantW")
        BY <1>2 DEF Matches, LockType
      <4>2. Head(Got.waitingWriters) \in ToSet(Got.waitingWriters)
        BY <3>2, <4>1, TailDistinct, Zenon
      <4> QED BY <4>1, <4>2 DEF IInv, Waits, In
    <3> QED BY <1>4, <3>1, <3>2 DEF ReadGranted
  <2>3. RW!Exclusive(q) /\ Holds(q)
    BY <1>2, <2>2 DEF RW!Exclusive, Holds, IInv
  <2>4. "wantR" \in RW!Modes /\ <<"idle", "wantR">> \in RW!Moves
    BY DEF RW!Modes, RW!Moves
  <2> QED BY <1>1, <1>2, <1>4, <2>1, <2>3, <2>4, AskStep
<1> QED BY <1>3, <1>4

\* Lock.write(), granted or queued.
LEMMA WriteStep ==
  ASSUME IInv, NEW c \in Clients, Write(c)
  PROVE  IInv' /\ RW!Step
<1>1. PICK o \in Objs : Write(c)!2!(o)
  BY DEF Write
<1>2. pc \in [Clients -> RW!Modes] /\ pc[c] = "idle" /\ Matches(Got, pc)
  BY GotMatches DEF IInv, Write
<1>3. CASE WriteGranted(Got)
  <2> DEFINE q == [pc EXCEPT ![c] = "writing"]
  <2>1. Matches([Got EXCEPT !.writer = TRUE], q)
    BY <1>2, GrantWrite
  <2>2. In(pc, "writing") = {} /\ In(pc, "reading") = {}
    BY <1>2, <1>3, CountIn DEF Matches, WriteGranted
  <2>3. RW!Exclusive(q) /\ Holds(q)
    BY <1>2, <2>2 DEF RW!Exclusive, Holds, In
  <2>4. "writing" \in RW!Modes /\ <<"idle", "writing">> \in RW!Moves
    BY DEF RW!Modes, RW!Moves
  <2> QED BY <1>1, <1>2, <1>3, <2>1, <2>3, <2>4, AskStep
<1>4. CASE ~WriteGranted(Got)
  <2> DEFINE q == [pc EXCEPT ![c] = "wantW"]
  <2>1. Matches([Got EXCEPT !.waitingWriters = Append(@, c)], q)
    BY <1>2, QueueWriter
  <2>2. Holds(pc)
    <3>1. Held(Got)
      BY <1>2, <1>4 DEF Held, WriteGranted, Matches, LockType
    <3> QED BY <1>2, <3>1, HeldMeans DEF Holds, In
  <2>3. RW!Exclusive(q) /\ Holds(q)
    BY <1>2, <2>2 DEF RW!Exclusive, Holds, IInv
  <2>4. "wantW" \in RW!Modes /\ <<"idle", "wantW">> \in RW!Moves
    BY DEF RW!Modes, RW!Moves
  <2> QED BY <1>1, <1>2, <1>4, <2>1, <2>3, <2>4, AskStep
<1> QED BY <1>3, <1>4

\* The disposer's closure refers to the object in the map, and that object
\* agrees with the program counters once the grant is undone.
LEMMA DisposedMatches ==
  ASSUME IInv, NEW c \in Clients, pc[c] \in {"reading", "writing"}
  PROVE  /\ cur \in Objs /\ cur # NoObj /\ obj[c] = cur
         /\ [pc EXCEPT ![c] = "idle"] \in [Clients -> RW!Modes]
         /\ Matches(DisposedLock(c), [pc EXCEPT ![c] = "idle"])
         /\ RW!Exclusive([pc EXCEPT ![c] = "idle"])
<1>1. cur \in Objs /\ cur # NoObj /\ obj[c] = cur
  BY DEF IInv
<1>2. pc \in [Clients -> RW!Modes] /\ Matches(lock[cur], pc) /\ RW!Exclusive(pc)
  BY <1>1 DEF IInv
<1>3. [pc EXCEPT ![c] = "idle"] \in [Clients -> RW!Modes]
  BY <1>2 DEF RW!Modes
<1>4. RW!Exclusive([pc EXCEPT ![c] = "idle"])
  BY <1>2 DEF RW!Exclusive
<1>5. CASE pc[c] = "reading"
  <2>1. DisposedLock(c) = [lock[cur] EXCEPT !.readers = @ - 1]
    BY <1>1, <1>5 DEF DisposedLock
  <2>2. Matches([lock[cur] EXCEPT !.readers = @ - 1], [pc EXCEPT ![c] = "idle"])
    BY <1>2, <1>5, ReleaseRead
  <2> QED BY <1>1, <1>3, <1>4, <2>1, <2>2
<1>6. CASE pc[c] = "writing"
  <2>1. DisposedLock(c) = [lock[cur] EXCEPT !.writer = FALSE]
    BY <1>1, <1>6 DEF DisposedLock
  <2>2. Matches([lock[cur] EXCEPT !.writer = FALSE], [pc EXCEPT ![c] = "idle"])
    BY <1>2, <1>6, ReleaseWrite
  <2> QED BY <1>1, <1>3, <1>4, <2>1, <2>2
<1> QED BY <1>5, <1>6

\* [Symbol.dispose](): the release and the hand-over are one abstract step.
LEMMA DisposeStep ==
  ASSUME IInv, NEW c \in Clients, Dispose(c)
  PROVE  IInv' /\ RW!Step
<1> DEFINE l == DisposedLock(c)
           p == [pc EXCEPT ![c] = "idle"]
           q == Woken(l, p)
<1>1. pc[c] \in {"reading", "writing"}
  BY DEF Dispose
<1>2. /\ cur \in Objs /\ cur # NoObj /\ obj[c] = cur
      /\ p \in [Clients -> RW!Modes] /\ Matches(l, p) /\ RW!Exclusive(p)
  BY <1>1, DisposedMatches
<1>3. Handed(l, p)
  BY <1>2, ProcessHands
<1>4. lock \in [Objs -> LockType] /\ pc \in [Clients -> RW!Modes]
  BY DEF IInv
<1> HIDE DEF l
<1>5. /\ lock' = [lock EXCEPT ![cur] = Processed(l)]
      /\ cur' = IF Empty(Processed(l)) THEN NoObj ELSE cur
      /\ pc' = [d \in Clients |-> IF d = c THEN "idle"
                                  ELSE IF d \in WokenWriters(l) THEN "writing"
                                  ELSE IF d \in WokenReaders(l) THEN "reading"
                                  ELSE pc[d]]
      /\ obj' = [obj EXCEPT ![c] = NoObj]
  <2>1. [lock EXCEPT ![cur] = l][cur] = l
    BY <1>2, <1>4
  <2>2. [[lock EXCEPT ![cur] = l] EXCEPT ![cur] = Processed(l)]
          = [lock EXCEPT ![cur] = Processed(l)]
    BY <1>2, <1>4
  <2> QED BY <1>2, <2>1, <2>2 DEF Dispose, l
<1>6. c \notin WokenWriters(l) /\ c \notin WokenReaders(l)
  <2>1. p[c] = "idle"
    BY <1>4
  <2>2. q[c] = "idle"
    BY <1>3, <2>1 DEF Handed
  <2> QED BY <2>2 DEF Woken
<1>7. pc' = q
  BY <1>4, <1>5, <1>6 DEF Woken
<1> HIDE DEF q
<1>8. /\ q \in [Clients -> RW!Modes] /\ Matches(Processed(l), q) /\ RW!Exclusive(q)
      /\ Waits(q) => Holds(q)
      /\ \A d \in Clients : \/ q[d] = p[d]
                            \/ (p[d] = "wantR" /\ q[d] = "reading")
                            \/ (p[d] = "wantW" /\ q[d] = "writing")
  BY <1>3 DEF Handed, q
<1>9. \A d \in Clients : p[d] = IF d = c THEN "idle" ELSE pc[d]
  BY <1>4
<1> HIDE DEF p
<1>10. \A d \in Clients : q[d] = "idle" <=> p[d] = "idle"
  BY <1>8
<1>11. cur' = NoObj => \A d \in Clients : q[d] = "idle"
  BY <1>2, <1>5, <1>8, EmptyIsUnused
<1>12. obj' = [d \in Clients |-> IF pc'[d] = "idle" THEN NoObj ELSE cur']
  <2>1. \A d \in Clients : obj'[d] = IF d = c THEN NoObj ELSE obj[d]
    BY <1>5 DEF IInv
  <2>2. \A d \in Clients : obj[d] = IF pc[d] = "idle" THEN NoObj ELSE cur
    BY DEF IInv
  <2>3. cur' # NoObj => cur' = cur
    BY <1>5
  <2>4. \A d \in Clients : obj'[d] = IF q[d] = "idle" THEN NoObj ELSE cur'
    BY <1>9, <1>10, <1>11, <2>1, <2>2, <2>3
  <2>5. obj' = [d \in Clients |-> obj'[d]]
    BY <1>5 DEF IInv
  <2> QED BY <1>7, <2>4, <2>5
<1>13. IInv'
  <2>1. Processed(l) \in LockType
    BY <1>8 DEF Matches
  <2>2. lock' \in [Objs -> LockType] /\ lock'[cur] = Processed(l)
    BY <1>2, <1>4, <1>5, <2>1
  <2>3. cur' \in Objs \cup {NoObj} /\ (cur' # NoObj => lock'[cur'] = Processed(l))
    BY <1>2, <1>5, <2>2
  <2> QED BY <1>7, <1>8, <1>11, <1>12, <2>2, <2>3 DEF IInv
<1>14. RW!Step
  <2>1. ASSUME NEW d \in Clients PROVE pc'[d] = pc[d] \/ <<pc[d], pc'[d]>> \in RW!Moves
    <3>1. CASE d = c
      BY <1>1, <1>7, <1>9, <1>10, <3>1 DEF RW!Moves
    <3>2. CASE d # c
      BY <1>7, <1>8, <1>9, <3>2 DEF RW!Moves
    <3> QED BY <3>1, <3>2
  <2> QED BY <1>7, <1>8, <2>1 DEF RW!Step
<1> QED BY <1>13, <1>14

\* Every step of the lock keeps the invariant and is a step of the abstract lock.
LEMMA NextStep ==
  ASSUME IInv, [Next]_vars
  PROVE  IInv' /\ [RW!Step]_pc
<1>1. CASE Next
  BY <1>1, ReadStep, WriteStep, DisposeStep DEF Next
<1>2. CASE UNCHANGED vars
  <2>1. IInv'
    BY <1>2 DEF vars, IInv, Matches, Waits, Holds, In, RW!Exclusive
  <2> QED BY <1>2, <2>1 DEF vars
<1> QED BY <1>1, <1>2

\* The object in the map and the clients' program counters agree at all times.
THEOREM Bookkeeping == Spec => []IInv
<1>1. IInv /\ [Next]_vars => IInv'
  BY NextStep
<1> QED BY <1>1, InitIInv, PTL DEF Spec

\* Nobody waits for a lock that nobody holds: process() never forgets a waiter.
THEOREM NoLostWakeupAlways == Spec => []NoLostWakeup
<1>1. IInv => NoLostWakeup
  BY DEF IInv, NoLostWakeup, Waits, Holds
<1> QED BY <1>1, Bookkeeping, PTL

\* lock.ts implements the abstract readers-writer lock: a writer never shares the
\* lock and a request goes only from asking to holding to released.
THEOREM LockImplements == Spec => Implements
<1>1. Init => RW!Init
  BY DEF Init, RW!Init
<1>2. IInv /\ [Next]_vars => [RW!Step]_pc
  BY NextStep
<1> QED BY <1>1, <1>2, Bookkeeping, PTL DEF Spec, Implements, RW!Safety
=============================================================================
