------------------------- MODULE SharedMemoryProofs -------------------------
(***************************************************************************)
(* The programs that share memory between processes or threads: the ring   *)
(* of example 26 (SpscRing), for any capacity and number of items; shmkv   *)
(* v1 (ShmKv), for any slot count and number of updates, events and        *)
(* attempts; shmkv v0 (KvStore), for any table, keys and values; the       *)
(* bounded queue and its workers (WorkQueue), for any number of threads    *)
(* and items.                                                              *)
(***************************************************************************)
EXTENDS SpscRing, ShmKv, KvStore, WorkQueue, FiniteSetTheorems, TLAPS

-----------------------------------------------------------------------------
(* The ring delivers what was pushed: the consumer's sum is the sum of the *)
(* first h items.  How far apart the threads' own counters and the         *)
(* published ones can be:                                                  *)

Positions ==
  /\ prod.t = IF prod.pc = "store" THEN tail + 1 ELSE tail
  /\ cons.h = IF cons.pc = "store" THEN head + 1 ELSE head
  /\ cons.h <= tail
  /\ prod.t - head <= Cap
  /\ prod.pc = "write" => prod.t - head < Cap
  /\ cons.pc = "read" => cons.h < tail

RingInv == RingTypeOK /\ Positions /\ NoOverwrite /\ ExactSum

-----------------------------------------------------------------------------

\* Two positions less than a capacity apart are in different slots.
LEMMA SlotsDiffer ==
  ASSUME NEW c \in Nat \ {0}, NEW i \in Nat, NEW t \in Nat, i < t, t - i < c
  PROVE  i % c # t % c
<1> DEFINE d == (t \div c) - (i \div c)
<1>1. /\ i = c * (i \div c) + (i % c)
      /\ t = c * (t \div c) + (t % c)
      /\ i \div c \in Int /\ t \div c \in Int
      /\ i % c \in Int /\ t % c \in Int
  BY SMT
<1>2. SUFFICES ASSUME i % c = t % c PROVE FALSE
  OBVIOUS
<1>3. d \in Int /\ c * d = t - i
  <2>1. c * d = c * (t \div c) - c * (i \div c)
    BY <1>1, SMT
  <2> QED
    BY <1>1, <1>2, <2>1, SMT
<1> HIDE DEF d
<1>4. CASE d <= 0
  <2>1. c * d <= 0
    BY <1>3, <1>4, SMT
  <2> QED
    BY <2>1, <1>3, SMT
<1>5. CASE d >= 1
  <2>1. c * d >= c
    BY <1>3, <1>5, SMT
  <2> QED
    BY <2>1, <1>3, SMT
<1> QED
  BY <1>3, <1>4, <1>5, SMT

\* A position is in a slot of the buffer.
LEMMA SlotInRange ==
  ASSUME NEW c \in Nat \ {0}, NEW i \in Nat
  PROVE  i % c \in 0..(c - 1)
  BY SMT

-----------------------------------------------------------------------------

\* The ring starts empty, both caches at zero.
LEMMA RingInitInv == RingInit => RingInv
<1> SUFFICES ASSUME RingInit PROVE RingInv
  OBVIOUS
<1> USE RingAssumption DEF RingInit
<1>1. RingTypeOK
  BY DEF RingTypeOK
<1>2. Positions
  BY DEF Positions
<1>3. NoOverwrite
  BY DEF NoOverwrite
<1>4. ExactSum
  BY DEF ExactSum
<1> QED
  BY <1>1, <1>2, <1>3, <1>4 DEF RingInv

\* The producer's steps: only PushWrite touches the buffer, and the slot it
\* writes belongs to no position of the window.
LEMMA ProducerStep ==
  ASSUME RingInv, Producer
  PROVE  RingInv'
<1> USE RingAssumption
<1>t. /\ head \in Nat /\ tail \in Nat
      /\ prod.t \in Nat /\ cons.h \in Nat /\ cons.sum \in Nat
      /\ prod = [pc |-> prod.pc, t |-> prod.t]
      /\ buf \in [0..(Cap - 1) -> Nat]
  BY DEF RingInv, RingTypeOK
<1>1. CASE PushWait
  <2>1. prod' = [pc |-> "write", t |-> prod.t] /\ UNCHANGED <<buf, head, tail, cons>>
    BY <1>1, <1>t DEF PushWait
  <2>2. RingTypeOK'
    BY <2>1, <1>t DEF RingInv, RingTypeOK
  <2>3. Positions'
    BY <1>1, <2>1, <1>t DEF RingInv, Positions, PushWait
  <2>4. NoOverwrite' /\ ExactSum'
    BY <2>1 DEF RingInv, NoOverwrite, ExactSum
  <2> QED
    BY <2>2, <2>3, <2>4 DEF RingInv
<1>2. CASE PushWrite
  <2>1. /\ prod' = [pc |-> "store", t |-> prod.t + 1]
        /\ buf' = [buf EXCEPT ![prod.t % Cap] = prod.t]
        /\ UNCHANGED <<head, tail, cons>>
        /\ prod.pc = "write"
    BY <1>2 DEF PushWrite
  <2>2. RingTypeOK'
    BY <2>1, <1>t DEF RingInv, RingTypeOK
  <2>3. Positions'
    BY <2>1, <1>t DEF RingInv, Positions
  <2>4. NoOverwrite'
    <3>1. SUFFICES ASSUME NEW i \in Nat, cons.h <= i, i < prod.t + 1
                   PROVE  buf'[i % Cap] = i
      <4>1. cons'.h = cons.h /\ prod'.t = prod.t + 1
        BY <2>1
      <4>2. (cons.h)..((prod.t + 1) - 1) \subseteq {i \in Nat : cons.h <= i /\ i < prod.t + 1}
        BY <1>t
      <4> QED
        BY <4>1, <4>2 DEF NoOverwrite
    <3>2. prod.t % Cap \in 0..(Cap - 1) /\ i % Cap \in 0..(Cap - 1)
      BY <1>t, SlotInRange
    <3>3. CASE i = prod.t
      BY <3>2, <3>3, <2>1, <1>t
    <3>4. CASE i < prod.t
      <4>1. prod.t - i < Cap
        BY <2>1, <1>t, <3>1 DEF RingInv, Positions
      <4>2. i % Cap # prod.t % Cap
        BY <4>1, <3>4, <1>t, SlotsDiffer
      <4>3. buf[i % Cap] = i
        <5>1. i \in cons.h..(prod.t - 1)
          BY <3>1, <3>4, <1>t
        <5> QED
          BY <5>1 DEF RingInv, NoOverwrite
      <4> QED
        BY <4>2, <4>3, <3>2, <2>1, <1>t, Zenon
    <3> QED
      BY <3>1, <3>3, <3>4, <1>t
  <2>5. ExactSum'
    BY <2>1 DEF RingInv, ExactSum
  <2> QED
    BY <2>2, <2>3, <2>4, <2>5 DEF RingInv
<1>3. CASE PushStore
  <2>1. /\ prod' = [pc |-> "wait", t |-> prod.t] /\ tail' = prod.t
        /\ UNCHANGED <<buf, head, cons>> /\ prod.pc = "store"
    BY <1>3, <1>t DEF PushStore
  <2>2. RingTypeOK'
    BY <2>1, <1>t DEF RingInv, RingTypeOK
  <2>3. Positions'
    BY <2>1, <1>t DEF RingInv, Positions
  <2>4. NoOverwrite' /\ ExactSum'
    BY <2>1 DEF RingInv, NoOverwrite, ExactSum
  <2> QED
    BY <2>2, <2>3, <2>4 DEF RingInv
<1> QED
  BY <1>1, <1>2, <1>3 DEF Producer

\* The consumer's steps: PopRead reads a slot of the window, so it adds h.
LEMMA ConsumerStep ==
  ASSUME RingInv, Consumer
  PROVE  RingInv'
<1> USE RingAssumption
<1>t. /\ head \in Nat /\ tail \in Nat
      /\ prod.t \in Nat /\ cons.h \in Nat /\ cons.sum \in Nat
      /\ cons = [pc |-> cons.pc, h |-> cons.h, sum |-> cons.sum]
  BY DEF RingInv, RingTypeOK
<1>1. CASE PopWait
  <2>1. /\ cons' = [pc |-> "read", h |-> cons.h, sum |-> cons.sum]
        /\ UNCHANGED <<buf, head, tail, prod>>
        /\ cons.h # tail /\ cons.pc = "wait"
    BY <1>1, <1>t DEF PopWait
  <2>2. RingTypeOK'
    BY <2>1, <1>t DEF RingInv, RingTypeOK
  <2>3. Positions'
    BY <2>1, <1>t DEF RingInv, Positions
  <2>4. NoOverwrite' /\ ExactSum'
    BY <2>1 DEF RingInv, NoOverwrite, ExactSum
  <2> QED
    BY <2>2, <2>3, <2>4 DEF RingInv
<1>2. CASE PopRead
  <2>1. buf[cons.h % Cap] = cons.h /\ cons.h < tail
    BY <1>2, <1>t DEF RingInv, Positions, NoOverwrite, PopRead
  <2>2. /\ cons' = [pc |-> "store", h |-> cons.h + 1, sum |-> cons.sum + cons.h]
        /\ UNCHANGED <<buf, head, tail, prod>>
        /\ cons.pc = "read"
    BY <1>2, <2>1 DEF PopRead
  <2>3. RingTypeOK'
    BY <2>2, <1>t DEF RingInv, RingTypeOK
  <2>4. Positions'
    BY <2>1, <2>2, <1>t DEF RingInv, Positions
  <2>5. NoOverwrite'
    BY <2>2, <1>t DEF RingInv, NoOverwrite
  <2>6. ExactSum'
    <3>1. 2 * cons.sum = cons.h * (cons.h - 1)
      BY DEF RingInv, ExactSum
    <3>2. (cons.h + 1) * ((cons.h + 1) - 1) = cons.h * (cons.h - 1) + 2 * cons.h
      BY <1>t
    <3> QED
      BY <3>1, <3>2, <2>2, <1>t DEF ExactSum
  <2> QED
    BY <2>3, <2>4, <2>5, <2>6 DEF RingInv
<1>3. CASE PopStore
  <2>1. /\ cons' = [pc |-> "wait", h |-> cons.h, sum |-> cons.sum] /\ head' = cons.h
        /\ UNCHANGED <<buf, tail, prod>> /\ cons.pc = "store"
    BY <1>3, <1>t DEF PopStore
  <2>2. RingTypeOK'
    BY <2>1, <1>t DEF RingInv, RingTypeOK
  <2>3. Positions'
    BY <2>1, <1>t DEF RingInv, Positions
  <2>4. NoOverwrite' /\ ExactSum'
    BY <2>1 DEF RingInv, NoOverwrite, ExactSum
  <2> QED
    BY <2>2, <2>3, <2>4 DEF RingInv
<1> QED
  BY <1>1, <1>2, <1>3 DEF Consumer

\* The inductive invariant of run_bench.
THEOREM RingInvariant == RingSpec => []RingInv
<1>1. RingInv /\ [RingNext]_ringVars => RingInv'
  <2> SUFFICES ASSUME RingInv, [RingNext]_ringVars PROVE RingInv'
    OBVIOUS
  <2>1. CASE UNCHANGED ringVars
    BY <2>1 DEF ringVars, RingInv, RingTypeOK, Positions, NoOverwrite, ExactSum
  <2> QED
    BY <2>1, ProducerStep, ConsumerStep DEF RingNext
<1> QED
  BY <1>1, RingInitInv, PTL DEF RingSpec

\* No item is overwritten before it is popped and every one is summed exactly
\* once: the sum printed for --items N is 0 + 1 + ... + (N - 1), for every
\* capacity and under every interleaving.
THEOREM RingIsExact == RingSpec => []RingExact
<1>1. RingInv => RingExact
  BY DEF RingInv, RingExact
<1> QED
  BY <1>1, RingInvariant, PTL

-----------------------------------------------------------------------------
(* shmkv v1: a snapshot that is accepted is never torn, and no wake-up is  *)
(* lost.                                                                   *)

Lines == [id : Nat, key : Nat, value : Nat, counter : Nat]

KvTypeOK ==
  /\ seq \in Nat /\ word \in Nat /\ counter \in Nat /\ cells \in [Cells -> Nat]
  /\ k \in Nat \ {0}
  /\ server \in {"sleep", "odd", "cleared", "key", "value", "counter", "even",
                 "word", "complete", "dead"}
  /\ watch \in {"top", "attempt", "counter", "copy", "print", "load", "wait",
                "asleep", "complete", "livelocked", "timedout"}
  /\ s1 \in Nat /\ last \in Nat
  /\ snap \in [counter : Nat, cells : [Cells -> Nat], copied : SUBSET Cells]
  /\ printed \in Seq(Lines)

\* The memory between two publications.
Whole == seq = 2 * counter /\ cells = Published(counter)

\* Only the slot of k differs from what update k - 1 left.
OthersKept == \A c \in Cells : c[1] # SlotOf(k) => cells[c] = Published(k - 1)[c]

\* Where the server is, and what the memory holds there.
Writer ==
  /\ server \in {"sleep", "complete"} => Whole /\ k = counter + 1
  /\ server \in {"even", "word"} => Whole /\ k = counter
  /\ server \in {"odd", "cleared", "key", "value"} => k = counter + 1
  /\ server = "counter" => k = counter
  /\ server \in {"odd", "cleared", "key", "value", "counter"} => seq = 2 * k - 1 /\ OthersKept
  /\ server \in {"key", "value", "counter"} => cells[<<SlotOf(k), "key">>] = k
  /\ server \in {"value", "counter"} => cells[<<SlotOf(k), "value">>] = k
  /\ server = "dead" => Whole \/ seq % 2 = 1

\* What the watcher copied so far is what the memory holds, as long as the
\* word is the even one it saw first.
CopyFresh ==
  /\ watch \in {"counter", "copy"} => s1 <= seq /\ s1 % 2 = 0
  /\ watch = "copy" /\ seq = s1 =>
       snap.counter = counter /\ \A c \in snap.copied : snap.cells[c] = cells[c]

\* Lines are printed from a snapshot that is ahead of the last line, while
\* there are events left.
Printing ==
  /\ watch = "print" => last < snap.counter
  /\ watch # "complete" => Len(printed) < WatchEvents

KvInv ==
  /\ KvTypeOK /\ Writer /\ CopyFresh /\ Printing
  /\ SnapshotWhole /\ NoLostWake /\ RecentLinesRight

-----------------------------------------------------------------------------

\* Every update has a slot.
LEMMA SlotOfType ==
  ASSUME NEW n \in Nat \ {0}
  PROVE  SlotOf(n) \in Slots
<1>1. SlotCount \in Nat \ {0} /\ n - 1 \in Nat
  BY ShmAssumption
<1> QED
  BY <1>1 DEF SlotOf, Slots

\* The greatest of a set of numbers is the one CHOOSE picks.
LEMMA ChooseGreatest ==
  ASSUME NEW S \in SUBSET Nat, NEW m \in S, \A j \in S : j <= m
  PROVE  (CHOOSE i \in S : \A j \in S : j <= i) = m
<1> DEFINE x == CHOOSE i \in S : \A j \in S : j <= i
<1>1. x \in S /\ \A j \in S : j <= x
  OBVIOUS
<1>2. x <= m /\ m <= x /\ x \in Nat /\ m \in Nat
  BY <1>1
<1> QED
  BY <1>2

\* Update n changes its own slot, both cells of it, and nothing else.
LEMMA PublishedStep ==
  ASSUME NEW n \in Nat \ {0}, NEW c \in Cells
  PROVE  Published(n)[c] = IF c[1] = SlotOf(n) THEN n ELSE Published(n - 1)[c]
<1> DEFINE ids(m) == {i \in 1..m : SlotOf(i) = c[1]}
<1>1. \A m \in Nat : Published(m)[c] =
        IF ids(m) = {} THEN 0 ELSE CHOOSE i \in ids(m) : \A j \in ids(m) : j <= i
  BY DEF Published
<1>2. CASE c[1] = SlotOf(n)
  <2>1. n \in ids(n) /\ ids(n) \in SUBSET Nat /\ \A j \in ids(n) : j <= n
    BY <1>2
  <2>2. (CHOOSE i \in ids(n) : \A j \in ids(n) : j <= i) = n
    BY <2>1, ChooseGreatest
  <2> QED
    BY <1>1, <1>2, <2>1, <2>2
<1>3. CASE c[1] # SlotOf(n)
  <2>1. ids(n) = ids(n - 1)
    <3>1. \A i \in Nat : i # n => (i \in 1..n <=> i \in 1..(n - 1))
      OBVIOUS
    <3>2. ids(n) \subseteq Nat /\ ids(n - 1) \subseteq Nat
      OBVIOUS
    <3>3. n \notin ids(n) /\ n \notin ids(n - 1)
      BY <1>3
    <3> QED
      BY <3>1, <3>2, <3>3
  <2>2. n - 1 \in Nat
    OBVIOUS
  <2> HIDE DEF ids
  <2> QED
    BY <1>1, <1>3, <2>1, <2>2
<1> QED
  BY <1>2, <1>3

\* An update among the last SlotCount is still there.
LEMMA PublishedRecent ==
  ASSUME NEW n \in Nat, NEW id \in 1..n, id + SlotCount > n, NEW f \in {"key", "value"}
  PROVE  Published(n)[<<SlotOf(id), f>>] = id
<1> DEFINE ids == {i \in 1..n : SlotOf(i) = SlotOf(id)}
<1>1. <<SlotOf(id), f>> \in Cells /\ <<SlotOf(id), f>>[1] = SlotOf(id)
  BY SlotOfType DEF Cells
<1>2. Published(n)[<<SlotOf(id), f>>] =
        IF ids = {} THEN 0 ELSE CHOOSE i \in ids : \A j \in ids : j <= i
  <2>1. PICK c \in Cells : c = <<SlotOf(id), f>> /\ c[1] = SlotOf(id)
    BY <1>1
  <2> DEFINE same == {i \in 1..n : SlotOf(i) = c[1]}
  <2>2. Published(n)[c] =
          IF same = {} THEN 0 ELSE CHOOSE i \in same : \A j \in same : j <= i
    BY DEF Published
  <2>3. same = ids
    BY <2>1
  <2> HIDE DEF ids, same
  <2> QED
    BY <2>1, <2>2, <2>3, Zenon
<1>3. id \in ids /\ ids \in SUBSET Nat
  OBVIOUS
<1>4. \A j \in ids : j <= id
  <2>1. SUFFICES ASSUME NEW j \in 1..n, SlotOf(j) = SlotOf(id), ~(j <= id)
                 PROVE  FALSE
    OBVIOUS
  <2>2. /\ SlotCount \in Nat \ {0} /\ id - 1 \in Nat /\ j - 1 \in Nat
        /\ id - 1 < j - 1 /\ (j - 1) - (id - 1) < SlotCount
    BY <2>1, ShmAssumption
  <2>3. (id - 1) % SlotCount # (j - 1) % SlotCount
    BY <2>2, SlotsDiffer
  <2> QED
    BY <2>1, <2>3 DEF SlotOf
<1>5. (CHOOSE i \in ids : \A j \in ids : j <= i) = id
  BY <1>3, <1>4, ChooseGreatest
<1> QED
  BY <1>2, <1>3, <1>5

\* When both cells of the slot hold n and the others what update n - 1 left,
\* the cells are those of update n.
LEMMA PublishedBuilt ==
  ASSUME NEW n \in Nat \ {0}, NEW m \in [Cells -> Nat],
         \A c \in Cells : c[1] # SlotOf(n) => m[c] = Published(n - 1)[c],
         m[<<SlotOf(n), "key">>] = n, m[<<SlotOf(n), "value">>] = n
  PROVE  m = Published(n)
<1>1. \A c \in Cells : m[c] = Published(n)[c]
  <2>1. TAKE c \in Cells
  <2>2. c = <<c[1], "key">> \/ c = <<c[1], "value">>
    BY DEF Cells
  <2> QED
    BY <2>2, PublishedStep
<1>2. Published(n) = [c \in Cells |-> Published(n)[c]]
  BY DEF Published
<1> QED
  BY <1>1, <1>2
\* The first state: nothing published, nothing read.
LEMMA KvInitInv ==
  KvInit => KvInv
<1> SUFFICES ASSUME KvInit PROVE KvInv
  OBVIOUS
<1>1. KvTypeOK
  BY DEF KvInit, KvTypeOK, Blank
<1>2. Published(0) = Blank
  <2>1. \A c \in Cells : {i \in 1..0 : SlotOf(i) = c[1]} = {}
    OBVIOUS
  <2> QED
    BY <2>1 DEF Published, Blank
<1>3. Writer
  BY <1>2 DEF KvInit, Writer, Whole
<1>4. CopyFresh /\ Printing /\ SnapshotWhole /\ NoLostWake /\ RecentLinesRight
  BY ShmAssumption DEF KvInit, CopyFresh, Printing, SnapshotWhole, NoLostWake, RecentLinesRight
<1> QED
  BY <1>1, <1>3, <1>4 DEF KvInv

\* What the server's steps keep of the watcher: a step that leaves the word
\* alone changes the memory only when the word is odd, and the others move the
\* word past every even one seen before.
LEMMA ServeStepReader ==
  ASSUME KvInv, KvTypeOK', UNCHANGED reader,
         \/ seq' = seq + 1
         \/ seq' = seq /\ (seq % 2 = 1 \/ UNCHANGED <<counter, cells>>)
  PROVE  CopyFresh' /\ Printing' /\ SnapshotWhole' /\ RecentLinesRight'
<1>1. Printing' /\ SnapshotWhole'
  BY DEF KvInv, reader, Printing, SnapshotWhole, Published
<1>2. RecentLinesRight'
  BY DEF KvInv, reader, RecentLinesRight
<1>3. CopyFresh'
  <2>1. UNCHANGED <<watch, s1, snap>> /\ seq \in Nat /\ s1 \in Nat /\ CopyFresh
    BY DEF KvInv, KvTypeOK, reader
  <2>2. ASSUME watch \in {"counter", "copy"} PROVE s1 <= seq' /\ s1 % 2 = 0
    BY <2>1, <2>2 DEF CopyFresh
  <2>3. ASSUME watch = "copy", seq' = s1
        PROVE  seq = s1 /\ UNCHANGED <<counter, cells>>
    <3>1. s1 <= seq /\ s1 % 2 = 0
      BY <2>1, <2>3 DEF CopyFresh
    <3> QED
      BY <3>1, <2>1, <2>3
  <2> QED
    BY <2>1, <2>2, <2>3 DEF CopyFresh
<1> QED
  BY <1>1, <1>2, <1>3

\* The server's steps keep the invariant.
LEMMA ServeInv ==
  ASSUME KvInv, KvServe \/ ServerDies
  PROVE  KvInv'
<1> USE DEF ServeStep
<1>t. KvTypeOK /\ Writer /\ NoLostWake
  BY DEF KvInv
<1>1. CASE BeginWrite
  <2>1. /\ server = "sleep" /\ server' = "odd" /\ seq' = seq + 1
        /\ UNCHANGED <<word, counter, cells, k, reader>>
    BY <1>1 DEF BeginWrite
  <2>2. KvTypeOK'
    BY <2>1, <1>t DEF KvTypeOK, reader
  <2>3. Writer'
    <3>1. Whole /\ k = counter + 1
      BY <2>1, <1>t DEF Writer
    <3>2. seq' = 2 * k' - 1 /\ k' = counter' + 1
      BY <3>1, <2>1, <1>t DEF Whole, KvTypeOK
    <3>3. k - 1 = counter
      BY <3>1, <1>t DEF KvTypeOK
    <3>4. OthersKept
      BY <3>1, <3>3 DEF Whole, OthersKept
    <3>5. OthersKept'
      BY <3>4, <2>1 DEF OthersKept, Published, SlotOf
    <3> QED
      BY <2>1, <3>2, <3>5 DEF Writer
  <2>4. NoLostWake'
    BY <2>1, <1>t DEF NoLostWake, reader
  <2> QED
    BY <2>1, <2>2, <2>3, <2>4, ServeStepReader DEF KvInv
<1>2. CASE ClearSlot
  <2>1. /\ server = "odd" /\ server' = "cleared"
        /\ cells' = [c \in Cells |-> IF c[1] = SlotOf(k) THEN 0 ELSE cells[c]]
        /\ UNCHANGED <<seq, word, counter, k, reader>>
    BY <1>2 DEF ClearSlot
  <2>2. KvTypeOK'
    BY <2>1, <1>t DEF KvTypeOK, reader
  <2>3. seq = 2 * k - 1 /\ OthersKept /\ k = counter + 1
    BY <2>1, <1>t DEF Writer
  <2>4. OthersKept'
    BY <2>1, <2>3 DEF OthersKept, Published, SlotOf
  <2>5. Writer'
    BY <2>1, <2>3, <2>4 DEF Writer
  <2>6. seq % 2 = 1
    BY <2>3, <1>t DEF KvTypeOK
  <2>7. NoLostWake'
    BY <2>1, <1>t DEF NoLostWake, reader
  <2> QED
    BY <2>1, <2>2, <2>5, <2>6, <2>7, ServeStepReader DEF KvInv
<1>3. ASSUME NEW from, NEW to \in {"key", "value"}, FillSlot(from, to),
             <<from, to>> \in {<<"cleared", "key">>, <<"key", "value">>}
      PROVE  KvInv'
  <2>1. /\ server = from /\ server' = to
        /\ cells' = [cells EXCEPT ![<<SlotOf(k), to>>] = k]
        /\ UNCHANGED <<seq, word, counter, k, reader>>
        /\ \/ from = "cleared" /\ to = "key"
           \/ from = "key" /\ to = "value"
    BY <1>3 DEF FillSlot
  <2>2. /\ SlotOf(k) \in Slots /\ k \in Nat
        /\ <<SlotOf(k), "key">> \in Cells /\ <<SlotOf(k), "value">> \in Cells
    BY <1>t, SlotOfType DEF KvTypeOK, Cells
  <2>3. cells' \in [Cells -> Nat]
    BY <2>1, <2>2, <1>t DEF KvTypeOK
  <2>4. KvTypeOK'
    BY <2>1, <2>3, <1>t DEF KvTypeOK, reader
  <2>5. seq = 2 * k - 1 /\ OthersKept /\ k = counter + 1
    BY <2>1, <1>t DEF Writer
  <2>6. OthersKept'
    <3>1. \A c \in Cells : c[1] # SlotOf(k) => cells'[c] = cells[c]
      <4>1. TAKE c \in Cells
      <4>2. HAVE c[1] # SlotOf(k)
      <4>3. c # <<SlotOf(k), to>>
        BY <4>2
      <4> QED
        BY <4>3, <2>1, <1>t DEF KvTypeOK
    <3> QED
      BY <3>1, <2>1, <2>5 DEF OthersKept, Published, SlotOf
  <2>7. cells'[<<SlotOf(k), to>>] = k
    BY <2>1, <2>2, <1>t DEF KvTypeOK
  <2>8. to = "value" => cells'[<<SlotOf(k), "key">>] = k
    <3>1. HAVE to = "value"
    <3>2. cells[<<SlotOf(k), "key">>] = k
      BY <3>1, <2>1, <1>t DEF Writer
    <3>3. <<SlotOf(k), "key">> # <<SlotOf(k), to>>
      BY <3>1
    <3> QED
      BY <3>2, <3>3, <2>1, <2>2, <1>t DEF KvTypeOK
  <2>9. SlotOf(k)' = SlotOf(k)
    BY <2>1 DEF SlotOf
  <2>10. Writer'
    BY <2>1, <2>5, <2>6, <2>7, <2>8, <2>9 DEF Writer
  <2>11. seq % 2 = 1
    BY <2>5, <1>t DEF KvTypeOK
  <2>12. NoLostWake'
    BY <2>1, <1>t DEF NoLostWake, reader
  <2> QED
    BY <2>1, <2>4, <2>10, <2>11, <2>12, ServeStepReader DEF KvInv
<1>4. CASE StoreCounter
  <2>1. /\ server = "value" /\ server' = "counter" /\ counter' = k
        /\ UNCHANGED <<seq, word, cells, k, reader>>
    BY <1>4 DEF StoreCounter
  <2>2. KvTypeOK'
    BY <2>1, <1>t DEF KvTypeOK, reader
  <2>3. /\ seq = 2 * k - 1 /\ OthersKept
        /\ cells[<<SlotOf(k), "key">>] = k /\ cells[<<SlotOf(k), "value">>] = k
    BY <2>1, <1>t DEF Writer
  <2>4. OthersKept' /\ SlotOf(k)' = SlotOf(k)
    BY <2>1, <2>3 DEF OthersKept, Published, SlotOf
  <2>5. Writer'
    BY <2>1, <2>3, <2>4 DEF Writer
  <2>6. seq % 2 = 1
    BY <2>3, <1>t DEF KvTypeOK
  <2>7. NoLostWake'
    BY <2>1, <1>t DEF NoLostWake, reader
  <2> QED
    BY <2>1, <2>2, <2>5, <2>6, <2>7, ServeStepReader DEF KvInv
<1>5. CASE EndWrite
  <2>1. /\ server = "counter" /\ server' = "even" /\ seq' = seq + 1
        /\ UNCHANGED <<word, counter, cells, k, reader>>
    BY <1>5 DEF EndWrite
  <2>2. KvTypeOK'
    BY <2>1, <1>t DEF KvTypeOK, reader
  <2>3. /\ seq = 2 * k - 1 /\ OthersKept /\ k = counter
        /\ cells[<<SlotOf(k), "key">>] = k /\ cells[<<SlotOf(k), "value">>] = k
    BY <2>1, <1>t DEF Writer
  <2>4. cells = Published(counter)
    BY <2>3, <1>t, PublishedBuilt DEF OthersKept, KvTypeOK
  <2>5. Whole'
    <3>1. seq' = 2 * counter'
      BY <2>1, <2>3, <1>t DEF KvTypeOK
    <3> QED
      BY <3>1, <2>1, <2>4 DEF Whole, Published
  <2>6. Writer'
    BY <2>1, <2>3, <2>5 DEF Writer
  <2>7. NoLostWake'
    BY <2>1, <1>t DEF NoLostWake, reader
  <2> QED
    BY <2>1, <2>2, <2>6, <2>7, ServeStepReader DEF KvInv
<1>6. CASE StoreWord
  <2>1. /\ server = "even" /\ server' = "word" /\ word' = k
        /\ UNCHANGED <<seq, counter, cells, k, reader>>
    BY <1>6 DEF StoreWord
  <2>2. KvTypeOK'
    BY <2>1, <1>t DEF KvTypeOK, reader
  <2>3. Whole /\ k = counter
    BY <2>1, <1>t DEF Writer
  <2>4. Writer'
    BY <2>1, <2>3 DEF Writer, Whole, Published
  <2>5. NoLostWake'
    BY <2>1 DEF NoLostWake
  <2> QED
    BY <2>1, <2>2, <2>4, <2>5, ServeStepReader DEF KvInv
<1>7. CASE Wake
  <2>1. /\ server = "word" /\ server' \in {"complete", "sleep"} /\ k' = k + 1
        /\ watch' = IF watch = "asleep" THEN "top" ELSE watch
        /\ UNCHANGED <<seq, word, counter, cells, late, attempt, s1, snap, last, printed>>
    BY <1>7 DEF Wake
  <2>2. KvTypeOK'
    BY <2>1, <1>t DEF KvTypeOK
  <2>3. Whole /\ k = counter
    BY <2>1, <1>t DEF Writer
  <2>4. Writer'
    BY <2>1, <2>3 DEF Writer, Whole, Published
  <2>5. NoLostWake'
    BY <2>1 DEF NoLostWake
  <2>6. CopyFresh' /\ Printing' /\ SnapshotWhole' /\ RecentLinesRight'
    BY <2>1 DEF KvInv, CopyFresh, Printing, SnapshotWhole, RecentLinesRight, Published
  <2> QED
    BY <2>2, <2>4, <2>5, <2>6 DEF KvInv
<1>8. CASE ServerDies
  <2>1. /\ server \notin {"complete", "dead"} /\ server' = "dead"
        /\ UNCHANGED <<seq, word, counter, cells, k, reader>>
    BY <1>8 DEF ServerDies
  <2>2. KvTypeOK'
    BY <2>1, <1>t DEF KvTypeOK, reader
  <2>3. Whole \/ seq = 2 * k - 1
    BY <2>1, <1>t DEF Writer, KvTypeOK
  <2>4. Whole \/ seq % 2 = 1
    BY <2>3, <1>t DEF KvTypeOK
  <2>5. Writer'
    BY <2>1, <2>4 DEF Writer, Whole, Published
  <2>6. NoLostWake'
    BY <2>1 DEF NoLostWake
  <2> QED
    BY <2>1, <2>2, <2>5, <2>6, ServeStepReader DEF KvInv
<1> QED
  BY <1>1, <1>2, <1>3, <1>4, <1>5, <1>6, <1>7, <1>8 DEF KvServe

\* The watcher's steps leave the memory and the server alone.
LEMMA WatchStepWriter ==
  ASSUME KvInv, UNCHANGED shm
  PROVE  Writer'
<1>1. Whole' <=> Whole
  BY DEF shm, Whole, Published
<1>2. OthersKept' <=> OthersKept
  BY DEF shm, OthersKept, Published, SlotOf
<1> QED
  BY <1>1, <1>2 DEF KvInv, shm, Writer, SlotOf

\* A step of the watcher that prints nothing and does not touch its copy.
LEMMA KeepLines ==
  ASSUME KvInv, UNCHANGED <<last, printed>>, watch' \notin {"print", "complete"}, watch # "complete"
  PROVE  Printing' /\ RecentLinesRight'
BY DEF KvInv, Printing, RecentLinesRight

\* A step that leaves all the invariant speaks of alone: the deadline passes.
LEMMA KeepAll ==
  ASSUME KvInv, UNCHANGED <<shm, watch, s1, snap, last, printed>>
  PROVE  KvInv'
<1>1. KvTypeOK'
  BY DEF KvInv, KvTypeOK, shm
<1>2. CopyFresh' /\ NoLostWake' /\ Printing' /\ RecentLinesRight'
  BY DEF KvInv, CopyFresh, NoLostWake, Printing, RecentLinesRight, shm
<1>3. SnapshotWhole'
  BY DEF KvInv, SnapshotWhole, Published
<1> QED
  BY <1>1, <1>2, <1>3, WatchStepWriter DEF KvInv

\* The lines printed from a whole snapshot.
LEMMA LinesPrinted ==
  ASSUME KvInv, watch = "print", NEW id \in (last + 1)..snap.counter
  PROVE  /\ Line(id) \in Lines
         /\ Line(id).id + SlotCount > Line(id).counter =>
              Line(id).key = Line(id).id /\ Line(id).value = Line(id).id
<1>1. /\ last \in Nat /\ snap \in [counter : Nat, cells : [Cells -> Nat], copied : SUBSET Cells]
      /\ snap.cells = Published(snap.counter)
  BY DEF KvInv, KvTypeOK, SnapshotWhole
<1>2. id \in 1..snap.counter /\ id \in Nat \ {0} /\ snap.counter \in Nat
  BY <1>1
<1>3. <<SlotOf(id), "key">> \in Cells /\ <<SlotOf(id), "value">> \in Cells
  BY <1>2, SlotOfType DEF Cells
<1>4. /\ Line(id).id = id /\ Line(id).counter = snap.counter
      /\ Line(id).key = snap.cells[<<SlotOf(id), "key">>]
      /\ Line(id).value = snap.cells[<<SlotOf(id), "value">>]
  BY DEF Line
<1>5. Line(id) \in Lines
  BY <1>1, <1>2, <1>3 DEF Line, Lines
<1>6. ASSUME id + SlotCount > snap.counter
      PROVE  snap.cells[<<SlotOf(id), "key">>] = id /\ snap.cells[<<SlotOf(id), "value">>] = id
  BY <1>1, <1>2, <1>6, PublishedRecent
<1> QED
  BY <1>4, <1>5, <1>6

\* The watcher's steps keep the invariant.
LEMMA WatchInv ==
  ASSUME KvInv, KvWatch \/ DeadlinePasses
  PROVE  KvInv'
<1> USE DEF WatchStep
<1>t. KvTypeOK
  BY DEF KvInv
<1>n. NoLostWake /\ SnapshotWhole /\ CopyFresh
  BY DEF KvInv
<1>1. CASE Top \/ GiveUp \/ SeqOdd \/ LoadWord \/ FutexWait \/ WaitTimesOut
  <2>1. /\ UNCHANGED <<shm, s1, snap, last, printed>> /\ watch # "complete"
        /\ \/ watch' \in {"timedout", "attempt", "livelocked", "top"}
           \/ watch = "load" /\ watch' = "wait"
           \/ watch = "wait" /\ watch' = "asleep" /\ word = last
    BY <1>1 DEF Top, GiveUp, SeqOdd, LoadWord, FutexWait, WaitTimesOut
  <2>2. KvTypeOK'
    BY <2>1, <1>t DEF KvTypeOK, shm
  <2>3. NoLostWake'
    BY <2>1 DEF NoLostWake, shm
  <2>4. SnapshotWhole' /\ CopyFresh'
    BY <2>1, <1>n DEF SnapshotWhole, CopyFresh, Published
  <2>5. Printing' /\ RecentLinesRight'
    BY <2>1, KeepLines
  <2> QED
    BY <2>1, <2>2, <2>3, <2>4, <2>5, WatchStepWriter DEF KvInv
<1>2. CASE SeqEven
  <2>1. /\ UNCHANGED <<shm, snap, last, printed>> /\ watch = "attempt" /\ watch' = "counter"
        /\ seq % 2 = 0 /\ s1' = seq
    BY <1>2 DEF SeqEven
  <2>2. KvTypeOK'
    BY <2>1, <1>t DEF KvTypeOK, shm
  <2>3. CopyFresh'
    BY <2>1, <1>t DEF CopyFresh, shm, KvTypeOK
  <2>4. NoLostWake' /\ SnapshotWhole'
    BY <2>1 DEF NoLostWake, SnapshotWhole
  <2> QED
    BY <2>1, <2>2, <2>3, <2>4, WatchStepWriter, KeepLines DEF KvInv
<1>3. CASE CopyCounter
  <2>1. /\ UNCHANGED <<shm, s1, last, printed>> /\ watch = "counter" /\ watch' = "copy"
        /\ snap' = [counter |-> counter, cells |-> Blank, copied |-> {}]
    BY <1>3 DEF CopyCounter
  <2>2. KvTypeOK'
    BY <2>1, <1>t DEF KvTypeOK, shm, Blank
  <2>3. CopyFresh'
    BY <2>1, <1>n DEF CopyFresh, shm
  <2>4. NoLostWake' /\ SnapshotWhole'
    BY <2>1 DEF NoLostWake, SnapshotWhole
  <2> QED
    BY <2>1, <2>2, <2>3, <2>4, WatchStepWriter, KeepLines DEF KvInv
<1>4. ASSUME NEW c \in Cells, CopyCell(c) PROVE KvInv'
  <2>1. /\ UNCHANGED <<shm, watch, s1, last, printed>> /\ watch = "copy"
        /\ snap' = [snap EXCEPT !.cells[c] = cells[c], !.copied = @ \cup {c}]
    BY <1>4 DEF CopyCell
  <2>2. /\ snap' \in [counter : Nat, cells : [Cells -> Nat], copied : SUBSET Cells]
        /\ snap'.counter = snap.counter /\ snap'.copied = snap.copied \cup {c}
        /\ snap'.cells[c] = cells[c] /\ \A d \in Cells : d # c => snap'.cells[d] = snap.cells[d]
        /\ snap.copied \subseteq Cells
    BY <2>1, <1>t DEF KvTypeOK
  <2>3. KvTypeOK'
    BY <2>1, <2>2, <1>t DEF KvTypeOK, shm
  <2>4. CopyFresh'
    BY <2>1, <2>2, <1>n DEF CopyFresh, shm
  <2>5. NoLostWake' /\ SnapshotWhole'
    BY <2>1 DEF NoLostWake, SnapshotWhole
  <2> QED
    BY <2>1, <2>3, <2>4, <2>5, WatchStepWriter, KeepLines DEF KvInv
<1>5. CASE CheckSeq
  <2>1. /\ UNCHANGED <<shm, s1, snap, last, printed>> /\ watch = "copy" /\ snap.copied = Cells
        /\ \/ seq = s1 /\ watch' = IF snap.counter > last THEN "print" ELSE "load"
           \/ watch' = "attempt"
    BY <1>5 DEF CheckSeq, Accepted
  <2>2. KvTypeOK'
    BY <2>1, <1>t DEF KvTypeOK, shm
  <2>3. CopyFresh' /\ NoLostWake'
    BY <2>1 DEF CopyFresh, NoLostWake
  <2>4. ASSUME seq = s1 PROVE snap.cells = Published(snap.counter)
    <3>1. s1 % 2 = 0 /\ snap.counter = counter /\ \A c \in Cells : snap.cells[c] = cells[c]
      BY <2>1, <2>4, <1>n DEF CopyFresh
    <3>2. snap.cells = cells
      BY <3>1, <1>t DEF KvTypeOK
    <3>3. Whole
      <4>1. seq % 2 = 0 /\ seq # 2 * k - 1
        BY <3>1, <2>4, <1>t DEF KvTypeOK
      <4> QED
        BY <4>1, <1>t DEF KvInv, Writer, KvTypeOK
    <3> QED
      BY <3>1, <3>2, <3>3 DEF Whole
  <2>5. SnapshotWhole'
    BY <2>1, <2>4 DEF SnapshotWhole, Published
  <2>6. Printing'
    <3>1. watch' = "print" => last < snap.counter
      BY <2>1, <1>t DEF KvTypeOK
    <3> QED
      BY <3>1, <2>1 DEF KvInv, Printing
  <2>7. RecentLinesRight'
    BY <2>1 DEF KvInv, RecentLinesRight
  <2> QED
    BY <2>1, <2>2, <2>3, <2>5, <2>6, <2>7, WatchStepWriter DEF KvInv
<1>6. CASE PrintMissed
  <2> DEFINE room == WatchEvents - Len(printed)
             n == IF snap.counter - last < room THEN snap.counter - last ELSE room
             more == [i \in 1..n |-> Line(last + i)]
  <2>1. /\ watch = "print" /\ UNCHANGED <<shm, s1, snap>> /\ printed' = printed \o more
        /\ last' = snap.counter
        /\ watch' = IF Len(printed') >= WatchEvents THEN "complete" ELSE "top"
    BY <1>6 DEF PrintMissed
  <2>2. /\ n \in Nat /\ last \in Nat /\ snap.counter \in Nat
        /\ \A i \in 1..n : last + i \in (last + 1)..snap.counter
    <3>1. last < snap.counter /\ Len(printed) < WatchEvents /\ WatchEvents \in Nat
      BY <2>1, ShmAssumption DEF KvInv, Printing
    <3>2. last \in Nat /\ snap.counter \in Nat /\ Len(printed) \in Nat
      BY <1>t DEF KvTypeOK
    <3> QED
      BY <3>1, <3>2
  <2> HIDE DEF n
  <2>3. \A i \in 1..n : more[i] = Line(last + i)
    OBVIOUS
  <2>4. \A i \in 1..n : more[i] \in Lines /\
          (more[i].id + SlotCount > more[i].counter =>
             more[i].key = more[i].id /\ more[i].value = more[i].id)
    BY <2>1, <2>2, <2>3, LinesPrinted
  <2>5. more \in Seq(Lines) /\ Len(more) = n
    <3>1. more \in [1..n -> Lines]
      BY <2>4
    <3> QED
      BY <3>1, <2>2
  <2>6. printed \in Seq(Lines) /\ printed' \in Seq(Lines)
    BY <2>1, <2>5, <1>t DEF KvTypeOK
  <2> HIDE DEF more
  <2>7. KvTypeOK'
    BY <2>1, <2>2, <2>6, <1>t DEF KvTypeOK, shm
  <2>8. CopyFresh' /\ NoLostWake' /\ SnapshotWhole'
    BY <2>1 DEF CopyFresh, NoLostWake, SnapshotWhole
  <2>9. Printing'
    <3>1. Len(printed') \in Nat /\ WatchEvents \in Nat
      BY <2>6, ShmAssumption
    <3> QED
      BY <3>1, <2>1 DEF Printing
  <2>10. RecentLinesRight'
    <3>1. \A i \in 1..Len(printed') :
            \/ i \in 1..Len(printed) /\ printed'[i] = printed[i]
            \/ i - Len(printed) \in 1..n /\ printed'[i] = more[i - Len(printed)]
      BY <2>1, <2>5, <2>6, <2>2
    <3>2. DOMAIN printed' = 1..Len(printed') /\ DOMAIN printed = 1..Len(printed)
      BY <2>6
    <3>3. SUFFICES ASSUME NEW i \in 1..Len(printed'), NEW l, l = printed'[i],
                          l.id + SlotCount > l.counter
                   PROVE  l.key = l.id /\ l.value = l.id
      BY <3>2 DEF RecentLinesRight
    <3>4. CASE i \in 1..Len(printed) /\ printed'[i] = printed[i]
      BY <3>2, <3>3, <3>4 DEF KvInv, RecentLinesRight
    <3>5. CASE i - Len(printed) \in 1..n /\ printed'[i] = more[i - Len(printed)]
      BY <3>3, <3>5, <2>4
    <3> QED
      BY <3>1, <3>4, <3>5
  <2> QED
    BY <2>1, <2>7, <2>8, <2>9, <2>10, WatchStepWriter DEF KvInv
<1>7. CASE DeadlinePasses
  BY <1>7, KeepAll DEF DeadlinePasses
<1> QED
  BY <1>1, <1>2, <1>3, <1>4, <1>5, <1>6, <1>7 DEF KvWatch

\* The invariant of shmkv v1: it holds initially and every step keeps it.
LEMMA KvInvariant ==
  KvSpec => []KvInv
<1>1. KvInit => KvInv
  BY KvInitInv
<1>2. KvInv /\ [KvNext]_kvVars => KvInv'
  <2> SUFFICES ASSUME KvInv, [KvNext]_kvVars PROVE KvInv'
    OBVIOUS
  <2>1. CASE KvServe \/ ServerDies
    BY <2>1, ServeInv
  <2>2. CASE KvWatch \/ DeadlinePasses
    BY <2>2, WatchInv
  <2>3. CASE UNCHANGED kvVars
    BY <2>3, KeepAll DEF kvVars, shm
  <2> QED
    BY <2>1, <2>2, <2>3 DEF KvNext
<1> QED
  BY <1>1, <1>2, PTL DEF KvSpec

\* seqlock_read: a snapshot that passes the second look at the word is the
\* table as some number of whole publications left it, although cell copies
\* race the writer and the writer may die inside its section.
THEOREM KvSnapshotWhole ==
  KvSpec => []SnapshotWhole
<1>1. KvInv => SnapshotWhole
  BY DEF KvInv
<1> QED
  BY <1>1, KvInvariant, PTL

\* futex_wait and futex_wake_all: a watcher is asleep only on the word it saw
\* last, or with the wake-up still to come, or with the server dead.
THEOREM KvNoLostWake ==
  KvSpec => []NoLostWake
<1>1. KvInv => NoLostWake
  BY DEF KvInv
<1> QED
  BY <1>1, KvInvariant, PTL

\* cmd_watch: a line printed for one of the last kSlotCount updates of its
\* snapshot shows that update, for every slot count.
THEOREM KvRecentLinesRight ==
  KvSpec => []RecentLinesRight
<1>1. KvInv => RecentLinesRight
  BY DEF KvInv
<1> QED
  BY <1>1, KvInvariant, PTL

-----------------------------------------------------------------------------
(* shmkv v0, commands that take turns at writing: a key has one place, and *)
(* a get answers what the last completed set wrote.                        *)

Fields16 == Values16 \cup {Nul16, "missing", "any"}
Tables16 == [Slots16 -> [key : Keys16 \cup {Nul16}, val : Fields16]]
Ops16 == {"none", "create", "set", "get", "dump"}
Stages16 ==
  {"idle", "open", "extend", "header", "probe", "found", "key", "value", "read", "told"}
Commands16 ==
  [op : Ops16, key : Keys16 \cup {Nul16}, val : Fields16, at : Stages16,
   slot : 0..SlotCount16, empty : 0..SlotCount16, answer : Fields16, want : Fields16]

Kv0TypeOK ==
  /\ slots16 \in Tables16
  /\ proc16 \in [Procs16 -> Commands16]
  /\ last16 \in [Keys16 -> Fields16]
  /\ \A p \in Procs16 : proc16[p].op # "none" => proc16[p].key \in Keys16
  /\ \A p \in Procs16 :
       proc16[p].at = "open" => proc16[p].slot = 0 /\ proc16[p].empty = SlotCount16

OneWriter == \A p, q \in Writing : p = q

\* A key has one place in table S.
OnePlace(S) == \A i, j \in Slots16 : S[i].key = S[j].key /\ S[i].key # Nul16 => i = j

\* x is what a get of key y answers on table S.
Holds(y, x, S) ==
  \/ x = "any"
  \/ x = "missing" /\ \A i \in Slots16 : S[i].key # y
  \/ \E i \in Slots16 : S[i].key = y /\ S[i].val = x

\* What a set knows of the table at each of its steps.
SetterAt(w, S) ==
  /\ w.at = "probe" =>
       /\ \A j \in Slots16 : j < w.slot => S[j].key # w.key
       /\ w.empty = SlotCount16 \/ S[w.empty].key = Nul16
  /\ w.at = "found" =>
       /\ \A j \in Slots16 : j # w.slot => S[j].key # w.key
       /\ w.slot = SlotCount16 \/ S[w.slot].key \in {Nul16, w.key}
  /\ w.at = "key" =>
       w.slot \in Slots16 /\ S[w.slot].key = Nul16 /\ \A j \in Slots16 : S[j].key # w.key
  /\ w.at = "value" => w.slot \in Slots16 /\ S[w.slot].key = w.key

\* What a get knows, unless a set of its key or a create came in between.
GetterAt(w, S) ==
  /\ w.at \in {"open", "probe", "read"} => Holds(w.key, w.want, S)
  /\ w.at = "probe" /\ w.want # "any" => \A j \in Slots16 : j < w.slot => S[j].key # w.key
  /\ w.at = "read" => w.slot \in Slots16 /\ (w.want # "any" => S[w.slot].key = w.key)
  /\ w.at = "told" => w.want \in {"any", w.answer}

\* While a set rewrites key y nothing is promised of it.
Unsettled(y) ==
  /\ last16[y] = "any"
  /\ \A q \in Procs16 : proc16[q].op = "get" /\ proc16[q].key = y => proc16[q].want = "any"

Kv0Inv ==
  /\ Kv0TypeOK /\ OneWriter /\ OnePlace(slots16)
  /\ \A p \in Procs16 : proc16[p].op = "set" => SetterAt(proc16[p], slots16)
  /\ \A p \in Procs16 : proc16[p].op = "get" => GetterAt(proc16[p], slots16)
  /\ \A p \in Procs16 :
       proc16[p].op = "set" /\ proc16[p].at \in {"key", "value"} => Unsettled(proc16[p].key)
  /\ \A y \in Keys16 : Holds(y, last16[y], slots16)

-----------------------------------------------------------------------------

\* A command between two of its steps.
IsWriter(w) == w.op \in {"set", "create"} /\ w.at # "idle"

\* A step of one command that leaves the table alone.
LEMMA CommandStep ==
  ASSUME Kv0Inv, NEW p \in Procs16, NEW w \in Commands16,
         proc16' = [proc16 EXCEPT ![p] = w], UNCHANGED <<slots16, last16>>,
         w.op # "none" => w.key \in Keys16,
         w.at = "open" => w.slot = 0 /\ w.empty = SlotCount16,
         IsWriter(w) => p \in Writing \/ Writing = {},
         w.op = "set" => SetterAt(w, slots16),
         w.op = "get" => GetterAt(w, slots16),
         ~(w.op = "set" /\ w.at \in {"key", "value"}),
         w.op = "get" => \/ w.want = last16[w.key]
                         \/ /\ proc16[p].op = "get" /\ proc16[p].key = w.key
                            /\ proc16[p].want = w.want
  PROVE  Kv0Inv'
<1>1. proc16'[p] = w /\ \A q \in Procs16 : q # p => proc16'[q] = proc16[q]
  BY DEF Kv0Inv, Kv0TypeOK
<1>2. Kv0TypeOK'
  BY <1>1 DEF Kv0Inv, Kv0TypeOK
<1>3. OneWriter'
  <2>1. Writing' \subseteq Procs16
    BY DEF Writing
  <2>2. \A q \in Procs16 : q # p => (q \in Writing' <=> q \in Writing)
    BY <1>1 DEF Writing
  <2>3. p \in Writing' => p \in Writing \/ Writing = {}
    BY <1>1 DEF Writing, IsWriter
  <2> QED
    BY <2>1, <2>2, <2>3 DEF Kv0Inv, OneWriter
<1>4. OnePlace(slots16)' /\ \A y \in Keys16 : Holds(y, last16[y], slots16)'
  BY DEF Kv0Inv, OnePlace, Holds
<1>5. ASSUME NEW q \in Procs16
      PROVE  /\ proc16'[q].op = "set" => SetterAt(proc16'[q], slots16)
             /\ proc16'[q].op = "get" => GetterAt(proc16'[q], slots16)
  BY <1>1 DEF Kv0Inv
<1>6. \A q \in Procs16 : proc16'[q].op = "set" /\ proc16'[q].at \in {"key", "value"} =>
        Unsettled(proc16[q].key)'
  <2>1. SUFFICES ASSUME NEW q \in Procs16, NEW y, y = proc16'[q].key,
                        proc16'[q].op = "set", proc16'[q].at \in {"key", "value"}
                 PROVE  /\ last16'[y] = "any"
                        /\ \A r \in Procs16 :
                             proc16'[r].op = "get" /\ proc16'[r].key = y => proc16'[r].want = "any"
    BY DEF Unsettled
  <2>2. q # p /\ proc16'[q] = proc16[q] /\ Unsettled(y)
    BY <1>1, <2>1 DEF Kv0Inv
  <2> QED
    BY <1>1, <2>2 DEF Unsettled
<1>7. \A q \in Procs16 :
        /\ (proc16[q].op = "set" => SetterAt(proc16[q], slots16))'
        /\ (proc16[q].op = "get" => GetterAt(proc16[q], slots16))'
  <2>1. TAKE q \in Procs16
  <2>2. PICK v : v = proc16'[q]
    OBVIOUS
  <2>3. /\ v.op = "set" => SetterAt(v, slots16)
        /\ v.op = "get" => GetterAt(v, slots16)
    BY <1>5, <2>2
  <2>4. slots16' = slots16
    OBVIOUS
  <2> QED
    BY <2>2, <2>3, <2>4
<1> QED
  BY <1>2, <1>3, <1>4, <1>6, <1>7 DEF Kv0Inv

\* The state of a process that runs no command.
LEMMA IdleType ==
  Idle16 \in Commands16
<1>1. SlotCount16 \in 0..SlotCount16 /\ 0 \in 0..SlotCount16
  BY Kv0Assumption
<1>2. "none" \in Ops16 /\ "idle" \in Stages16 /\ Nul16 \in Keys16 \cup {Nul16}
      /\ Nul16 \in Fields16 /\ "any" \in Fields16
  BY DEF Ops16, Stages16, Fields16
<1> QED
  BY <1>1, <1>2 DEF Idle16, Commands16

\* One field of a command changes, or two, and the others stay.
LEMMA StageSet ==
  ASSUME NEW v \in Commands16, NEW at \in Stages16
  PROVE  \E w \in Commands16 :
           /\ w = [v EXCEPT !.at = at] /\ w.at = at
           /\ w.op = v.op /\ w.key = v.key /\ w.want = v.want /\ w.slot = v.slot
           /\ w.empty = v.empty
<1>1. [v EXCEPT !.at = at] \in Commands16
  BY DEF Commands16
<1>2. /\ [v EXCEPT !.at = at].at = at /\ [v EXCEPT !.at = at].op = v.op
      /\ [v EXCEPT !.at = at].key = v.key /\ [v EXCEPT !.at = at].want = v.want
      /\ [v EXCEPT !.at = at].slot = v.slot /\ [v EXCEPT !.at = at].empty = v.empty
  BY DEF Commands16
<1> QED
  BY <1>1, <1>2

\* A command that moves to slot i is otherwise the same.
LEMMA SlotSet ==
  ASSUME NEW v \in Commands16, NEW i \in 0..SlotCount16
  PROVE  \E w \in Commands16 :
           /\ w = [v EXCEPT !.slot = i] /\ w.slot = i
           /\ w.op = v.op /\ w.key = v.key /\ w.want = v.want /\ w.at = v.at
<1>1. [v EXCEPT !.slot = i] \in Commands16
  BY DEF Commands16
<1>2. /\ [v EXCEPT !.slot = i].slot = i /\ [v EXCEPT !.slot = i].op = v.op
      /\ [v EXCEPT !.slot = i].key = v.key /\ [v EXCEPT !.slot = i].want = v.want
      /\ [v EXCEPT !.slot = i].at = v.at
  BY DEF Commands16
<1> QED
  BY <1>1, <1>2

\* A get that has its answer.
Answered(v, a) == [v EXCEPT !.at = "told", !.answer = a]

\* A command that takes its answer is otherwise the same.
LEMMA AnswerSet ==
  ASSUME NEW v \in Commands16, NEW a \in Fields16
  PROVE  \E w \in Commands16 :
           /\ w = Answered(v, a) /\ w.at = "told" /\ w.answer = a
           /\ w.op = v.op /\ w.key = v.key /\ w.want = v.want
<1> DEFINE w == [v EXCEPT !.at = "told", !.answer = a]
<1>1. "told" \in Stages16
  BY DEF Stages16
<1>2. w \in Commands16
  BY <1>1 DEF Commands16
<1>3. w.at = "told" /\ w.answer = a /\ w.op = v.op /\ w.key = v.key /\ w.want = v.want
  BY DEF Commands16
<1> HIDE DEF w
<1>4. \E x \in Commands16 :
        x = w /\ x.at = "told" /\ x.answer = a /\ x.op = v.op /\ x.key = v.key /\ x.want = v.want
  BY <1>2, <1>3
<1> QED
  BY <1>4 DEF w, Answered

\* A command ends, or is killed.
LEMMA CommandEnds ==
  ASSUME Kv0Inv, NEW p \in Procs16, End16(p), UNCHANGED <<slots16, last16>>
  PROVE  Kv0Inv'
<1>1. Idle16 \in Commands16 /\ Idle16.op = "none" /\ Idle16.at = "idle" /\ ~IsWriter(Idle16)
  BY IdleType DEF Idle16, IsWriter
<1>2. PICK w \in Commands16 : w = Idle16 /\ w.op = "none" /\ w.at = "idle" /\ ~IsWriter(w)
  BY <1>1
<1>3. proc16' = [proc16 EXCEPT ![p] = w]
  BY <1>2 DEF End16
<1> QED
  BY <1>2, <1>3, CommandStep

\* A create, a dump or the opening of a file goes on.
LEMMA CommandGoesOn ==
  ASSUME Kv0Inv, NEW p \in Procs16, NEW at \in Stages16 \ {"open"}, To(p, at),
         UNCHANGED <<slots16, last16>>,
         proc16[p].op # "none", proc16[p].at # "idle",
         ~(proc16[p].op = "set" /\ at \in {"key", "value"}),
         proc16[p].op = "set" => SetterAt([proc16[p] EXCEPT !.at = at], slots16),
         proc16[p].op = "get" => GetterAt([proc16[p] EXCEPT !.at = at], slots16)
  PROVE  Kv0Inv'
<1>1. proc16[p] \in Commands16 /\ proc16[p].key \in Keys16
  BY DEF Kv0Inv, Kv0TypeOK
<1>2. PICK w \in Commands16 :
        /\ w = [proc16[p] EXCEPT !.at = at]
        /\ w.op = proc16[p].op /\ w.key = proc16[p].key /\ w.want = proc16[p].want /\ w.at = at
  BY <1>1, StageSet
<1>3. proc16' = [proc16 EXCEPT ![p] = w]
  BY <1>2 DEF To
<1>4. IsWriter(w) => p \in Writing
  BY <1>2 DEF IsWriter, Writing
<1> QED
  BY <1>1, <1>2, <1>3, <1>4, CommandStep

\* Every command starts with what the table promises of its key.
LEMMA CommandStarts ==
  ASSUME Kv0Inv, TakeTurns, NEW p \in Procs16, Command16(p)
  PROVE  Kv0Inv'
<1>1. PICK op \in {"create", "set", "get", "dump"}, y \in Keys16, v \in Values16 :
        /\ op \in {"create", "set"} => Writing = {}
        /\ proc16' = [proc16 EXCEPT ![p] =
             [Idle16 EXCEPT !.op = op, !.at = "open", !.key = y, !.val = v, !.want = last16[y]]]
  BY DEF Command16
<1>2. UNCHANGED <<slots16, last16>>
  BY DEF Command16
<1>3. last16[y] \in Fields16 /\ Holds(y, last16[y], slots16)
  BY DEF Kv0Inv, Kv0TypeOK
<1>4. PICK w \in Commands16 :
        /\ w = [Idle16 EXCEPT !.op = op, !.at = "open", !.key = y, !.val = v, !.want = last16[y]]
        /\ w.op = op /\ w.at = "open" /\ w.key = y /\ w.want = last16[y]
        /\ w.slot = 0 /\ w.empty = SlotCount16
  <2>1. op \in Ops16 /\ "open" \in Stages16 /\ v \in Fields16 /\ y \in Keys16 \cup {Nul16}
    BY DEF Ops16, Stages16, Fields16
  <2> DEFINE w == [Idle16 EXCEPT !.op = op, !.at = "open", !.key = y, !.val = v, !.want = last16[y]]
  <2>2. w \in Commands16
    BY <2>1, <1>3, IdleType DEF Commands16
  <2>3. w.op = op /\ w.at = "open" /\ w.key = y /\ w.want = last16[y]
    BY IdleType DEF Commands16
  <2>4. Idle16.slot = 0 /\ Idle16.empty = SlotCount16
    BY DEF Idle16
  <2>5. w.slot = 0 /\ w.empty = SlotCount16
    BY <2>4, IdleType DEF Commands16
  <2> HIDE DEF w
  <2>6. \E x \in Commands16 :
          /\ x = w /\ x.op = op /\ x.at = "open" /\ x.key = y /\ x.want = last16[y]
          /\ x.slot = 0 /\ x.empty = SlotCount16
    BY <2>2, <2>3, <2>5
  <2> QED
    BY <2>6 DEF w
<1>5. SetterAt(w, slots16) /\ GetterAt(w, slots16)
  BY <1>3, <1>4 DEF SetterAt, GetterAt
<1>6. proc16' = [proc16 EXCEPT ![p] = w]
  BY <1>1, <1>4
<1>7. IsWriter(w) => Writing = {}
  BY <1>1, <1>4 DEF IsWriter
<1> QED
  BY <1>2, <1>4, <1>5, <1>6, <1>7, CommandStep

\* The probe of a set: what it passed has another key, what it noted is empty.
LEMMA ProbeSetInv ==
  ASSUME Kv0Inv, NEW p \in Procs16, ProbeSet(p)
  PROVE  Kv0Inv'
<1> DEFINE v == proc16[p]
<1>1. /\ v \in Commands16 /\ v.key \in Keys16 /\ v.op = "set" /\ v.at = "probe"
      /\ SetterAt(v, slots16) /\ slots16 \in Tables16
  BY DEF Kv0Inv, Kv0TypeOK, ProbeSet, At
<1>2. PICK i : i = v.slot /\ i \in 0..SlotCount16 /\ v.empty \in 0..SlotCount16
  BY <1>1 DEF Commands16
<1>3. SlotCount16 \in Nat \ {0} /\ Nul16 \notin Keys16 /\ "found" \in Stages16
  BY Kv0Assumption DEF Stages16
<1>4. UNCHANGED <<slots16, last16>>
  BY DEF ProbeSet
<1>5. /\ \A j \in Slots16 : j < i => slots16[j].key # v.key
      /\ v.empty = SlotCount16 \/ slots16[v.empty].key = Nul16
  BY <1>1, <1>2 DEF SetterAt
<1>6. PICK w : /\ proc16' = [proc16 EXCEPT ![p] = w]
               /\ w = IF i = SlotCount16 THEN [v EXCEPT !.at = "found", !.slot = v.empty]
                      ELSE IF slots16[i].key = v.key THEN [v EXCEPT !.at = "found"]
                      ELSE IF slots16[i].key = Nul16 /\ v.empty = SlotCount16
                           THEN [v EXCEPT !.slot = i + 1, !.empty = i]
                      ELSE [v EXCEPT !.slot = i + 1]
  BY <1>2 DEF ProbeSet, ProbeNext
<1> HIDE DEF v
<1>7. \/ i = SlotCount16 /\ w = [v EXCEPT !.at = "found", !.slot = v.empty]
      \/ i # SlotCount16 /\ slots16[i].key = v.key /\ w = [v EXCEPT !.at = "found"]
      \/ /\ i # SlotCount16 /\ slots16[i].key # v.key /\ slots16[i].key = Nul16
         /\ w = [v EXCEPT !.slot = i + 1, !.empty = i]
      \/ i # SlotCount16 /\ slots16[i].key # v.key /\ w = [v EXCEPT !.slot = i + 1]
  BY <1>6
<1>8. /\ w \in Commands16 /\ w.op = "set" /\ w.key = v.key /\ w.at \in {"probe", "found"}
      /\ SetterAt(w, slots16)
  <2>1. CASE i = SlotCount16 /\ w = [v EXCEPT !.at = "found", !.slot = v.empty]
    <3>1. /\ w \in Commands16 /\ w.op = "set" /\ w.key = v.key /\ w.at = "found"
          /\ w.slot = v.empty
      BY <2>1, <1>1, <1>2, <1>3 DEF Commands16
    <3>2. \A j \in Slots16 : slots16[j].key # v.key
      BY <2>1, <1>2, <1>3, <1>5 DEF Slots16
    <3> QED
      BY <3>1, <3>2, <1>5 DEF SetterAt
  <2>2. CASE i # SlotCount16 /\ slots16[i].key = v.key /\ w = [v EXCEPT !.at = "found"]
    <3>1. /\ w \in Commands16 /\ w.op = "set" /\ w.key = v.key /\ w.at = "found" /\ w.slot = i
      BY <2>2, <1>1, <1>2, <1>3 DEF Commands16
    <3>2. i \in Slots16 /\ v.key # Nul16
      BY <2>2, <1>1, <1>2, <1>3 DEF Slots16
    <3>3. \A j \in Slots16 : j # i => slots16[j].key # v.key
      BY <2>2, <3>2 DEF Kv0Inv, OnePlace
    <3> QED
      BY <3>1, <3>3, <2>2 DEF SetterAt
  <2>3. CASE /\ i # SlotCount16 /\ slots16[i].key # v.key /\ slots16[i].key = Nul16
             /\ w = [v EXCEPT !.slot = i + 1, !.empty = i]
    <3>1. i + 1 \in 0..SlotCount16
      BY <2>3, <1>2, <1>3
    <3>3. /\ w \in Commands16 /\ w.op = "set" /\ w.key = v.key /\ w.at = "probe"
          /\ w.slot = i + 1 /\ w.empty = i
      BY <3>1, <2>3, <1>1, <1>2 DEF Commands16
    <3>2. \A j \in Slots16 : j < i + 1 => j < i \/ j = i
      BY <1>2, <1>3 DEF Slots16
    <3> QED
      BY <3>2, <3>3, <2>3, <1>5 DEF SetterAt
  <2>4. CASE i # SlotCount16 /\ slots16[i].key # v.key /\ w = [v EXCEPT !.slot = i + 1]
    <3>1. /\ w \in Commands16 /\ w.op = "set" /\ w.key = v.key /\ w.at = "probe"
          /\ w.slot = i + 1 /\ w.empty = v.empty
      BY <2>4, <1>1, <1>2, <1>3 DEF Commands16
    <3>2. \A j \in Slots16 : j < i + 1 => j < i \/ j = i
      BY <1>2, <1>3 DEF Slots16
    <3> QED
      BY <3>1, <3>2, <2>4, <1>5 DEF SetterAt
  <2> QED
    BY <1>7, <2>1, <2>2, <2>3, <2>4
<1>9. p \in Writing
  BY <1>1 DEF Writing, v
<1> QED
  BY <1>1, <1>4, <1>6, <1>8, <1>9, CommandStep

\* The probe of a get: a key that is promised is found in its one place.
LEMMA ProbeGetInv ==
  ASSUME Kv0Inv, NEW p \in Procs16, ProbeGet(p) \/ ReadValue(p)
  PROVE  Kv0Inv'
<1>1. PICK v \in Commands16 :
        /\ v = proc16[p] /\ v.key \in Keys16 /\ v.op = "get" /\ v.at \in {"probe", "read"}
        /\ GetterAt(v, slots16)
  BY DEF Kv0Inv, Kv0TypeOK, ProbeGet, ReadValue, At
<1>2. UNCHANGED <<slots16, last16>> /\ slots16 \in Tables16 /\ OnePlace(slots16)
  BY DEF ProbeGet, ReadValue, Kv0Inv, Kv0TypeOK
<1>3. /\ SlotCount16 \in Nat \ {0} /\ v.key # Nul16 /\ v.slot \in 0..SlotCount16
      /\ "told" \in Stages16 /\ "read" \in Stages16 /\ "missing" \in Fields16
  BY <1>1, Kv0Assumption DEF Stages16, Fields16, Commands16
<1>4. Holds(v.key, v.want, slots16)
  BY <1>1 DEF GetterAt
<1>5. SUFFICES ASSUME NEW w \in Commands16, proc16' = [proc16 EXCEPT ![p] = w],
                      w.op = "get", w.key = v.key, w.want = v.want, w.at # "open",
                      GetterAt(w, slots16)
               PROVE  Kv0Inv'
  <2>1. \E w \in Commands16 :
          /\ proc16' = [proc16 EXCEPT ![p] = w] /\ w.op = "get" /\ w.key = v.key
          /\ w.want = v.want /\ w.at # "open" /\ GetterAt(w, slots16)
    <3>1. CASE v.at = "probe" /\ v.slot = SlotCount16 /\ Answer(p, "missing")
      <4>1. PICK w \in Commands16 :
              /\ w = Answered(v, "missing")
              /\ w.op = "get" /\ w.key = v.key /\ w.want = v.want /\ w.at = "told"
              /\ w.answer = "missing"
        BY <1>1, <1>3, AnswerSet
      <4>2. proc16' = [proc16 EXCEPT ![p] = w]
        BY <3>1, <4>1, <1>1 DEF Answer, Answered
      <4>3. v.want # "any" => \A j \in Slots16 : slots16[j].key # v.key
        BY <3>1, <1>1, <1>3 DEF GetterAt, Slots16
      <4>4. w.want \in {"any", w.answer}
        BY <4>1, <4>3, <1>4 DEF Holds
      <4> QED
        BY <4>1, <4>2, <4>4 DEF GetterAt
    <3>2. CASE /\ v.at = "probe" /\ v.slot \in Slots16 /\ slots16[v.slot].key = v.key
               /\ To(p, "read")
      <4>1. PICK w \in Commands16 :
              /\ w = [v EXCEPT !.at = "read"]
              /\ w.op = "get" /\ w.key = v.key /\ w.want = v.want /\ w.at = "read"
              /\ w.slot = v.slot
        BY <1>1, <1>3, StageSet
      <4>2. proc16' = [proc16 EXCEPT ![p] = w]
        BY <3>2, <4>1, <1>1 DEF To
      <4>3. GetterAt(w, slots16)
        BY <4>1, <3>2, <1>4 DEF GetterAt
      <4> QED
        BY <4>1, <4>2, <4>3
    <3>3. CASE /\ v.at = "probe" /\ v.slot \in Slots16 /\ slots16[v.slot].key # v.key
               /\ proc16' = [proc16 EXCEPT ![p].slot = v.slot + 1]
      <4>1. v.slot + 1 \in 0..SlotCount16 /\ \A j \in Slots16 : j < v.slot + 1 => j < v.slot \/ j = v.slot
        BY <3>3, <1>3 DEF Slots16
      <4>2. PICK w \in Commands16 :
              /\ w = [v EXCEPT !.slot = v.slot + 1]
              /\ w.op = "get" /\ w.key = v.key /\ w.want = v.want /\ w.at = "probe"
              /\ w.slot = v.slot + 1
        BY <3>3, <4>1, <1>1, SlotSet
      <4>3. proc16' = [proc16 EXCEPT ![p] = w]
        BY <3>3, <4>2, <1>1
      <4>4. GetterAt(w, slots16)
        BY <4>1, <4>2, <3>3, <1>1, <1>4 DEF GetterAt
      <4> QED
        BY <4>2, <4>3, <4>4
    <3>4. CASE v.at = "read" /\ Answer(p, slots16[v.slot].val)
      <4>1. v.slot \in Slots16 /\ slots16[v.slot].val \in Fields16
        BY <3>4, <1>1, <1>2 DEF GetterAt, Tables16
      <4>2. PICK w \in Commands16 :
              /\ w = Answered(v, slots16[v.slot].val)
              /\ w.op = "get" /\ w.key = v.key /\ w.want = v.want /\ w.at = "told"
              /\ w.answer = slots16[v.slot].val
        BY <4>1, <1>1, AnswerSet
      <4>3. proc16' = [proc16 EXCEPT ![p] = w]
        BY <3>4, <4>2, <1>1 DEF Answer, Answered
      <4>4. v.want # "any" => slots16[v.slot].key = v.key
        BY <3>4, <1>1 DEF GetterAt
      <4>5. w.want \in {"any", w.answer}
        BY <4>1, <4>2, <4>4, <1>2, <1>3, <1>4 DEF Holds, OnePlace
      <4> QED
        BY <4>2, <4>3, <4>5 DEF GetterAt
    <3> QED
      BY <3>1, <3>2, <3>3, <3>4, <1>1 DEF ProbeGet, ReadValue, At
  <2> QED
    BY <2>1
<1> QED
  BY <1>1, <1>2, <1>5, CommandStep DEF IsWriter

\* The steps of create, open and dump that leave the table alone.
LEMMA OpenInv ==
  ASSUME Kv0Inv, NEW p \in Procs16, Extend(p) \/ Open16(p) \/ DumpNext(p)
  PROVE  Kv0Inv'
<1>2. UNCHANGED <<slots16, last16>> /\ proc16[p] \in Commands16
  BY DEF Extend, Open16, DumpNext, Kv0Inv, Kv0TypeOK
<1>3. SlotCount16 \in Nat \ {0} /\ "header" \in Stages16 /\ "probe" \in Stages16
  BY Kv0Assumption DEF Stages16
<1>4. CASE Extend(p)
  <2>1. proc16[p].op = "create" /\ proc16[p].at = "extend" /\ To(p, "header")
    BY <1>4 DEF Extend, At
  <2> QED
    BY <2>1, <1>2, <1>3, CommandGoesOn
<1>5. CASE Open16(p) /\ To(p, "probe")
  <2>1. proc16[p].op \in {"set", "get", "dump"} /\ proc16[p].at = "open"
    BY <1>5 DEF Open16
  <2>2. PICK w \in Commands16 :
          /\ w = [proc16[p] EXCEPT !.at = "probe"] /\ w.op = proc16[p].op /\ w.key = proc16[p].key
          /\ w.want = proc16[p].want /\ w.at = "probe" /\ w.slot = proc16[p].slot
          /\ w.empty = proc16[p].empty
    BY <1>2, <1>3, StageSet
  <2>3. proc16[p].slot = 0 /\ proc16[p].empty = SlotCount16
    BY <2>1 DEF Kv0Inv, Kv0TypeOK
  <2>4. \A j \in Slots16 : ~(j < 0)
    BY <1>3 DEF Slots16
  <2>5. w.op = "set" => SetterAt(w, slots16)
    BY <2>2, <2>3, <2>4 DEF SetterAt
  <2>6. w.op = "get" => GetterAt(w, slots16)
    <3>1. w.op = "get" => Holds(w.key, w.want, slots16)
      BY <2>1, <2>2 DEF Kv0Inv, GetterAt
    <3> QED
      BY <3>1, <2>2, <2>3, <2>4 DEF GetterAt
  <2> QED
    BY <2>1, <2>2, <2>5, <2>6, <1>2, <1>3, <1>5, CommandGoesOn
<1>6. CASE DumpNext(p) /\ ~End16(p)
  <2>1. /\ proc16[p].op = "dump" /\ proc16[p].at = "probe" /\ proc16[p].slot # SlotCount16
        /\ proc16' = [proc16 EXCEPT ![p].slot = proc16[p].slot + 1]
    BY <1>6 DEF DumpNext, At
  <2>2. proc16[p].slot \in 0..SlotCount16
    BY <1>2 DEF Commands16
  <2>3. proc16[p].slot + 1 \in 0..SlotCount16
    BY <2>1, <2>2, <1>3
  <2>4. PICK w \in Commands16 :
          /\ w = [proc16[p] EXCEPT !.slot = proc16[p].slot + 1] /\ w.op = "dump"
          /\ w.key = proc16[p].key /\ w.at = "probe"
    BY <2>1, <2>3, <1>2, SlotSet
  <2>5. proc16' = [proc16 EXCEPT ![p] = w]
    BY <2>1, <2>4
  <2>6. ~IsWriter(w) /\ w.key \in Keys16
    BY <2>1, <2>4 DEF IsWriter, Kv0Inv, Kv0TypeOK
  <2> QED
    BY <2>4, <2>5, <2>6, <1>2, CommandStep
<1>7. CASE End16(p)
  BY <1>2, <1>7, CommandEnds
<1> QED
  BY <1>4, <1>5, <1>6, <1>7 DEF Open16

\* Nothing is promised any more to a get whose key is being rewritten.
Released(w) == [w EXCEPT !.want = "any"]

\* A get that may find anything is otherwise the same.
LEMMA ReleasedType ==
  ASSUME NEW w \in Commands16
  PROVE  /\ Released(w) \in Commands16 /\ Released(w).want = "any"
         /\ Released(w).op = w.op /\ Released(w).at = w.at /\ Released(w).key = w.key
         /\ Released(w).slot = w.slot /\ Released(w).empty = w.empty
<1>1. "any" \in Fields16
  BY DEF Fields16
<1>2. Released(w) \in Commands16
  BY <1>1 DEF Released, Commands16
<1> QED
  BY <1>2 DEF Released, Commands16

\* A get that was released agrees with every table.
LEMMA GetterReleased ==
  ASSUME NEW w \in Commands16, NEW S, NEW T, GetterAt(w, S)
  PROVE  GetterAt(Released(w), T)
BY ReleasedType DEF GetterAt, Holds

\* A get does not notice the change of slots that do not hold its key.
LEMMA GetterKept ==
  ASSUME NEW S, NEW T, NEW w, GetterAt(w, S),
         \A j \in Slots16 : T[j] = S[j] \/ (S[j].key # w.key /\ T[j].key # w.key)
  PROVE  GetterAt(w, T)
<1>1. Holds(w.key, w.want, S) => Holds(w.key, w.want, T)
  BY DEF Holds
<1> QED
  BY <1>1 DEF GetterAt

\* A set rewrites its slot: the step of one writer.
LEMMA TableStep ==
  ASSUME Kv0Inv, NEW p \in Procs16, p \in Writing, NEW y \in Keys16, NEW i \in Slots16,
         slots16' \in Tables16, last16' \in [Keys16 -> Fields16],
         proc16' \in [Procs16 -> Commands16],
         \A j \in Slots16 : j # i => slots16'[j] = slots16[j],
         slots16[i].key \in {Nul16, y}, slots16'[i].key \in {Nul16, y},
         slots16'[i].key = y => \A j \in Slots16 : j # i => slots16[j].key # y,
         \A z \in Keys16 : z # y => last16'[z] = last16[z],
         Holds(y, last16'[y], slots16'),
         \A q \in Procs16 : q # p => proc16'[q] \in {proc16[q], Released(proc16[q])},
         \A q \in Procs16 : q # p /\ proc16[q].op = "get" /\ proc16[q].key = y =>
           proc16'[q].want = "any",
         proc16'[p].op \in {"none", "set"}, proc16'[p].at # "open",
         proc16'[p].op = "set" =>
           proc16'[p].key = y /\ SetterAt(proc16'[p], slots16') /\ last16'[y] = "any"
  PROVE  Kv0Inv'
<1>1. \A q \in Procs16 : q # p =>
        /\ proc16'[q].op = proc16[q].op /\ proc16'[q].at = proc16[q].at
        /\ proc16'[q].key = proc16[q].key /\ proc16'[q].slot = proc16[q].slot
        /\ proc16'[q].empty = proc16[q].empty
  BY ReleasedType DEF Kv0Inv, Kv0TypeOK
<1>2. Kv0TypeOK'
  <2>1. \A q \in Procs16 : proc16'[q].op # "none" => proc16'[q].key \in Keys16
    BY <1>1 DEF Kv0Inv, Kv0TypeOK
  <2>2. \A q \in Procs16 : proc16'[q].at = "open" => proc16'[q].slot = 0 /\ proc16'[q].empty = SlotCount16
    BY <1>1 DEF Kv0Inv, Kv0TypeOK
  <2> QED
    BY <2>1, <2>2 DEF Kv0TypeOK
<1>3. \A q \in Procs16 : q # p => ~(proc16'[q].op \in {"set", "create"} /\ proc16'[q].at # "idle")
  BY <1>1 DEF Kv0Inv, OneWriter, Writing
<1>4. OneWriter'
  BY <1>3 DEF OneWriter, Writing
<1>5. OnePlace(slots16')
  BY DEF Kv0Inv, OnePlace
<1>6. \A z \in Keys16 : Holds(z, last16'[z], slots16')
  <2>1. TAKE z \in Keys16
  <2>2. CASE z = y
    BY <2>2
  <2>3. CASE z # y
    <3>1. Holds(z, last16[z], slots16) /\ z # Nul16 /\ last16'[z] = last16[z]
      BY <2>3, Kv0Assumption DEF Kv0Inv
    <3>2. \A j \in Slots16 : (slots16[j].key = z <=> slots16'[j].key = z)
      BY <2>3, <3>1
    <3>3. \A j \in Slots16 : slots16[j].key = z => slots16'[j] = slots16[j]
      BY <2>3, <3>1
    <3> QED
      BY <3>1, <3>2, <3>3 DEF Holds
  <2> QED
    BY <2>2, <2>3
<1>7. ASSUME NEW q \in Procs16, proc16'[q].op = "set", proc16'[q].at # "idle"
      PROVE  q = p
  BY <1>3, <1>7
<1>8. ASSUME NEW q \in Procs16, NEW w, w = proc16'[q], w.op = "set"
      PROVE  SetterAt(w, slots16')
  <2>1. CASE q = p
    BY <1>8, <2>1
  <2>2. CASE w.at = "idle"
    BY <2>2 DEF SetterAt
  <2> QED
    BY <1>7, <1>8, <2>1, <2>2
<1>9. ASSUME NEW q \in Procs16, NEW w, w = proc16'[q], w.op = "get"
      PROVE  GetterAt(w, slots16')
  <2>1. q # p /\ proc16[q] \in Commands16 /\ proc16[q].op = "get" /\ GetterAt(proc16[q], slots16)
        /\ proc16[q].key \in Keys16
    BY <1>1, <1>9 DEF Kv0Inv, Kv0TypeOK
  <2>2. CASE w = Released(proc16[q])
    BY <2>1, <2>2, GetterReleased
  <2>3. CASE w = proc16[q] /\ w.key # y
    <3>0. Nul16 \notin Keys16
      BY Kv0Assumption
    <3>1. w.key # y /\ w.key # Nul16 /\ GetterAt(w, slots16)
      BY <2>1, <2>3, <3>0, Zenon
    <3>2. PICK S, T : S = slots16 /\ T = slots16'
      OBVIOUS
    <3>3. \A j \in Slots16 : T[j] = S[j] \/ (S[j].key # w.key /\ T[j].key # w.key)
      BY <3>1, <3>2
    <3>4. GetterAt(w, T)
      BY <3>1, <3>2, <3>3, GetterKept
    <3> QED
      BY <3>2, <3>4
  <2>4. CASE w = proc16[q] /\ w.key = y
    <3>1. w.want = "any"
      BY <2>1, <2>4, <1>9
    <3> QED
      BY <3>1, <2>1, <2>4 DEF GetterAt, Holds
  <2> QED
    BY <2>1, <2>2, <2>3, <2>4, <1>9
<1>10. \A q \in Procs16 :
         proc16'[q].op = "set" /\ proc16'[q].at \in {"key", "value"} => Unsettled(proc16[q].key)'
  <2>1. SUFFICES ASSUME NEW q \in Procs16, NEW x, x = proc16'[q].key,
                        proc16'[q].op = "set", proc16'[q].at \in {"key", "value"}
                 PROVE  /\ last16'[x] = "any"
                        /\ \A r \in Procs16 :
                             proc16'[r].op = "get" /\ proc16'[r].key = x => proc16'[r].want = "any"
    BY DEF Unsettled
  <2>2. q = p /\ x = y /\ last16'[y] = "any"
    BY <1>7, <2>1
  <2>3. \A r \in Procs16 : proc16'[r].op = "get" => r # p
    OBVIOUS
  <2> QED
    BY <2>2, <2>3, <1>1
<1>11. \A q \in Procs16 :
         /\ (proc16[q].op = "set" => SetterAt(proc16[q], slots16))'
         /\ (proc16[q].op = "get" => GetterAt(proc16[q], slots16))'
  BY <1>8, <1>9
<1> QED
  BY <1>2, <1>4, <1>5, <1>6, <1>10, <1>11 DEF Kv0Inv

\* The three stores of a set.
LEMMA SetStoresInv ==
  ASSUME Kv0Inv, NEW p \in Procs16, ClearSlot16(p) \/ WriteKey16(p) \/ WriteValue16(p)
  PROVE  Kv0Inv'
<1>1. PICK v \in Commands16, y \in Keys16, i \in 0..SlotCount16 :
        /\ v = proc16[p] /\ v.op = "set" /\ y = v.key /\ i = v.slot
        /\ v.at \in {"found", "key", "value"} /\ SetterAt(v, slots16)
  BY DEF Kv0Inv, Kv0TypeOK, ClearSlot16, WriteKey16, WriteValue16, At, Commands16
<1>2. /\ slots16 \in Tables16 /\ last16 \in [Keys16 -> Fields16]
      /\ proc16 \in [Procs16 -> Commands16] /\ p \in Writing /\ y # Nul16 /\ Nul16 \notin Keys16
  BY <1>1, Kv0Assumption DEF Kv0Inv, Kv0TypeOK, Writing
<1>3. i # SlotCount16 => i \in Slots16
  BY Kv0Assumption DEF Slots16
<1>4. "key" \in Stages16 /\ "value" \in Stages16 /\ "any" \in Fields16 /\ Nul16 \in Fields16
  BY DEF Stages16, Fields16
<1>5. CASE ClearSlot16(p)
  <2>1. /\ v.at = "found" /\ i # SlotCount16
        /\ slots16' = [slots16 EXCEPT ![i] = Blank16]
        /\ last16' = [last16 EXCEPT ![y] = "any"]
        /\ proc16' = [q \in Procs16 |->
             IF q = p THEN [proc16[q] EXCEPT !.at = "key"]
             ELSE IF proc16[q].key = proc16[p].key THEN [proc16[q] EXCEPT !.want = "any"]
             ELSE proc16[q]]
    BY <1>1, <1>5 DEF ClearSlot16, At
  <2>2. /\ Blank16 \in [key : Keys16 \cup {Nul16}, val : Fields16] /\ Blank16.key = Nul16
    BY <1>4 DEF Blank16
  <2>3. /\ i \in Slots16 /\ slots16' \in Tables16 /\ slots16'[i].key = Nul16
        /\ \A j \in Slots16 : j # i => slots16'[j] = slots16[j]
    BY <2>1, <2>2, <1>2, <1>3 DEF Tables16
  <2>4. /\ last16' \in [Keys16 -> Fields16] /\ last16'[y] = "any"
        /\ \A z \in Keys16 : z # y => last16'[z] = last16[z]
    BY <2>1, <1>2, <1>4
  <2>5. PICK w \in Commands16 :
          /\ w = [v EXCEPT !.at = "key"] /\ w.at = "key" /\ w.op = "set" /\ w.key = y
          /\ w.slot = i
    BY <1>1, <1>4, StageSet
  <2>6. /\ proc16'[p] = w
        /\ \A q \in Procs16 : q # p =>
             proc16'[q] = IF proc16[q].key = y THEN Released(proc16[q]) ELSE proc16[q]
    BY <2>1, <2>5, <1>1 DEF Released
  <2>7. proc16' \in [Procs16 -> Commands16]
    <3>1. \A q \in Procs16 : proc16'[q] \in Commands16
      BY <2>5, <2>6, <1>2, ReleasedType
    <3> QED
      BY <3>1, <2>1
  <2>8. slots16[i].key \in {Nul16, y} /\ \A j \in Slots16 : j # i => slots16[j].key # y
    BY <2>1, <1>1 DEF SetterAt
  <2>9. \A j \in Slots16 : slots16'[j].key # y
    BY <2>3, <2>8, <1>2
  <2>10. SetterAt(w, slots16') /\ Holds(y, last16'[y], slots16')
    BY <2>3, <2>4, <2>5, <2>9 DEF SetterAt, Holds
  <2>11. \A q \in Procs16 : q # p /\ proc16[q].op = "get" /\ proc16[q].key = y =>
           proc16'[q].want = "any"
    BY <2>6, <1>2, ReleasedType
  <2>12. \A q \in Procs16 : q # p => proc16'[q] \in {proc16[q], Released(proc16[q])}
    BY <2>6
  <2>13. slots16'[i].key # y
    BY <2>3, <1>2
  <2>14. /\ proc16'[p].op = "set" /\ proc16'[p].at # "open" /\ proc16'[p].key = y
         /\ SetterAt(proc16'[p], slots16')
    BY <2>5, <2>6, <2>10
  <2> QED
    BY <2>3, <2>4, <2>7, <2>8, <2>10, <2>11, <2>12, <2>13, <2>14, <1>2, TableStep
<1>6. CASE WriteKey16(p)
  <2>1. /\ v.at = "key" /\ To(p, "value") /\ UNCHANGED last16
        /\ slots16' = [slots16 EXCEPT ![i].key = y]
    BY <1>1, <1>6 DEF WriteKey16, At
  <2>2. i \in Slots16 /\ slots16[i].key = Nul16 /\ \A j \in Slots16 : slots16[j].key # y
    BY <2>1, <1>1 DEF SetterAt
  <2>3. /\ slots16' \in Tables16 /\ slots16'[i].key = y
        /\ \A j \in Slots16 : j # i => slots16'[j] = slots16[j]
    BY <2>1, <2>2, <1>1, <1>2 DEF Tables16
  <2>4. PICK w \in Commands16 :
          /\ w = [v EXCEPT !.at = "value"] /\ w.at = "value" /\ w.op = "set" /\ w.key = y
          /\ w.slot = i
    BY <1>1, <1>4, StageSet
  <2>5. /\ proc16' \in [Procs16 -> Commands16] /\ proc16'[p] = w
        /\ \A q \in Procs16 : q # p => proc16'[q] = proc16[q]
    BY <2>1, <2>4, <1>1, <1>2 DEF To
  <2>6. Unsettled(y)
    BY <2>1, <1>1 DEF Kv0Inv
  <2>7. SetterAt(w, slots16') /\ Holds(y, last16'[y], slots16')
    BY <2>1, <2>2, <2>3, <2>4, <2>6 DEF SetterAt, Holds, Unsettled
  <2>8. \A q \in Procs16 : q # p /\ proc16[q].op = "get" /\ proc16[q].key = y =>
          proc16'[q].want = "any"
    BY <2>5, <2>6 DEF Unsettled
  <2>9. last16' = last16 /\ last16'[y] = "any"
    BY <2>1, <2>6 DEF Unsettled
  <2>10. \A q \in Procs16 : q # p => proc16'[q] \in {proc16[q], Released(proc16[q])}
    BY <2>5
  <2>11. /\ proc16'[p].op = "set" /\ proc16'[p].at # "open" /\ proc16'[p].key = y
         /\ SetterAt(proc16'[p], slots16')
    BY <2>4, <2>5, <2>7
  <2> QED
    BY <2>2, <2>3, <2>5, <2>7, <2>8, <2>9, <2>10, <2>11, <1>2, TableStep
<1>7. CASE WriteValue16(p)
  <2>1. /\ v.at = "value" /\ End16(p) /\ last16' = [last16 EXCEPT ![y] = v.val]
        /\ slots16' = [slots16 EXCEPT ![i].val = v.val]
    BY <1>1, <1>7 DEF WriteValue16, At
  <2>2. i \in Slots16 /\ slots16[i].key = y /\ v.val \in Fields16
    BY <2>1, <1>1 DEF SetterAt, Commands16
  <2>3. /\ slots16' \in Tables16 /\ slots16'[i].key = y /\ slots16'[i].val = v.val
        /\ \A j \in Slots16 : j # i => slots16'[j] = slots16[j]
    BY <2>1, <2>2, <1>2 DEF Tables16
  <2>4. /\ last16' \in [Keys16 -> Fields16] /\ last16'[y] = v.val
        /\ \A z \in Keys16 : z # y => last16'[z] = last16[z]
    BY <2>1, <2>2, <1>2
  <2>5. Idle16.op = "none" /\ Idle16.at = "idle"
    BY DEF Idle16
  <2>6. /\ proc16' \in [Procs16 -> Commands16] /\ proc16'[p] = Idle16
        /\ \A q \in Procs16 : q # p => proc16'[q] = proc16[q]
    BY <2>1, <1>2, IdleType DEF End16
  <2>7. Unsettled(y)
    BY <2>1, <1>1 DEF Kv0Inv
  <2>8. Holds(y, last16'[y], slots16')
    BY <2>2, <2>3, <2>4 DEF Holds
  <2>9. \A q \in Procs16 : q # p /\ proc16[q].op = "get" /\ proc16[q].key = y =>
          proc16'[q].want = "any"
    BY <2>6, <2>7 DEF Unsettled
  <2>10. \A j \in Slots16 : j # i => slots16[j].key # y
    BY <2>2, <1>2 DEF Kv0Inv, OnePlace
  <2>11. proc16'[p].op = "none" /\ proc16'[p].at # "open"
    BY <2>5, <2>6
  <2>12. \A q \in Procs16 : q # p => proc16'[q] \in {proc16[q], Released(proc16[q])}
    BY <2>6
  <2> QED
    BY <2>2, <2>3, <2>4, <2>6, <2>8, <2>9, <2>10, <2>11, <2>12, <1>2, TableStep
<1> QED
  BY <1>5, <1>6, <1>7

\* create truncates: every key is gone and nothing is promised to anybody.
LEMMA TruncateInv ==
  ASSUME Kv0Inv, NEW p \in Procs16, Truncate(p)
  PROVE  Kv0Inv'
<1>1. /\ proc16[p].op = "create" /\ proc16[p].at = "open"
      /\ slots16' = [i \in Slots16 |-> Blank16] /\ last16' = [z \in Keys16 |-> "missing"]
      /\ proc16' = [q \in Procs16 |-> IF q = p THEN [proc16[q] EXCEPT !.at = "extend"]
                                      ELSE Released(proc16[q])]
  BY DEF Truncate, At, Released
<1>2. /\ "extend" \in Stages16 /\ "missing" \in Fields16 /\ Nul16 \in Fields16
      /\ Nul16 \notin Keys16 /\ proc16 \in [Procs16 -> Commands16]
  BY Kv0Assumption DEF Stages16, Fields16, Kv0Inv, Kv0TypeOK
<1>3. PICK w \in Commands16 :
        /\ w = [proc16[p] EXCEPT !.at = "extend"] /\ w.at = "extend" /\ w.op = "create"
        /\ w.key = proc16[p].key
  BY <1>1, <1>2, StageSet
<1>4. proc16'[p] = w /\ \A q \in Procs16 : q # p => proc16'[q] = Released(proc16[q])
  BY <1>1, <1>3
<1>5. \A q \in Procs16 : q # p =>
        /\ proc16'[q].op = proc16[q].op /\ proc16'[q].at = proc16[q].at
        /\ proc16'[q].key = proc16[q].key /\ proc16'[q].slot = proc16[q].slot
        /\ proc16'[q].empty = proc16[q].empty /\ proc16'[q] \in Commands16
  BY <1>2, <1>4, ReleasedType
<1>6. Blank16.key = Nul16 /\ Blank16 \in [key : Keys16 \cup {Nul16}, val : Fields16]
  BY <1>2 DEF Blank16
<1>7. slots16' \in Tables16 /\ \A i \in Slots16 : slots16'[i].key = Nul16
  BY <1>1, <1>6 DEF Tables16
<1>8. Kv0TypeOK'
  <2>1. proc16' \in [Procs16 -> Commands16]
    <3>1. \A q \in Procs16 : proc16'[q] \in Commands16
      BY <1>3, <1>4, <1>5
    <3> QED
      BY <3>1, <1>1
  <2>2. last16' \in [Keys16 -> Fields16]
    BY <1>1, <1>2
  <2>3. \A q \in Procs16 : proc16'[q].op # "none" => proc16'[q].key \in Keys16
    BY <1>1, <1>3, <1>4, <1>5 DEF Kv0Inv, Kv0TypeOK
  <2>4. \A q \in Procs16 : proc16'[q].at = "open" => proc16'[q].slot = 0 /\ proc16'[q].empty = SlotCount16
    BY <1>3, <1>4, <1>5 DEF Kv0Inv, Kv0TypeOK
  <2> QED
    BY <2>1, <2>2, <2>3, <2>4, <1>7 DEF Kv0TypeOK
<1>9. \A q \in Procs16 : q # p => ~(proc16'[q].op \in {"set", "create"} /\ proc16'[q].at # "idle")
  BY <1>1, <1>5 DEF Kv0Inv, OneWriter, Writing
<1>10. OneWriter'
  BY <1>9 DEF OneWriter, Writing
<1>11. OnePlace(slots16') /\ \A z \in Keys16 : Holds(z, last16'[z], slots16')
  BY <1>1, <1>2, <1>7 DEF OnePlace, Holds
<1>12. ASSUME NEW q \in Procs16, proc16'[q].op = "set"
       PROVE  proc16'[q].at = "idle"
  BY <1>3, <1>4, <1>9, <1>12
<1>13. ASSUME NEW q \in Procs16, NEW x, x = proc16'[q]
       PROVE  /\ x.op = "set" => SetterAt(x, slots16')
              /\ x.op = "get" => GetterAt(x, slots16')
  <2>1. CASE x.op = "set"
    BY <1>12, <1>13, <2>1 DEF SetterAt
  <2>2. CASE x.op = "get"
    <3>1. q # p /\ proc16[q].op = "get" /\ x = Released(proc16[q])
      BY <1>3, <1>4, <1>5, <1>13, <2>2
    <3>2. GetterAt(proc16[q], slots16) /\ proc16[q] \in Commands16
      BY <3>1, <1>2 DEF Kv0Inv
    <3> QED
      BY <3>1, <3>2, <2>2, GetterReleased
  <2> QED
    BY <2>1, <2>2
<1>14. \A q \in Procs16 :
         /\ (proc16[q].op = "set" => SetterAt(proc16[q], slots16))'
         /\ (proc16[q].op = "get" => GetterAt(proc16[q], slots16))'
  BY <1>13
<1>15. \A q \in Procs16 : ~(proc16'[q].op = "set" /\ proc16'[q].at \in {"key", "value"})
  BY <1>12
<1> QED
  BY <1>8, <1>10, <1>11, <1>14, <1>15 DEF Kv0Inv

\* The first state, before any file exists.
LEMMA Kv0InitInv ==
  Kv0Init => Kv0Inv
<1> SUFFICES ASSUME Kv0Init PROVE Kv0Inv
  OBVIOUS
<1>1. /\ slots16 = [i \in Slots16 |-> Blank16] /\ proc16 = [p \in Procs16 |-> Idle16]
      /\ last16 = [z \in Keys16 |-> "missing"]
  BY DEF Kv0Init
<1>2. /\ "missing" \in Fields16 /\ Nul16 \in Fields16 /\ Nul16 \notin Keys16
  BY Kv0Assumption DEF Fields16
<1>3. /\ Blank16.key = Nul16 /\ Blank16 \in [key : Keys16 \cup {Nul16}, val : Fields16]
      /\ Idle16.op = "none" /\ Idle16.at = "idle"
  BY <1>2 DEF Blank16, Idle16
<1>4. \A p \in Procs16 : proc16[p] = Idle16
  BY <1>1
<1>5. slots16 \in Tables16 /\ \A i \in Slots16 : slots16[i].key = Nul16
  BY <1>1, <1>3 DEF Tables16
<1>6. Kv0TypeOK
  BY <1>1, <1>2, <1>3, <1>4, <1>5, IdleType DEF Kv0TypeOK
<1>7. OneWriter /\ OnePlace(slots16) /\ \A z \in Keys16 : Holds(z, last16[z], slots16)
  BY <1>1, <1>2, <1>3, <1>4, <1>5 DEF OneWriter, Writing, OnePlace, Holds
<1> QED
  BY <1>3, <1>4, <1>6, <1>7 DEF Kv0Inv

\* The steps keep the invariant when writers take turns.
LEMMA Kv0NextInv ==
  ASSUME TakeTurns, Kv0Inv, [Kv0Next]_kv0Vars
  PROVE  Kv0Inv'
<1>1. CASE UNCHANGED kv0Vars
  <2>1. UNCHANGED <<slots16, proc16, last16>>
    BY <1>1 DEF kv0Vars
  <2> QED
    BY <2>1 DEF Kv0Inv, Kv0TypeOK, OneWriter, Writing, OnePlace, Holds, SetterAt, GetterAt, Unsettled
<1>2. ASSUME NEW p \in Procs16, Command16(p) \/ SetterDies(p) \/ Kv0Step(p)
      PROVE  Kv0Inv'
  <2>1. CASE Command16(p)
    BY <2>1, CommandStarts
  <2>2. CASE Truncate(p)
    BY <2>2, TruncateInv
  <2>3. CASE ClearSlot16(p) \/ WriteKey16(p) \/ WriteValue16(p)
    BY <2>3, SetStoresInv
  <2>4. CASE ProbeGet(p) \/ ReadValue(p)
    BY <2>4, ProbeGetInv
  <2>5. CASE Extend(p) \/ Open16(p) \/ DumpNext(p)
    BY <2>5, OpenInv
  <2>6. CASE ProbeSet(p)
    BY <2>6, ProbeSetInv
  <2>7. CASE WriteHeader(p) \/ BusError(p) \/ StoreFull(p) \/ SetterDies(p) \/ Told16(p)
    <3>1. End16(p) /\ UNCHANGED <<slots16, last16>>
      BY <2>7 DEF WriteHeader, BusError, StoreFull, SetterDies, Told16
    <3> QED
      BY <3>1, CommandEnds
  <2> QED
    BY <1>2, <2>1, <2>2, <2>3, <2>4, <2>5, <2>6, <2>7 DEF Kv0Step
<1> QED
  BY <1>1, <1>2 DEF Kv0Next

\* Store::set, cmd_get: when writers take turns, a key has at most one slot,
\* through killed setters and creates under readers, and a get prints what the
\* last completed set of its key wrote, unless a set of it or a create was at
\* work meanwhile or was cut short.
THEOREM Kv0GetsWhatWasSet ==
  TakeTurns => (Kv0Spec => []GetsWhatWasSet)
<1> SUFFICES ASSUME TakeTurns PROVE Kv0Spec => []GetsWhatWasSet
  OBVIOUS
<1>1. Kv0Init => Kv0Inv
  BY Kv0InitInv
<1>2. Kv0Inv /\ [Kv0Next]_kv0Vars => Kv0Inv'
  BY Kv0NextInv
<1>3. Kv0Inv => GetsWhatWasSet
  <2> SUFFICES ASSUME Kv0Inv PROVE GetsWhatWasSet
    OBVIOUS
  <2>1. ASSUME NEW y \in Keys16 PROVE Cardinality(Places(y)) <= 1
    <3>1. \A i, j \in Places(y) : i = j
      BY Kv0Assumption DEF Places, Kv0Inv, OnePlace
    <3>2. CASE Places(y) = {}
      BY <3>2, FS_EmptySet
    <3>3. CASE Places(y) # {}
      <4>1. PICK i : Places(y) = {i}
        BY <3>1, <3>3
      <4>2. Cardinality({i}) = 1
        BY FS_Singleton
      <4> QED
        BY <4>1, <4>2
    <3> QED
      BY <3>2, <3>3
  <2>2. ASSUME NEW p \in Procs16, At(p, "get", "told")
        PROVE  proc16[p].want \in {"any", proc16[p].answer}
    BY <2>2 DEF At, Kv0Inv, GetterAt
  <2> QED
    BY <2>1, <2>2 DEF GetsWhatWasSet
<1> QED
  BY <1>1, <1>2, <1>3, PTL DEF Kv0Spec

-----------------------------------------------------------------------------
(* workq: what Run reports.                                                *)

Items25 == 0..(N - 1)
Sums25 == [count : Nat, sum : SUBSET Items25]

\* Producer i % P has pushed item i.
Pushed(i) == i < next[i % P]
InQueue(i) == \E a \in 1..Len(q_) : q_[a] = i
\* The item of c was popped and is not counted yet.
Uncounted(c) == cpc[c] \in {"fold", "addCount"}
\* The items that were counted.
Done25 ==
  {i \in Items25 : Pushed(i) /\ ~InQueue(i) /\ \A c \in Consumers : Uncounted(c) => held[c] # i}

WqTypeOK ==
  /\ q_ \in Seq(Items25) /\ next \in [Producers -> Nat]
  /\ cpc \in [Consumers -> {"pop", "fold", "addCount", "addSum", "returned"}]
  /\ held \in [Consumers -> Nat]
  /\ loaded \in [Consumers -> Sums25] /\ local \in [Consumers -> Sums25] /\ shared \in Sums25
  /\ joined \in {"producers", "notify", "consumers", "report"}
  /\ buggy \in BOOLEAN /\ closed_ \in BOOLEAN

\* An item is pushed once and is in one place.
ItemsApart ==
  /\ \A p \in Producers : next[p] % P = p
  /\ \A a, b \in 1..Len(q_) : q_[a] = q_[b] => a = b
  /\ \A a \in 1..Len(q_) : Pushed(q_[a])
  /\ \A c \in Consumers : cpc[c] \in {"fold", "addCount", "addSum"} => held[c] \in Items25
  /\ \A c \in Consumers : Uncounted(c) => Pushed(held[c]) /\ ~InQueue(held[c])
  /\ \A c, d \in Consumers : Uncounted(c) /\ Uncounted(d) /\ held[c] = held[d] => c = d

\* After the producers nothing is pushed; a consumer returns from an empty queue.
Drained25 ==
  /\ joined # "producers" => \A p \in Producers : next[p] >= N
  /\ closed_ => joined # "producers"
  /\ \A c \in Consumers : cpc[c] = "returned" => q_ = <<>> /\ joined # "producers"
  /\ joined = "report" => \A c \in Consumers : cpc[c] = "returned"

\* The correct path: the consumers' sums part the counted items between them.
LocalSums ==
  /\ \A c \in Consumers : cpc[c] \notin {"addCount", "addSum"}
  /\ \A i \in Items25 : i \in Done25 <=> \E c \in Consumers : i \in local[c].sum
  /\ \A c, d \in Consumers : c # d => local[c].sum \cap local[d].sum = {}
  /\ \A c \in Consumers : local[c].count = Cardinality(local[c].sum)

\* The path of --buggy: the shared count may stay behind the counted items.
SharedSum ==
  /\ shared.count <= Cardinality(Done25)
  /\ \A c \in Consumers : cpc[c] = "addCount" => loaded[c].count <= Cardinality(Done25)
  /\ Done25 # {} => shared.count > 0

WqInv ==
  /\ WqTypeOK /\ ItemsApart /\ Drained25
  /\ ~buggy => LocalSums
  /\ buggy => SharedSum

-----------------------------------------------------------------------------

\* A stride of c steps stays in its class.
LEMMA StrideStays ==
  ASSUME NEW c \in Nat \ {0}, NEW x \in Nat
  PROVE  (x + c) % c = x % c
<1> DEFINE d == ((x + c) \div c) - (x \div c)
<1>1. /\ x = c * (x \div c) + (x % c) /\ x + c = c * ((x + c) \div c) + ((x + c) % c)
      /\ x \div c \in Int /\ (x + c) \div c \in Int
      /\ x % c \in 0..(c - 1) /\ (x + c) % c \in 0..(c - 1)
  BY SMT
<1>2. d \in Int /\ c * d = c + (x % c) - ((x + c) % c)
  <2>1. c * d = c * ((x + c) \div c) - c * (x \div c)
    BY <1>1, SMT
  <2> QED
    BY <1>1, <2>1, SMT
<1> HIDE DEF d
<1>3. CASE d <= 0
  <2>1. c * d <= 0
    BY <1>2, <1>3, SMT
  <2> QED
    BY <2>1, <1>1, <1>2, SMT
<1>4. CASE d >= 2
  <2>1. c * d >= 2 * c
    BY <1>2, <1>4, SMT
  <2> QED
    BY <2>1, <1>1, <1>2, SMT
<1>5. CASE d = 1
  <2>1. c * d = c
    BY <1>5
  <2> QED
    BY <2>1, <1>1, <1>2, SMT
<1> QED
  BY <1>2, <1>3, <1>4, <1>5

\* There is a producer for every item.
LEMMA ProducersKnown ==
  /\ P \in Nat \ {0} /\ Producers = 0..(P - 1) /\ N \in Nat
  /\ \A i \in Nat : i % P \in Producers
<1>1. P \in Nat
  BY WorkQueueAssumption, FS_CardinalityType DEF P
<1>2. P # 0
  BY WorkQueueAssumption, FS_EmptySet DEF P
<1>3. Producers = 0..(P - 1) /\ N \in Nat
  BY WorkQueueAssumption DEF P
<1> HIDE DEF P
<1>4. \A i \in Nat : i % P \in 0..(P - 1)
  BY <1>1, <1>2
<1> QED
  BY <1>1, <1>2, <1>3, <1>4

\* A push makes one more item pushed, its own.
LEMMA PushedOne ==
  ASSUME WqInv, NEW p \in Producers, next' = [next EXCEPT ![p] = @ + P], next[p] < N
  PROVE  /\ next[p] \in Items25 /\ ~Pushed(next[p])
         /\ next' \in [Producers -> Nat] /\ \A r \in Producers : next'[r] % P = r
         /\ \A i \in Items25 : Pushed(i)' <=> (Pushed(i) \/ i = next[p])
<1> USE DEF Items25
<1>1. /\ P \in Nat \ {0} /\ N \in Nat /\ next \in [Producers -> Nat] /\ next[p] \in Nat
      /\ next[p] % P = p
  BY ProducersKnown DEF WqInv, WqTypeOK, ItemsApart
<1> HIDE DEF P
<1>2. next'[p] = next[p] + P /\ \A r \in Producers : r # p => next'[r] = next[r]
  BY <1>1
<1>3. next[p] \in Items25 /\ ~Pushed(next[p])
  BY <1>1 DEF Pushed
<1>4. next' \in [Producers -> Nat]
  BY <1>1
<1>5. \A r \in Producers : next'[r] % P = r
  <2>1. (next[p] + P) % P = p
    BY <1>1, StrideStays
  <2>2. \A r \in Producers : next[r] % P = r
    BY DEF WqInv, ItemsApart
  <2> QED
    BY <2>1, <2>2, <1>2, Zenon
<1>6. ASSUME NEW i \in Items25
      PROVE  Pushed(i)' <=> (Pushed(i) \/ i = next[p])
  <2>0. i \in Nat /\ i % P \in Producers
    <3>1. i \in Nat
      BY <1>1
    <3>2. \A j \in Nat : j % P \in Producers
      BY ProducersKnown
    <3> QED
      BY <3>1, <3>2, Zenon
  <2>1. CASE i % P # p
    <3>1. next'[i % P] = next[i % P] /\ i # next[p]
      BY <2>0, <2>1, <1>1, <1>2
    <3> QED
      BY <3>1 DEF Pushed, P
  <2>2. CASE i % P = p
    <3>1. next'[i % P] = next[p] + P /\ next[i % P] = next[p]
      BY <2>2, <1>2
    <3>2. ~(next[p] < i /\ i - next[p] < P)
      BY <2>0, <2>2, <1>1, SlotsDiffer
    <3>3. i < next[p] + P <=> (i < next[p] \/ i = next[p])
      BY <3>2, <2>0, <1>1
    <3> QED
      BY <3>1, <3>3 DEF Pushed, P
  <2> QED
    BY <2>1, <2>2
<1> QED
  BY <1>3, <1>4, <1>5, <1>6

\* The counted items are finitely many, at most N.
LEMMA DoneFinite ==
  IsFiniteSet(Done25) /\ Cardinality(Done25) \in Nat /\ Cardinality(Done25) <= N
<1>1. IsFiniteSet(Items25) /\ Cardinality(Items25) = N
  <2>1. N \in Nat /\ 0 \in Int /\ N - 1 \in Int
    BY WorkQueueAssumption
  <2>2. IsFiniteSet(0..(N - 1)) /\ Cardinality(0..(N - 1)) = IF 0 > N - 1 THEN 0 ELSE (N - 1) - 0 + 1
    BY <2>1, FS_Interval
  <2> QED
    BY <2>1, <2>2 DEF Items25
<1>2. Done25 \in SUBSET Items25
  BY DEF Done25
<1>3. IsFiniteSet(Done25) /\ Cardinality(Done25) <= N
  BY <1>1, <1>2, FS_Subset
<1> QED
  BY <1>3, FS_CardinalityType

\* Appending to a queue, and taking its head off.
LEMMA PushedQueue ==
  ASSUME NEW S, NEW s \in Seq(S), NEW x \in S
  PROVE  /\ Append(s, x) \in Seq(S) /\ Len(Append(s, x)) = Len(s) + 1
         /\ \A a \in 1..(Len(s) + 1) :
              IF a = Len(s) + 1 THEN Append(s, x)[a] = x
              ELSE a \in 1..Len(s) /\ Append(s, x)[a] = s[a]
OBVIOUS

\* A queue without its head.
LEMMA PoppedQueue ==
  ASSUME NEW S, NEW s \in Seq(S), s # <<>>
  PROVE  /\ Head(s) \in S /\ Head(s) = s[1] /\ 1 \in 1..Len(s)
         /\ Tail(s) \in Seq(S) /\ Len(Tail(s)) \in Nat
         /\ \A a \in 1..Len(Tail(s)) : Tail(s)[a] = s[a + 1] /\ a + 1 \in 1..Len(s) /\ a + 1 # 1
         /\ \A b \in 1..Len(s) : b # 1 => b - 1 \in 1..Len(Tail(s)) /\ Tail(s)[b - 1] = s[b]
OBVIOUS

\* What keeps the counted items, and where every item is.
LEMMA KeepItems ==
  ASSUME WqInv, UNCHANGED <<q_, next, held>>,
         \A c \in Consumers : Uncounted(c)' <=> Uncounted(c),
         \A c \in Consumers : cpc'[c] = "addSum" => cpc[c] \in {"addCount", "addSum"}
  PROVE  ItemsApart' /\ Done25' = Done25
<1>1. \A i : (Pushed(i)' <=> Pushed(i)) /\ (InQueue(i)' <=> InQueue(i))
  BY DEF Pushed, InQueue
<1>2. Done25' = Done25
  BY <1>1 DEF Done25
<1>3. \A a \in 1..Len(q_) : Pushed(q_[a])'
  BY <1>1 DEF WqInv, ItemsApart, Pushed
<1>4. \A c \in Consumers : Uncounted(c)' => (Pushed(held[c]) /\ ~InQueue(held[c]))'
  BY <1>1 DEF WqInv, ItemsApart, Pushed, InQueue
<1>5. \A c \in Consumers : cpc'[c] \in {"fold", "addCount", "addSum"} => held[c] \in Items25
  BY DEF WqInv, ItemsApart, Uncounted
<1> QED
  BY <1>2, <1>3, <1>4, <1>5 DEF WqInv, ItemsApart

\* What keeps the sums.
LEMMA KeepSums ==
  ASSUME WqInv, Done25' = Done25, UNCHANGED <<buggy, local, shared, loaded>>,
         \A c \in Consumers : cpc'[c] \in {"addCount", "addSum"} => cpc'[c] = cpc[c]
  PROVE  (~buggy => LocalSums)' /\ (buggy => SharedSum)'
BY DEF WqInv, LocalSums, SharedSum

\* A producer pushes.
LEMMA PushInv ==
  ASSUME WqInv, NEW p \in Producers, Push(p)
  PROVE  WqInv'
<1>1. /\ next[p] < N /\ q_' = Append(q_, next[p]) /\ next' = [next EXCEPT ![p] = @ + P]
      /\ UNCHANGED <<buggy, closed_, cpc, held, loaded, local, shared, joined>>
  BY DEF Push
<1>t. WqTypeOK /\ ItemsApart
  BY DEF WqInv
<1>2. /\ next[p] \in Items25 /\ ~Pushed(next[p])
      /\ next' \in [Producers -> Nat] /\ \A r \in Producers : next'[r] % P = r
      /\ \A i \in Items25 : Pushed(i)' <=> (Pushed(i) \/ i = next[p])
  BY <1>1, PushedOne
<1>3. PICK x \in Items25 : x = next[p]
  BY <1>2
<1>4. /\ q_ \in Seq(Items25) /\ q_' \in Seq(Items25) /\ Len(q_') = Len(q_) + 1 /\ Len(q_) \in Nat
      /\ \A a \in 1..Len(q_') :
           IF a = Len(q_) + 1 THEN q_'[a] = x ELSE a \in 1..Len(q_) /\ q_'[a] = q_[a]
  BY <1>1, <1>3, <1>t, PushedQueue DEF WqTypeOK
<1>5. \A a \in 1..Len(q_) : a \in 1..Len(q_') /\ q_'[a] = q_[a] /\ q_[a] \in Items25
  BY <1>4
<1>6. \A i : InQueue(i)' <=> (InQueue(i) \/ i = x)
  BY <1>4, <1>5 DEF InQueue
<1>7. WqTypeOK'
  BY <1>1, <1>2, <1>4, <1>t DEF WqTypeOK
<1>8. Done25' = Done25
  <2>1. \A c \in Consumers : Uncounted(c)' <=> Uncounted(c)
    BY <1>1 DEF Uncounted
  <2> QED
    BY <2>1, <1>1, <1>2, <1>3, <1>6 DEF Done25
<1>9. ItemsApart'
  <2>1. ~InQueue(x)
    BY <1>2, <1>3, <1>t DEF ItemsApart, InQueue
  <2>2. \A a, b \in 1..Len(q_') : q_'[a] = q_'[b] => a = b
    BY <2>1, <1>4, <1>t DEF ItemsApart, InQueue
  <2>3. \A a \in 1..Len(q_') : Pushed(q_[a])'
    <3>1. SUFFICES ASSUME NEW a \in 1..Len(q_'), NEW i, i = q_'[a] PROVE Pushed(i)'
      BY DEF Pushed
    <3>2. i \in Items25 /\ (Pushed(i) \/ i = x)
      BY <3>1, <1>4, <1>5, <1>t DEF ItemsApart
    <3> QED
      BY <3>2, <1>2, <1>3
  <2>4. \A c \in Consumers : Uncounted(c)' => (Pushed(held[c]) /\ ~InQueue(held[c]))'
    <3>1. SUFFICES ASSUME NEW c \in Consumers, Uncounted(c)', NEW i, i = held'[c]
                   PROVE  Pushed(i)' /\ ~InQueue(i)'
      BY DEF Pushed, InQueue
    <3>2. Uncounted(c) /\ i = held[c]
      BY <3>1, <1>1 DEF Uncounted
    <3>3. i \in Items25 /\ Pushed(i) /\ ~InQueue(i)
      BY <3>2, <1>t DEF ItemsApart, Uncounted
    <3> QED
      BY <3>3, <1>2, <1>3, <1>6
  <2>5. \A c \in Consumers : cpc'[c] \in {"fold", "addCount", "addSum"} => held'[c] \in Items25
    BY <1>1, <1>t DEF ItemsApart
  <2>6. \A c, d \in Consumers : Uncounted(c)' /\ Uncounted(d)' /\ held'[c] = held'[d] => c = d
    BY <1>1, <1>t DEF ItemsApart, Uncounted
  <2> QED
    BY <1>2, <2>2, <2>3, <2>4, <2>5, <2>6 DEF ItemsApart
<1>10. joined = "producers"
  <2>1. N \in Nat /\ next[p] \in Nat
    BY WorkQueueAssumption, <1>t DEF WqTypeOK
  <2>2. ~(next[p] >= N)
    BY <2>1, <1>1
  <2> QED
    BY <2>2 DEF WqInv, Drained25
<1>11. Drained25'
  BY <1>1, <1>10 DEF WqInv, Drained25
<1> QED
  BY <1>1, <1>7, <1>8, <1>9, <1>11, KeepSums DEF WqInv

\* A consumer pops: the item goes from the queue into its hands.
LEMMA PopInv ==
  ASSUME WqInv, NEW c \in Consumers, Pop(c)
  PROVE  WqInv'
<1>1. /\ cpc[c] = "pop" /\ q_ # <<>> /\ held' = [held EXCEPT ![c] = Head(q_)] /\ q_' = Tail(q_)
      /\ cpc' = [cpc EXCEPT ![c] = "fold"]
      /\ UNCHANGED <<buggy, closed_, next, loaded, local, shared, joined>>
  BY DEF Pop
<1>t. WqTypeOK /\ ItemsApart
  BY DEF WqInv
<1>2. PICK x \in Items25 :
        /\ x = Head(q_) /\ x = q_[1] /\ 1 \in 1..Len(q_) /\ q_' \in Seq(Items25) /\ Len(q_') \in Nat
        /\ \A a \in 1..Len(q_') : q_'[a] = q_[a + 1] /\ a + 1 \in 1..Len(q_) /\ a + 1 # 1
        /\ \A b \in 1..Len(q_) : b # 1 => b - 1 \in 1..Len(q_') /\ q_'[b - 1] = q_[b]
  BY <1>1, <1>t, PoppedQueue DEF WqTypeOK
<1>3. /\ held'[c] = x /\ cpc'[c] = "fold" /\ x \in Nat
      /\ \A d \in Consumers : d # c => held'[d] = held[d] /\ cpc'[d] = cpc[d]
      /\ held' \in [Consumers -> Nat]
  BY <1>1, <1>2, <1>t DEF WqTypeOK, Items25
<1>4. InQueue(x) /\ ~InQueue(x)' /\ \A i : i # x => (InQueue(i)' <=> InQueue(i))
  <2>1. \A a, b \in 1..Len(q_) : q_[a] = q_[b] => a = b
    BY <1>t DEF ItemsApart
  <2>2. InQueue(x)
    BY <1>2 DEF InQueue
  <2>3. ~InQueue(x)'
    BY <1>2, <2>1 DEF InQueue
  <2>4. ASSUME NEW i, i # x PROVE InQueue(i)' <=> InQueue(i)
    BY <1>2, <2>4 DEF InQueue
  <2> QED
    BY <2>2, <2>3, <2>4
<1>5. \A i : Pushed(i)' <=> Pushed(i)
  BY <1>1 DEF Pushed
<1>6. ~Uncounted(c) /\ Uncounted(c)' /\ \A d \in Consumers : d # c => (Uncounted(d)' <=> Uncounted(d))
  BY <1>1, <1>3 DEF Uncounted
<1>7. WqTypeOK'
  <2>1. cpc' \in [Consumers -> {"pop", "fold", "addCount", "addSum", "returned"}]
    BY <1>1, <1>t DEF WqTypeOK
  <2> QED
    BY <2>1, <1>1, <1>2, <1>3, <1>t DEF WqTypeOK
<1>8. Done25' = Done25
  <2>1. ASSUME NEW i \in Items25 PROVE i \in Done25' <=> i \in Done25
    <3>1. CASE i = x
      BY <3>1, <1>3, <1>4, <1>6 DEF Done25
    <3>2. CASE i # x
      BY <3>2, <1>3, <1>4, <1>5, <1>6 DEF Done25
    <3> QED
      BY <3>1, <3>2
  <2>2. Done25 \subseteq Items25 /\ Done25' \subseteq Items25
    BY DEF Done25
  <2> QED
    BY <2>1, <2>2
<1>9. ItemsApart'
  <2>1. Pushed(x) /\ \A r \in Producers : next'[r] % P = r
    BY <1>1, <1>2, <1>t DEF ItemsApart
  <2>2. \A a, b \in 1..Len(q_') : q_'[a] = q_'[b] => a = b
    <3>1. SUFFICES ASSUME NEW a \in 1..Len(q_'), NEW b \in 1..Len(q_'), q_'[a] = q_'[b] PROVE a = b
      OBVIOUS
    <3>2. a + 1 = b + 1
      BY <3>1, <1>2, <1>t DEF ItemsApart
    <3> QED
      BY <3>2, <1>2
  <2>3. \A a \in 1..Len(q_') : Pushed(q_[a])'
    <3>1. SUFFICES ASSUME NEW a \in 1..Len(q_'), NEW i, i = q_'[a] PROVE Pushed(i)'
      BY DEF Pushed
    <3> QED
      BY <3>1, <1>2, <1>5, <1>t DEF ItemsApart
  <2>4. \A d \in Consumers : Uncounted(d)' => (Pushed(held[d]) /\ ~InQueue(held[d]))'
    <3>1. SUFFICES ASSUME NEW d \in Consumers, Uncounted(d)', NEW i, i = held'[d]
                   PROVE  Pushed(i)' /\ ~InQueue(i)'
      BY DEF Pushed, InQueue
    <3>2. CASE d = c
      BY <3>1, <3>2, <2>1, <1>3, <1>4, <1>5
    <3>3. CASE d # c
      BY <3>1, <3>3, <1>3, <1>4, <1>5, <1>6, <1>t DEF ItemsApart
    <3> QED
      BY <3>2, <3>3
  <2>5. \A d \in Consumers : cpc'[d] \in {"fold", "addCount", "addSum"} => held'[d] \in Items25
    BY <1>2, <1>3, <1>t DEF ItemsApart
  <2>6. \A d, e \in Consumers : Uncounted(d)' /\ Uncounted(e)' /\ held'[d] = held'[e] => d = e
    <3>1. \A d \in Consumers : d # c /\ Uncounted(d) => held'[d] # x
      BY <1>3, <1>4, <1>t DEF ItemsApart
    <3> QED
      BY <3>1, <1>3, <1>6, <1>t DEF ItemsApart
  <2> QED
    BY <2>1, <2>2, <2>3, <2>4, <2>5, <2>6 DEF ItemsApart
<1>10. Drained25'
  BY <1>1, <1>3 DEF WqInv, Drained25
<1>11. \A d \in Consumers : cpc'[d] \in {"addCount", "addSum"} => cpc'[d] = cpc[d]
  BY <1>3
<1> QED
  BY <1>1, <1>7, <1>8, <1>9, <1>10, <1>11, KeepSums DEF WqInv

\* Counting the item in hand.
LEMMA CountedOne ==
  ASSUME WqInv, NEW c \in Consumers, Uncounted(c), ~Uncounted(c)', UNCHANGED <<q_, next, held>>,
         cpc'[c] \in {"pop", "addSum"}, \A d \in Consumers : d # c => cpc'[d] = cpc[d]
  PROVE  /\ ItemsApart' /\ held[c] \in Items25 /\ held[c] \notin Done25
         /\ Done25' = Done25 \cup {held[c]}
         /\ Cardinality(Done25') = Cardinality(Done25) + 1
<1>t. ItemsApart
  BY DEF WqInv
<1>1. \A i : (Pushed(i)' <=> Pushed(i)) /\ (InQueue(i)' <=> InQueue(i))
  BY DEF Pushed, InQueue
<1>2. /\ held[c] \in Items25 /\ Pushed(held[c]) /\ ~InQueue(held[c])
      /\ \A d \in Consumers : d # c /\ Uncounted(d) => held[d] # held[c]
  BY <1>t DEF ItemsApart, Uncounted
<1>3. \A d \in Consumers : Uncounted(d)' <=> (Uncounted(d) /\ d # c)
  BY DEF Uncounted
<1>4. held[c] \notin Done25
  BY DEF Done25
<1>5. Done25' = Done25 \cup {held[c]}
  <2>1. ASSUME NEW i \in Items25 PROVE i \in Done25' <=> (i \in Done25 \/ i = held[c])
    <3>1. CASE i = held[c]
      BY <3>1, <1>1, <1>2, <1>3 DEF Done25
    <3>2. CASE i # held[c]
      BY <3>2, <1>1, <1>3 DEF Done25
    <3> QED
      BY <3>1, <3>2
  <2>2. Done25 \subseteq Items25 /\ Done25' \subseteq Items25
    BY DEF Done25
  <2> QED
    BY <2>1, <2>2, <1>2
<1>6. Cardinality(Done25') = Cardinality(Done25) + 1
  <2>1. IsFiniteSet(Done25)
    BY DoneFinite
  <2>2. Cardinality(Done25 \cup {held[c]}) = Cardinality(Done25) + 1
    BY <2>1, <1>4, FS_AddElement
  <2> QED
    BY <2>2, <1>5
<1>7. ItemsApart'
  <2>1. \A a \in 1..Len(q_) : Pushed(q_[a])'
    BY <1>1, <1>t DEF ItemsApart, Pushed
  <2>2. \A d \in Consumers : Uncounted(d)' => (Pushed(held[d]) /\ ~InQueue(held[d]))'
    BY <1>1, <1>3, <1>t DEF ItemsApart, Pushed, InQueue
  <2>3. \A d \in Consumers : cpc'[d] \in {"fold", "addCount", "addSum"} => held[d] \in Items25
    BY <1>2, <1>t DEF ItemsApart
  <2>4. \A d, e \in Consumers : Uncounted(d)' /\ Uncounted(e)' /\ held[d] = held[e] => d = e
    BY <1>3, <1>t DEF ItemsApart
  <2> QED
    BY <2>1, <2>2, <2>3, <2>4, <1>t DEF ItemsApart
<1> QED
  BY <1>2, <1>4, <1>5, <1>6, <1>7

\* The loop body of the correct path.
LEMMA FoldLocalInv ==
  ASSUME WqInv, NEW c \in Consumers, FoldLocal(c)
  PROVE  WqInv'
<1>1. /\ cpc[c] = "fold" /\ ~buggy /\ local' = [local EXCEPT ![c] = Fold(@, held[c])]
      /\ cpc' = [cpc EXCEPT ![c] = "pop"]
      /\ UNCHANGED <<buggy, q_, closed_, next, held, loaded, shared, joined>>
  BY DEF FoldLocal
<1>t. WqTypeOK /\ LocalSums
  BY <1>1 DEF WqInv
<1>2. /\ cpc'[c] = "pop" /\ \A d \in Consumers : d # c => cpc'[d] = cpc[d]
      /\ cpc' \in [Consumers -> {"pop", "fold", "addCount", "addSum", "returned"}]
  BY <1>1, <1>t DEF WqTypeOK
<1>3. Uncounted(c) /\ ~Uncounted(c)'
  BY <1>1, <1>2 DEF Uncounted
<1>4. /\ ItemsApart' /\ held[c] \in Items25 /\ held[c] \notin Done25
      /\ Done25' = Done25 \cup {held[c]}
  BY <1>1, <1>2, <1>3, CountedOne
<1>5. PICK x \in Items25 : x = held[c] /\ x \notin Done25 /\ x \notin local[c].sum
  BY <1>4, <1>t DEF LocalSums
<1>6. /\ local[c] \in Sums25 /\ local[c].count \in Nat /\ local[c].sum \in SUBSET Items25
      /\ IsFiniteSet(local[c].sum)
  <2>1. local[c] \in Sums25
    BY <1>t DEF WqTypeOK
  <2>2. local[c].sum \subseteq Done25
    BY <2>1, <1>t DEF LocalSums, Sums25
  <2> QED
    BY <2>1, <2>2, DoneFinite, FS_Subset DEF Sums25
<1>7. PICK f : /\ f = Fold(local[c], x) /\ f \in Sums25 /\ f.count = local[c].count + 1
               /\ f.sum = local[c].sum \cup {x}
  <2>1. Fold(local[c], x) = [count |-> local[c].count + 1, sum |-> local[c].sum \cup {x}]
    BY <1>5 DEF Fold
  <2>2. local[c].count + 1 \in Nat /\ local[c].sum \cup {x} \in SUBSET Items25
    BY <1>6
  <2>3. [count |-> local[c].count + 1, sum |-> local[c].sum \cup {x}] \in Sums25
    BY <2>2 DEF Sums25
  <2> QED
    BY <2>1, <2>3
<1>8. /\ local' \in [Consumers -> Sums25] /\ local'[c] = f
      /\ \A d \in Consumers : d # c => local'[d] = local[d]
  BY <1>1, <1>5, <1>7, <1>t DEF WqTypeOK
<1>9. WqTypeOK'
  BY <1>1, <1>2, <1>8, <1>t DEF WqTypeOK
<1>10. LocalSums'
  <2>1. \A d \in Consumers : cpc'[d] \notin {"addCount", "addSum"}
    BY <1>2, <1>t DEF LocalSums
  <2>2. \A i \in Items25 : i \in Done25' <=> \E d \in Consumers : i \in local'[d].sum
    BY <1>4, <1>5, <1>7, <1>8, <1>t DEF LocalSums
  <2>3. \A d \in Consumers : x \notin local[d].sum
    BY <1>5, <1>t DEF LocalSums
  <2>4. \A d, e \in Consumers : d # e => local'[d].sum \cap local'[e].sum = {}
    <3>1. \A d, e \in Consumers : d # e => local[d].sum \cap local[e].sum = {}
      BY <1>t DEF LocalSums
    <3> QED
      BY <3>1, <2>3, <1>7, <1>8
  <2>5. \A d \in Consumers : local'[d].count = Cardinality(local'[d].sum)
    <3>1. Cardinality(local[c].sum \cup {x}) = Cardinality(local[c].sum) + 1
      BY <1>5, <1>6, FS_AddElement
    <3>2. \A d \in Consumers : local[d].count = Cardinality(local[d].sum)
      BY <1>t DEF LocalSums
    <3> QED
      BY <3>1, <3>2, <1>7, <1>8
  <2> QED
    BY <2>1, <2>2, <2>4, <2>5 DEF LocalSums
<1>11. Drained25'
  BY <1>1, <1>2 DEF WqInv, Drained25
<1> QED
  BY <1>1, <1>4, <1>9, <1>10, <1>11 DEF WqInv

\* The loop body of --buggy: the store of the count may lose others, and counts
\* the item.
LEMMA BuggyInv ==
  ASSUME WqInv, NEW c \in Consumers, LoadCount(c) \/ StoreCount(c) \/ StoreSum(c)
  PROVE  WqInv'
<1>t. /\ WqTypeOK /\ ItemsApart /\ loaded[c] \in Sums25 /\ shared \in Sums25
      /\ shared.count \in Nat /\ loaded[c].count \in Nat
      /\ shared.sum \in SUBSET Items25 /\ loaded[c].sum \in SUBSET Items25
  BY DEF WqInv, WqTypeOK, Sums25
<1>b. buggy /\ SharedSum
  <2>1. CASE LoadCount(c)
    BY <2>1 DEF LoadCount, WqInv
  <2>2. CASE cpc[c] \in {"addCount", "addSum"}
    BY <2>2 DEF WqInv, LocalSums
  <2> QED
    BY <2>1, <2>2 DEF StoreCount, StoreSum
<1>1. CASE LoadCount(c)
  <2>1. /\ cpc[c] = "fold" /\ loaded' = [loaded EXCEPT ![c].count = shared.count]
        /\ cpc' = [cpc EXCEPT ![c] = "addCount"]
        /\ UNCHANGED <<buggy, q_, closed_, next, held, local, shared, joined>>
    BY <1>1 DEF LoadCount
  <2>2. /\ cpc'[c] = "addCount" /\ \A d \in Consumers : d # c => cpc'[d] = cpc[d]
        /\ cpc' \in [Consumers -> {"pop", "fold", "addCount", "addSum", "returned"}]
    BY <2>1, <1>t DEF WqTypeOK
  <2>3. /\ loaded' \in [Consumers -> Sums25] /\ loaded'[c].count = shared.count
        /\ \A d \in Consumers : d # c => loaded'[d] = loaded[d]
    BY <2>1, <1>t DEF WqTypeOK, Sums25
  <2>4. WqTypeOK'
    BY <2>1, <2>2, <2>3, <1>t DEF WqTypeOK
  <2>5. \A d \in Consumers : Uncounted(d)' <=> Uncounted(d)
    BY <2>1, <2>2 DEF Uncounted
  <2>6. ItemsApart' /\ Done25' = Done25
    BY <2>1, <2>2, <2>5, KeepItems
  <2>7. SharedSum'
    BY <2>1, <2>2, <2>3, <2>6, <1>b DEF SharedSum
  <2>8. Drained25'
    BY <2>1, <2>2 DEF WqInv, Drained25
  <2> QED
    BY <2>1, <2>4, <2>6, <2>7, <2>8, <1>b DEF WqInv
<1>2. CASE StoreCount(c)
  <2>1. /\ cpc[c] = "addCount" /\ shared' = [shared EXCEPT !.count = loaded[c].count + 1]
        /\ loaded' = [loaded EXCEPT ![c].sum = shared.sum]
        /\ cpc' = [cpc EXCEPT ![c] = "addSum"]
        /\ UNCHANGED <<buggy, q_, closed_, next, held, local, joined>>
    BY <1>2 DEF StoreCount, Fold
  <2>2. /\ cpc'[c] = "addSum" /\ \A d \in Consumers : d # c => cpc'[d] = cpc[d]
        /\ cpc' \in [Consumers -> {"pop", "fold", "addCount", "addSum", "returned"}]
    BY <2>1, <1>t DEF WqTypeOK
  <2>3. /\ loaded' \in [Consumers -> Sums25]
        /\ \A d \in Consumers : d # c => loaded'[d] = loaded[d]
    BY <2>1, <1>t DEF WqTypeOK, Sums25
  <2>4. shared' \in Sums25 /\ shared'.count = loaded[c].count + 1
    BY <2>1, <1>t DEF Sums25
  <2>5. WqTypeOK'
    BY <2>1, <2>2, <2>3, <2>4, <1>t DEF WqTypeOK
  <2>6. Uncounted(c) /\ ~Uncounted(c)'
    BY <2>1, <2>2 DEF Uncounted
  <2>7. ItemsApart' /\ Cardinality(Done25') = Cardinality(Done25) + 1
    BY <2>1, <2>2, <2>6, CountedOne
  <2>8. SharedSum'
    <3>1. Cardinality(Done25) \in Nat
      BY DoneFinite
    <3>2. loaded[c].count <= Cardinality(Done25)
      BY <2>1, <1>b DEF SharedSum
    <3>3. shared'.count <= Cardinality(Done25') /\ shared'.count > 0
      BY <3>1, <3>2, <2>4, <2>7, <1>t
    <3>4. \A d \in Consumers : cpc'[d] = "addCount" => loaded'[d].count <= Cardinality(Done25')
      <4>1. TAKE d \in Consumers
      <4>2. HAVE cpc'[d] = "addCount"
      <4>3. d # c /\ loaded'[d] = loaded[d] /\ loaded[d].count <= Cardinality(Done25)
        BY <4>2, <2>2, <2>3, <1>b DEF SharedSum
      <4>4. loaded[d].count \in Nat
        BY <1>t DEF WqTypeOK, Sums25
      <4> QED
        BY <4>3, <4>4, <3>1, <2>7
    <3> QED
      BY <3>3, <3>4 DEF SharedSum
  <2>9. Drained25'
    BY <2>1, <2>2 DEF WqInv, Drained25
  <2> QED
    BY <2>1, <2>5, <2>7, <2>8, <2>9, <1>b DEF WqInv
<1>3. CASE StoreSum(c)
  <2>1. /\ cpc[c] = "addSum" /\ shared' = [shared EXCEPT !.sum = Fold(loaded[c], held[c]).sum]
        /\ cpc' = [cpc EXCEPT ![c] = "pop"]
        /\ UNCHANGED <<buggy, q_, closed_, next, held, loaded, local, joined>>
    BY <1>3 DEF StoreSum
  <2>2. /\ cpc'[c] = "pop" /\ \A d \in Consumers : d # c => cpc'[d] = cpc[d]
        /\ cpc' \in [Consumers -> {"pop", "fold", "addCount", "addSum", "returned"}]
    BY <2>1, <1>t DEF WqTypeOK
  <2>3. Fold(loaded[c], held[c]).sum \in SUBSET Items25
    <3>1. held[c] \in Items25
      BY <2>1, <1>t DEF ItemsApart
    <3> QED
      BY <3>1, <1>t DEF Fold
  <2>4. shared' \in Sums25 /\ shared'.count = shared.count
    BY <2>1, <2>3, <1>t DEF Sums25
  <2>5. WqTypeOK'
    BY <2>1, <2>2, <2>4, <1>t DEF WqTypeOK
  <2>6. \A d \in Consumers : Uncounted(d)' <=> Uncounted(d)
    BY <2>1, <2>2 DEF Uncounted
  <2>7. ItemsApart' /\ Done25' = Done25
    BY <2>1, <2>2, <2>6, KeepItems
  <2>8. SharedSum'
    BY <2>1, <2>2, <2>4, <2>7, <1>b DEF SharedSum
  <2>9. Drained25'
    BY <2>1, <2>2 DEF WqInv, Drained25
  <2> QED
    BY <2>1, <2>5, <2>7, <2>8, <2>9, <1>b DEF WqInv
<1> QED
  BY <1>1, <1>2, <1>3

\* The steps that move no item: waiting, waking up, returning, joining.
LEMMA QuietInv ==
  ASSUME WqInv, UNCHANGED <<buggy, q_, next, held, loaded, local, shared>>,
         \/ UNCHANGED <<closed_, cpc, joined>>
         \/ \E c \in Consumers : PopBlocks(c)
         \/ WqMain
  PROVE  WqInv'
<1>t. WqTypeOK /\ Drained25
  BY DEF WqInv
<1> DEFINE Quiet ==
      /\ \A c \in Consumers : cpc'[c] = cpc[c] \/ (cpc[c] = "pop" /\ cpc'[c] = "returned")
      /\ cpc' \in [Consumers -> {"pop", "fold", "addCount", "addSum", "returned"}]
      /\ closed_' \in BOOLEAN /\ joined' \in {"producers", "notify", "consumers", "report"}
      /\ Drained25'
<1>1. Quiet
  <2>1. CASE UNCHANGED <<closed_, cpc, joined>>
    BY <2>1, <1>t DEF WqTypeOK, Drained25
  <2>2. ASSUME NEW c \in Consumers, PopBlocks(c)
        PROVE  Quiet
    <3>1. CASE UNCHANGED cpc
      BY <2>2, <3>1, <1>t DEF PopBlocks, WqTypeOK, Drained25
    <3>2. CASE closed_ /\ cpc' = [cpc EXCEPT ![c] = "returned"]
      <4>1. cpc[c] = "pop" /\ q_ = <<>> /\ UNCHANGED <<closed_, joined>> /\ joined # "producers"
        BY <2>2, <3>2, <1>t DEF PopBlocks, Drained25
      <4>2. /\ cpc'[c] = "returned" /\ \A d \in Consumers : d # c => cpc'[d] = cpc[d]
            /\ cpc' \in [Consumers -> {"pop", "fold", "addCount", "addSum", "returned"}]
        BY <3>2, <1>t DEF WqTypeOK
      <4>3. Drained25'
        BY <4>1, <4>2, <1>t DEF Drained25
      <4> QED
        BY <4>1, <4>2, <4>3, <1>t DEF WqTypeOK
    <3> QED
      BY <2>2, <3>1, <3>2 DEF PopBlocks
  <2>3. CASE CloseQueue
    BY <2>3, <1>t DEF CloseQueue, WqTypeOK, Drained25
  <2>4. CASE CloseNotifies
    BY <2>4, <1>t DEF CloseNotifies, WqTypeOK, Drained25
  <2>5. CASE Report
    BY <2>5, <1>t DEF Report, WqTypeOK, Drained25
  <2> QED
    BY <2>1, <2>2, <2>3, <2>4, <2>5 DEF WqMain
<1>2. WqTypeOK'
  BY <1>1, <1>t DEF WqTypeOK
<1>3. \A c \in Consumers : Uncounted(c)' <=> Uncounted(c)
  BY <1>1 DEF Uncounted
<1>4. ItemsApart' /\ Done25' = Done25
  BY <1>1, <1>3, KeepItems
<1>5. \A c \in Consumers : cpc'[c] \in {"addCount", "addSum"} => cpc'[c] = cpc[c]
  BY <1>1
<1>6. (~buggy => LocalSums)' /\ (buggy => SharedSum)'
  BY <1>4, <1>5, KeepSums
<1> QED
  BY <1>1, <1>2, <1>4, <1>6 DEF WqInv

\* The first state: nothing pushed, nothing counted.
LEMMA WqInitInv ==
  WqInit => WqInv
<1> SUFFICES ASSUME WqInit PROVE WqInv
  OBVIOUS
<1>1. /\ buggy \in BOOLEAN /\ q_ = <<>> /\ closed_ = FALSE /\ next = [p \in Producers |-> p]
      /\ cpc = [c \in Consumers |-> "pop"] /\ held = [c \in Consumers |-> 0]
      /\ loaded = [c \in Consumers |-> Zero] /\ local = [c \in Consumers |-> Zero]
      /\ shared = Zero /\ joined = "producers"
  BY DEF WqInit, CommandLine25
<1>2. Zero \in Sums25 /\ Zero.count = 0 /\ Zero.sum = {}
  BY DEF Zero, Sums25
<1>3. P \in Nat \ {0} /\ Producers = 0..(P - 1) /\ N \in Nat
  BY ProducersKnown
<1>4. next \in [Producers -> Nat] /\ \A p \in Producers : next[p] = p /\ p % P = p
  <2> HIDE DEF P
  <2> QED
    BY <1>1, <1>3
<1>5. WqTypeOK
  <2>1. buggy \in BOOLEAN /\ closed_ \in BOOLEAN
    BY <1>1, Zenon
  <2>2. q_ \in Seq(Items25) /\ held \in [Consumers -> Nat]
    BY <1>1
  <2>3. /\ cpc \in [Consumers -> {"pop", "fold", "addCount", "addSum", "returned"}]
        /\ joined \in {"producers", "notify", "consumers", "report"}
    BY <1>1
  <2>4. /\ loaded \in [Consumers -> Sums25] /\ local \in [Consumers -> Sums25]
        /\ shared \in Sums25
    BY <1>1, <1>2
  <2> QED
    BY <2>1, <2>2, <2>3, <2>4, <1>4 DEF WqTypeOK
<1>6. \A c \in Consumers : cpc[c] = "pop" /\ ~Uncounted(c)
  BY <1>1 DEF Uncounted
<1>7. ItemsApart
  BY <1>1, <1>4, <1>6 DEF ItemsApart
<1>8. Done25 = {}
  <2>1. ASSUME NEW i \in Items25 PROVE ~Pushed(i)
    <3>1. i \in Nat
      BY <1>3 DEF Items25
    <3>2. i % P \in Producers /\ i % P <= i
      <4>1. \A j \in Nat : j % P \in Producers
        BY ProducersKnown
      <4>2. i % P \in Producers
        BY <3>1, <4>1, Zenon
      <4>3. i % P \in 0..(P - 1)
        BY <4>2, <1>3, Zenon
      <4> HIDE DEF P
      <4>4. i = P * (i \div P) + (i % P) /\ i \div P \in Nat
        BY <3>1, <1>3, SMT
      <4>5. P * (i \div P) >= 0
        BY <4>4, <1>3, SMT
      <4> QED
        BY <4>2, <4>3, <4>4, <4>5, <3>1, <1>3, SMT
    <3>3. next[i % P] = i % P
      BY <3>2, <1>4
    <3>4. i % P \in Nat
      <4> HIDE DEF P
      <4> QED
        BY <3>1, <1>3
    <3> QED
      BY <3>1, <3>2, <3>3, <3>4 DEF Pushed
  <2> QED
    BY <2>1 DEF Done25
<1>9. Drained25
  BY <1>1, <1>6 DEF Drained25
<1>10. LocalSums
  <2>1. \A c \in Consumers : local[c] = Zero
    BY <1>1
  <2>2. Cardinality({}) = 0
    BY FS_EmptySet
  <2> QED
    BY <2>1, <2>2, <1>2, <1>6, <1>8 DEF LocalSums
<1>11. SharedSum
  <2>1. Cardinality({}) = 0
    BY FS_EmptySet
  <2> QED
    BY <2>1, <1>1, <1>2, <1>6, <1>8 DEF SharedSum
<1> QED
  BY <1>5, <1>7, <1>9, <1>10, <1>11 DEF WqInv

\* Run: whatever the schedule, the number of producers, consumers and items and
\* the capacity, the correct path folds every item in exactly once and counts
\* it; --buggy reports at most N, more than none, and only payloads of items.
THEOREM WqReportedLine ==
  WqSpec => []ReportedLine
<1>1. WqInit => WqInv
  BY WqInitInv
<1>2. WqInv /\ [WqNext]_wqVars => WqInv'
  <2> SUFFICES ASSUME WqInv, [WqNext]_wqVars PROVE WqInv'
    OBVIOUS
  <2>1. ASSUME NEW p \in Producers, WqProducer(p) PROVE WqInv'
    <3>1. CASE Push(p)
      BY <3>1, PushInv
    <3>2. CASE PushBlocks(p)
      BY <3>2, QuietInv DEF PushBlocks
    <3> QED
      BY <2>1, <3>1, <3>2 DEF WqProducer
  <2>2. ASSUME NEW c \in Consumers, WqConsumer(c) PROVE WqInv'
    <3>1. CASE Pop(c)
      BY <3>1, PopInv
    <3>2. CASE PopBlocks(c)
      <4>1. UNCHANGED <<buggy, q_, next, held, loaded, local, shared>>
        BY <3>2 DEF PopBlocks
      <4> QED
        BY <3>2, <4>1, QuietInv
    <3>3. CASE FoldLocal(c)
      BY <3>3, FoldLocalInv
    <3>4. CASE LoadCount(c) \/ StoreCount(c) \/ StoreSum(c)
      BY <3>4, BuggyInv
    <3> QED
      BY <2>2, <3>1, <3>2, <3>3, <3>4 DEF WqConsumer
  <2>3. CASE SpuriousWakeup \/ UNCHANGED wqVars
    BY <2>3, QuietInv DEF SpuriousWakeup, wqVars
  <2>4. CASE WqMain
    <3>1. UNCHANGED <<buggy, q_, next, held, loaded, local, shared>>
      BY <2>4 DEF WqMain, CloseQueue, CloseNotifies, Report
    <3> QED
      BY <2>4, <3>1, QuietInv
  <2> QED
    BY <2>1, <2>2, <2>3, <2>4 DEF WqNext
<1>3. WqInv => ReportedLine
  <2> SUFFICES ASSUME WqInv, joined = "report" PROVE ReportedLine
    BY DEF ReportedLine
  <2>1. /\ q_ = <<>> /\ (\A c \in Consumers : ~Uncounted(c))
        /\ \A p \in Producers : next[p] >= N
    <3>1. \A c \in Consumers : cpc[c] = "returned"
      BY DEF WqInv, Drained25
    <3>2. PICK c : c \in Consumers
      BY WorkQueueAssumption
    <3>3. q_ = <<>>
      BY <3>1, <3>2 DEF WqInv, Drained25
    <3> QED
      BY <3>1, <3>3 DEF WqInv, Drained25, Uncounted
  <2>2. Done25 = Items25
    <3>1. ASSUME NEW i \in Items25 PROVE i \in Done25
      <4>1. N \in Nat /\ i \in Nat /\ i < N
        BY WorkQueueAssumption DEF Items25
      <4>2. \A j \in Nat : j % P \in Producers
        BY ProducersKnown
      <4>3. PICK p \in Producers : p = i % P
        BY <4>1, <4>2, Zenon
      <4>4. next[p] \in Nat /\ next[p] >= N
        BY <2>1 DEF WqInv, WqTypeOK
      <4>5. Pushed(i)
        BY <4>1, <4>3, <4>4 DEF Pushed
      <4>6. ~InQueue(i)
        BY <2>1 DEF InQueue
      <4> QED
        BY <4>5, <4>6, <2>1 DEF Done25
    <3> QED
      BY <3>1 DEF Done25
  <2>3. CASE buggy
    <3>1. shared.count \in Nat /\ shared.sum \subseteq Items25 /\ N \in Nat
      BY WorkQueueAssumption DEF WqInv, WqTypeOK, Sums25
    <3>2. shared.count <= Cardinality(Done25) /\ (Done25 # {} => shared.count > 0)
      BY <2>3 DEF WqInv, SharedSum
    <3>3. shared.count <= N
      BY <3>1, <3>2, DoneFinite
    <3>4. N > 0 => 0 \in Items25
      BY <3>1 DEF Items25
    <3>5. N > 0 => shared.count > 0
      BY <3>2, <3>4, <2>2
    <3> QED
      BY <3>1, <3>3, <3>5, <2>3 DEF ReportedLine, Items25
  <2>4. CASE ~buggy
    <3>1. LocalSums
      BY <2>4 DEF WqInv
    <3>2. \A i \in Items25 : \E c \in Consumers : i \in local[c].sum
      BY <3>1, <2>2 DEF LocalSums
    <3> QED
      BY <3>1, <3>2, <2>4 DEF ReportedLine, LocalSums, Items25
  <2> QED
    BY <2>3, <2>4
<1> QED
  BY <1>1, <1>2, <1>3, PTL DEF WqSpec

=============================================================================
