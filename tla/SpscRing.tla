------------------------------ MODULE SpscRing ------------------------------
(***************************************************************************)
(* The single-producer single-consumer ring of examples/26-atomics-and-    *)
(* lock-free/cpp/src/main.cpp, run_bench.  One thread pushes 0..Items-1,   *)
(* the other pops and sums.  Each load, store and slot access is a step of *)
(* its own; the acquire/release pairs on head and tail order the slot      *)
(* accesses, so steps interleave as in a sequentially consistent memory.   *)
(* The counters are 64 bits wide and never exceed Items, itself a u64; the *)
(* sum is exact here and taken modulo 2^64 in the code.                    *)
(***************************************************************************)
EXTENDS Integers

CONSTANTS
  Cap,    \* --capacity
  Items   \* --items

ASSUME RingAssumption == Cap \in Nat \ {0} /\ Items \in Nat

VARIABLES
  buf,    \* the slots
  head,   \* next position to pop, stored by the consumer
  tail,   \* next position to push, stored by the producer
  prod,   \* the producer thread: pc, t (its own copy of tail)
  cons    \* the consumer thread: pc, h (its own copy of head), sum

ringVars == <<buf, head, tail, prod, cons>>

RingTypeOK ==
  /\ buf \in [0..(Cap - 1) -> Nat]
  /\ head \in Nat /\ tail \in Nat
  /\ prod \in [pc : {"wait", "write", "store"}, t : Nat]
  /\ cons \in [pc : {"wait", "read", "store"}, h : Nat, sum : Nat]

RingInit ==
  /\ buf = [i \in 0..(Cap - 1) |-> 0]
  /\ head = 0 /\ tail = 0
  /\ prod = [pc |-> "wait", t |-> 0]
  /\ cons = [pc |-> "wait", h |-> 0, sum |-> 0]

-----------------------------------------------------------------------------

\* Faulty variant: one slot too many is taken for free.
PushWaitOffByOne ==
  /\ prod.pc = "wait" /\ prod.t < Items
  /\ prod.t - head # Cap + 1
  /\ prod' = [prod EXCEPT !.pc = "write"]
  /\ UNCHANGED <<buf, head, tail, cons>>

\* head.load(acquire); spin while the ring is full.
PushWait ==
  /\ prod.pc = "wait" /\ prod.t < Items
  /\ prod.t - head # Cap
  /\ prod' = [prod EXCEPT !.pc = "write"]
  /\ UNCHANGED <<buf, head, tail, cons>>

\* buf[t % cap] = i, where i = t.
PushWrite ==
  /\ prod.pc = "write"
  /\ buf' = [buf EXCEPT ![prod.t % Cap] = prod.t]
  /\ prod' = [pc |-> "store", t |-> prod.t + 1]
  /\ UNCHANGED <<head, tail, cons>>

\* Faulty variant: the last item is never published.
PushStoreLate ==
  /\ prod.pc = "store"
  /\ tail' = prod.t - 1
  /\ prod' = [prod EXCEPT !.pc = "wait"]
  /\ UNCHANGED <<buf, head, cons>>

\* tail.store(t, release)
PushStore ==
  /\ prod.pc = "store"
  /\ tail' = prod.t
  /\ prod' = [prod EXCEPT !.pc = "wait"]
  /\ UNCHANGED <<buf, head, cons>>

\* tail.load(acquire); spin while the ring is empty.
PopWait ==
  /\ cons.pc = "wait" /\ cons.h < Items
  /\ cons.h # tail
  /\ cons' = [cons EXCEPT !.pc = "read"]
  /\ UNCHANGED <<buf, head, tail, prod>>

\* sum += buf[h % cap]
PopRead ==
  /\ cons.pc = "read"
  /\ cons' = [pc |-> "store", h |-> cons.h + 1, sum |-> cons.sum + buf[cons.h % Cap]]
  /\ UNCHANGED <<buf, head, tail, prod>>

\* head.store(h, release)
PopStore ==
  /\ cons.pc = "store"
  /\ head' = cons.h
  /\ cons' = [cons EXCEPT !.pc = "wait"]
  /\ UNCHANGED <<buf, tail, prod>>

Producer == PushWait \/ PushWrite \/ PushStore
Consumer == PopWait \/ PopRead \/ PopStore
RingNext == Producer \/ Consumer

RingSpec == RingInit /\ [][RingNext]_ringVars

-----------------------------------------------------------------------------

\* The producer never overwrites an item that was not popped: the slots of the
\* positions between the two threads hold the items pushed there.
NoOverwrite ==
  \A i \in cons.h..(prod.t - 1) : buf[i % Cap] = i

\* Every item is popped exactly once and in order: after h pops the sum is
\* 0 + 1 + ... + (h-1), the value verify.lua expects on the output line.
ExactSum == 2 * cons.sum = cons.h * (cons.h - 1)

\* What was popped was right and what was not popped is safe.
RingExact == NoOverwrite /\ ExactSum

\* Both spin loops end: the producer and the consumer never wait on each other.
RingDrains == <>(cons.h = Items /\ cons.pc = "wait")
============================================================================
