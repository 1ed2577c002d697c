----------------------------- MODULE WorkQueue -----------------------------
(***************************************************************************)
(* workq, the bounded queue and worker pool of examples/25-shared-state-   *)
(* and-the-futex/cpp/src/main.cpp.  Every critical section of BoundedQueue *)
(* runs under mu_ and is one step; condition_variable::wait releases mu_   *)
(* and joins the waiters in the same step, and wakes up spuriously too.    *)
(* An item is its index: Payload is injective in it.  A checksum, the XOR  *)
(* of payloads, is the set of the items folded in an odd number of times.  *)
(* With --buggy the accumulators are shared and each read-modify-write is  *)
(* a load and a store.                                                     *)
(***************************************************************************)
EXTENDS Naturals, Sequences, FiniteSets

CONSTANTS
  Producers,  \* 0..P-1
  Consumers,
  N,          \* --items
  QueueCap    \* --cap

ASSUME WorkQueueAssumption ==
  /\ IsFiniteSet(Producers) /\ Producers # {}
  /\ Producers = 0..(Cardinality(Producers) - 1)
  /\ IsFiniteSet(Consumers) /\ Consumers # {}
  /\ N \in Nat /\ QueueCap \in Nat \ {0}

VARIABLES
  buggy,      \* cfg.buggy
  q_, closed_,
  not_full_,  \* producers waiting
  not_empty_, \* consumers waiting
  next,       \* the producer's loop variable i
  cpc,        \* consumers: "pop", "fold", "addCount", "addSum", "returned"
  held,       \* the item a consumer popped last
  loaded,     \* the shared accumulators as a consumer of --buggy loaded them
  local,      \* local_counts and local_sums
  shared,     \* shared_consumed and shared_checksum
  joined      \* main: "producers", "notify", "consumers", "report"

wqVars == <<buggy, q_, closed_, not_full_, not_empty_, next, cpc, held, loaded,
            local, shared, joined>>

P == Cardinality(Producers)
Zero == [count |-> 0, sum |-> {}]
\* XOR of payloads: an item folded in twice cancels.
Fold(acc, i) ==
  [count |-> acc.count + 1,
   sum   |-> IF i \in acc.sum THEN acc.sum \ {i} ELSE acc.sum \cup {i}]

\* The counts and the capacity are the constants.
CommandLine25 == buggy \in BOOLEAN

WqInit ==
  /\ CommandLine25
  /\ q_ = <<>> /\ closed_ = FALSE
  /\ not_full_ = {} /\ not_empty_ = {}
  /\ next = [p \in Producers |-> p]
  /\ cpc = [c \in Consumers |-> "pop"]
  /\ held = [c \in Consumers |-> 0]
  /\ loaded = [c \in Consumers |-> Zero]
  /\ local = [c \in Consumers |-> Zero]
  /\ shared = Zero
  /\ joined = "producers"

-----------------------------------------------------------------------------

\* notify_one: any one waiter, if there is one.
NotifyOne(waiters, left) ==
  \/ waiters = {} /\ left = {}
  \/ \E w \in waiters : left = waiters \ {w}

\* Faulty variant: nobody is told about the new item.
PushSilently(p) ==
  /\ p \notin not_full_ /\ next[p] < N
  /\ Len(q_) < QueueCap
  /\ q_' = Append(q_, next[p])
  /\ next' = [next EXCEPT ![p] = @ + P]
  /\ UNCHANGED <<not_empty_, not_full_>>
  /\ UNCHANGED <<buggy, closed_, cpc, held, loaded, local, shared, joined>>

\* Push with room in the queue.
Push(p) ==
  /\ p \notin not_full_ /\ next[p] < N
  /\ Len(q_) < QueueCap
  /\ q_' = Append(q_, next[p])
  /\ next' = [next EXCEPT ![p] = @ + P]
  /\ NotifyOne(not_empty_, not_empty_') /\ UNCHANGED not_full_
  /\ UNCHANGED <<buggy, closed_, cpc, held, loaded, local, shared, joined>>

\* Push on a full queue: not_full_.wait.
PushBlocks(p) ==
  /\ p \notin not_full_ /\ next[p] < N
  /\ Len(q_) >= QueueCap
  /\ not_full_' = not_full_ \cup {p}
  /\ UNCHANGED <<buggy, q_, closed_, not_empty_, next, cpc, held, loaded, local,
                 shared, joined>>

\* Faulty variant: the front is read but not removed.
PopPeeks(c) ==
  /\ cpc[c] = "pop" /\ c \notin not_empty_ /\ q_ # <<>>
  /\ held' = [held EXCEPT ![c] = Head(q_)]
  /\ q_' \in {q_, Tail(q_)}
  /\ NotifyOne(not_full_, not_full_') /\ UNCHANGED not_empty_
  /\ cpc' = [cpc EXCEPT ![c] = "fold"]
  /\ UNCHANGED <<buggy, closed_, next, loaded, local, shared, joined>>

Pop(c) ==
  /\ cpc[c] = "pop" /\ c \notin not_empty_ /\ q_ # <<>>
  /\ held' = [held EXCEPT ![c] = Head(q_)]
  /\ q_' = Tail(q_)
  /\ NotifyOne(not_full_, not_full_') /\ UNCHANGED not_empty_
  /\ cpc' = [cpc EXCEPT ![c] = "fold"]
  /\ UNCHANGED <<buggy, closed_, next, loaded, local, shared, joined>>

\* Pop on an empty queue: not_empty_.wait, or false once it is closed.
PopBlocks(c) ==
  /\ cpc[c] = "pop" /\ c \notin not_empty_ /\ q_ = <<>>
  /\ \/ ~closed_ /\ not_empty_' = not_empty_ \cup {c} /\ UNCHANGED cpc
     \/ closed_ /\ cpc' = [cpc EXCEPT ![c] = "returned"] /\ UNCHANGED not_empty_
  /\ UNCHANGED <<buggy, q_, closed_, not_full_, next, held, loaded, local, shared, joined>>

\* The loop body of the correct path: the consumer's own slot.
FoldLocal(c) ==
  /\ cpc[c] = "fold" /\ ~buggy
  /\ local' = [local EXCEPT ![c] = Fold(@, held[c])]
  /\ cpc' = [cpc EXCEPT ![c] = "pop"]
  /\ UNCHANGED <<buggy, q_, closed_, not_full_, not_empty_, next, held, loaded, shared, joined>>

\* The loop body of --buggy: shared_consumed += 1 and shared_checksum ^= v
\* without a lock.
LoadCount(c) ==
  /\ cpc[c] = "fold" /\ buggy
  /\ loaded' = [loaded EXCEPT ![c].count = shared.count]
  /\ cpc' = [cpc EXCEPT ![c] = "addCount"]
  /\ UNCHANGED <<buggy, q_, closed_, not_full_, not_empty_, next, held, local, shared, joined>>

StoreCount(c) ==
  /\ cpc[c] = "addCount"
  /\ shared' = [shared EXCEPT !.count = Fold(loaded[c], held[c]).count]
  /\ loaded' = [loaded EXCEPT ![c].sum = shared.sum]
  /\ cpc' = [cpc EXCEPT ![c] = "addSum"]
  /\ UNCHANGED <<buggy, q_, closed_, not_full_, not_empty_, next, held, local, joined>>

StoreSum(c) ==
  /\ cpc[c] = "addSum"
  /\ shared' = [shared EXCEPT !.sum = Fold(loaded[c], held[c]).sum]
  /\ cpc' = [cpc EXCEPT ![c] = "pop"]
  /\ UNCHANGED <<buggy, q_, closed_, not_full_, not_empty_, next, held, loaded, local, joined>>

SpuriousWakeup ==
  /\ \/ \E p \in not_full_ : not_full_' = not_full_ \ {p} /\ UNCHANGED not_empty_
     \/ \E c \in not_empty_ : not_empty_' = not_empty_ \ {c} /\ UNCHANGED not_full_
  /\ UNCHANGED <<buggy, q_, closed_, next, cpc, held, loaded, local, shared, joined>>

\* Run: join the producers, Close() (set under mu_, notify_all after it), join
\* the consumers.
CloseQueue ==
  /\ joined = "producers" /\ \A p \in Producers : next[p] >= N
  /\ closed_' = TRUE /\ joined' = "notify"
  /\ UNCHANGED <<buggy, q_, not_full_, not_empty_, next, cpc, held, loaded, local, shared>>

\* Faulty variant: notify_one in Close.
CloseNotifiesOne ==
  /\ joined = "notify" /\ joined' = "consumers"
  /\ NotifyOne(not_empty_, not_empty_')
  /\ UNCHANGED <<buggy, q_, closed_, not_full_, next, cpc, held, loaded, local, shared>>

CloseNotifies ==
  /\ joined = "notify" /\ joined' = "consumers"
  /\ not_empty_' = {}
  /\ UNCHANGED <<buggy, q_, closed_, not_full_, next, cpc, held, loaded, local, shared>>

Report ==
  /\ joined = "consumers" /\ \A c \in Consumers : cpc[c] = "returned"
  /\ joined' = "report"
  /\ UNCHANGED <<buggy, q_, closed_, not_full_, not_empty_, next, cpc, held, loaded,
                 local, shared>>

WqProducer(p) == Push(p) \/ PushBlocks(p)
WqConsumer(c) ==
  \/ Pop(c) \/ PopBlocks(c) \/ FoldLocal(c)
  \/ LoadCount(c) \/ StoreCount(c) \/ StoreSum(c)
WqMain        == CloseQueue \/ CloseNotifies \/ Report

WqNext ==
  \/ \E p \in Producers : WqProducer(p)
  \/ \E c \in Consumers : WqConsumer(c)
  \/ SpuriousWakeup \/ WqMain
WqSpec == WqInit /\ [][WqNext]_wqVars

-----------------------------------------------------------------------------

\* What Run prints.  Without --buggy every item is folded in exactly once, by
\* one consumer, so consumed=N and the checksum is the same for every P and C;
\* with --buggy updates may be lost, never gained.
ReportedLine ==
  joined = "report" =>
    IF buggy
    THEN /\ shared.count <= N /\ (N > 0 => shared.count > 0)
         /\ shared.sum \subseteq 0..(N - 1)
    ELSE /\ \A i \in 0..(N - 1) : \E c \in Consumers : i \in local[c].sum
         /\ \A c, d \in Consumers : c # d => local[c].sum \cap local[d].sum = {}
         /\ \A c \in Consumers : local[c].count = Cardinality(local[c].sum)

\* No lost wakeup: with notify_one on each push and each pop, and notify_all
\* on Close, the pool always drains and joins.  Spurious wakeups are not
\* needed for it.
PoolJoins == <>(joined = "report")
============================================================================
