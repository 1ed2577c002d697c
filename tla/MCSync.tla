------------------------------- MODULE MCSync -------------------------------
(* Independent programs that share memory, on small instances: the ring of *)
(* example 26, the queue of example 25, shmkv v1 and its bench of example  *)
(* 20 and shmkv v0 of example 16.  sys selects the one that runs; the      *)
(* others stay in their first state.                                       *)
EXTENDS SpscRing, WorkQueue, ShmKv, KvBench, KvStore

VARIABLE sys

syncVars == <<sys, ringVars, wqVars, kvVars, benchVars, kv0Vars>>

SyncInit ==
  /\ sys \in {"ring", "workq", "shmkv", "bench", "kv0"}
  /\ RingInit /\ WqInit /\ KvInit /\ BenchInit /\ Kv0Init
  /\ sys # "workq" => ~buggy
  /\ sys # "bench" => chan20 = "mq"

OnlyRing  == sys = "ring"  /\ UNCHANGED <<sys, wqVars, kvVars, benchVars, kv0Vars>>
OnlyWorkq == sys = "workq" /\ UNCHANGED <<sys, ringVars, kvVars, benchVars, kv0Vars>>
OnlyShmkv == sys = "shmkv" /\ UNCHANGED <<sys, ringVars, wqVars, benchVars, kv0Vars>>
OnlyBench == sys = "bench" /\ UNCHANGED <<sys, ringVars, wqVars, kvVars, kv0Vars>>
OnlyKv0   == sys = "kv0"   /\ UNCHANGED <<sys, ringVars, wqVars, kvVars, benchVars>>

SyncNext ==
  \/ RingNext /\ OnlyRing
  \/ WqNext /\ OnlyWorkq
  \/ KvNext /\ OnlyShmkv
  \/ BenchNext /\ OnlyBench
  \/ Kv0Next /\ OnlyKv0

\* Every thread is scheduled again and again, and time passes.  Nothing is
\* assumed of spurious wakeups, of the server being killed, of who gets a
\* mutex, or of the deadline and the failing calls of the bench.
SyncSpec ==
  /\ SyncInit /\ [][SyncNext]_syncVars
  /\ WF_syncVars(Producer /\ OnlyRing) /\ WF_syncVars(Consumer /\ OnlyRing)
  /\ \A p \in Producers : WF_syncVars(WqProducer(p) /\ OnlyWorkq)
  /\ \A c \in Consumers : WF_syncVars(WqConsumer(c) /\ OnlyWorkq)
  /\ WF_syncVars(WqMain /\ OnlyWorkq)
  /\ WF_syncVars(KvServe /\ OnlyShmkv) /\ WF_syncVars(KvWatch /\ OnlyShmkv)
  /\ WF_syncVars(DeadlinePasses /\ OnlyShmkv)
  /\ WF_syncVars(BenchMain /\ OnlyBench) /\ WF_syncVars(BenchTaker /\ OnlyBench)

\* Whoever waits is woken: the ring drains (RingDrains), the pool joins
\* (PoolJoins), the watcher ends (WatchEnds) and the bench reports, unless its
\* 30 s or its message queue fail it (BenchReports), whatever is lost, spurious
\* or killed.
WaitersEnd ==
  /\ sys = "ring" => RingDrains
  /\ sys = "workq" => PoolJoins
  /\ sys = "shmkv" => WatchEnds
  /\ sys = "bench" => BenchReports
=============================================================================
