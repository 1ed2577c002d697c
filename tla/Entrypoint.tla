----------------------------- MODULE Entrypoint -----------------------------
(***************************************************************************)
(* The container entrypoint, examples/34-our-programs-in-containers,       *)
(* cpp/src/main.cpp: process 1 reaps every child, forwards SIGTERM to its  *)
(* worker, and a thread of it starts a short job every second.  SIGCHLD    *)
(* coalesces.  "naive" handles no signal, and the kernel drops what        *)
(* process 1 does not handle.                                              *)
(***************************************************************************)
EXTENDS Naturals, FiniteSets

CONSTANTS Jobs34, Worker34   \* the jobs of a behaviour, and the worker

Kids34 == Jobs34 \cup {Worker34}

VARIABLES
  mode34,    \* "serve", "naive"
  pc34,      \* main: "fork", "poll", "reap", "stop", "wait", "join", "done"
  spawner34, \* job_spawner: "off", "sleep", "fork", "done"
  stopReq,   \* its stop_token
  kid34,     \* "none", "run", "zombie", "reaped"
  termed34,  \* the worker got SIGTERM
  pend34     \* "term", "chld" pending on the signalfd
epVars == <<mode34, pc34, spawner34, stopReq, kid34, termed34, pend34>>

CommandLine34 == mode34 \in {"serve", "naive"}

EpInit ==
  /\ CommandLine34 /\ pc34 = (IF mode34 = "serve" THEN "fork" ELSE "poll")
  /\ spawner34 = "off" /\ stopReq = FALSE
  /\ kid34 = [k \in Kids34 |-> "none"] /\ termed34 = FALSE /\ pend34 = {}

\* Blocked and waiting in the signalfd, or dropped.
RaiseTerm ==
  /\ pc34 # "done" /\ pend34' = IF mode34 = "serve" THEN pend34 \cup {"term"} ELSE pend34
  /\ UNCHANGED <<mode34, pc34, spawner34, stopReq, kid34, termed34>>

\* A job exits at once; the worker when it is told to, or by accident.
KidExits(k) ==
  /\ kid34[k] = "run" /\ kid34' = [kid34 EXCEPT ![k] = "zombie"]
  /\ pend34' = pend34 \cup {"chld"}
  /\ UNCHANGED <<mode34, pc34, spawner34, stopReq, termed34>>

\* spawn_worker, and the spawner thread starts.
SpawnWorker ==
  /\ pc34 = "fork" /\ pc34' = "poll" /\ spawner34' = "sleep"
  /\ kid34' = [kid34 EXCEPT ![Worker34] = "run"]
  /\ UNCHANGED <<mode34, stopReq, termed34, pend34>>

\* The thread sleeps, sees a stop request or not, and forks.  A fork may fail:
\* that is ignored.
SpawnerWakes ==
  /\ spawner34 = "sleep" /\ spawner34' = IF stopReq THEN "done" ELSE "fork"
  /\ UNCHANGED <<mode34, pc34, stopReq, kid34, termed34, pend34>>

SpawnJob ==
  /\ spawner34 = "fork" /\ spawner34' = "sleep"
  /\ \/ \E k \in Jobs34 : kid34[k] = "none" /\ kid34' = [kid34 EXCEPT ![k] = "run"]
     \/ UNCHANGED kid34
  /\ UNCHANGED <<mode34, pc34, stopReq, termed34, pend34>>

\* One signal is read, SIGTERM before SIGCHLD.
ReadSignal34 ==
  /\ pc34 = "poll" /\ pend34 # {}
  /\ IF "term" \in pend34
     THEN pend34' = pend34 \ {"term"} /\ pc34' = "stop" /\ stopReq' = TRUE
     ELSE pend34' = {} /\ pc34' = "reap" /\ UNCHANGED stopReq
  /\ UNCHANGED <<mode34, spawner34, kid34, termed34>>

Zombies == {k \in Kids34 : kid34[k] = "zombie"}

\* Faulty variant: one child is reaped for one signal.
ReapAllOnce ==
  /\ pc34 = "reap" /\ pc34' = "poll"
  /\ \/ Zombies = {} /\ UNCHANGED kid34
     \/ \E k \in Zombies : kid34' = [kid34 EXCEPT ![k] = "reaped"]
  /\ UNCHANGED <<mode34, spawner34, stopReq, termed34, pend34>>

\* reap_all: waitpid(-1, WNOHANG) until there is nothing to reap.
ReapAll ==
  /\ pc34 = "reap"
  /\ \/ Zombies = {} /\ pc34' = "poll" /\ UNCHANGED kid34
     \/ \E k \in Zombies : kid34' = [kid34 EXCEPT ![k] = "reaped"] /\ UNCHANGED pc34
  /\ UNCHANGED <<mode34, spawner34, stopReq, termed34, pend34>>

\* SIGTERM goes to the worker, which may be gone already; then a wait for it.
ForwardTerm ==
  /\ pc34 = "stop" /\ pc34' = "wait" /\ termed34' = (kid34[Worker34] = "run")
  /\ UNCHANGED <<mode34, spawner34, stopReq, kid34, pend34>>

\* Faulty variant: the wait is for a worker that must still be there.
WaitWorkerAlways ==
  /\ pc34 = "wait" /\ kid34[Worker34] = "zombie" /\ pc34' = "join"
  /\ kid34' = [kid34 EXCEPT ![Worker34] = "reaped"]
  /\ UNCHANGED <<mode34, spawner34, stopReq, termed34, pend34>>

\* waitpid(worker_pid): ECHILD if reap_all was there first.
WaitWorker ==
  /\ pc34 = "wait" /\ kid34[Worker34] \in {"zombie", "reaped"} /\ pc34' = "join"
  /\ kid34' = [kid34 EXCEPT ![Worker34] = "reaped"]
  /\ UNCHANGED <<mode34, spawner34, stopReq, termed34, pend34>>

\* serve returns when ~jthread has joined the spawner.
JoinSpawner ==
  /\ pc34 = "join" /\ spawner34 = "done" /\ pc34' = "done"
  /\ UNCHANGED <<mode34, spawner34, stopReq, kid34, termed34, pend34>>

EpMain == SpawnWorker \/ ReadSignal34 \/ ReapAll \/ ForwardTerm \/ WaitWorker \/ JoinSpawner
EpSpawner == SpawnerWakes \/ SpawnJob
EpKids == \E k \in Kids34 : (k = Worker34 => termed34) /\ KidExits(k)
EpNext == EpMain \/ EpSpawner \/ RaiseTerm \/ \E k \in Kids34 : KidExits(k)
=============================================================================
