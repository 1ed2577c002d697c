---------------------------- MODULE PmonSupervise ----------------------------
(***************************************************************************)
(* pmon v0 and v1 (examples/12-signals-and-safe-handling) and v2           *)
(* (examples/13-pidfd-modern-process-mgmt), cpp/src/main.cpp: supervisors  *)
(* of one child.  "run" starts it once and waits; v1 hears of everything   *)
(* through a signalfd and knows reload and back-off; v2 has a deadline and *)
(* two engines, the signalfd or a pidfd.  Standard signals coalesce: one   *)
(* of a kind is pending at most.                                           *)
(***************************************************************************)
EXTENDS Naturals, FiniteSets

CONSTANTS
  Engines13,     \* of "run", "v1", "sigchld", "pidfd"
  MaxRestarts13, \* --max-restarts
  MaxReloads     \* SIGHUPs in a behaviour
ASSUME SupAssumption == MaxRestarts13 \in Nat /\ MaxReloads \in Nat

VARIABLES
  eng13,
  pc13,       \* "start", "poll", "stop" (kill and wait), "done"
  running13,
  child13,    \* "none", "run", "zombie"
  st13,       \* how it ended: "ok", "fail", "killed"
  termed13,
  pend13,     \* signals pending on the signalfd
  elapsed13,  \* the back-off (v1) or the deadline (v2) has passed
  restarts13, reloads,
  spawns13,   \* children since the start or the last reload
  why13       \* what "stop" is for: "reload", "signal", "timeout"; how the program
              \* ended: one of these, "clean", "gave up", "error", "killed"
supVars == <<eng13, pc13, running13, child13, st13, termed13, pend13, elapsed13, restarts13,
             reloads, spawns13, why13>>

\* The command lines of v1 and of v2.
CommandLine12 == eng13 \in Engines13 \cap {"run", "v1"}
CommandLine13 == eng13 \in Engines13 \cap {"run", "sigchld", "pidfd"}

SupInit ==
  /\ CommandLine12 \/ CommandLine13
  /\ pc13 = "start" /\ running13 = FALSE
  /\ child13 = "none" /\ st13 = "ok" /\ termed13 = FALSE /\ pend13 = {}
  /\ elapsed13 = FALSE /\ restarts13 = 0 /\ reloads = 0 /\ spawns13 = 0 /\ why13 = "none"

\* Faulty variant: the signalfd of every engine has SIGINT and SIGTERM only.
WatchedNoChld == {"stop"}

\* The signals blocked for the signalfd.
Watched == CASE eng13 = "v1" -> {"hup", "stop", "chld"}
             [] eng13 = "sigchld" -> {"stop", "chld"}
             [] eng13 = "pidfd" -> {"stop"}
             [] eng13 = "run" -> {}

ChildEnds(st) ==
  /\ child13 = "run" /\ (termed13 => st = "killed")
  /\ child13' = "zombie" /\ st13' = st /\ pend13' = pend13 \cup ({"chld"} \cap Watched)
  /\ UNCHANGED <<eng13, pc13, running13, termed13, elapsed13, restarts13, reloads, spawns13,
                 why13>>

Signal13(sig) ==
  /\ pc13 # "done" /\ sig \in Watched \ {"chld"} /\ pend13' = pend13 \cup {sig}
  /\ IF sig = "hup" THEN reloads < MaxReloads /\ reloads' = reloads + 1 ELSE UNCHANGED reloads
  /\ UNCHANGED <<eng13, pc13, running13, child13, st13, termed13, elapsed13, restarts13,
                 spawns13, why13>>

TimePasses13 ==
  /\ ~elapsed13 /\ elapsed13' = TRUE
  /\ UNCHANGED <<eng13, pc13, running13, child13, st13, termed13, pend13, restarts13, reloads,
                 spawns13, why13>>

\* The default action of the signals that "run" does not block.
RunKilled ==
  /\ eng13 = "run" /\ pc13 # "done" /\ pc13' = "done" /\ why13' = "killed"
  /\ UNCHANGED <<eng13, running13, child13, st13, termed13, pend13, elapsed13, restarts13,
                 reloads, spawns13>>

Spawned13 ==
  /\ pc13' = "poll" /\ child13' = "run" /\ running13' = TRUE /\ spawns13' = spawns13 + 1
  /\ UNCHANGED why13

SpawnFails == pc13' = "done" /\ why13' = "error" /\ UNCHANGED <<child13, running13, spawns13>>

\* fork and exec with an empty mask; an exec that fails is a child that exits.
Spawn12 ==
  /\ pc13 = "start" /\ eng13 \in {"run", "v1"} /\ termed13' = FALSE
  /\ Spawned13 \/ SpawnFails
  /\ UNCHANGED <<eng13, st13, pend13, elapsed13, restarts13, reloads>>

\* posix_spawnp with an empty mask; it reports an exec that fails.
SpawnChild13 ==
  /\ pc13 = "start" /\ eng13 \in {"run", "sigchld", "pidfd"} /\ termed13' = FALSE
  /\ Spawned13 \/ SpawnFails
  /\ UNCHANGED <<eng13, st13, pend13, elapsed13, restarts13, reloads>>

\* pidfd_open fails: pmon returns 1 and leaves the child it has just started.
PidfdOpenFails ==
  /\ pc13 = "start" /\ eng13 = "pidfd" /\ pc13' = "done" /\ why13' = "error"
  /\ child13' = "run" /\ termed13' = FALSE /\ spawns13' = spawns13 + 1
  /\ UNCHANGED <<eng13, running13, st13, pend13, elapsed13, restarts13, reloads>>

\* The exit status, or 128 and the signal, becomes pmon's own.
MirrorExit == child13' = "none" /\ running13' = FALSE /\ pc13' = "done" /\ why13' = "clean"

\* run_once, cmd_run: a blocking wait.
RunOnce ==
  /\ pc13 = "poll" /\ eng13 = "run" /\ child13 = "zombie" /\ MirrorExit
  /\ UNCHANGED <<eng13, st13, termed13, pend13, elapsed13, restarts13, reloads, spawns13>>

\* The child is reaped and reported, and the policy applied: a clean exit ends
\* pmon, another costs a restart, after a back-off in v1.
ReapAndJudge ==
  /\ child13' = "none" /\ running13' = FALSE
  /\ IF st13 = "ok" THEN pc13' = "done" /\ why13' = "clean" /\ UNCHANGED <<restarts13, elapsed13>>
     ELSE IF restarts13 >= MaxRestarts13
     THEN pc13' = "done" /\ why13' = "gave up" /\ UNCHANGED <<restarts13, elapsed13>>
     ELSE /\ restarts13' = restarts13 + 1 /\ UNCHANGED why13
          /\ IF eng13 = "v1" THEN pc13' = "poll" /\ elapsed13' = FALSE
             ELSE pc13' = "start" /\ UNCHANGED elapsed13

\* Faulty variant: the new child is started beside the old one.
ReadHupBeside ==
  /\ pc13' = "start" /\ why13' = "reload" /\ restarts13' = 0 /\ spawns13' = 0

\* SIGHUP: stop the child if there is one, forget the restarts, start again.
ReadHup ==
  /\ pc13' = IF running13 THEN "stop" ELSE "start"
  /\ why13' = "reload" /\ restarts13' = 0 /\ spawns13' = 0

ReadStop ==
  /\ pc13' = IF running13 THEN "stop" ELSE "done"
  /\ why13' = "signal" /\ UNCHANGED <<restarts13, spawns13>>

\* One signal is read, the lowest number first: SIGHUP, SIGINT or SIGTERM,
\* SIGCHLD.  A SIGCHLD whose child is alive, or was reaped by stop_child, is
\* stale.
ReadSignal ==
  /\ pc13 = "poll" /\ pend13 # {}
  /\ \/ /\ "hup" \in pend13 /\ pend13' = pend13 \ {"hup"} /\ ReadHup
        /\ UNCHANGED <<child13, running13, elapsed13>>
     \/ /\ "hup" \notin pend13 /\ "stop" \in pend13 /\ pend13' = pend13 \ {"stop"} /\ ReadStop
        /\ UNCHANGED <<child13, running13, elapsed13>>
     \/ /\ pend13 = {"chld"} /\ pend13' = {}
        /\ IF running13 /\ child13 = "zombie" THEN ReapAndJudge
           ELSE UNCHANGED <<pc13, child13, running13, restarts13, elapsed13, why13>>
        /\ UNCHANGED spawns13
  /\ UNCHANGED <<eng13, st13, termed13, reloads>>

\* wait_pidfd: the pidfd is readable and no signal is pending.
PidfdReadable ==
  /\ pc13 = "poll" /\ eng13 = "pidfd" /\ pend13 = {} /\ child13 = "zombie" /\ ReapAndJudge
  /\ UNCHANGED <<eng13, st13, termed13, pend13, reloads, spawns13>>

\* poll returns 0: v1's back-off is over, or v2's deadline has come.
PollTimesOut ==
  /\ pc13 = "poll" /\ pend13 = {} /\ elapsed13
  /\ \/ eng13 = "v1" /\ ~running13 /\ pc13' = "start" /\ UNCHANGED why13
     \/ /\ eng13 \in {"sigchld", "pidfd"} /\ ~(eng13 = "pidfd" /\ child13 = "zombie")
        /\ pc13' = "stop" /\ why13' = "timeout"
  /\ UNCHANGED <<eng13, running13, child13, st13, termed13, pend13, elapsed13, restarts13,
                 reloads, spawns13>>

\* stop_child, finish_stopped: SIGTERM, then a blocking wait for this child.
StopChild ==
  /\ pc13 = "stop"
  /\ \/ /\ ~termed13 /\ termed13' = TRUE /\ UNCHANGED <<child13, running13, pc13>>
     \/ /\ termed13 /\ child13 = "zombie" /\ child13' = "none" /\ running13' = FALSE
        /\ pc13' = IF why13 = "reload" THEN "start" ELSE "done"
        /\ UNCHANGED termed13
  /\ UNCHANGED <<eng13, st13, pend13, elapsed13, restarts13, reloads, spawns13, why13>>

SupProgress ==
  \/ (\E st \in {"ok", "fail", "killed"} : ChildEnds(st)) \/ TimePasses13
  \/ Spawn12 \/ SpawnChild13 \/ PidfdOpenFails \/ RunOnce
  \/ ReadSignal \/ PidfdReadable \/ PollTimesOut \/ StopChild
SupNext == SupProgress \/ RunKilled \/ \E sig \in {"hup", "stop"} : Signal13(sig)
SupSpec == SupInit /\ [][SupNext]_supVars

\* No death goes unnoticed, although signals coalesce and one left over from a
\* reload may be read for the next child: a zombie in the poll loop has its
\* SIGCHLD pending or its pidfd readable, or pmon is in waitpid.
DeathIsPending ==
  (pc13 = "poll" /\ child13 = "zombie") =>
    running13 /\ (eng13 \in {"pidfd", "run"} \/ "chld" \in pend13)

\* pmon leaves nothing behind and keeps to its budget: unless it is killed or a
\* system call fails it exits with its child reaped, and never starts more than
\* 1 + max_restarts children without a reload.
LeavesNothing ==
  /\ (pc13 = "done" /\ why13 \notin {"error", "killed"}) => child13 = "none"
  /\ spawns13 <= 1 + MaxRestarts13

\* However it hears of a death (waitpid, the signalfd or the pidfd: "two engines,
\* one restart policy", v2's main.cpp), each engine does what Supervisor says; v0's
\* run has no budget.
Abs13 == INSTANCE Supervisor WITH
  budget <- IF eng13 = "run" THEN 0 ELSE MaxRestarts13,
  left <- IF eng13 = "run" THEN 0 ELSE MaxRestarts13 - restarts13,
  child <- IF child13 # "zombie" THEN child13 ELSE IF st13 = "ok" THEN "ok" ELSE "failed",
  due <- \/ pc13 = "start" \/ (pc13 = "poll" /\ ~running13)
         \/ (pc13 = "stop" /\ why13 = "reload"),
  told <- why13 \in {"signal", "timeout"},
  over <- IF pc13 # "done" THEN "no" ELSE IF why13 \in {"error", "killed"} THEN "broken" ELSE "left"
Supervises13 == Abs13!Spec
=============================================================================
