-------------------------- MODULE SupervisorProofs --------------------------
(***************************************************************************)
(* The supervisors of examples 12, 13, 18, 19 and 42, for any restart      *)
(* budget and any number of reloads, children, clients, commands, edits    *)
(* and lines of log.                                                       *)
(***************************************************************************)
EXTENDS PmonSupervise, CtlSocket, PolicyHost, PmonPipes,
        SequenceTheorems, WellFoundedInduction, TLAPS

-----------------------------------------------------------------------------
(* pmon v0, v1 and v2.  What the loop knows of its child at each point, and *)
(* how many children the restarts so far have paid for.                     *)

SupTypeOK ==
  /\ eng13 \in {"run", "v1", "sigchld", "pidfd"}
  /\ pc13 \in {"start", "poll", "stop", "done"}
  /\ child13 \in {"none", "run", "zombie"}
  /\ pend13 \subseteq Watched
  /\ restarts13 \in 0..MaxRestarts13 /\ spawns13 \in Nat

ChildKnown ==
  /\ running13 \in BOOLEAN
  /\ pc13 = "start" => child13 = "none" /\ ~running13
  /\ pc13 = "poll" => (running13 <=> child13 # "none")
  /\ (pc13 = "poll" /\ eng13 # "v1") => running13   \* only v1 backs off in the loop
  /\ pc13 = "stop" => running13 /\ child13 # "none"
  /\ (pc13 = "done" /\ why13 \notin {"error", "killed"}) => child13 = "none"

DeathHeard ==
  (pc13 = "poll" /\ child13 = "zombie" /\ eng13 \in {"v1", "sigchld"}) => "chld" \in pend13

\* A child is paid for before it is started; a reload is a new account.
Budget ==
  /\ spawns13 <= restarts13 + 1
  /\ (pc13 = "start" \/ (pc13 = "poll" /\ ~running13)) => spawns13 <= restarts13
  /\ (pc13 = "stop" /\ why13 = "reload") => spawns13 = 0

SupInv == SupTypeOK /\ ChildKnown /\ DeathHeard /\ Budget

\* The first state of either command line.
LEMMA SupInitInv == SupInit => SupInv
<1> SUFFICES ASSUME SupInit PROVE SupInv
  OBVIOUS
<1>1. SupTypeOK
  BY SupAssumption DEF SupInit, CommandLine12, CommandLine13, SupTypeOK
<1>2. ChildKnown /\ DeathHeard
  BY Zenon DEF SupInit, ChildKnown, DeathHeard
<1>3. spawns13 = 0 /\ restarts13 = 0
  BY DEF SupInit
<1>4. Budget
  BY <1>3 DEF Budget
<1> QED
  BY <1>1, <1>2, <1>4 DEF SupInv

\* What the signalfd hears of depends on the engine alone.
LEMMA WatchedSignals ==
  ASSUME SupTypeOK
  PROVE  /\ Watched \subseteq {"hup", "stop", "chld"}
         /\ eng13 \in {"v1", "sigchld"} => "chld" \in Watched
         /\ eng13' = eng13 => Watched' = Watched
  BY DEF SupTypeOK, Watched

\* The child, the clock, the operator and the kernel.
LEMMA SupOutside ==
  ASSUME SupInv,
         \/ \E st \in {"ok", "fail", "killed"} : ChildEnds(st)
         \/ TimePasses13 \/ RunKilled \/ \E sig \in {"hup", "stop"} : Signal13(sig)
  PROVE  SupInv'
<1> USE WatchedSignals DEF SupInv
<1>1. CASE \E st \in {"ok", "fail", "killed"} : ChildEnds(st)
  <2>1. SupTypeOK'
    BY <1>1 DEF ChildEnds, SupTypeOK
  <2>2. ChildKnown'
    BY <1>1 DEF ChildEnds, ChildKnown
  <2>3. DeathHeard' /\ Budget'
    BY <1>1 DEF ChildEnds, DeathHeard, Budget
  <2> QED
    BY <2>1, <2>2, <2>3
<1>2. CASE TimePasses13
  <2>1. SupTypeOK'
    BY <1>2 DEF TimePasses13, SupTypeOK
  <2> QED
    BY <1>2, <2>1 DEF TimePasses13, ChildKnown, DeathHeard, Budget
<1>3. CASE RunKilled
  <2>1. SupTypeOK'
    BY <1>3 DEF RunKilled, SupTypeOK
  <2> QED
    BY <1>3, <2>1 DEF RunKilled, ChildKnown, DeathHeard, Budget
<1>4. CASE \E sig \in {"hup", "stop"} : Signal13(sig)
  <2>1. SupTypeOK'
    BY <1>4 DEF Signal13, SupTypeOK
  <2> QED
    BY <1>4, <2>1 DEF Signal13, ChildKnown, DeathHeard, Budget
<1> QED
  BY <1>1, <1>2, <1>3, <1>4

\* Starting a child, by fork or by posix_spawnp, uses up what was paid.
LEMMA SupSpawn ==
  ASSUME SupInv, Spawn12 \/ SpawnChild13 \/ PidfdOpenFails
  PROVE  SupInv'
<1> USE WatchedSignals DEF SupInv
<1>1. SupTypeOK'
  BY DEF Spawn12, SpawnChild13, PidfdOpenFails, Spawned13, SpawnFails, SupTypeOK
<1>2. ChildKnown' /\ DeathHeard'
  BY DEF Spawn12, SpawnChild13, PidfdOpenFails, Spawned13, SpawnFails, ChildKnown, DeathHeard
<1>3. Budget'
  BY DEF Spawn12, SpawnChild13, PidfdOpenFails, Spawned13, SpawnFails, Budget, SupTypeOK
<1> QED
  BY <1>1, <1>2, <1>3

\* A reaped child is judged: a restart is granted only within the budget.
LEMMA Judged ==
  ASSUME SupInv, pc13 = "poll", ReapAndJudge, UNCHANGED <<eng13, spawns13>>,
         pend13' \subseteq pend13
  PROVE  SupInv'
<1> USE WatchedSignals DEF SupInv
<1>1. ChildKnown' /\ DeathHeard'
  BY Zenon DEF ReapAndJudge, ChildKnown, DeathHeard
<1>2. child13' = "none" /\ eng13' = eng13 /\ spawns13' = spawns13
  BY DEF ReapAndJudge
<1>3. CASE restarts13' = restarts13 /\ pc13' = "done"
  <2>1. SupTypeOK'
    BY <1>2, <1>3 DEF SupTypeOK
  <2>2. Budget'
    BY <1>2, <1>3 DEF Budget
  <2> QED
    BY <1>1, <2>1, <2>2
<1>4. CASE ~(restarts13 >= MaxRestarts13) /\ restarts13' = restarts13 + 1
           /\ pc13' \in {"start", "poll"}
  <2>1. SupTypeOK'
    BY <1>2, <1>4, SupAssumption DEF SupTypeOK
  <2>2. Budget'
    BY <1>2, <1>4 DEF Budget, SupTypeOK
  <2> QED
    BY <1>1, <2>1, <2>2
<1> QED
  BY <1>3, <1>4, Zenon DEF ReapAndJudge

\* One record of the signalfd.
LEMMA SupReadSignal ==
  ASSUME SupInv, ReadSignal
  PROVE  SupInv'
<1> USE WatchedSignals DEF SupInv
<1>1. CASE /\ "hup" \in pend13 /\ pend13' = pend13 \ {"hup"} /\ ReadHup
           /\ UNCHANGED <<child13, running13, elapsed13>>
  <2>1. SupTypeOK'
    BY <1>1, SupAssumption DEF ReadSignal, ReadHup, SupTypeOK
  <2> QED
    BY <1>1, <2>1 DEF ReadSignal, ReadHup, ChildKnown, DeathHeard, Budget
<1>2. CASE /\ "stop" \in pend13 /\ pend13' = pend13 \ {"stop"} /\ ReadStop
           /\ UNCHANGED <<child13, running13, elapsed13>>
  <2>1. SupTypeOK'
    BY <1>2 DEF ReadSignal, ReadStop, SupTypeOK
  <2> QED
    BY <1>2, <2>1 DEF ReadSignal, ReadStop, ChildKnown, DeathHeard, Budget
<1>3. CASE /\ pend13' = {} /\ running13 /\ child13 = "zombie" /\ ReapAndJudge
           /\ UNCHANGED spawns13
  BY <1>3, Judged DEF ReadSignal
<1>4. CASE /\ pend13' = {} /\ ~(running13 /\ child13 = "zombie")
           /\ UNCHANGED <<pc13, child13, running13, restarts13, elapsed13, why13, spawns13>>
  <2>1. SupTypeOK'
    BY <1>4 DEF ReadSignal, SupTypeOK
  <2> QED
    BY <1>4, <2>1 DEF ReadSignal, ChildKnown, DeathHeard, Budget
<1> QED
  BY <1>1, <1>2, <1>3, <1>4 DEF ReadSignal

\* The other returns of poll, the blocking wait and stop_child.
LEMMA SupLoop ==
  ASSUME SupInv, RunOnce \/ PidfdReadable \/ PollTimesOut \/ StopChild
  PROVE  SupInv'
<1> USE WatchedSignals DEF SupInv
<1>1. CASE RunOnce
  <2>1. SupTypeOK'
    BY <1>1 DEF RunOnce, MirrorExit, SupTypeOK
  <2> QED
    BY <1>1, <2>1 DEF RunOnce, MirrorExit, ChildKnown, DeathHeard, Budget
<1>2. CASE PidfdReadable
  BY <1>2, Judged DEF PidfdReadable
<1>3. CASE PollTimesOut
  <2>1. SupTypeOK'
    BY <1>3 DEF PollTimesOut, SupTypeOK
  <2>2. ChildKnown' /\ DeathHeard'
    BY <1>3 DEF PollTimesOut, ChildKnown, DeathHeard
  <2>3. Budget'
    BY <1>3 DEF PollTimesOut, Budget
  <2> QED
    BY <2>1, <2>2, <2>3
<1>4. CASE StopChild
  <2>1. SupTypeOK'
    BY <1>4 DEF StopChild, SupTypeOK
  <2>2. ChildKnown' /\ DeathHeard'
    BY <1>4 DEF StopChild, ChildKnown, DeathHeard
  <2>3. Budget'
    BY <1>4 DEF StopChild, Budget, SupTypeOK
  <2> QED
    BY <2>1, <2>2, <2>3
<1> QED
  BY <1>1, <1>2, <1>3, <1>4

\* Every step of the loop and of the child keeps the invariant.
LEMMA SupNextInv == SupInv /\ [SupNext]_supVars => SupInv'
<1> SUFFICES ASSUME SupInv, [SupNext]_supVars PROVE SupInv'
  OBVIOUS
<1>1. CASE UNCHANGED supVars
  BY <1>1 DEF supVars, SupInv, SupTypeOK, ChildKnown, DeathHeard, Budget, Watched
<1> QED
  BY <1>1, SupOutside, SupSpawn, SupReadSignal, SupLoop DEF SupNext, SupProgress

\* The invariant of the supervisors, in every reachable state.
LEMMA SupInvariant == SupSpec => []SupInv
<1> QED
  BY SupInitInv, SupNextInv, PTL DEF SupSpec

\* No death goes unnoticed by pmon v0 to v2, in any engine, whatever signals
\* coalesce and however many reloads there are.
THEOREM SupDeathIsPending == SupSpec => []DeathIsPending
<1>1. SupInv => DeathIsPending
  BY DEF SupInv, SupTypeOK, ChildKnown, DeathHeard, DeathIsPending
<1> QED
  BY <1>1, SupInvariant, PTL

\* pmon v0 to v2 exits with its child reaped and starts at most 1 + max_restarts
\* children between two reloads, for every --max-restarts.
THEOREM SupLeavesNothing == SupSpec => []LeavesNothing
<1>1. SupInv => LeavesNothing
  BY SupAssumption DEF SupInv, SupTypeOK, ChildKnown, Budget, LeavesNothing
<1> QED
  BY <1>1, SupInvariant, PTL

-----------------------------------------------------------------------------
(* pmon v0, v1 and v2 do what Supervisor says: each step of the loop is one *)
(* step of the abstract supervisor, or concerns nothing it speaks of.       *)

\* What "stop" and the end of the program are for, and how a child ended.
WhyKnown ==
  /\ st13 \in {"ok", "fail", "killed"}
  /\ pc13 \in {"start", "poll"} => why13 \in {"none", "reload"}
  /\ pc13 = "stop" => why13 \in {"reload", "signal", "timeout"}
  /\ (eng13 = "run" /\ pc13 # "done") => why13 = "none"

LEMMA SupWhyNext == SupInv /\ WhyKnown /\ [SupNext]_supVars => WhyKnown'
<1> SUFFICES ASSUME SupInv, WhyKnown, [SupNext]_supVars PROVE WhyKnown'
  OBVIOUS
<1>a. ReapAndJudge => pc13' = "done" \/ (pc13' \in {"start", "poll"} /\ why13' = why13)
  BY Zenon DEF ReapAndJudge
<1>1. CASE \/ \E st \in {"ok", "fail", "killed"} : ChildEnds(st)
           \/ TimePasses13 \/ RunKilled \/ \E sig \in {"hup", "stop"} : Signal13(sig)
  BY <1>1 DEF ChildEnds, TimePasses13, RunKilled, Signal13, WhyKnown
<1>2. CASE Spawn12 \/ SpawnChild13 \/ PidfdOpenFails
  BY <1>2 DEF Spawn12, SpawnChild13, PidfdOpenFails, Spawned13, SpawnFails, WhyKnown
<1>3. CASE ReadSignal
  <2>1. eng13 # "run" /\ pc13 = "poll" /\ eng13' = eng13 /\ st13' = st13
    BY <1>3 DEF ReadSignal, SupInv, SupTypeOK, Watched
  <2>2. ReadHup \/ ReadStop \/ ReapAndJudge \/ UNCHANGED <<pc13, why13>>
    BY <1>3, Zenon DEF ReadSignal
  <2> QED
    BY <1>a, <2>1, <2>2 DEF ReadHup, ReadStop, WhyKnown
<1>4. CASE RunOnce \/ PidfdReadable
  BY <1>4, <1>a DEF RunOnce, MirrorExit, PidfdReadable, WhyKnown
<1>5. CASE PollTimesOut \/ StopChild
  BY <1>5 DEF PollTimesOut, StopChild, WhyKnown
<1>6. CASE UNCHANGED supVars
  BY <1>6 DEF supVars, WhyKnown
<1> QED
  BY <1>1, <1>2, <1>3, <1>4, <1>5, <1>6 DEF SupNext, SupProgress

\* A verdict on a child: pmon retries within its budget, or has nothing more to do.
LEMMA SupVerdict ==
  ASSUME SupInv, WhyKnown, pc13 = "poll", child13 = "zombie", eng13 # "run", ReapAndJudge,
         UNCHANGED <<eng13, st13>>
  PROVE  Abs13!Retry \/ Abs13!Leave
<1>1. /\ eng13 # "run" /\ restarts13 \in Nat /\ MaxRestarts13 \in Nat
      /\ restarts13 <= MaxRestarts13 /\ running13 /\ why13 \in {"none", "reload"}
  BY SupAssumption DEF SupInv, SupTypeOK, ChildKnown, WhyKnown
<1>2. CASE st13 = "ok"
  <2>1. Abs13!Leave
    BY <1>1, <1>2 DEF ReapAndJudge, Abs13!Leave
  <2> QED
    BY <2>1
<1>3. CASE st13 # "ok" /\ restarts13 >= MaxRestarts13
  <2>1. (IF eng13 = "run" THEN 0 ELSE MaxRestarts13 - restarts13) = 0
    BY <1>1, <1>3
  <2>2. /\ pc13' = "done" /\ child13' = "none" /\ UNCHANGED <<eng13, restarts13>>
        /\ why13' \notin {"signal", "timeout", "error", "killed"}
    BY <1>3, Zenon DEF ReapAndJudge
  <2>3. Abs13!Leave
    BY <1>1, <1>3, <2>1, <2>2 DEF Abs13!Leave
  <2> QED
    BY <2>3
<1>4. CASE st13 # "ok" /\ ~(restarts13 >= MaxRestarts13)
  <2>1. /\ MaxRestarts13 - restarts13 > 0
        /\ MaxRestarts13 - (restarts13 + 1) = (MaxRestarts13 - restarts13) - 1
    BY <1>1, <1>4
  <2>2. Abs13!Retry
    BY <1>1, <1>4, <2>1 DEF ReapAndJudge, Abs13!Retry
  <2> QED
    BY <2>2
<1> QED
  BY <1>2, <1>3, <1>4

\* One record of the signalfd: a reload, a request to stop or a death.
LEMMA SupHears ==
  ASSUME SupInv, WhyKnown, ReadSignal
  PROVE  [Abs13!Next]_(Abs13!vars)
<1>1. eng13 # "run" /\ pc13 = "poll" /\ eng13' = eng13 /\ st13' = st13
  BY DEF ReadSignal, SupInv, SupTypeOK, Watched
<1>2. CASE ReadHup /\ UNCHANGED <<child13, running13, elapsed13>>
  <2>1. Abs13!Reload
    BY <1>1, <1>2, SupAssumption DEF ReadHup, WhyKnown, SupInv, ChildKnown, Abs13!Reload
  <2> QED
    BY <2>1 DEF Abs13!Next
<1>3. CASE ReadStop /\ UNCHANGED <<child13, running13, elapsed13>> /\ running13
  <2>1. Abs13!Tell
    BY <1>1, <1>3 DEF ReadStop, WhyKnown, Abs13!Tell
  <2> QED
    BY <2>1 DEF Abs13!Next
<1>4. CASE ReadStop /\ UNCHANGED <<child13, running13, elapsed13>> /\ ~running13
  <2>1. child13 = "none"
    BY <1>1, <1>4 DEF SupInv, ChildKnown
  <2>2. Abs13!Leave
    BY <1>1, <1>4, <2>1 DEF ReadStop, WhyKnown, Abs13!Leave
  <2> QED
    BY <2>2 DEF Abs13!Next
<1>5. CASE running13 /\ child13 = "zombie" /\ ReapAndJudge
  BY <1>1, <1>5, SupVerdict DEF Abs13!Next
<1>6. CASE UNCHANGED <<pc13, child13, running13, restarts13, elapsed13, why13>>
  BY <1>1, <1>6 DEF Abs13!vars
<1> QED
  BY <1>2, <1>3, <1>4, <1>5, <1>6 DEF ReadSignal

LEMMA SupStarts ==
  ASSUME SupInv, WhyKnown, Spawn12 \/ SpawnChild13 \/ PidfdOpenFails
  PROVE  Abs13!Start \/ Abs13!Break
<1>1. pc13 = "start" /\ child13 = "none" /\ why13 \in {"none", "reload"} /\ ~running13
  BY DEF SupInv, ChildKnown, WhyKnown, Spawn12, SpawnChild13, PidfdOpenFails
<1>2. CASE (Spawn12 \/ SpawnChild13) /\ Spawned13
  <2>1. Abs13!Start
    BY <1>1, <1>2 DEF Spawn12, SpawnChild13, Spawned13, Abs13!Start
  <2> QED
    BY <2>1
<1>3. CASE (Spawn12 \/ SpawnChild13) /\ SpawnFails
  <2>1. Abs13!Break
    BY <1>1, <1>3 DEF Spawn12, SpawnChild13, SpawnFails, Abs13!Break
  <2> QED
    BY <2>1
<1>4. CASE PidfdOpenFails
  <2>1. Abs13!Break
    BY <1>1, <1>4 DEF PidfdOpenFails, Abs13!Break
  <2> QED
    BY <2>1
<1>5. Spawn12 \/ SpawnChild13 => Spawned13 \/ SpawnFails
  BY Zenon DEF Spawn12, SpawnChild13
<1> QED
  BY <1>2, <1>3, <1>4, <1>5

LEMMA SupSteps ==
  ASSUME SupInv, WhyKnown, [SupNext]_supVars
  PROVE  [Abs13!Next]_(Abs13!vars)
<1>1. CASE \E st \in {"ok", "fail", "killed"} : ChildEnds(st)
  <2>1. Abs13!Die
    BY <1>1 DEF ChildEnds, Abs13!Die
  <2> QED
    BY <2>1 DEF Abs13!Next
<1>2. CASE TimePasses13 \/ \E sig \in {"hup", "stop"} : Signal13(sig)
  BY <1>2 DEF TimePasses13, Signal13, Abs13!vars
<1>3. CASE RunKilled
  <2>1. Abs13!Break
    BY <1>3 DEF RunKilled, WhyKnown, Abs13!Break
  <2> QED
    BY <2>1 DEF Abs13!Next
<1>4. CASE Spawn12 \/ SpawnChild13 \/ PidfdOpenFails
  BY <1>4, SupStarts DEF Abs13!Next
<1>5. CASE RunOnce
  <2>1. Abs13!Leave
    BY <1>5 DEF RunOnce, MirrorExit, WhyKnown, SupInv, ChildKnown, Abs13!Leave
  <2> QED
    BY <2>1 DEF Abs13!Next
<1>6. CASE ReadSignal
  BY <1>6, SupHears
<1>7. CASE PidfdReadable
  <2>1. eng13 # "run" /\ pc13 = "poll" /\ child13 = "zombie" /\ ReapAndJudge
        /\ UNCHANGED <<eng13, st13>>
    BY <1>7 DEF PidfdReadable
  <2> QED
    BY <2>1, SupVerdict DEF Abs13!Next
<1>8. CASE PollTimesOut
  <2>1. CASE eng13 = "v1"
    BY <1>8, <2>1 DEF PollTimesOut, Abs13!vars
  <2>2. CASE eng13 # "v1"
    <3>1. Abs13!Tell
      BY <1>8, <2>2 DEF PollTimesOut, WhyKnown, SupInv, ChildKnown, Abs13!Tell
    <3> QED
      BY <3>1 DEF Abs13!Next
  <2> QED
    BY <2>1, <2>2
<1>9. CASE StopChild
  <2>1. CASE ~termed13
    BY <1>9, <2>1 DEF StopChild, Abs13!vars
  <2>2. CASE termed13 /\ why13 = "reload"
    <3>1. Abs13!Collect
      BY <1>9, <2>2 DEF StopChild, Abs13!Collect, Abs13!Ended
    <3> QED
      BY <3>1 DEF Abs13!Next
  <2>3. CASE termed13 /\ why13 # "reload"
    <3>1. why13 \in {"signal", "timeout"}
      BY <1>9, <2>3 DEF StopChild, WhyKnown
    <3>2. Abs13!Leave
      BY <1>9, <2>3, <3>1 DEF StopChild, Abs13!Leave
    <3> QED
      BY <3>2 DEF Abs13!Next
  <2> QED
    BY <2>1, <2>2, <2>3, <1>9 DEF StopChild
<1>10. CASE UNCHANGED supVars
  BY <1>10 DEF supVars, Abs13!vars
<1> QED
  BY <1>1, <1>2, <1>3, <1>4, <1>5, <1>6, <1>7, <1>8, <1>9, <1>10 DEF SupNext, SupProgress

\* All engines of pmon v0 to v2 supervise as Supervisor says, for every
\* --max-restarts: whichever way they hear of deaths, reloads, signals and
\* deadlines, and in whatever order.
THEOREM SupImplements == SupSpec => Supervises13
<1>1. SupInit => Abs13!Init
  BY SupAssumption DEF SupInit, Abs13!Init
<1>2. SupInit => WhyKnown
  BY DEF SupInit, WhyKnown
<1>3. SupInv /\ WhyKnown /\ [SupNext]_supVars => [Abs13!Next]_(Abs13!vars)
  BY SupSteps
<1> QED
  BY <1>1, <1>2, <1>3, SupWhyNext, SupInvariant, PTL DEF SupSpec, Supervises13, Abs13!Spec

-----------------------------------------------------------------------------
(* pmon v5.  The reaper holds the newest child from its fork to its wait,   *)
(* wherever the main thread is; every older one has been reaped.            *)

HoldsChild == reap19 \in {"wait", "publish", "undo", "collect"}

CtlTypeOK ==
  /\ main19 \in {"accept", "read", "kill", "wait", "join", "done", "killed"}
  /\ reap19 \in {"wait", "check", "backoff", "spawn", "publish", "undo", "collect", "done"}
  /\ proc19 \in [Pids19 -> {"none", "forked", "run", "dead", "reaped"}]
  /\ spawned19 \in Pids19 /\ pid19 = spawned19

OneChild ==
  \A p \in Pids19 :
    /\ p < pid19 => proc19[p] = "reaped"
    /\ p > pid19 => proc19[p] = "none"
    /\ (p = pid19 /\ HoldsChild) => proc19[p] \in {"forked", "run", "dead"}
    /\ (p = pid19 /\ ~HoldsChild) => proc19[p] = "reaped"

DoneIsTold ==
  /\ child_done <=> reap19 = "done"
  /\ main19 = "done" => child_done

CtlInv == CtlTypeOK /\ OneChild /\ DoneIsTold

\* supervise with its first child forked and its reaper started.
LEMMA CtlInitInv == CtlInit => CtlInv
<1> SUFFICES ASSUME CtlInit PROVE CtlInv
  OBVIOUS
<1> USE CtlAssumption DEF CtlInit, Listen19, Pids19
<1>1. CtlTypeOK
  BY DEF CtlTypeOK
<1>2. OneChild
  BY DEF OneChild, HoldsChild
<1>3. DoneIsTold
  BY DEF DoneIsTold
<1> QED
  BY <1>1, <1>2, <1>3 DEF CtlInv

\* Clients and the main thread do not touch the children.
LEMMA CtlMain ==
  ASSUME CtlInv,
         \/ \E c \in Ctls : \/ CtlConnects(c) \/ AcceptCtl(c) \/ CtlEnds(c) \/ TailViaFd(c)
                           \/ HangsUp(c)
         \/ Serve19 \/ Stop19 \/ ReplyIsSigpipe \/ StopKills \/ StopWaits
         \/ AcceptFails \/ JoinReaper
  PROVE  CtlInv'
<1> USE DEF CtlInv
<1>1. /\ reap19' = reap19 /\ proc19' = proc19 /\ pid19' = pid19 /\ spawned19' = spawned19
      /\ child_done' = child_done
      /\ main19' \in {"accept", "read", "kill", "wait", "join", "done", "killed"}
      /\ main19' = "done" => main19 = "done" \/ child_done
  BY DEF CtlConnects, AcceptCtl, CtlEnds, TailViaFd, HangsUp, Serve19, Stop19, ReplyIsSigpipe,
         StopKills, StopWaits, AcceptFails, JoinReaper, state19, CtlTypeOK, DoneIsTold
<1>2. CtlTypeOK'
  BY <1>1 DEF CtlTypeOK
<1>3. OneChild'
  BY <1>1 DEF OneChild, HoldsChild
<1>4. DoneIsTold'
  BY <1>1 DEF DoneIsTold
<1> QED
  BY <1>2, <1>3, <1>4

\* Only the newest child can be in a state to run setpgid or to die.
LEMMA CtlChild ==
  ASSUME CtlInv, NEW p \in Pids19, ChildSetsGroup(p) \/ ChildDies19(p)
  PROVE  CtlInv'
<1> USE DEF CtlInv
<1>1. /\ proc19[p] \in {"forked", "run"}
      /\ proc19' = [proc19 EXCEPT ![p] = IF proc19[p] = "forked" THEN "run" ELSE "dead"]
      /\ main19' = main19 /\ reap19' = reap19 /\ pid19' = pid19 /\ spawned19' = spawned19
      /\ child_done' = child_done
  BY DEF ChildSetsGroup, ChildDies19, state19
<1>2. p = pid19 /\ HoldsChild
  BY <1>1 DEF OneChild, CtlTypeOK, Pids19
<1>3. CtlTypeOK'
  BY <1>1 DEF CtlTypeOK
<1>4. OneChild'
  BY <1>1, <1>2 DEF OneChild, HoldsChild, CtlTypeOK
<1>5. DoneIsTold'
  BY <1>1 DEF DoneIsTold
<1> QED
  BY <1>3, <1>4, <1>5

\* waitpid in the loop and after the undo.
LEMMA CtlWait ==
  ASSUME CtlInv, WaitPid \/ Collect
  PROVE  CtlInv'
<1> USE DEF CtlInv
<1>1. HoldsChild /\ reap19' \in {"check", "done"} /\ pid19 \in Pids19
  BY DEF WaitPid, Collect, HoldsChild, CtlTypeOK
<1>2. proc19' = [proc19 EXCEPT ![pid19] = "reaped"] /\ main19' = main19 /\ pid19' = pid19
      /\ spawned19' = spawned19
  BY DEF WaitPid, Collect
<1>3. CtlTypeOK'
  BY <1>1, <1>2 DEF CtlTypeOK
<1>4. OneChild'
  BY <1>1, <1>2 DEF OneChild, HoldsChild, CtlTypeOK
<1>5. DoneIsTold'
  BY DEF WaitPid, Collect, DoneIsTold, state19
<1> QED
  BY <1>3, <1>4, <1>5

\* The steps of the reaper between two waits.
LEMMA CtlReaper ==
  ASSUME CtlInv, CheckStopping \/ Publish \/ Undo
  PROVE  CtlInv'
<1> USE DEF CtlInv
<1>1. proc19' = proc19 /\ main19' = main19 /\ pid19' = pid19 /\ spawned19' = spawned19
  BY DEF CheckStopping, Publish, Undo
<1>2. CtlTypeOK'
  BY <1>1 DEF CheckStopping, Publish, Undo, CtlTypeOK
<1>3. HoldsChild' <=> HoldsChild
  BY DEF CheckStopping, Publish, Undo, HoldsChild
<1>4. OneChild'
  BY <1>1, <1>3 DEF OneChild
<1>5. DoneIsTold'
  BY DEF CheckStopping, Publish, Undo, DoneIsTold, state19
<1> QED
  BY <1>2, <1>4, <1>5

\* A new child takes the next pid when the last one has been reaped.
LEMMA CtlRespawn ==
  ASSUME CtlInv, Respawn
  PROVE  CtlInv'
<1> USE DEF CtlInv
<1>1. CASE /\ spawned19 < MaxSpawns /\ spawned19' = spawned19 + 1 /\ pid19' = spawned19 + 1
           /\ proc19' = [proc19 EXCEPT ![spawned19 + 1] = "forked"]
           /\ reap19' = "publish" /\ UNCHANGED child_done
  <2>1. spawned19 + 1 \in Pids19 /\ spawned19 \in Nat
    BY <1>1, CtlAssumption DEF CtlTypeOK, Pids19
  <2>2. CtlTypeOK'
    BY <1>1, <2>1 DEF Respawn, CtlTypeOK
  <2>3. ~HoldsChild /\ HoldsChild'
    BY <1>1 DEF Respawn, HoldsChild
  <2>4. OneChild'
    BY <1>1, <2>1, <2>3 DEF OneChild, CtlTypeOK, Pids19
  <2>5. DoneIsTold'
    BY <1>1 DEF Respawn, DoneIsTold
  <2> QED
    BY <2>2, <2>4, <2>5
<1>2. CASE reap19' = "done" /\ child_done' = TRUE /\ UNCHANGED <<spawned19, pid19, proc19>>
  <2>1. CtlTypeOK'
    BY <1>2 DEF Respawn, CtlTypeOK
  <2>2. OneChild'
    BY <1>2 DEF Respawn, OneChild, HoldsChild
  <2>3. DoneIsTold'
    BY <1>2 DEF Respawn, DoneIsTold
  <2> QED
    BY <2>1, <2>2, <2>3
<1> QED
  BY <1>1, <1>2 DEF Respawn

\* Every step of the control socket keeps its invariant.
LEMMA CtlNextInv == CtlInv /\ [CtlNext]_ctlVars => CtlInv'
<1> SUFFICES ASSUME CtlInv, [CtlNext]_ctlVars PROVE CtlInv'
  OBVIOUS
<1>1. CASE UNCHANGED ctlVars
  BY <1>1 DEF ctlVars, CtlInv, CtlTypeOK, OneChild, HoldsChild, DoneIsTold
<1> QED
  BY <1>1, CtlMain, CtlChild, CtlWait, CtlReaper, CtlRespawn
     DEF CtlNext, CtlProgress, CtlReap

\* When pmon v5 has returned none of its children is alive or unreaped, wherever
\* the reaper was when stop came or accept failed, for any number of children,
\* clients and commands.  A pmon that SIGPIPE killed has not returned.
THEOREM CtlNoChildSurvives == CtlSpec => []NoChildSurvives
<1>1. CtlInv => NoChildSurvives
  BY DEF CtlInv, CtlTypeOK, OneChild, HoldsChild, DoneIsTold, NoChildSurvives, Pids19
<1> QED
  BY <1>1, CtlInitInv, CtlNextInv, PTL DEF CtlSpec

-----------------------------------------------------------------------------
(* The Lua host.  Versions of the file only grow, and a reload reads the    *)
(* file after the signal was taken: what it loads is no older than what the *)
(* signal announced.                                                        *)

PolTypeOK ==
  /\ pc42 \in {"mask", "load", "phase", "await", "ok", "failed", "killed"}
  /\ phase42 \in {1, 2}
  /\ file42.ver \in Nat \ {0} /\ hup42 \in Nat /\ asked42 \in Nat
  /\ log42 \subseteq {1, 2} \X Nat

VersionOrder == hup42 <= file42.ver /\ asked42 <= file42.ver

PhaseOrder ==
  /\ phase42 = 1 <=> asked42 = 0
  /\ pc42 = "await" => phase42 = 1
  /\ phase42 = 1 => \A d \in log42 : d[1] = 1

Loaded == pc42 = "phase" => lua42[1].ver \in Nat /\ lua42[1].ver >= asked42

PolInv == PolTypeOK /\ VersionOrder /\ PhaseOrder /\ Loaded /\ NoStaleDecision

\* The policy host starts with no decision pending.
LEMMA PolInitInv == PolInit => PolInv
<1> SUFFICES ASSUME PolInit PROVE PolInv
  OBVIOUS
<1>1. file42.ver = 1 /\ log42 = {} /\ hup42 = 0 /\ asked42 = 0 /\ phase42 = 1
      /\ pc42 \in {"mask", "load"}
  BY DEF PolInit
<1> QED
  BY <1>1 DEF PolInv, PolTypeOK, VersionOrder, PhaseOrder, Loaded, NoStaleDecision

\* The editor and the operator.
LEMMA PolOutside ==
  ASSUME PolInv, EditPolicy \/ SendHup
  PROVE  PolInv'
<1> USE DEF PolInv
<1>1. CASE EditPolicy
  <2>1. file42'.ver = file42.ver + 1
    BY <1>1 DEF EditPolicy
  <2>2. PolTypeOK' /\ VersionOrder'
    BY <1>1, <2>1 DEF EditPolicy, PolTypeOK, VersionOrder
  <2>3. PhaseOrder' /\ Loaded' /\ NoStaleDecision'
    BY <1>1 DEF EditPolicy, PhaseOrder, Loaded, NoStaleDecision
  <2> QED
    BY <2>2, <2>3
<1>2. CASE SendHup
  <2>1. /\ \/ pc42' = "killed" /\ hup42' = hup42
           \/ pc42' = pc42 /\ hup42' = file42.ver
        /\ UNCHANGED <<cmd42, phase42, left42, file42, lua42, asked42, log42>>
    BY <1>2 DEF SendHup
  <2>2. PolTypeOK' /\ VersionOrder'
    BY <2>1 DEF PolTypeOK, VersionOrder
  <2>3. PhaseOrder' /\ Loaded' /\ NoStaleDecision'
    BY <2>1 DEF PhaseOrder, Loaded, NoStaleDecision
  <2> QED
    BY <2>2, <2>3
<1> QED
  BY <1>1, <1>2

\* A fresh interpreter gets what is in the file now.
LEMMA PolReload ==
  ASSUME PolInv, Reload
  PROVE  PolInv'
<1> USE DEF PolInv
<1>1. /\ pc42' = "failed" \/ (pc42' = "phase" /\ lua42' = <<file42>>)
      /\ UNCHANGED <<cmd42, phase42, left42, file42, hup42, asked42, log42>>
  BY DEF Reload
<1>2. PolTypeOK' /\ VersionOrder' /\ PhaseOrder' /\ NoStaleDecision'
  BY <1>1 DEF PolTypeOK, VersionOrder, PhaseOrder, NoStaleDecision
<1>3. Loaded'
  BY <1>1 DEF Loaded, PolTypeOK, VersionOrder
<1> QED
  BY <1>2, <1>3

\* A decision is logged with the version of the policy that made it.
LEMMA PolDecide ==
  ASSUME PolInv, Decide
  PROVE  PolInv'
<1> USE DEF PolInv
<1>1. /\ UNCHANGED <<cmd42, phase42, file42, lua42, hup42, asked42>> /\ pc42 = "phase"
      /\ \/ log42' = log42 \cup {<<phase42, lua42[1].ver>>} /\ pc42' = pc42
         \/ log42' = log42 /\ pc42' = "failed"
  BY DEF Decide
<1>2. lua42[1].ver \in Nat /\ lua42[1].ver >= asked42
  BY <1>1 DEF Loaded
<1>3. PolTypeOK' /\ VersionOrder'
  BY <1>1, <1>2 DEF PolTypeOK, VersionOrder
<1>4. PhaseOrder' /\ Loaded'
  BY <1>1 DEF PhaseOrder, Loaded
<1>5. NoStaleDecision'
  BY <1>1, <1>2 DEF NoStaleDecision, PhaseOrder, PolTypeOK
<1> QED
  BY <1>3, <1>4, <1>5

\* The mask, the end of a phase, and the SIGHUP that starts the second one.
LEMMA PolMain ==
  ASSUME PolInv, MakeSighupFd \/ PhaseEnds \/ WaitForSighup
  PROVE  PolInv'
<1> USE DEF PolInv
<1>1. CASE MakeSighupFd
  BY <1>1 DEF MakeSighupFd, PolTypeOK, VersionOrder, PhaseOrder, Loaded, NoStaleDecision
<1>2. CASE PhaseEnds
  BY <1>2 DEF PhaseEnds, PolTypeOK, VersionOrder, PhaseOrder, Loaded, NoStaleDecision
<1>3. CASE WaitForSighup
  <2>1. PolTypeOK' /\ VersionOrder' /\ Loaded'
    BY <1>3 DEF WaitForSighup, PolTypeOK, VersionOrder, Loaded
  <2>2. PhaseOrder' /\ NoStaleDecision'
    BY <1>3 DEF WaitForSighup, PhaseOrder, NoStaleDecision, PolTypeOK
  <2> QED
    BY <2>1, <2>2
<1> QED
  BY <1>1, <1>2, <1>3

\* Every decision after a reload is made by a policy at least as new as the file
\* was when the reload was asked for, however edits and signals interleave with
\* the first phase, for any number of edits.
THEOREM PolNoStaleDecision == PolSpec => []NoStaleDecision
<1>1. PolInv /\ [PolNext]_polVars => PolInv'
  <2> SUFFICES ASSUME PolInv, [PolNext]_polVars PROVE PolInv'
    OBVIOUS
  <2>1. CASE UNCHANGED polVars
    BY <2>1 DEF polVars, PolInv, PolTypeOK, VersionOrder, PhaseOrder, Loaded, NoStaleDecision
  <2> QED
    BY <2>1, PolOutside, PolReload, PolDecide, PolMain DEF PolNext, PolProgress
<1>2. PolInv => NoStaleDecision
  BY DEF PolInv
<1> QED
  BY <1>1, <1>2, PolInitInv, PTL DEF PolSpec

-----------------------------------------------------------------------------
(* pmon v4's tail.  The offset of the log's descriptor is always that of    *)
(* the last byte that entered the FIFO, also between the writes of a chunk  *)
(* and after an error between them.                                         *)

TailTypeOK ==
  /\ off \in Nat /\ logLen \in Nat /\ chunkEnd \in Nat
  /\ got \in Seq(Nat) /\ fifo18 \in Seq(Nat) /\ lost \subseteq Nat

Sent == got \o fifo18
SentInOrder == \A i, j \in DOMAIN Sent : i < j => Sent[i] < Sent[j]
Accounted == 1..off = ToSet(got) \cup ToSet(fifo18) \cup lost

TailInv == TailTypeOK /\ SentInOrder /\ Accounted

\* The members of a sequence are at its positions.
LEMMA ToSetMember ==
  ASSUME NEW s \in Seq(Nat), NEW x
  PROVE  x \in ToSet(s) <=> \E i \in 1..Len(s) : s[i] = x
  BY DEF ToSet

\* Joining two sequences joins their members.
LEMMA ToSetConcat ==
  ASSUME NEW s \in Seq(Nat), NEW t \in Seq(Nat)
  PROVE  ToSet(s \o t) = ToSet(s) \cup ToSet(t)
<1>1. s \o t \in Seq(Nat) /\ Len(s \o t) = Len(s) + Len(t)
  OBVIOUS
<1>2. ASSUME NEW x \in ToSet(s \o t) PROVE x \in ToSet(s) \cup ToSet(t)
  <2>1. PICK i \in 1..Len(s \o t) : (s \o t)[i] = x
    BY <1>1, ToSetMember
  <2>2. CASE i <= Len(s)
    <3>1. i \in 1..Len(s) /\ s[i] = x
      BY <1>1, <2>1, <2>2
    <3> QED
      BY <3>1, ToSetMember
  <2>3. CASE i > Len(s)
    <3>1. i - Len(s) \in 1..Len(t) /\ t[i - Len(s)] = x
      BY <1>1, <2>1, <2>3
    <3> QED
      BY <3>1, ToSetMember
  <2> QED
    BY <2>1, <2>2, <2>3, <1>1
<1>3. ASSUME NEW x \in ToSet(s) PROVE x \in ToSet(s \o t)
  <2>1. PICK i \in 1..Len(s) : s[i] = x
    BY ToSetMember
  <2>2. i \in 1..Len(s \o t) /\ (s \o t)[i] = x
    BY <1>1, <2>1
  <2> QED
    BY <2>2, <1>1, ToSetMember
<1>4. ASSUME NEW x \in ToSet(t) PROVE x \in ToSet(s \o t)
  <2>1. PICK i \in 1..Len(t) : t[i] = x
    BY ToSetMember
  <2>2. Len(s) + i \in 1..Len(s \o t) /\ (s \o t)[Len(s) + i] = x
    BY <1>1, <2>1
  <2> QED
    BY <2>2, <1>1, ToSetMember
<1> QED
  BY <1>2, <1>3, <1>4

\* A read moves the first byte of the FIFO to the end of what was read.
LEMMA ReadMovesByte ==
  ASSUME NEW g \in Seq(Nat), NEW f \in Seq(Nat), f # <<>>
  PROVE  /\ Append(g, Head(f)) \o Tail(f) = g \o f
         /\ ToSet(Append(g, Head(f))) \cup ToSet(Tail(f)) = ToSet(g) \cup ToSet(f)
<1>1. Append(g, Head(f)) \o Tail(f) = g \o f
  OBVIOUS
<1>2. Append(g, Head(f)) \in Seq(Nat) /\ Tail(f) \in Seq(Nat)
  OBVIOUS
<1>3. ToSet(Append(g, Head(f)) \o Tail(f)) = ToSet(Append(g, Head(f))) \cup ToSet(Tail(f))
  BY <1>2, ToSetConcat
<1>4. ToSet(g \o f) = ToSet(g) \cup ToSet(f)
  BY ToSetConcat
<1> QED
  BY <1>1, <1>3, <1>4, Zenon

\* Where the elements of a concatenation come from.
LEMMA ConcatIndex ==
  ASSUME NEW s \in Seq(Nat), NEW t \in Seq(Nat)
  PROVE  /\ s \o t \in Seq(Nat) /\ DOMAIN (s \o t) = 1..(Len(s) + Len(t))
         /\ \A k \in 1..(Len(s) + Len(t)) :
              /\ k <= Len(s) => k \in DOMAIN s /\ (s \o t)[k] = s[k]
              /\ k > Len(s) => k - Len(s) \in 1..Len(t) /\ (s \o t)[k] = t[k - Len(s)]
  OBVIOUS

\* The next n bytes extend the stream behind everything sent before.
LEMMA PutExtends ==
  ASSUME TailInv, NEW n \in Nat \ {0}, PutFifo(off, n), off' = off + n,
         UNCHANGED <<got, lost, logLen>>, chunkEnd' \in Nat
  PROVE  TailInv'
<1> USE DEF TailInv
<1> DEFINE new == [i \in 1..n |-> off + i]
<1>1. new \in Seq(Nat) /\ Len(new) = n /\ \A i \in 1..n : new[i] = off + i
  BY DEF TailTypeOK
<1>2. ToSet(new) = (off + 1)..(off + n)
  <2>1. ASSUME NEW x \in (off + 1)..(off + n) PROVE x \in ToSet(new)
    <3>1. x - off \in 1..n /\ new[x - off] = x
      BY <1>1, <2>1 DEF TailTypeOK
    <3> QED
      BY <3>1, <1>1 DEF ToSet
  <2>2. ASSUME NEW x \in ToSet(new) PROVE x \in (off + 1)..(off + n)
    BY <1>1, <2>2 DEF ToSet, TailTypeOK
  <2> QED
    BY <2>1, <2>2
<1> HIDE DEF new
<1>3. fifo18' = fifo18 \o new
  BY DEF PutFifo, new
<1>4. TailTypeOK'
  BY <1>1, <1>3 DEF TailTypeOK
<1>5. Sent' = Sent \o new /\ Sent \in Seq(Nat)
  <2>1. got \in Seq(Nat) /\ fifo18 \in Seq(Nat) /\ got' = got
    BY DEF TailTypeOK
  <2>2. got \o (fifo18 \o new) = (got \o fifo18) \o new
    <3>1. PICK a, b, c \in Seq(Nat) : a = got /\ b = fifo18 /\ c = new
      BY <2>1, <1>1
    <3>2. a \o (b \o c) = (a \o b) \o c
      BY ONLY a \in Seq(Nat), b \in Seq(Nat), c \in Seq(Nat), SMTT(60)
    <3> QED
      BY <3>1, <3>2
  <2>3. Sent' = got' \o fifo18'
    BY DEF Sent
  <2>4. got \o fifo18 \in Seq(Nat)
    BY <2>1
  <2> QED
    BY <2>1, <2>2, <2>3, <2>4, <1>3, Zenon DEF Sent
<1>6. \A i \in DOMAIN Sent : Sent[i] <= off
  <2>1. ToSet(Sent) = ToSet(got) \cup ToSet(fifo18)
    BY ToSetConcat DEF Sent, TailTypeOK
  <2>2. \A i \in DOMAIN Sent : Sent[i] \in ToSet(Sent)
    BY DEF ToSet
  <2> QED
    BY <2>1, <2>2 DEF Accounted, TailTypeOK
<1>7. SentInOrder'
  <2> SUFFICES ASSUME NEW i \in DOMAIN Sent', NEW j \in DOMAIN Sent', i < j
               PROVE  Sent'[i] < Sent'[j]
    BY DEF SentInOrder
  <2>1. /\ i \in 1..(Len(Sent) + n) /\ j \in 1..(Len(Sent) + n) /\ Len(Sent) \in Nat
        /\ i <= Len(Sent) => Sent'[i] = Sent[i] /\ i \in DOMAIN Sent
        /\ j <= Len(Sent) => Sent'[j] = Sent[j] /\ j \in DOMAIN Sent
        /\ i > Len(Sent) => Sent'[i] = off + (i - Len(Sent))
        /\ j > Len(Sent) => Sent'[j] = off + (j - Len(Sent))
    <3>1. /\ DOMAIN (Sent \o new) = 1..(Len(Sent) + n)
          /\ \A k \in 1..(Len(Sent) + n) :
               /\ k <= Len(Sent) => k \in DOMAIN Sent /\ (Sent \o new)[k] = Sent[k]
               /\ k > Len(Sent) => k - Len(Sent) \in 1..n
                                  /\ (Sent \o new)[k] = new[k - Len(Sent)]
      BY <1>1, <1>5, ConcatIndex
    <3>2. /\ DOMAIN Sent' = 1..(Len(Sent) + n)
          /\ \A k \in 1..(Len(Sent) + n) :
               /\ k <= Len(Sent) => k \in DOMAIN Sent /\ Sent'[k] = Sent[k]
               /\ k > Len(Sent) => k - Len(Sent) \in 1..n /\ Sent'[k] = new[k - Len(Sent)]
      BY <1>5, <3>1, Zenon
    <3>3. Len(Sent) \in Nat
      BY <1>5
    <3>4. i \in 1..(Len(Sent) + n) /\ j \in 1..(Len(Sent) + n)
      BY <3>2
    <3> QED
      BY <1>1, <3>2, <3>3, <3>4
  <2>2. CASE j <= Len(Sent)
    BY <2>1, <2>2 DEF SentInOrder
  <2>3. CASE i <= Len(Sent) /\ j > Len(Sent)
    <3>1. Sent[i] \in Nat /\ Sent[i] <= off
      BY <1>5, <1>6, <2>1, <2>3
    <3> QED
      BY <2>1, <2>3, <3>1 DEF TailTypeOK
  <2>4. CASE i > Len(Sent) /\ j > Len(Sent)
    BY <2>1, <2>4 DEF TailTypeOK
  <2> QED
    BY <2>1, <2>2, <2>3, <2>4
<1>8. Accounted'
  <2>1. ToSet(fifo18') = ToSet(fifo18) \cup ToSet(new)
    BY <1>1, <1>3, ToSetConcat DEF TailTypeOK
  <2>2. 1..(off + n) = (1..off) \cup ((off + 1)..(off + n))
    BY DEF TailTypeOK
  <2> QED
    BY <1>2, <2>1, <2>2 DEF Accounted
<1> QED
  BY <1>4, <1>7, <1>8

\* The FIFO goes when both ends are closed: what was in it is lost, nothing else.
LEMMA CloseLoses ==
  ASSUME TailInv, NEW o, CloseFifo(o), UNCHANGED <<got, off, logLen, chunkEnd>>
  PROVE  TailInv'
<1> USE DEF TailInv
<1>1. CASE UNCHANGED <<fifo18, lost>>
  BY <1>1 DEF TailTypeOK, SentInOrder, Sent, Accounted
<1>2. CASE fifo18' = <<>> /\ lost' = lost \cup ToSet(fifo18)
  <2>1. TailTypeOK'
    <3>1. ToSet(fifo18) \subseteq Nat
      BY DEF ToSet, TailTypeOK
    <3>2. <<>> \in Seq(Nat)
      OBVIOUS
    <3>3. lost' \subseteq Nat
      BY <1>2, <3>1 DEF TailTypeOK
    <3> QED
      BY <1>2, <3>2, <3>3, Zenon DEF TailTypeOK
  <2>2. SentInOrder'
    <3>1. Sent' = got
      BY <1>2 DEF Sent, TailTypeOK
    <3>2. ASSUME NEW i \in DOMAIN got
          PROVE  i \in DOMAIN Sent /\ Sent[i] = got[i]
      BY DEF Sent, TailTypeOK
    <3> QED
      BY <3>1, <3>2 DEF SentInOrder
  <2>3. Accounted'
    <3>1. ToSet(fifo18') = {}
      BY <1>2 DEF ToSet
    <3> QED
      BY <1>2, <3>1 DEF Accounted
  <2> QED
    BY <2>1, <2>2, <2>3
<1> QED
  BY <1>1, <1>2 DEF CloseFifo

\* Every step of the child, the relay and the reader keeps the invariant.
LEMMA TailNextInv == TailInv /\ [TailNext]_tailVars => TailInv'
<1> SUFFICES ASSUME TailInv, [TailNext]_tailVars PROVE TailInv'
  OBVIOUS
<1>1. ASSUME UNCHANGED <<off, fifo18, got, lost>>, logLen' \in Nat, chunkEnd' \in Nat
      PROVE  TailInv'
  BY <1>1 DEF TailInv, TailTypeOK, SentInOrder, Sent, Accounted
<1> USE DEF TailInv
<1>2. CASE \/ OpenWriter \/ CheckStop18 \/ RelayRead \/ LogGrows \/ ReaderOpens \/ TailSignal
           \/ UNCHANGED tailVars
  BY <1>1, <1>2
     DEF OpenWriter, CheckStop18, RelayRead, LogGrows, ReaderOpens, TailSignal, tailVars, TailTypeOK
<1>3. CASE ReaderReads
  <2>1. TailTypeOK'
    BY <1>3 DEF ReaderReads, TailTypeOK
  <2>2. Sent' = Sent /\ Accounted'
    BY <1>3, ReadMovesByte DEF ReaderReads, Sent, Accounted, TailTypeOK
  <2> QED
    BY <2>1, <2>2 DEF SentInOrder
<1>4. CASE ReaderLeaves
  BY <1>4, CloseLoses DEF ReaderLeaves
<1>5. CASE TailStops18
  BY <1>5, CloseLoses DEF TailStops18
<1>6. CASE RelaySplice
  <2>1. CASE UNCHANGED <<off, fifo18, lost>>
    BY <1>1, <1>6, <2>1 DEF RelaySplice, TailTypeOK
  <2>2. CASE Detached /\ UNCHANGED off
    BY <1>6, <2>2, CloseLoses DEF RelaySplice, Detached
  <2>3. CASE /\ \E n \in 1..(logLen - off) : n <= Room18 /\ PutFifo(off, n) /\ off' = off + n
             /\ UNCHANGED lost
    <3>1. PICK n \in 1..(logLen - off) : PutFifo(off, n) /\ off' = off + n
      BY <2>3
    <3>2. n \in Nat \ {0}
      BY <3>1 DEF TailTypeOK
    <3> QED
      BY <1>6, <2>3, <3>1, <3>2, PutExtends DEF RelaySplice, TailTypeOK
  <2> QED
    BY <1>6, <2>1, <2>2, <2>3 DEF RelaySplice
<1>7. CASE RelayWrite
  <2>1. CASE Detached /\ UNCHANGED off
    BY <1>7, <2>1, CloseLoses DEF RelayWrite, Detached
  <2>2. CASE /\ \E n \in 1..(chunkEnd - off) : n <= Room18 /\ PutFifo(off, n) /\ off' = off + n
             /\ UNCHANGED lost
    <3>1. PICK n \in 1..(chunkEnd - off) : PutFifo(off, n) /\ off' = off + n
      BY <2>2
    <3>2. n \in Nat \ {0}
      BY <3>1 DEF TailTypeOK
    <3> QED
      BY <1>7, <2>2, <3>1, <3>2, PutExtends DEF RelayWrite, TailTypeOK
  <2> QED
    BY <1>7, <2>1, <2>2 DEF RelayWrite
<1> QED
  BY <1>2, <1>3, <1>4, <1>5, <1>6, <1>7 DEF TailNext, TailProgress

\* Readers of pmon v4's FIFO see the log's bytes in order and none twice, and
\* tail skips none, whether it splices or copies, however readers come and go
\* and wherever a write is cut short, for any log, FIFO and number of readers.
THEOREM TailRelayedInOrder == TailSpec => []RelayedInOrder
<1>1. TailInit => TailInv
  <2> SUFFICES ASSUME TailInit PROVE TailInv
    OBVIOUS
  <2>1. ToSet(<<>>) = {} /\ Sent = <<>>
    BY DEF ToSet, Sent, TailInit
  <2> QED
    BY <2>1 DEF TailInit, TailInv, TailTypeOK, SentInOrder, Accounted
<1>2. TailInv => RelayedInOrder
  BY DEF TailInv, SentInOrder, Sent, Accounted, RelayedInOrder
<1> QED
  BY <1>1, <1>2, TailNextInv, PTL DEF TailSpec

-----------------------------------------------------------------------------
\* Induction over the natural numbers for a set: what holds of 0 and passes
\* from n to n + 1 holds of every number.
LEMMA LessIsWellFounded == IsWellFoundedOn({ss \in Nat \X Nat : ss[1] < ss[2]}, Nat)
BY NatLessThanWellFounded DEF OpToRel

LEMMA SetInduction ==
  ASSUME NEW S, 0 \in S, \A n \in Nat : n \in S => n + 1 \in S
  PROVE  Nat \subseteq S
<1> DEFINE Less == {ss \in Nat \X Nat : ss[1] < ss[2]}
           Rest == Nat \ S
<1> SUFFICES ASSUME Rest # {} PROVE FALSE
  OBVIOUS
<1>1. IsWellFoundedOn(Less, Nat)
  BY LessIsWellFounded
<1>2. Rest \subseteq Nat
  OBVIOUS
<1> HIDE DEF Less, Rest
<1>3. PICK x \in Rest : \A y \in Rest : ~ (<<y, x>> \in Less)
  BY <1>1, <1>2, WFMin
<1>4. x \in Nat /\ x \notin S /\ x # 0
  BY DEF Rest
<1>5. x - 1 \in Nat /\ x = (x - 1) + 1
  BY <1>4
<1>6. x - 1 \notin S
  BY <1>4, <1>5
<1>7. <<x - 1, x>> \in Less
  BY <1>4, <1>5 DEF Less
<1> QED
  BY <1>3, <1>5, <1>6, <1>7 DEF Rest

-----------------------------------------------------------------------------
(* The text of a stream: that the recursion has a solution, and one only,  *)
(* is shown by induction over the length of the log.                       *)

\* One step of the recursion of StreamText.
TextAt(text, log, s, i) ==
  IF i = 0 THEN <<>>
  ELSE IF log[i][1] = s THEN text[i - 1] \o log[i][2] ELSE text[i - 1]

IsText(text, log, s) == text = [i \in 0..Len(log) |-> TextAt(text, log, s, i)]

LEMMA TextExists ==
  ASSUME NEW log, Len(log) \in Nat, NEW s
  PROVE  \E text : IsText(text, log, s)
<1> DEFINE Upto(n) == \E text : text = [i \in 0..n |-> TextAt(text, log, s, i)]
           S == {n \in Nat : Upto(n)}
<1>1. 0 \in S
  <2> DEFINE t == [i \in 0..0 |-> <<>>]
  <2>1. t = [i \in 0..0 |-> TextAt(t, log, s, i)]
    BY DEF TextAt
  <2> QED
    BY <2>1
<1>2. ASSUME NEW n \in Nat, n \in S PROVE n + 1 \in S
  <2>1. PICK t : t = [i \in 0..n |-> TextAt(t, log, s, i)]
    BY <1>2
  <2>2. PICK u : u = [i \in 0..(n + 1) |-> IF i <= n THEN t[i] ELSE TextAt(t, log, s, i)]
    OBVIOUS
  <2>3. \A i \in 0..n : u[i] = t[i]
    BY <2>2
  <2>4. ASSUME NEW i \in 0..(n + 1) PROVE u[i] = TextAt(u, log, s, i)
    <3>1. i # 0 => i - 1 \in 0..n
      OBVIOUS
    <3>2. TextAt(u, log, s, i) = TextAt(t, log, s, i)
      BY <2>3, <3>1 DEF TextAt
    <3>3. u[i] = TextAt(t, log, s, i)
      <4>1. CASE i <= n
        <5>1. t[i] = TextAt(t, log, s, i)
          BY <2>1, <4>1
        <5> QED
          BY <2>2, <4>1, <5>1
      <4>2. CASE ~ (i <= n)
        BY <2>2, <4>2
      <4> QED
        BY <4>1, <4>2
    <3> QED
      BY <3>2, <3>3
  <2>5. u = [i \in 0..(n + 1) |-> TextAt(u, log, s, i)]
    <3>1. u = [i \in 0..(n + 1) |-> u[i]]
      BY <2>2
    <3> QED
      BY <2>4, <3>1
  <2>6. Upto(n + 1)
    BY <2>5
  <2> QED
    BY <2>6
<1> HIDE DEF Upto
<1>3. Nat \subseteq S
  BY <1>1, <1>2, SetInduction
<1>4. Upto(Len(log))
  BY <1>3
<1> QED
  BY <1>4 DEF Upto, IsText

\* The texts of a log and of a longer one agree as far as the logs do.
LEMMA TextsAgree ==
  ASSUME NEW log, NEW more, NEW s, NEW t, NEW u, IsText(t, log, s), IsText(u, more, s),
         Len(log) \in Nat, Len(more) \in Nat, Len(log) <= Len(more),
         \A i \in 1..Len(log) : more[i] = log[i]
  PROVE  \A i \in 0..Len(log) : u[i] = t[i]
<1> DEFINE S == {n \in Nat : n <= Len(log) => u[n] = t[n]}
<1>1. \A i \in 0..Len(log) : t[i] = TextAt(t, log, s, i) /\ u[i] = TextAt(u, more, s, i)
  <2>1. \A i \in 0..Len(log) : t[i] = TextAt(t, log, s, i)
    BY DEF IsText
  <2>2. \A i \in 0..Len(more) : u[i] = TextAt(u, more, s, i)
    BY DEF IsText
  <2>3. 0..Len(log) \subseteq 0..Len(more)
    OBVIOUS
  <2> QED
    BY <2>1, <2>2, <2>3
<1>2. 0 \in S
  BY <1>1 DEF TextAt
<1>3. ASSUME NEW n \in Nat, n \in S PROVE n + 1 \in S
  <2> SUFFICES ASSUME n + 1 <= Len(log) PROVE u[n + 1] = t[n + 1]
    OBVIOUS
  <2>1. u[n] = t[n] /\ n + 1 \in 0..Len(log) /\ n + 1 \in 1..Len(log) /\ n + 1 # 0 /\ (n + 1) - 1 = n
    BY <1>3
  <2>2. TextAt(t, log, s, n + 1) = TextAt(u, more, s, n + 1)
    BY <2>1 DEF TextAt
  <2> QED
    BY <1>1, <2>1, <2>2
<1>4. Nat \subseteq S
  BY <1>2, <1>3, SetInduction
<1> QED
  BY <1>4

LEMMA TextOfLog ==
  ASSUME NEW log, Len(log) \in Nat, NEW s
  PROVE  \E text : IsText(text, log, s) /\ StreamText(log, s) = text[Len(log)]
<1> DEFINE P(f) == f = [i \in 0..Len(log) |->
                         IF i = 0 THEN <<>>
                         ELSE IF log[i][1] = s THEN f[i - 1] \o log[i][2] ELSE f[i - 1]]
<1>1. PICK t : IsText(t, log, s)
  BY TextExists
<1>2. P(t)
  BY <1>1 DEF IsText, TextAt
<1>3. PICK u : u = (CHOOSE f : P(f)) /\ P(u)
  BY <1>2
<1>4. StreamText(log, s) = u[Len(log)]
  BY <1>3 DEF StreamText
<1>5. IsText(u, log, s)
  BY <1>3 DEF IsText, TextAt
<1> QED
  BY <1>4, <1>5

LEMMA TextOfNone ==
  ASSUME NEW s
  PROVE  StreamText(<<>>, s) = <<>>
<1>1. PICK t : IsText(t, <<>>, s) /\ StreamText(<<>>, s) = t[Len(<<>>)]
  BY TextOfLog
<1> QED
  BY <1>1 DEF IsText, TextAt

\* A line that is appended to the log continues the text of its stream.
LEMMA TextOfAppend ==
  ASSUME NEW R, NEW log \in Seq(R), NEW s, NEW r \in R
  PROVE  StreamText(Append(log, r), s)
           = IF r[1] = s THEN StreamText(log, s) \o r[2] ELSE StreamText(log, s)
<1>1. PICK t : IsText(t, log, s) /\ StreamText(log, s) = t[Len(log)]
  BY TextOfLog
<1>2. PICK more : more = Append(log, r)
  OBVIOUS
<1>3. /\ Len(log) \in Nat /\ Len(more) = Len(log) + 1 /\ more[Len(log) + 1] = r
      /\ \A i \in 1..Len(log) : more[i] = log[i]
  BY <1>2
<1>4. PICK u : IsText(u, more, s) /\ StreamText(more, s) = u[Len(more)]
  BY <1>3, TextOfLog
<1>5. u[Len(log)] = t[Len(log)]
  <2>1. \A i \in 0..Len(log) : u[i] = t[i]
    BY <1>1, <1>3, <1>4, TextsAgree
  <2> QED
    BY <1>3, <2>1
<1>6. u[Len(log) + 1] = TextAt(u, more, s, Len(log) + 1)
  BY <1>3, <1>4 DEF IsText
<1>7. Len(log) + 1 # 0 /\ (Len(log) + 1) - 1 = Len(log)
  BY <1>3
<1> QED
  BY <1>1, <1>2, <1>3, <1>4, <1>5, <1>6, <1>7 DEF TextAt
-----------------------------------------------------------------------------
(* pmon v4, supervise: what a child wrote is in the log, in the partial    *)
(* line or in the pipe, in this order; a stream that was read to its end   *)
(* has left nothing in the last two.                                       *)

Units18 == [id : Nat \cup {MaxUnits}, nl : BOOLEAN]

CapTypeOK ==
  /\ wrote18 \in [Streams -> Seq(Units18)]
  /\ pipe18 \in [Streams -> Seq(Units18)] /\ buf18 \in [Streams -> Seq(Units18)]
  /\ open18 \in [Streams -> BOOLEAN]
  /\ log18 \in Seq(Streams \X Seq(Units18))

\* Nothing is lost on the way: in the log, in the buffer, in the pipe.
OnItsWay(s) ==
  /\ StreamText(log18, s) \in Seq(Units18)
  /\ kind18 # "chatty" => wrote18[s] = (StreamText(log18, s) \o buf18[s]) \o pipe18[s]

\* A stream that was read to its end has left nothing behind.
AtItsEnd(s) ==
  ~ open18[s] => buf18[s] = <<>> /\ pipe18[s] = <<>> /\ child18 # "run" /\ s \notin kin18

\* What is buffered has no line end; as long as a line may follow, every line has.
Partial(s) == \A j \in DOMAIN buf18[s] : ~ buf18[s][j].nl
LogLines(s) ==
  \A i \in DOMAIN log18 : log18[i][1] = s =>
    /\ OneLine(log18[i][2])
    /\ (open18[s] \/ \E k \in DOMAIN log18 : k > i /\ log18[k][1] = s) => LineEnds(log18[i][2])

CapInv ==
  /\ CapTypeOK
  /\ \A s \in Streams : OnItsWay(s) /\ AtItsEnd(s) /\ Partial(s) /\ LogLines(s)
  /\ sup18 \in {"spawn", "done"} => Drained

LEMMA CapInitInv == CapInit => CapInv
<1> SUFFICES ASSUME CapInit PROVE CapInv
  OBVIOUS
<1> USE DEF CapInit
<1>1. CapTypeOK
  BY DEF CapTypeOK
<1>2. ASSUME NEW s \in Streams PROVE OnItsWay(s) /\ AtItsEnd(s) /\ Partial(s) /\ LogLines(s)
  <2>1. StreamText(log18, s) = <<>> /\ wrote18[s] = <<>> /\ buf18[s] = <<>> /\ pipe18[s] = <<>>
    BY TextOfNone
  <2>2. (<<>> \o <<>>) \o <<>> = <<>>
    OBVIOUS
  <2>3. OnItsWay(s)
    BY <2>1, <2>2, EmptySeq DEF OnItsWay
  <2> QED
    BY <2>1, <2>3 DEF AtItsEnd, Partial, LogLines
<1>3. Drained
  BY DEF Drained, Streams
<1> QED
  BY <1>1, <1>2, <1>3 DEF CapInv

LEMMA MoveOne ==
  ASSUME NEW S, NEW x \in Seq(S), NEW y \in Seq(S), NEW z \in Seq(S), z # <<>>
  PROVE  /\ (x \o y) \o z = (x \o Append(y, Head(z))) \o Tail(z)
         /\ ((x \o Append(y, Head(z))) \o <<>>) \o Tail(z) = (x \o Append(y, Head(z))) \o Tail(z)
         /\ Head(z) \in S /\ Tail(z) \in Seq(S) /\ Append(y, Head(z)) \in Seq(S)
<1>1. PICK h : h = Head(z)
  OBVIOUS
<1>2. PICK t : t = Tail(z)
  OBVIOUS
<1>3. h \in S /\ t \in Seq(S) /\ <<h>> \in Seq(S)
  BY <1>1, <1>2, HeadTailProperties
<1>4. z = <<h>> \o t
  <2>1. /\ Len(z) \in Nat /\ Len(z) # 0 /\ Len(t) = Len(z) - 1 /\ h = z[1]
        /\ \A i \in 1..Len(t) : t[i] = z[i + 1]
    BY <1>1, <1>2, HeadTailProperties
  <2>2. PICK w : w = <<h>> \o t
    OBVIOUS
  <2>3. w \in Seq(S) /\ Len(w) = Len(z)
    BY <1>3, <2>1, <2>2
  <2>4. \A i \in 1..Len(z) : z[i] = w[i]
    BY <1>3, <2>1, <2>2
  <2> QED
    BY <2>2, <2>3, <2>4, SeqEqual
<1>5. Append(y, h) = y \o <<h>> /\ y \o <<h>> \in Seq(S)
  BY <1>3
<1>6. (x \o y) \o (<<h>> \o t) = ((x \o y) \o <<h>>) \o t
  BY <1>3, ConcatProperties, ConcatAssociative
<1>7. (x \o y) \o <<h>> = x \o (y \o <<h>>) /\ x \o (y \o <<h>>) \in Seq(S)
  <2>1. (x \o y) \o <<h>> = x \o (y \o <<h>>)
    BY <1>3, ConcatAssociative
  <2>2. x \o (y \o <<h>>) \in Seq(S)
    BY <1>5, ConcatProperties
  <2> QED
    BY <2>1, <2>2
<1>8. (x \o (y \o <<h>>)) \o <<>> = x \o (y \o <<h>>)
  BY <1>7, ConcatEmptySeq
<1> QED
  BY <1>1, <1>2, <1>3, <1>4, <1>5, <1>6, <1>7, <1>8

LEMMA AppendLast ==
  ASSUME NEW S, NEW y \in Seq(S), NEW z \in Seq(S), NEW u \in S
  PROVE  y \o Append(z, u) = Append(y \o z, u)
<1>1. Append(z, u) = z \o <<u>> /\ <<u>> \in Seq(S)
  BY AppendIsConcat
<1>2. y \o (z \o <<u>>) = (y \o z) \o <<u>>
  BY <1>1, ConcatAssociative
<1>3. y \o z \in Seq(S)
  BY ConcatProperties
<1>4. Append(y \o z, u) = (y \o z) \o <<u>>
  BY <1>3, AppendIsConcat
<1> QED
  BY <1>1, <1>2, <1>4

LEMMA LineLogged ==
  ASSUME CapInv, NEW s \in Streams, NEW line \in Seq(Units18), open18[s], OneLine(line),
         log18' = Append(log18, <<s, line>>),
         \A d \in Streams : d # s => open18'[d] = open18[d],
         open18'[s] => LineEnds(line)
  PROVE  /\ log18' \in Seq(Streams \X Seq(Units18))
         /\ StreamText(log18', s) = StreamText(log18, s) \o line
         /\ \A d \in Streams : d # s => StreamText(log18', d) = StreamText(log18, d)
         /\ \A d \in Streams : LogLines(d)'
<1>1. log18 \in Seq(Streams \X Seq(Units18)) /\ <<s, line>> \in Streams \X Seq(Units18)
  BY DEF CapInv, CapTypeOK
<1>2. PICK r : r = <<s, line>>
  OBVIOUS
<1>3. r \in Streams \X Seq(Units18) /\ r[1] = s /\ r[2] = line
  BY <1>1, <1>2
<1>4. /\ log18' \in Seq(Streams \X Seq(Units18)) /\ Len(log18') = Len(log18) + 1
      /\ DOMAIN log18' = 1..(Len(log18) + 1) /\ log18'[Len(log18) + 1] = r
      /\ Len(log18) \in Nat /\ DOMAIN log18 = 1..Len(log18)
      /\ \A i \in 1..Len(log18) : log18'[i] = log18[i]
  BY <1>1, <1>2, <1>3
<1>5. \A d \in Streams : StreamText(log18', d)
                          = IF r[1] = d THEN StreamText(log18, d) \o r[2] ELSE StreamText(log18, d)
  <2> SUFFICES ASSUME NEW d \in Streams
               PROVE  StreamText(log18', d)
                        = IF r[1] = d THEN StreamText(log18, d) \o r[2] ELSE StreamText(log18, d)
    OBVIOUS
  <2>1. log18' = Append(log18, r)
    BY <1>2
  <2>2. StreamText(Append(log18, r), d)
          = IF r[1] = d THEN StreamText(log18, d) \o r[2] ELSE StreamText(log18, d)
    <3>1. PICK R : R = Streams \X Seq(Units18)
      OBVIOUS
    <3>2. log18 \in Seq(R) /\ r \in R
      BY <1>1, <1>3, <3>1
    <3> QED
      BY <3>2, TextOfAppend
  <2> QED
    BY <2>1, <2>2
<1>6. ASSUME NEW d \in Streams PROVE LogLines(d)'
  <2>1. LogLines(d)
    BY DEF CapInv
  <2> SUFFICES ASSUME NEW i \in DOMAIN log18', log18'[i][1] = d
               PROVE  /\ OneLine(log18'[i][2])
                      /\ (open18'[d] \/ \E k \in DOMAIN log18' : k > i /\ log18'[k][1] = d)
                           => LineEnds(log18'[i][2])
    BY DEF LogLines
  <2>2. CASE i = Len(log18) + 1
    <3>1. d = s /\ log18'[i][2] = line /\ ~ \E k \in DOMAIN log18' : k > i
      BY <1>3, <1>4, <2>2
    <3> QED
      BY <3>1
  <2>3. CASE i \in 1..Len(log18)
    <3>1. log18'[i] = log18[i] /\ i \in DOMAIN log18 /\ log18[i][1] = d
      BY <1>4, <2>3
    <3>2. OneLine(log18[i][2])
      BY <2>1, <3>1 DEF LogLines
    <3>3. CASE d = s
      BY <2>1, <3>1, <3>2, <3>3 DEF LogLines
    <3>4. CASE d # s
      <4>1. ASSUME NEW k \in DOMAIN log18', k > i, log18'[k][1] = d
            PROVE  k \in DOMAIN log18 /\ log18[k][1] = d
        <5>1. k # Len(log18) + 1
          BY <1>3, <1>4, <3>4, <4>1
        <5> QED
          BY <1>4, <4>1, <5>1
      <4> QED
        BY <2>1, <3>1, <3>2, <3>4, <4>1 DEF LogLines
    <3> QED
      BY <3>3, <3>4
  <2> QED
    BY <1>4, <2>2, <2>3
<1> QED
  BY <1>3, <1>4, <1>5, <1>6

\* What a read of s must leave behind: the pipe p, the buffer b, the stream open or not.
DrainsTo(s, p, b, o) ==
  /\ pipe18' = [pipe18 EXCEPT ![s] = p] /\ buf18' = [buf18 EXCEPT ![s] = b]
  /\ open18' = [open18 EXCEPT ![s] = o]
  /\ log18' \in Seq(Streams \X Seq(Units18))
  /\ \A d \in Streams : d # s => StreamText(log18', d) = StreamText(log18, d)
  /\ StreamText(log18', s) \in Seq(Units18)
  /\ kind18 # "chatty" =>
       (StreamText(log18', s) \o b) \o p = (StreamText(log18, s) \o buf18[s]) \o pipe18[s]
  /\ ~ o => b = <<>> /\ p = <<>> /\ child18 # "run" /\ s \notin kin18
  /\ \A j \in DOMAIN b : ~ b[j].nl
  /\ \A d \in Streams : LogLines(d)'

LEMMA CapDrains ==
  ASSUME CapInv, NEW s \in Streams, DrainOnce(s), sup18 \notin {"spawn", "done"},
         UNCHANGED <<kind18, sup18, child18, kin18, wrote18>>
  PROVE  CapInv'
<1>1. /\ wrote18[s] \in Seq(Units18) /\ pipe18[s] \in Seq(Units18) /\ buf18[s] \in Seq(Units18)
      /\ StreamText(log18, s) \in Seq(Units18)
      /\ OnItsWay(s) /\ AtItsEnd(s) /\ Partial(s) /\ LogLines(s)
  BY DEF CapInv, CapTypeOK, OnItsWay
<1>2. ASSUME NEW p \in Seq(Units18), NEW b \in Seq(Units18), NEW o \in BOOLEAN, DrainsTo(s, p, b, o)
      PROVE  CapInv'
  <2> USE <1>2 DEF DrainsTo
  <2>1. /\ pipe18'[s] = p /\ buf18'[s] = b /\ open18'[s] = o
        /\ \A d \in Streams : d # s =>
             pipe18'[d] = pipe18[d] /\ buf18'[d] = buf18[d] /\ open18'[d] = open18[d]
    BY <1>2 DEF CapInv, CapTypeOK
  <2>2. CapTypeOK'
    BY <1>2 DEF CapInv, CapTypeOK
  <2>3. ASSUME NEW d \in Streams PROVE (OnItsWay(d) /\ AtItsEnd(d) /\ Partial(d))'
    <3>1. CASE d = s
      BY <1>1, <1>2, <2>1, <3>1 DEF OnItsWay, AtItsEnd, Partial
    <3>2. CASE d # s
      <4>1. OnItsWay(d) /\ AtItsEnd(d) /\ Partial(d)
        BY DEF CapInv
      <4> QED
        BY <1>2, <2>1, <3>2, <4>1 DEF OnItsWay, AtItsEnd, Partial
    <3> QED
      BY <3>1, <3>2
  <2> QED
    BY <1>2, <2>2, <2>3 DEF CapInv
<1>5. \A j \in DOMAIN <<>> : ~ (<<>>[j]).nl
  OBVIOUS
<1>3. CASE pipe18[s] # <<>>
  <2>1. PICK u : u = Head(pipe18[s])
    OBVIOUS
  <2>2. PICK b : b = Append(buf18[s], u)
    OBVIOUS
  <2>3. PICK p : p = Tail(pipe18[s])
    OBVIOUS
  <2>4. /\ pipe18' = [pipe18 EXCEPT ![s] = p] /\ open18' = open18
        /\ \/ /\ u.nl \/ Len(b) > BufMax18
              /\ log18' = Emit(log18, s, b) /\ buf18' = [buf18 EXCEPT ![s] = <<>>]
           \/ ~ u.nl /\ buf18' = [buf18 EXCEPT ![s] = b] /\ log18' = log18
    BY <1>3, <2>1, <2>2, <2>3 DEF DrainOnce
  <2>5. /\ u \in Units18 /\ b \in Seq(Units18) /\ p \in Seq(Units18)
        /\ (StreamText(log18, s) \o buf18[s]) \o pipe18[s] = (StreamText(log18, s) \o b) \o p
        /\ ((StreamText(log18, s) \o b) \o <<>>) \o p = (StreamText(log18, s) \o b) \o p
    <3>1. PICK x : x = StreamText(log18, s)
      OBVIOUS
    <3>2. PICK y : y = buf18[s]
      OBVIOUS
    <3>3. PICK z : z = pipe18[s]
      OBVIOUS
    <3>4. x \in Seq(Units18) /\ y \in Seq(Units18) /\ z \in Seq(Units18) /\ z # <<>>
      BY <1>1, <1>3, <3>1, <3>2, <3>3
    <3>5. /\ (x \o y) \o z = (x \o Append(y, Head(z))) \o Tail(z)
          /\ ((x \o Append(y, Head(z))) \o <<>>) \o Tail(z) = (x \o Append(y, Head(z))) \o Tail(z)
          /\ Head(z) \in Units18 /\ Tail(z) \in Seq(Units18)
          /\ Append(y, Head(z)) \in Seq(Units18)
      <4>1. PICK q : q = (x \o y) \o z
        OBVIOUS
      <4>2. PICK w : w = (x \o Append(y, Head(z))) \o Tail(z)
        OBVIOUS
      <4>3. PICK v : v = ((x \o Append(y, Head(z))) \o <<>>) \o Tail(z)
        OBVIOUS
      <4>4. q = w /\ v = w
        BY <3>4, <4>1, <4>2, <4>3, MoveOne, Z3T(60)
      <4>5. Head(z) \in Units18 /\ Tail(z) \in Seq(Units18)
        BY <3>4, HeadTailProperties
      <4>6. Append(y, Head(z)) \in Seq(Units18)
        BY <3>4, <4>5, AppendProperties
      <4> QED
        BY <4>1, <4>2, <4>3, <4>4, <4>5, <4>6
    <3>6. b = Append(y, Head(z)) /\ p = Tail(z) /\ u = Head(z)
      BY <2>1, <2>2, <2>3, <3>2, <3>3
    <3> QED
      BY <3>1, <3>2, <3>3, <3>5, <3>6
  <2>6. open18[s] = TRUE /\ open18' = [open18 EXCEPT ![s] = TRUE]
    BY <1>1, <1>3, <2>4 DEF AtItsEnd, CapInv, CapTypeOK
  <2>7. /\ Len(b) = Len(buf18[s]) + 1 /\ b[Len(b)] = u /\ Len(b) \in Nat
        /\ DOMAIN b = 1..Len(b)
        /\ \A j \in DOMAIN b : j # Len(b) => b[j] = buf18[s][j] /\ j \in DOMAIN buf18[s]
    BY <1>1, <2>2, <2>5
  <2>8. OneLine(b)
    BY <1>1, <2>7 DEF OneLine, Partial
  <2>9. CASE /\ u.nl \/ Len(b) > BufMax18
             /\ log18' = Emit(log18, s, b) /\ buf18' = [buf18 EXCEPT ![s] = <<>>]
    <3>1. LineEnds(b)
      BY <2>7, <2>9 DEF LineEnds
    <3>2. CASE kind18 = "chatty"
      <4>1. log18' = log18
        BY <2>9, <3>2 DEF Emit
      <4>2. \A d \in Streams : LogLines(d)'
        BY <2>4, <4>1 DEF CapInv, LogLines
      <4> QED
        <5>1. log18' \in Seq(Streams \X Seq(Units18))
          BY <4>1 DEF CapInv, CapTypeOK
        <5>2. DrainsTo(s, p, <<>>, TRUE)
          BY <1>5, <1>1, <2>4, <2>6, <2>9, <3>2, <4>1, <4>2, <5>1 DEF DrainsTo
        <5> QED
          BY <1>2, <2>5, <5>2, EmptySeq
    <3>3. CASE kind18 # "chatty"
      <4>1. log18' = Append(log18, <<s, b>>)
        BY <2>9, <3>3 DEF Emit
      <4>2. /\ log18' \in Seq(Streams \X Seq(Units18))
            /\ StreamText(log18', s) = StreamText(log18, s) \o b
            /\ \A d \in Streams : d # s => StreamText(log18', d) = StreamText(log18, d)
            /\ \A d \in Streams : LogLines(d)'
        BY <2>4, <2>5, <2>6, <2>8, <3>1, <4>1, LineLogged
      <4>3. StreamText(log18', s) \in Seq(Units18)
        BY <1>1, <2>5, <4>2, ConcatProperties
      <4>4. (StreamText(log18', s) \o <<>>) \o p = (StreamText(log18, s) \o buf18[s]) \o pipe18[s]
        BY <2>5, <4>2
      <4> QED
        <5>1. DrainsTo(s, p, <<>>, TRUE)
          BY <1>5, <2>4, <2>6, <2>9, <4>2, <4>3, <4>4 DEF DrainsTo
        <5> QED
          BY <1>2, <2>5, <5>1, EmptySeq
    <3> QED
      BY <3>2, <3>3
  <2>10. CASE ~ u.nl /\ buf18' = [buf18 EXCEPT ![s] = b] /\ log18' = log18
    <3>1. \A d \in Streams : LogLines(d)'
      BY <2>4, <2>10 DEF CapInv, LogLines
    <3>2. \A j \in DOMAIN b : ~ b[j].nl
      BY <1>1, <2>7, <2>10 DEF Partial
    <3>3. log18' \in Seq(Streams \X Seq(Units18))
      BY <2>10 DEF CapInv, CapTypeOK
    <3>4. (StreamText(log18', s) \o b) \o p = (StreamText(log18, s) \o buf18[s]) \o pipe18[s]
      BY <2>5, <2>10
    <3> QED
      <4>1. DrainsTo(s, p, b, TRUE)
        BY <1>1, <2>4, <2>6, <2>10, <3>1, <3>2, <3>3, <3>4 DEF DrainsTo
      <4> QED
        BY <1>2, <2>5, <4>1
  <2> QED
    BY <2>4, <2>9, <2>10
<1>4. CASE pipe18[s] = <<>>
  <2>1. /\ child18 # "run" /\ s \notin kin18 /\ open18' = [open18 EXCEPT ![s] = FALSE]
        /\ log18' = IF buf18[s] = <<>> THEN log18 ELSE Emit(log18, s, buf18[s])
        /\ buf18' = [buf18 EXCEPT ![s] = <<>>] /\ pipe18' = [pipe18 EXCEPT ![s] = <<>>]
    BY <1>4 DEF DrainOnce, WriterGone, CapInv, CapTypeOK
  <2>2. open18'[s] = FALSE /\ \A d \in Streams : d # s => open18'[d] = open18[d]
    BY <2>1 DEF CapInv, CapTypeOK
  <2>3. /\ (StreamText(log18, s) \o buf18[s]) \o <<>> = StreamText(log18, s) \o buf18[s]
        /\ StreamText(log18, s) \o buf18[s] \in Seq(Units18)
    BY <1>1, ConcatProperties, ConcatEmptySeq
  <2>4. CASE log18' = log18 /\ (buf18[s] = <<>> \/ kind18 = "chatty")
    <3>1. \A d \in Streams : LogLines(d)'
      BY <2>2, <2>4 DEF CapInv, LogLines
    <3>2. log18' \in Seq(Streams \X Seq(Units18))
      BY <2>4 DEF CapInv, CapTypeOK
    <3>3. kind18 # "chatty" =>
            (StreamText(log18', s) \o <<>>) \o <<>>
              = (StreamText(log18, s) \o buf18[s]) \o pipe18[s]
      BY <1>4, <2>4
    <3> QED
      <4>1. DrainsTo(s, <<>>, <<>>, FALSE)
        BY <1>5, <1>1, <2>1, <2>4, <3>1, <3>2, <3>3 DEF DrainsTo
      <4> QED
        BY <1>2, <4>1, EmptySeq
  <2>5. CASE log18' = Append(log18, <<s, buf18[s]>>) /\ buf18[s] # <<>>
    <3>1. open18[s]
      BY <1>1, <2>5 DEF AtItsEnd
    <3>2. OneLine(buf18[s])
      BY <1>1 DEF OneLine, Partial
    <3>3. /\ log18' \in Seq(Streams \X Seq(Units18))
          /\ StreamText(log18', s) = StreamText(log18, s) \o buf18[s]
          /\ \A d \in Streams : d # s => StreamText(log18', d) = StreamText(log18, d)
          /\ \A d \in Streams : LogLines(d)'
      BY <1>1, <2>2, <2>5, <3>1, <3>2, LineLogged
    <3>4. (StreamText(log18', s) \o <<>>) \o <<>> = (StreamText(log18, s) \o buf18[s]) \o pipe18[s]
      BY <1>4, <2>3, <3>3
    <3> QED
      <4>1. DrainsTo(s, <<>>, <<>>, FALSE)
        BY <1>5, <2>1, <2>3, <3>3, <3>4 DEF DrainsTo
      <4> QED
        BY <1>2, <4>1, EmptySeq
  <2> QED
    BY <2>1, <2>4, <2>5 DEF Emit
<1> QED
  BY <1>3, <1>4

LEMMA CapWrites ==
  ASSUME CapInv, NEW s \in Streams, NEW nl \in BOOLEAN, ChildWrites(s, nl) \/ KinWrites(s, nl)
  PROVE  CapInv'
<1>1. /\ child18 = "run" \/ s \in kin18
      /\ UNCHANGED <<kind18, sup18, child18, kin18, open18, buf18, log18>>
  BY DEF ChildWrites, KinWrites
<1>2. PICK u \in Units18 : /\ pipe18' = [pipe18 EXCEPT ![s] = Append(@, u)]
                          /\ \/ wrote18' = [wrote18 EXCEPT ![s] = Append(@, u)]
                             \/ kind18 = "chatty" /\ wrote18' = wrote18
  <2>1. Written \in Nat
    BY DEF CapInv, CapTypeOK, Written, Streams
  <2>2. [id |-> Written, nl |-> nl] \in Units18 /\ [id |-> MaxUnits, nl |-> TRUE] \in Units18
    BY <2>1 DEF Units18
  <2> QED
    BY <2>2 DEF ChildWrites, KinWrites, Puts
<1>3. /\ pipe18'[s] = Append(pipe18[s], u) /\ \A d \in Streams : d # s => pipe18'[d] = pipe18[d]
      /\ \A d \in Streams : d # s => wrote18'[d] = wrote18[d]
      /\ kind18 = "chatty" \/ wrote18'[s] = Append(wrote18[s], u)
  BY <1>2 DEF CapInv, CapTypeOK
<1>4. pipe18[s] \in Seq(Units18) /\ buf18[s] \in Seq(Units18) /\ wrote18[s] \in Seq(Units18)
  BY DEF CapInv, CapTypeOK
<1>5. CapTypeOK'
  <2>1. Append(pipe18[s], u) \in Seq(Units18) /\ Append(wrote18[s], u) \in Seq(Units18)
    BY <1>4
  <2> QED
    BY <1>1, <1>2, <2>1 DEF CapInv, CapTypeOK
<1>6. ASSUME NEW d \in Streams PROVE (OnItsWay(d) /\ AtItsEnd(d) /\ Partial(d) /\ LogLines(d))'
  <2>1. OnItsWay(d) /\ AtItsEnd(d) /\ Partial(d) /\ LogLines(d)
    BY DEF CapInv
  <2>2. OnItsWay(d)'
    <3>1. CASE d # s
      BY <1>1, <1>3, <2>1, <3>1 DEF OnItsWay
    <3>2. CASE d = s
      <4>1. PICK x : x = StreamText(log18, d)
        OBVIOUS
      <4>2. x \in Seq(Units18) /\ (x \o buf18[s]) \o Append(pipe18[s], u)
              = Append((x \o buf18[s]) \o pipe18[s], u)
        <5>1. x \in Seq(Units18) /\ x \o buf18[s] \in Seq(Units18)
          BY <1>4, <2>1, <4>1, ConcatProperties DEF OnItsWay
        <5>2. PICK y : y = x \o buf18[s]
          OBVIOUS
        <5>3. y \o Append(pipe18[s], u) = Append(y \o pipe18[s], u)
          <6>1. y \in Seq(Units18)
            BY <5>1, <5>2
          <6>2. PICK q : q = y \o Append(pipe18[s], u)
            OBVIOUS
          <6>3. PICK w : w = Append(y \o pipe18[s], u)
            OBVIOUS
          <6>4. q = w
            BY <1>4, <6>1, <6>2, <6>3, AppendLast
          <6> QED
            BY <6>2, <6>3, <6>4
        <5> QED
          BY <5>1, <5>2, <5>3
      <4> QED
        BY <1>1, <1>3, <2>1, <3>2, <4>1, <4>2 DEF OnItsWay
    <3> QED
      BY <3>1, <3>2
  <2>3. AtItsEnd(d)'
    <3>1. CASE d # s
      BY <1>1, <1>3, <2>1, <3>1 DEF AtItsEnd
    <3>2. CASE d = s
      BY <1>1, <2>1, <3>2 DEF AtItsEnd
    <3> QED
      BY <3>1, <3>2
  <2> QED
    BY <1>1, <2>1, <2>2, <2>3 DEF Partial, LogLines
<1> QED
  BY <1>1, <1>5, <1>6 DEF CapInv, Drained

LEMMA CapSpawns ==
  ASSUME CapInv, SpawnChild
  PROVE  CapInv'
<1>1. /\ wrote18' = [d \in Streams |-> <<>>] /\ pipe18' = [d \in Streams |-> <<>>]
      /\ open18' = [d \in Streams |-> TRUE] /\ buf18' = [d \in Streams |-> <<>>]
      /\ log18' = <<>> /\ sup18' \in {"poll", "broken"}
  BY DEF SpawnChild
<1>2. CapTypeOK'
  BY <1>1 DEF CapTypeOK
<1>3. ASSUME NEW d \in Streams PROVE (OnItsWay(d) /\ AtItsEnd(d) /\ Partial(d) /\ LogLines(d))'
  <2>1. StreamText(log18', d) = <<>> /\ wrote18'[d] = <<>> /\ buf18'[d] = <<>> /\ pipe18'[d] = <<>>
    BY <1>1, TextOfNone
  <2>2. (<<>> \o <<>>) \o <<>> = <<>>
    OBVIOUS
  <2>3. OnItsWay(d)'
    BY <2>1, <2>2, EmptySeq DEF OnItsWay
  <2> QED
    BY <1>1, <2>1, <2>3 DEF AtItsEnd, Partial, LogLines
<1> QED
  BY <1>1, <1>2, <1>3 DEF CapInv

LEMMA CapNextInv == CapInv /\ [CapNext]_capVars => CapInv'
<1> SUFFICES ASSUME CapInv, [CapNext]_capVars PROVE CapInv'
  OBVIOUS
<1>1. ASSUME UNCHANGED <<kind18, wrote18, pipe18, open18, buf18, log18>>,
             child18' = "run" => child18 = "run",
             kin18' \subseteq kin18 \/ child18 = "run",
             sup18' \in {"spawn", "done"} => sup18 \in {"spawn", "done"} \/ Drained
      PROVE  CapInv'
  <2>1. CapTypeOK'
    BY <1>1 DEF CapInv, CapTypeOK
  <2>2. ASSUME NEW d \in Streams PROVE (OnItsWay(d) /\ AtItsEnd(d) /\ Partial(d) /\ LogLines(d))'
    <3>1. OnItsWay(d) /\ AtItsEnd(d) /\ Partial(d) /\ LogLines(d)
      BY DEF CapInv
    <3> QED
      BY <1>1, <3>1 DEF OnItsWay, AtItsEnd, Partial, LogLines
  <2>3. sup18' \in {"spawn", "done"} => Drained'
    BY <1>1 DEF CapInv, Drained
  <2> QED
    BY <2>1, <2>2, <2>3 DEF CapInv
<1>2. ASSUME NEW s \in Streams, NEW nl \in BOOLEAN, ChildWrites(s, nl) \/ KinWrites(s, nl)
      PROVE  CapInv'
  BY <1>2, CapWrites
<1>3. ASSUME NEW s \in Streams, HandlePipe(s) \/ DrainToEof(s) PROVE CapInv'
  BY <1>3, CapDrains DEF HandlePipe, DrainToEof
<1>4. CASE SpawnChild
  BY <1>4, CapSpawns
<1>5. ASSUME NEW st, ChildDies(st) PROVE CapInv'
  BY <1>1, <1>5 DEF ChildDies
<1>6. CASE StopSignal \/ DeadlinePasses18
  BY <1>1, <1>6 DEF StopSignal, DeadlinePasses18
<1>7. CASE Poll
  BY <1>1, <1>7 DEF Poll
<1>8. CASE HandleSignal
  BY <1>1, <1>8 DEF HandleSignal
<1>9. CASE HandlePidfd
  BY <1>1, <1>9 DEF HandlePidfd
<1>10. CASE TermAndReap
  BY <1>1, <1>10 DEF TermAndReap
<1>11. CASE ReportExit
  BY <1>1, <1>11 DEF ReportExit
<1>12. CASE UNCHANGED capVars
  BY <1>1, <1>12 DEF capVars
<1>13. CASE SpawnFails18 \/ CallFails18
  BY <1>1, <1>13 DEF SpawnFails18, CallFails18
<1>14. ASSUME NEW s \in Streams, KinLeaves(s) PROVE CapInv'
  BY <1>1, <1>14 DEF KinLeaves
<1> QED
  BY <1>2, <1>3, <1>4, <1>5, <1>6, <1>7, <1>8, <1>9, <1>10, <1>11, <1>12, <1>13, <1>14
     DEF CapNext, CapProgress

\* When an exit is reported the log holds all that the child, and whoever inherited
\* its pipes, wrote, each stream in order and in lines (drain_to_eof and LineRelay,
\* pmon v4).
THEOREM CapOutputWhole == CapSpec => []CapturedWhole
<1>1. CapInv => CapturedWhole
  <2> SUFFICES ASSUME CapInv, sup18 \in {"spawn", "done"}, kind18 # "chatty",
                      NEW s \in Streams
               PROVE  /\ StreamText(log18, s) = wrote18[s]
                      /\ \A i \in DOMAIN log18 : log18[i][1] = s =>
                           /\ OneLine(log18[i][2])
                           /\ (\E k \in DOMAIN log18 : k > i /\ log18[k][1] = s)
                                => LineEnds(log18[i][2])
    BY DEF CapturedWhole
  <2>1. OnItsWay(s) /\ AtItsEnd(s) /\ LogLines(s) /\ ~ open18[s]
    BY DEF CapInv, Drained, Streams
  <2>2. buf18[s] = <<>> /\ pipe18[s] = <<>>
    BY <2>1 DEF AtItsEnd
  <2>3. wrote18[s] = (StreamText(log18, s) \o <<>>) \o <<>> /\ StreamText(log18, s) \in Seq(Units18)
    BY <2>1, <2>2 DEF OnItsWay
  <2>4. (StreamText(log18, s) \o <<>>) \o <<>> = StreamText(log18, s)
    BY <2>3, ConcatEmptySeq
  <2> QED
    BY <2>1, <2>3, <2>4 DEF LogLines
<1> QED
  BY <1>1, CapInitInv, CapNextInv, PTL DEF CapSpec

-----------------------------------------------------------------------------
(* pmon v4 does what Supervisor says too: the pipes stand between the death *)
(* of a child and the verdict on it, and change nothing else.               *)

\* Where the loop is, what it has heard and what became of the child.
CapRole ==
  /\ restarts18 \in 0..MaxRestarts18 /\ status18 \in {"ok", "fail", "killed"}
  /\ sup18 \in {"spawn", "poll", "handle", "term", "drain", "done", "broken"}
  /\ sup18 = "spawn" => child18 \in {"none", "reaped"}
  /\ sup18 \in {"poll", "handle", "term"} => child18 \in {"run", "zombie"}
  /\ sup18 \in {"drain", "done"} => child18 = "reaped"
  /\ (sup18 = "handle" /\ "pid" \in ready18) => child18 = "zombie"
  /\ sup18 \in {"spawn", "poll", "handle"} => outcome18 \in {"none", "status"}
  /\ sup18 = "term" => outcome18 \in {"signal", "timeout"}
  /\ sup18 = "drain" => outcome18 \in {"status", "signal", "timeout"}

LEMMA CapRoleNext == CapRole /\ [CapNext]_capVars => CapRole'
<1> SUFFICES ASSUME CapRole, [CapNext]_capVars PROVE CapRole'
  OBVIOUS
<1>1. ASSUME NEW s \in Streams, NEW nl \in BOOLEAN, ChildWrites(s, nl) PROVE CapRole'
  BY <1>1 DEF ChildWrites, CapRole
<1>2. ASSUME NEW s \in Streams, HandlePipe(s) PROVE CapRole'
  BY <1>2 DEF HandlePipe, Streams, CapRole
<1>3. ASSUME NEW s \in Streams, DrainToEof(s) PROVE CapRole'
  BY <1>3 DEF DrainToEof, CapRole
<1>4. ASSUME NEW st \in {"ok", "fail", "killed"}, ChildDies(st) PROVE CapRole'
  BY <1>4 DEF ChildDies, CapRole
<1>5. CASE StopSignal \/ DeadlinePasses18
  BY <1>5 DEF StopSignal, DeadlinePasses18, CapRole
<1>6. CASE SpawnChild
  BY <1>6 DEF SpawnChild, CapRole
<1>7. CASE Poll
  BY <1>7 DEF Poll, Streams, CapRole
<1>8. CASE HandleSignal
  BY <1>8 DEF HandleSignal, CapRole
<1>9. CASE HandlePidfd
  BY <1>9 DEF HandlePidfd, CapRole
<1>10. CASE TermAndReap
  BY <1>10 DEF TermAndReap, CapRole
<1>11. CASE ReportExit
  <2>1. /\ sup18 = "drain" /\ UNCHANGED <<child18, status18, outcome18>>
        /\ \/ /\ sup18' = "spawn" /\ outcome18 = "status"
              /\ restarts18 < MaxRestarts18 /\ restarts18' = restarts18 + 1
           \/ sup18' = "done" /\ UNCHANGED restarts18
    BY <1>11, Zenon DEF ReportExit
  <2> QED
    BY <2>1, CapAssumption DEF CapRole
<1>12. CASE UNCHANGED capVars
  BY <1>12 DEF capVars, CapRole
<1>13. CASE SpawnFails18 \/ CallFails18
  BY <1>13 DEF SpawnFails18, CallFails18, CapRole
<1>14. ASSUME NEW s \in Streams, (\E nl \in BOOLEAN : KinWrites(s, nl)) \/ KinLeaves(s)
       PROVE  CapRole'
  BY <1>14 DEF KinWrites, KinLeaves, CapRole
<1> QED
  BY <1>1, <1>2, <1>3, <1>4, <1>5, <1>6, <1>7, <1>8, <1>9, <1>10, <1>11, <1>12, <1>13, <1>14
     DEF CapNext, CapProgress

\* report_exit answers for the child: one more start, or the end.
LEMMA CapVerdict ==
  ASSUME CapRole, ReportExit
  PROVE  Abs18!Retry \/ Abs18!Leave
<1>1. /\ sup18 = "drain" /\ child18 = "reaped" /\ UNCHANGED <<child18, status18, outcome18>>
      /\ restarts18 \in Nat /\ MaxRestarts18 \in Nat /\ restarts18 <= MaxRestarts18
      /\ outcome18 \in {"status", "signal", "timeout"}
  <2>1. sup18 = "drain" /\ UNCHANGED <<child18, status18, outcome18>>
    BY Zenon DEF ReportExit
  <2> QED
    BY <2>1, CapAssumption DEF CapRole
<1>2. CASE outcome18 = "status" /\ status18 # "ok" /\ restarts18 < MaxRestarts18
  <2>1. sup18' = "spawn" /\ restarts18' = restarts18 + 1
    BY <1>2, Zenon DEF ReportExit
  <2>2. /\ MaxRestarts18 - restarts18 > 0
        /\ MaxRestarts18 - (restarts18 + 1) = (MaxRestarts18 - restarts18) - 1
    BY <1>1, <1>2
  <2>3. Abs18!Retry
    BY <1>1, <1>2, <2>1, <2>2 DEF Abs18!Retry
  <2> QED
    BY <2>3
<1>3. CASE ~(outcome18 = "status" /\ status18 # "ok" /\ restarts18 < MaxRestarts18)
  <2>1. sup18' = "done" /\ restarts18' = restarts18
    BY <1>3, Zenon DEF ReportExit
  <2>2. outcome18 = "status" /\ status18 # "ok" => MaxRestarts18 - restarts18 = 0
    BY <1>1, <1>3
  <2>3. Abs18!Leave
    BY <1>1, <1>3, <2>1, <2>2 DEF Abs18!Leave
  <2> QED
    BY <2>3
<1> QED
  BY <1>2, <1>3

LEMMA CapSteps ==
  ASSUME CapRole, CapRole', [CapNext]_capVars
  PROVE  [Abs18!Next]_(Abs18!vars)
<1>1. ASSUME UNCHANGED <<restarts18, sup18, child18, status18, outcome18>>
      PROVE  UNCHANGED Abs18!vars
  BY <1>1 DEF Abs18!vars
<1>2. ASSUME NEW s \in Streams, NEW nl \in BOOLEAN, ChildWrites(s, nl) PROVE UNCHANGED Abs18!vars
  BY <1>1, <1>2 DEF ChildWrites
<1>3. ASSUME NEW s \in Streams, HandlePipe(s) \/ DrainToEof(s) PROVE UNCHANGED Abs18!vars
  BY <1>1, <1>3 DEF HandlePipe, DrainToEof
<1>4. ASSUME NEW st \in {"ok", "fail", "killed"}, ChildDies(st) PROVE Abs18!Die
  BY <1>4 DEF ChildDies, CapRole, Abs18!Die
<1>5. CASE StopSignal \/ DeadlinePasses18
  BY <1>1, <1>5 DEF StopSignal, DeadlinePasses18
<1>6. CASE SpawnChild
  <2>1. CASE sup18' = "poll"
    BY <1>6, <2>1 DEF SpawnChild, CapRole, Abs18!Start, Abs18!Next
  <2>2. CASE sup18' = "broken"
    BY <1>6, <2>2 DEF SpawnChild, CapRole, Abs18!Break, Abs18!Next
  <2> QED
    BY <1>6, <2>1, <2>2 DEF SpawnChild
\* A call fails: the supervisor is gone and the child is as it was.
<1>15. CASE SpawnFails18 \/ CallFails18
  <2>1. CASE SpawnFails18
    BY <2>1 DEF SpawnFails18, CapRole, Abs18!Break, Abs18!Next
  <2>2. CASE CallFails18
    BY <2>2 DEF CallFails18, CapRole, Abs18!Break, Abs18!Next
  <2> QED
    BY <1>15, <2>1, <2>2
<1>16. ASSUME NEW s \in Streams, (\E nl \in BOOLEAN : KinWrites(s, nl)) \/ KinLeaves(s)
       PROVE  UNCHANGED Abs18!vars
  BY <1>1, <1>16 DEF KinWrites, KinLeaves
<1>7. ASSUME UNCHANGED <<restarts18, status18>>, sup18' = "term",
             sup18 \in {"poll", "handle"}, UNCHANGED child18
      PROVE  Abs18!Tell
  BY <1>7 DEF CapRole, Abs18!Tell
<1>8. CASE Poll
  <2>1. CASE sup18' = "handle"
    BY <1>8, <2>1 DEF Poll, Abs18!vars
  <2>2. CASE sup18' # "handle"
    BY <1>7, <1>8, <2>2 DEF Poll, Abs18!Next
  <2> QED
    BY <2>1, <2>2
\* The child is waited for: nothing to answer for yet.
<1>9. ASSUME child18 = "zombie", child18' = "reaped", sup18 \in {"handle", "term"},
             sup18' = "drain", UNCHANGED <<restarts18, status18>>,
             (outcome18 \in {"signal", "timeout"}) = (outcome18' \in {"signal", "timeout"})
      PROVE  UNCHANGED Abs18!vars
  BY <1>9 DEF Abs18!vars
<1>10. CASE HandleSignal
  <2>1. CASE "stop" \in pend18
    BY <1>7, <1>10, <2>1 DEF HandleSignal, Abs18!Next
  <2>2. CASE "stop" \notin pend18 /\ child18 = "zombie"
    BY <1>9, <1>10, <2>2 DEF HandleSignal, CapRole
  <2>3. CASE "stop" \notin pend18 /\ child18 # "zombie"
    BY <1>1, <1>10, <2>3 DEF HandleSignal
  <2> QED
    BY <2>1, <2>2, <2>3
<1>11. CASE HandlePidfd
  <2>1. CASE ready18 = {}
    BY <1>11, <2>1 DEF HandlePidfd, Abs18!vars
  <2>2. CASE ready18 # {}
    <3>1. child18 = "zombie" /\ sup18 = "handle" /\ outcome18 \in {"none", "status"}
      BY <1>11, <2>2 DEF HandlePidfd, CapRole
    <3>2. /\ sup18' = "drain" /\ child18' = "reaped" /\ outcome18' = "status"
          /\ UNCHANGED <<restarts18, status18>>
      BY <1>11, <2>2 DEF HandlePidfd
    <3> QED
      BY <1>9, <3>1, <3>2
  <2> QED
    BY <2>1, <2>2
<1>12. CASE TermAndReap
  <2>1. CASE ~termed18
    BY <1>1, <1>12, <2>1 DEF TermAndReap
  <2>2. CASE termed18
    BY <1>9, <1>12, <2>2 DEF TermAndReap
  <2> QED
    BY <2>1, <2>2, <1>12 DEF TermAndReap
<1>13. CASE ReportExit
  BY <1>13, CapVerdict DEF Abs18!Next
<1>14. CASE UNCHANGED capVars
  BY <1>1, <1>14 DEF capVars
<1> QED
  BY <1>2, <1>3, <1>4, <1>5, <1>6, <1>8, <1>10, <1>11, <1>12, <1>13, <1>14, <1>15, <1>16
     DEF CapNext, CapProgress, Abs18!Next

\* pmon v4 supervises as Supervisor says for every --max-restarts, whatever call
\* fails and whoever else holds the pipes: a stop or a deadline that meets a death,
\* or output still in the pipes, starts nobody; and only a call that failed leaves
\* a child behind (wait_child, term_and_reap, report_exit, cmd_supervise).
THEOREM CapImplements == CapSpec => Supervises18
<1>1. CapInit => Abs18!Init
  BY CapAssumption DEF CapInit, Abs18!Init
<1>2. CapInit => CapRole
  BY CapAssumption DEF CapInit, CapRole
<1>3. CapRole /\ CapRole' /\ [CapNext]_capVars => [Abs18!Next]_(Abs18!vars)
  BY CapSteps
<1> QED
  BY <1>1, <1>2, <1>3, CapRoleNext, PTL DEF CapSpec, Supervises18, Abs18!Spec
=============================================================================
