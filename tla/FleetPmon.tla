----------------------------- MODULE FleetPmon -----------------------------
(***************************************************************************)
(* pmon, the process supervisor of the capstone fleet                      *)
(* (examples/41-capstone-fleet: cpp/src/pmon.cpp, go/pmon.go,              *)
(* rust/src/pmon.rs).  One supervisor thread per service forks and execs   *)
(* the service, records its pid, blocks in waitpid and restarts it; one    *)
(* signal thread consumes a single SIGTERM/SIGINT, sets shutting_down and  *)
(* forwards SIGTERM to every recorded pid; the main thread leaves its      *)
(* health loop when the last supervisor has returned.                      *)
(*                                                                         *)
(* The three ports share the supervisor loop.  Port tells them apart where *)
(* they differ: Go starts its supervisors before signal.Notify, C++ and    *)
(* Rust block the signals first.                                           *)
(***************************************************************************)
EXTENDS Naturals, FiniteSets

CONSTANTS
  Services,     \* the supervised services (chatterd, sysagent, fwatch)
  Pids,         \* the kernel's pid space
  NoPid,        \* the value 0 of ChildState::pid
  Port,         \* "cpp", "go" or "rust"
  MaxRestarts,  \* bound: unexpected exits of one service
  MaxSignals,   \* bound: signals an operator sends
  MaxForeign    \* bound: unrelated processes alive at one time

Nobody == "nobody"
Other  == "other"

ASSUME ServicesAssumption == /\ IsFiniteSet(Services) /\ Services # {}
                             /\ Nobody \notin Services /\ Other \notin Services
ASSUME PidsAssumption     == NoPid \notin Pids
ASSUME PortAssumption     == Port \in {"cpp", "go", "rust"}
ASSUME BoundAssumption    == {MaxRestarts, MaxSignals, MaxForeign} \subseteq Nat

VARIABLES
  \* The kernel's process table.
  owner,        \* who a pid belongs to: a service, Other, or Nobody (free)
  zombie,       \* pids that have exited and are not yet reaped
  masked,       \* children that still have pmon's signal mask
  term,         \* pids with a SIGTERM/SIGINT generated for them
  \* The supervisors, one per service.
  sup,          \* program counter of run_child_supervisor and its wrapper
  child,        \* its local variable pid
  pid,          \* ChildState::pid
  state,        \* ChildState::state
  restarts,     \* ChildState::restarts
  \* Shared by every thread of pmon.
  shutting_down,
  active,       \* supervisors whose fetch_sub has not run
  \* The signal thread.
  pending,      \* a SIGTERM/SIGINT is pending for pmon
  sent,         \* signals the operator has sent
  sig,          \* program counter of the signal thread
  sigLeft,      \* entries of states not yet visited
  sigPid,       \* pid loaded, about to be passed to kill
  \* The main thread.
  main          \* its program counter

kernel  == <<owner, zombie, masked, term>>
workers == <<sup, child, pid, state, restarts>>
sigVars == <<sig, sigLeft, sigPid>>
vars    == <<kernel, workers, shutting_down, active, pending, sent, sigVars, main>>

Free(p)     == owner[p] = Nobody
Running(p)  == ~Free(p) /\ p \notin zombie
Children    == {p \in Pids : owner[p] \in Services}
Foreigners  == {p \in Pids : owner[p] = Other}

\* The process exists and its threads can still take steps.
Alive == main \notin {"gone", "killed"}

TypeOK ==
  /\ owner \in [Pids -> Services \cup {Nobody, Other}]
  /\ zombie \subseteq Pids /\ masked \subseteq Pids /\ term \subseteq Pids
  /\ sup \in [Services -> {"fork", "sleep", "store_pid", "store_up", "wait", "check",
                           "restart", "backoff", "returned", "notify", "done"}]
  /\ child \in [Services -> Pids \cup {NoPid}]
  /\ pid \in [Services -> Pids \cup {NoPid}]
  /\ state \in [Services -> {"starting", "up", "restarting", "down"}]
  /\ restarts \in [Services -> Nat]
  /\ shutting_down \in BOOLEAN /\ pending \in BOOLEAN
  /\ active \in Nat /\ sent \in Nat
  /\ sig \in {"unregistered", "wait", "store", "iterate", "kill", "done"}
  /\ sigLeft \subseteq Services
  /\ sigPid \in Pids \cup {NoPid}
  /\ main \in {"loop", "join", "returned", "gone", "killed"}

Init ==
  /\ owner = [p \in Pids |-> Nobody]
  /\ zombie = {} /\ masked = {} /\ term = {}
  /\ sup = [s \in Services |-> "fork"]
  /\ child = [s \in Services |-> NoPid]
  /\ pid = [s \in Services |-> NoPid]
  /\ state = [s \in Services |-> "starting"]
  /\ restarts = [s \in Services |-> 0]
  /\ shutting_down = FALSE
  /\ active = Cardinality(Services)
  /\ pending = FALSE /\ sent = 0
  /\ sig = IF Port = "go" THEN "unregistered" ELSE "wait"
  /\ sigLeft = Services /\ sigPid = NoPid
  /\ main = "loop"

-----------------------------------------------------------------------------
(* run_child_supervisor, one thread per service.                           *)

Goto(s, from, to) == sup[s] = from /\ sup' = [sup EXCEPT ![s] = to]

\* fork(2) returns a free pid; the child starts with pmon's blocked mask.
Fork(s) ==
  /\ Alive
  /\ Goto(s, "fork", "store_pid")
  /\ \E p \in Pids :
       /\ Free(p)
       /\ owner' = [owner EXCEPT ![p] = s]
       /\ masked' = masked \cup {p}
       /\ child' = [child EXCEPT ![s] = p]
  /\ UNCHANGED <<zombie, term, pid, state, restarts, shutting_down, active,
                 pending, sent, sigVars, main>>

\* fork(2) fails: log, sleep 500 ms, retry.
ForkFails(s) ==
  /\ Alive
  /\ Goto(s, "fork", "sleep")
  /\ UNCHANGED <<kernel, child, pid, state, restarts, shutting_down, active,
                 pending, sent, sigVars, main>>

\* Either sleep ends: the 500 ms one after a failed fork, or the 300 ms backoff.
Retry(s) ==
  /\ Alive
  /\ Goto(s, "sleep", "fork") \/ Goto(s, "backoff", "fork")
  /\ UNCHANGED <<kernel, child, pid, state, restarts, shutting_down, active,
                 pending, sent, sigVars, main>>

StorePid(s) ==
  /\ Alive
  /\ Goto(s, "store_pid", "store_up")
  /\ pid' = [pid EXCEPT ![s] = child[s]]
  /\ UNCHANGED <<kernel, child, state, restarts, shutting_down, active,
                 pending, sent, sigVars, main>>

StoreUp(s) ==
  /\ Alive
  /\ Goto(s, "store_up", "wait")
  /\ state' = [state EXCEPT ![s] = "up"]
  /\ UNCHANGED <<kernel, child, pid, restarts, shutting_down, active,
                 pending, sent, sigVars, main>>

\* Faulty variant: the wait is interrupted and its result is not looked at.
WaitPidInterrupted(s) ==
  /\ Alive
  /\ Goto(s, "wait", "check")
  /\ UNCHANGED <<kernel, child, pid, state, restarts, shutting_down, active,
                 pending, sent, sigVars, main>>

\* waitpid reaps the child: from here on the kernel may reuse its pid, while
\* ChildState::pid still holds it.
WaitPid(s) ==
  /\ Alive
  /\ Goto(s, "wait", "check")
  /\ child[s] \in zombie
  /\ owner' = [owner EXCEPT ![child[s]] = Nobody]
  /\ zombie' = zombie \ {child[s]}
  /\ masked' = masked \ {child[s]}
  /\ term' = term \ {child[s]}
  /\ UNCHANGED <<child, pid, state, restarts, shutting_down, active, pending,
                 sent, sigVars, main>>

\* Faulty variant: every exit is taken for one that was asked for.
CheckShutdownAlways(s) ==
  /\ Alive
  /\ Goto(s, "check", "returned")
  /\ state' = [state EXCEPT ![s] = "down"]
  /\ UNCHANGED <<kernel, child, pid, restarts, shutting_down, active, pending,
                 sent, sigVars, main>>

\* shutting_down.load: an exit that was asked for ends the loop.
CheckShutdown(s) ==
  /\ Alive
  /\ \/ /\ shutting_down
        /\ Goto(s, "check", "returned")
        /\ state' = [state EXCEPT ![s] = "down"]
     \/ /\ ~shutting_down
        /\ Goto(s, "check", "restart")
        /\ UNCHANGED state
  /\ UNCHANGED <<kernel, child, pid, restarts, shutting_down, active, pending,
                 sent, sigVars, main>>

\* Faulty variant: break where the loop should continue.
RestartGivesUp(s) ==
  /\ Alive
  /\ Goto(s, "restart", "returned")
  /\ restarts' = [restarts EXCEPT ![s] = @ + 1]
  /\ state' = [state EXCEPT ![s] = "restarting"]
  /\ UNCHANGED <<kernel, child, pid, shutting_down, active, pending, sent,
                 sigVars, main>>

\* An exit nobody asked for is counted, then the 300 ms backoff starts.
Restart(s) ==
  /\ Alive
  /\ Goto(s, "restart", "backoff")
  /\ restarts' = [restarts EXCEPT ![s] = @ + 1]
  /\ state' = [state EXCEPT ![s] = "restarting"]
  /\ UNCHANGED <<kernel, child, pid, shutting_down, active, pending, sent,
                 sigVars, main>>

\* The worker lambda: active.fetch_sub, and the last one notifies done_cv.
WorkerEnds(s) ==
  /\ Alive
  /\ Goto(s, "returned", IF active = 1 THEN "notify" ELSE "done")
  /\ active' = active - 1
  /\ UNCHANGED <<kernel, child, pid, state, restarts, shutting_down, pending,
                 sent, sigVars, main>>

WorkerNotifies(s) ==
  /\ Alive
  /\ Goto(s, "notify", "done")
  /\ UNCHANGED <<kernel, child, pid, state, restarts, shutting_down, active,
                 pending, sent, sigVars, main>>

Supervisor(s) ==
  \/ ForkFails(s) \/ Retry(s) \/ StorePid(s) \/ StoreUp(s) \/ WaitPid(s)
  \/ CheckShutdown(s) \/ Restart(s) \/ WorkerEnds(s) \/ WorkerNotifies(s)

-----------------------------------------------------------------------------
(* The signal thread (a goroutine in Go).                                  *)

\* signal.Notify, reached after the goroutines of the services were started.
Notify ==
  /\ Alive
  /\ sig = "unregistered" /\ sig' = "wait"
  /\ UNCHANGED <<kernel, workers, shutting_down, active, pending, sent, sigLeft,
                 sigPid, main>>

\* sigwait returns; it is called once, so a second signal stays pending.
SigWait ==
  /\ Alive
  /\ sig = "wait" /\ sig' = "store"
  /\ pending /\ pending' = FALSE
  /\ UNCHANGED <<kernel, workers, shutting_down, active, sent, sigLeft, sigPid, main>>

SigStore ==
  /\ Alive
  /\ sig = "store" /\ sig' = "iterate"
  /\ shutting_down' = TRUE
  /\ UNCHANGED <<kernel, workers, active, pending, sent, sigLeft, sigPid, main>>

\* One turn of the loop over states, in whatever order the map iterates.
SigLoad(s) ==
  /\ Alive
  /\ sig = "iterate"
  /\ s \in sigLeft /\ sigLeft' = sigLeft \ {s}
  /\ sigPid' = pid[s]
  /\ sig' = IF pid[s] = NoPid THEN "iterate" ELSE "kill"
  /\ UNCHANGED <<kernel, workers, shutting_down, active, pending, sent, main>>

\* kill(pid, SIGTERM): nothing happens when no process has that pid.
SigKill ==
  /\ Alive
  /\ sig = "kill" /\ sig' = "iterate"
  /\ term' = IF Free(sigPid) THEN term ELSE term \cup {sigPid}
  /\ UNCHANGED <<owner, zombie, masked, workers, shutting_down, active, pending,
                 sent, sigLeft, sigPid, main>>

SigDone ==
  /\ Alive
  /\ sig = "iterate" /\ sigLeft = {} /\ sig' = "done"
  /\ UNCHANGED <<kernel, workers, shutting_down, active, pending, sent, sigLeft,
                 sigPid, main>>

SignalThread == SigWait \/ SigStore \/ (\E s \in Services : SigLoad(s)) \/ SigKill \/ SigDone

-----------------------------------------------------------------------------
(* The main thread: wait_for with a predicate, join, return.  A timeout of *)
(* wait_for only prints the health line.                                   *)

MainSeesDone ==
  /\ main = "loop" /\ active = 0 /\ main' = "join"
  /\ UNCHANGED <<kernel, workers, shutting_down, active, pending, sent, sigVars>>

\* Every worker is joined, the signal thread is detached, run() returns and
\* its locals (states, shutting_down, mask) are destroyed.
MainJoin ==
  /\ main = "join" /\ \A s \in Services : sup[s] = "done"
  /\ main' = "returned"
  /\ UNCHANGED <<kernel, workers, shutting_down, active, pending, sent, sigVars>>

ProcessExit ==
  /\ main = "returned" /\ main' = "gone"
  /\ UNCHANGED <<kernel, workers, shutting_down, active, pending, sent, sigVars>>

MainThread == MainSeesDone \/ MainJoin \/ ProcessExit

-----------------------------------------------------------------------------
(* The environment: the operator, the children and unrelated processes.    *)

\* A signal for pmon alone (kill), or for its whole foreground process group
\* (Ctrl-C, which the children get too).  A signal that meets no handler and
\* no mask kills the process: only the Go port has such a window.
OperatorSignal(group) ==
  /\ Alive /\ sent < MaxSignals /\ sent' = sent + 1
  /\ term' = IF group THEN term \cup Children ELSE term
  /\ IF sig = "unregistered" THEN main' = "killed" /\ UNCHANGED pending
                             ELSE pending' = TRUE /\ UNCHANGED main
  /\ UNCHANGED <<owner, zombie, masked, workers, shutting_down, active, sigVars>>

\* Faulty variant: the child keeps the mask it inherited across execv.
ChildKeepsMask(p) == FALSE

\* The child clears the inherited mask, then calls execv.
ChildUnmasks(p) ==
  /\ p \in masked \ zombie /\ masked' = masked \ {p}
  /\ UNCHANGED <<owner, zombie, term, workers, shutting_down, active, pending,
                 sent, sigVars, main>>

\* A service ends on SIGTERM: by its handler, or by the default action.
ChildTerminates(p) ==
  /\ Running(p) /\ p \in term \ masked
  /\ IF owner[p] = Other \/ ~Alive
     THEN owner' = [owner EXCEPT ![p] = Nobody] /\ term' = term \ {p} /\ UNCHANGED zombie
     ELSE zombie' = zombie \cup {p} /\ UNCHANGED <<owner, term>>
  /\ UNCHANGED <<masked, workers, shutting_down, active, pending, sent, sigVars, main>>

\* A service exits on its own: a crash, a failed bind, a failed execv (127).
ChildCrashes(p) ==
  /\ Alive /\ p \in Children \ (zombie \cup masked)
  /\ restarts[owner[p]] < MaxRestarts
  /\ zombie' = zombie \cup {p}
  /\ UNCHANGED <<owner, masked, term, workers, shutting_down, active, pending,
                 sent, sigVars, main>>

ForeignStarts(p) ==
  /\ Free(p) /\ Cardinality(Foreigners) < MaxForeign
  /\ owner' = [owner EXCEPT ![p] = Other]
  /\ UNCHANGED <<zombie, masked, term, workers, shutting_down, active, pending,
                 sent, sigVars, main>>

Next ==
  \/ \E s \in Services : Fork(s) \/ Supervisor(s)
  \/ Notify \/ SignalThread \/ MainThread
  \/ \E group \in BOOLEAN : OperatorSignal(group)
  \/ \E p \in Pids : ChildUnmasks(p) \/ ChildTerminates(p) \/ ChildCrashes(p)
                     \/ ForeignStarts(p)

\* Every thread of pmon is scheduled; fork does not fail for ever; a child
\* that was sent SIGTERM and can receive it exits.  Nothing makes a child
\* crash, an operator send a signal or an unrelated process start.
Fairness ==
  /\ \A s \in Services : WF_vars(Supervisor(s)) /\ SF_vars(Fork(s))
  /\ WF_vars(Notify) /\ WF_vars(SignalThread) /\ WF_vars(MainThread)
  /\ \A p \in Pids : WF_vars(ChildUnmasks(p)) /\ WF_vars(ChildTerminates(p))

Spec     == Init /\ [][Next]_vars
FairSpec == Spec /\ Fairness

-----------------------------------------------------------------------------
(* Properties.                                                             *)

\* A service never has two processes at once, dead and unreaped ones
\* included: run_child_supervisor reaps a child before it forks the next.
OneInstance ==
  \A p, q \in Children : owner[p] = owner[q] => p = q

\* When `pmon: shutdown` is printed every child has been reaped: main leaves
\* its loop on active = 0, and no supervisor returns before its waitpid does.
ShutdownReapsAll ==
  main \in {"join", "returned", "gone"} => Children = {}

\* pmon never goes away in any manner and leaves a service running behind it:
\* it forwards SIGTERM/SIGINT "to all three on its own shutdown".
NeverOrphans ==
  main # "loop" => Children = {}

\* pmon.cpp:263 detaches the signal thread because "sigwait already returned
\* by the time we get here".
SigwaitReturnedBeforeDetach ==
  main \in {"join", "returned", "gone"} => shutting_down /\ sig \in {"iterate", "kill", "done"}

\* A service that exits while nobody asked for it is running again later, or
\* pmon is shutting down: the backoff and the failed forks do not lose it.
DeadServiceComesBack ==
  \A s \in Services : (sup[s] = "check") ~> (sup[s] = "wait" \/ shutting_down \/ ~Alive)

\* When shutting_down is set while every supervisor is in waitpid on a
\* recorded pid, every child ends and run() returns, however their own exits
\* interleave with the loads and the kills of the signal thread.
SteadyShutdown ==
  (sig = "iterate" /\ sigLeft = Services /\ \A s \in Services : sup[s] = "wait")
    ~> (main = "gone")

\* A signal that was sent ends the fleet, whatever the supervisors are doing
\* at that moment: README, "SIGTERM produces `pmon: shutdown` and exit 0".
ShutdownCompletes == pending ~> ~Alive

\* SIGTERM reaches services only, never an unrelated process.
SignalsOnlyServices == \A p \in term : owner[p] # Other
============================================================================
