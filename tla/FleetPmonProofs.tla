-------------------------- MODULE FleetPmonProofs --------------------------
(***************************************************************************)
(* Proofs about FleetPmon for any finite non-empty set of services, any    *)
(* set of pids and any bounds.  The properties are not inductive: that no  *)
(* child is left when main leaves its loop rests on active counting the    *)
(* supervisors that are still in their loop, and on every service process  *)
(* being held by a supervisor between its fork and its waitpid.            *)
(***************************************************************************)
EXTENDS FleetPmon, FiniteSetTheorems, TLAPS

\* Where a supervisor holds a child it has forked and not yet reaped.
Held == {"store_pid", "store_up", "wait"}

\* The supervisors that active counts.
Unfinished == {s \in Services : sup[s] \notin {"notify", "done"}}

ChildrenAreHeld ==
  \A p \in Pids : owner[p] \in Services => sup[owner[p]] \in Held /\ child[owner[p]] = p

ActiveCounts == active = Cardinality(Unfinished)

MainWaits ==
  /\ main \in {"join", "returned", "gone"} => active = 0
  /\ main = "killed" => Port = "go"

FlagOrder ==
  /\ \A s \in Services : sup[s] \in {"returned", "notify", "done"} => shutting_down
  /\ shutting_down => sig \in {"iterate", "kill", "done"}
  /\ sig = "unregistered" => Port = "go"
  /\ sig = "kill" => sigPid \in Pids

IInv == TypeOK /\ ChildrenAreHeld /\ ActiveCounts /\ MainWaits /\ FlagOrder

-----------------------------------------------------------------------------

\* The set of supervisors that are counted is finite, and it is empty exactly
\* when active is 0.
LEMMA UnfinishedFinite ==
  ASSUME ActiveCounts
  PROVE  IsFiniteSet(Unfinished) /\ (active = 0 <=> Unfinished = {})
<1>1. Unfinished \subseteq Services
  BY DEF Unfinished
<1>2. IsFiniteSet(Unfinished)
  BY <1>1, ServicesAssumption, FS_Subset
<1> QED
  BY <1>2, FS_EmptySet DEF ActiveCounts

\* The invariant holds when run() has created its threads.
LEMMA InitIInv == Init => IInv
<1> SUFFICES ASSUME Init PROVE IInv
  OBVIOUS
<1>1. Cardinality(Services) \in Nat
  BY ServicesAssumption, FS_CardinalityType
<1>2. Unfinished = Services
  BY DEF Unfinished, Init
<1>3. TypeOK
  BY <1>1 DEF TypeOK, Init
<1>4. ChildrenAreHeld
  BY ServicesAssumption DEF Init, ChildrenAreHeld
<1> QED
  BY <1>2, <1>3, <1>4 DEF Init, IInv, ActiveCounts, MainWaits, FlagOrder

\* A supervisor step that neither forks, reaps nor ends the worker keeps the
\* invariant: it only moves its program counter between states that the
\* invariant does not tell apart.
LEMMA QuietSupervisorStep ==
  ASSUME IInv, NEW s \in Services,
         ForkFails(s) \/ Retry(s) \/ StorePid(s) \/ StoreUp(s)
         \/ CheckShutdown(s) \/ Restart(s) \/ WorkerNotifies(s)
  PROVE  IInv'
<1>1. TypeOK'
  BY DEF IInv, TypeOK, ForkFails, Retry, StorePid, StoreUp, CheckShutdown,
         Restart, WorkerNotifies, Goto, kernel, sigVars
<1>2. ChildrenAreHeld'
  BY DEF IInv, TypeOK, ForkFails, Retry, StorePid, StoreUp, CheckShutdown,
         Restart, WorkerNotifies, Goto, kernel, ChildrenAreHeld, Held
<1>3. Unfinished' = Unfinished /\ active' = active
  BY DEF IInv, TypeOK, ForkFails, Retry, StorePid, StoreUp, CheckShutdown,
         Restart, WorkerNotifies, Goto, Unfinished
<1>4. MainWaits' /\ FlagOrder'
  BY DEF IInv, TypeOK, ForkFails, Retry, StorePid, StoreUp, CheckShutdown,
         Restart, WorkerNotifies, Goto, sigVars, MainWaits, FlagOrder
<1> QED
  BY <1>1, <1>2, <1>3, <1>4 DEF IInv, ActiveCounts

\* The worker leaves the counted set exactly when it decrements active.
LEMMA WorkerEndsStep ==
  ASSUME IInv, NEW s \in Services, WorkerEnds(s)
  PROVE  IInv'
<1>1. s \in Unfinished /\ Unfinished' = Unfinished \ {s}
  BY DEF IInv, TypeOK, WorkerEnds, Goto, Unfinished
<1>2. IsFiniteSet(Unfinished)
  BY UnfinishedFinite DEF IInv
<1>3. Cardinality(Unfinished') = active - 1 /\ active - 1 \in Nat
  <2>1. Cardinality(Unfinished \ {s}) = Cardinality(Unfinished) - 1
    BY <1>1, <1>2, FS_RemoveElement
  <2>2. Cardinality(Unfinished \ {s}) \in Nat
    BY <1>2, FS_RemoveElement, FS_CardinalityType, FS_Subset
  <2> QED
    BY <1>1, <2>1, <2>2 DEF IInv, ActiveCounts
<1>4. ActiveCounts' /\ active' \in Nat
  BY <1>3 DEF WorkerEnds, ActiveCounts
<1>5. TypeOK'
  BY <1>4 DEF IInv, TypeOK, WorkerEnds, Goto, kernel, sigVars
<1>6. ChildrenAreHeld'
  BY DEF IInv, TypeOK, WorkerEnds, Goto, kernel, ChildrenAreHeld, Held
<1>7. active # 0
  BY <1>1, UnfinishedFinite DEF IInv
<1>8. MainWaits' /\ FlagOrder'
  BY <1>7 DEF IInv, TypeOK, WorkerEnds, Goto, sigVars, MainWaits, FlagOrder
<1> QED
  BY <1>4, <1>5, <1>6, <1>8 DEF IInv

\* A new child is held by the supervisor that forked it; the pid was free.
LEMMA ForkStep ==
  ASSUME IInv, NEW s \in Services, Fork(s)
  PROVE  IInv'
<1>1. PICK p \in Pids : /\ owner[p] = Nobody
                        /\ owner' = [owner EXCEPT ![p] = s]
                        /\ masked' = masked \cup {p}
                        /\ child' = [child EXCEPT ![s] = p]
  BY DEF Fork, Free
<1>2. sup[s] = "fork" /\ sup' = [sup EXCEPT ![s] = "store_pid"]
  BY DEF Fork, Goto
<1>3. TypeOK'
  BY <1>1, <1>2 DEF IInv, TypeOK, Fork, sigVars
<1>4. ChildrenAreHeld'
  BY <1>1, <1>2 DEF IInv, TypeOK, ChildrenAreHeld, Held
<1>5. Unfinished' = Unfinished /\ active' = active
  BY <1>2 DEF IInv, TypeOK, Fork, Unfinished
<1>6. MainWaits' /\ FlagOrder'
  BY <1>2 DEF IInv, TypeOK, Fork, sigVars, MainWaits, FlagOrder
<1> QED
  BY <1>3, <1>4, <1>5, <1>6 DEF IInv, ActiveCounts

\* A reaped child was the one its supervisor held, and no other pid is its.
LEMMA WaitPidStep ==
  ASSUME IInv, NEW s \in Services, WaitPid(s)
  PROVE  IInv'
<1>1. child[s] \in Pids
  BY DEF IInv, TypeOK, WaitPid
<1>2. TypeOK'
  BY <1>1 DEF IInv, TypeOK, WaitPid, Goto, sigVars
<1>3. ChildrenAreHeld'
  BY <1>1, ServicesAssumption DEF IInv, TypeOK, WaitPid, Goto, ChildrenAreHeld, Held
<1>4. Unfinished' = Unfinished /\ active' = active
  BY DEF IInv, TypeOK, WaitPid, Goto, Unfinished
<1>5. MainWaits' /\ FlagOrder'
  BY DEF IInv, TypeOK, WaitPid, Goto, sigVars, MainWaits, FlagOrder
<1> QED
  BY <1>2, <1>3, <1>4, <1>5 DEF IInv, ActiveCounts

\* The signal thread and the main thread leave supervisors and children alone.
LEMMA SignalAndMainStep ==
  ASSUME IInv, Notify \/ SignalThread \/ MainThread
  PROVE  IInv'
<1> USE DEF SignalThread, MainThread, Notify, SigWait, SigStore, SigLoad, SigKill,
        SigDone, MainSeesDone, MainJoin, ProcessExit
<1>1. TypeOK'
  BY DEF IInv, FlagOrder, TypeOK, kernel, workers, sigVars
<1>2. ChildrenAreHeld'
  BY DEF IInv, kernel, workers, ChildrenAreHeld
<1>3. Unfinished' = Unfinished /\ active' = active
  BY DEF workers, Unfinished
<1>4. MainWaits' /\ FlagOrder'
  BY DEF IInv, TypeOK, workers, sigVars, MainWaits, FlagOrder
<1> QED
  BY <1>1, <1>2, <1>3, <1>4 DEF IInv, ActiveCounts

\* Nothing outside pmon creates a service process or moves a supervisor.
LEMMA EnvironmentStep ==
  ASSUME IInv,
         \/ \E group \in BOOLEAN : OperatorSignal(group)
         \/ \E p \in Pids : ChildUnmasks(p) \/ ChildTerminates(p) \/ ChildCrashes(p)
                            \/ ForeignStarts(p)
  PROVE  IInv'
<1> USE DEF OperatorSignal, ChildUnmasks, ChildTerminates, ChildCrashes, ForeignStarts
<1>1. TypeOK'
  <2>1. CASE \E group \in BOOLEAN : OperatorSignal(group)
    <3>1. term' \subseteq Pids /\ sent' \in Nat
      BY <2>1 DEF IInv, TypeOK, Children
    <3>2. main' \in {"loop", "join", "returned", "gone", "killed"} /\ pending' \in BOOLEAN
      BY <2>1 DEF IInv, TypeOK
    <3> QED
      BY <2>1, <3>1, <3>2 DEF IInv, TypeOK, workers, sigVars
  <2>2. CASE \E p \in Pids : ChildUnmasks(p) \/ ChildCrashes(p)
    BY <2>2 DEF IInv, TypeOK, workers, sigVars
  <2>3. CASE \E p \in Pids : ChildTerminates(p)
    BY <2>3 DEF IInv, TypeOK, workers, sigVars
  <2>4. CASE \E p \in Pids : ForeignStarts(p)
    BY <2>4 DEF IInv, TypeOK, workers, sigVars
  <2> QED
    BY <2>1, <2>2, <2>3, <2>4
<1>2. ChildrenAreHeld'
  BY ServicesAssumption DEF IInv, TypeOK, workers, ChildrenAreHeld
<1>3. Unfinished' = Unfinished /\ active' = active
  BY DEF workers, Unfinished
<1>4. MainWaits' /\ FlagOrder'
  BY DEF IInv, workers, sigVars, MainWaits, FlagOrder
<1> QED
  BY <1>1, <1>2, <1>3, <1>4 DEF IInv, ActiveCounts

\* IInv is an invariant of the supervisor, for all three ports.
THEOREM PmonInvariant == Spec => []IInv
<1>1. IInv /\ [Next]_vars => IInv'
  <2> SUFFICES ASSUME IInv, [Next]_vars PROVE IInv'
    OBVIOUS
  <2>1. CASE \E s \in Services : Fork(s) \/ Supervisor(s)
    BY <2>1, ForkStep, WaitPidStep, WorkerEndsStep, QuietSupervisorStep DEF Supervisor
  <2>2. CASE Notify \/ SignalThread \/ MainThread
    BY <2>2, SignalAndMainStep
  <2>3. CASE \/ \E group \in BOOLEAN : OperatorSignal(group)
             \/ \E p \in Pids : ChildUnmasks(p) \/ ChildTerminates(p)
                                \/ ChildCrashes(p) \/ ForeignStarts(p)
    BY <2>3, EnvironmentStep
  <2>4. CASE UNCHANGED vars
    BY <2>4 DEF vars, kernel, workers, sigVars, IInv, TypeOK, ChildrenAreHeld,
                ActiveCounts, Unfinished, MainWaits, FlagOrder
  <2> QED
    BY <2>1, <2>2, <2>3, <2>4 DEF Next
<1> QED
  BY <1>1, InitIInv, PTL DEF Spec

\* Every variable keeps its type.
THEOREM PmonTypeOK == Spec => []TypeOK
<1>1. IInv => TypeOK
  BY DEF IInv
<1> QED
  BY <1>1, PmonInvariant, PTL

\* No service ever has two processes, whatever crashes and is restarted.
THEOREM PmonOneInstance == Spec => []OneInstance
<1>1. IInv => OneInstance
  BY DEF IInv, ChildrenAreHeld, OneInstance, Children
<1> QED
  BY <1>1, PmonInvariant, PTL

\* With every port, the shutdown line is printed after every child was reaped.
THEOREM PmonShutdownReapsAll == Spec => []ShutdownReapsAll
<1>1. IInv => ShutdownReapsAll
  <2> SUFFICES ASSUME IInv, main \in {"join", "returned", "gone"}
               PROVE  Children = {}
    BY DEF ShutdownReapsAll
  <2>1. Unfinished = {}
    BY UnfinishedFinite DEF IInv, MainWaits
  <2> QED
    BY <2>1 DEF IInv, ChildrenAreHeld, Unfinished, Held, Children
<1> QED
  BY <1>1, PmonInvariant, PTL

\* In the ports that block the signals before they create a thread, pmon
\* never goes away and leaves a service behind.
THEOREM PmonNeverOrphans == Port # "go" => (Spec => []NeverOrphans)
<1> SUFFICES ASSUME Port # "go" PROVE Spec => []NeverOrphans
  OBVIOUS
<1>1. IInv /\ ShutdownReapsAll => NeverOrphans
  BY DEF IInv, TypeOK, MainWaits, ShutdownReapsAll, NeverOrphans
<1> QED
  BY <1>1, PmonInvariant, PmonShutdownReapsAll, PTL

\* The comment at the detach is right: sigwait has returned by then.
THEOREM PmonSigwaitReturned == Spec => []SigwaitReturnedBeforeDetach
<1>1. IInv => SigwaitReturnedBeforeDetach
  <2> SUFFICES ASSUME IInv, main \in {"join", "returned", "gone"}
               PROVE  shutting_down /\ sig \in {"iterate", "kill", "done"}
    BY DEF SigwaitReturnedBeforeDetach
  <2>1. Unfinished = {}
    BY UnfinishedFinite DEF IInv, MainWaits
  <2>2. PICK s \in Services : TRUE
    BY ServicesAssumption
  <2>3. sup[s] \in {"notify", "done"}
    BY <2>1, <2>2 DEF Unfinished
  <2> QED
    BY <2>3 DEF IInv, FlagOrder
<1> QED
  BY <1>1, PmonInvariant, PTL
============================================================================
