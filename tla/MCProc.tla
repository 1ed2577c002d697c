-------------------------------- MODULE MCProc --------------------------------
(* The supervisors, the container entrypoint and the file watcher on small   *)
(* instances.  prog selects the one that runs; the others stay in their      *)
(* first state.                                                              *)
EXTENDS PmonPipes, PmonSupervise, CtlSocket, Entrypoint, PolicyHost, FwatchLoop, UringSync

VARIABLE prog

procVars == <<prog, capVars, tailVars, supVars, ctlVars, epVars, polVars, fwVars, uringVars>>

\* The choices of the programs that do not run are pinned.
ProcInit ==
  /\ prog \in {"cap", "tail", "sup", "ctl", "entry", "policy", "fwatch", "uring"}
  /\ CapInit /\ (prog # "cap" => engine18 = "pidfd" /\ kind18 = "plain")
  /\ TailInit /\ (prog # "tail" => spliceWorks)
  /\ SupInit /\ (prog # "sup" => eng13 = "v1")
  /\ CtlInit /\ (prog # "ctl" => ask19 = [c \in Ctls |-> "stop"])
  /\ conn19 = CHOOSE c \in Ctls : TRUE
  /\ EpInit /\ (prog # "entry" => mode34 = "serve")
  /\ PolInit /\ (prog # "policy" => cmd42 = "run" /\ file42.kind = "good")
  /\ FwInit /\ (prog # "fwatch" => kind09 = "epoll" /\ dir09 = [n \in Names |-> 0])
  /\ UringInit /\ (prog # "uring" => eng10 = "rw" /\ src10 = 0)

OnlyCap == prog = "cap"
  /\ UNCHANGED <<prog, tailVars, supVars, ctlVars, epVars, polVars, fwVars, uringVars>>
OnlyTail == prog = "tail"
  /\ UNCHANGED <<prog, capVars, supVars, ctlVars, epVars, polVars, fwVars, uringVars>>
OnlySup == prog = "sup"
  /\ UNCHANGED <<prog, capVars, tailVars, ctlVars, epVars, polVars, fwVars, uringVars>>
OnlyCtl == prog = "ctl"
  /\ UNCHANGED <<prog, capVars, tailVars, supVars, epVars, polVars, fwVars, uringVars>>
OnlyEntry == prog = "entry"
  /\ UNCHANGED <<prog, capVars, tailVars, supVars, ctlVars, polVars, fwVars, uringVars>>
OnlyPolicy == prog = "policy"
  /\ UNCHANGED <<prog, capVars, tailVars, supVars, ctlVars, epVars, fwVars, uringVars>>
OnlyFwatch == prog = "fwatch"
  /\ UNCHANGED <<prog, capVars, tailVars, supVars, ctlVars, epVars, polVars, uringVars>>
OnlyUring == prog = "uring"
  /\ UNCHANGED <<prog, capVars, tailVars, supVars, ctlVars, epVars, polVars, fwVars>>

ProcNext ==
  \/ OnlyCap /\ CapNext
  \/ OnlyTail /\ TailNext
  \/ OnlySup /\ SupNext
  \/ OnlyCtl /\ CtlNext
  \/ OnlyEntry /\ EpNext
  \/ OnlyPolicy /\ PolNext
  \/ OnlyFwatch /\ FwNext
  \/ OnlyUring /\ UringNext

ProcProgress ==
  \/ OnlyCap /\ CapProgress
  \/ OnlyTail /\ TailProgress
  \/ OnlySup /\ SupProgress
  \/ OnlyCtl /\ CtlProgress
  \/ OnlyEntry /\ EpMain
  \/ OnlyPolicy /\ PolProgress
  \/ OnlyFwatch /\ FwProgress
  \/ OnlyUring /\ UringProgress

\* What runs beside the selected program: the children of the entrypoint, or
\* the clock of the watcher; and the thread that starts jobs.
Beside == (OnlyEntry /\ EpKids) \/ (OnlyFwatch /\ Tick09)
Spawner == OnlyEntry /\ EpSpawner

\* The selected program runs on while it can, and what runs beside it does too.
ProcSpec ==
  /\ ProcInit /\ [][ProcNext]_procVars
  /\ WF_procVars(ProcProgress) /\ WF_procVars(Beside) /\ WF_procVars(Spawner)

\* Whoever is asked to stop does, wherever the request finds it: pmon v4 at its
\* deadline (with a plain child), tail on a signal while it splices (unless it
\* came between the look at g_stop and a splice that waits), pmon v5 on "stop"
\* (if its child was in its process group already), process 1 on SIGTERM, the
\* Lua host's run on SIGHUP, fwatch on SIGTERM.
ProgramsStop ==
  (DeadlinePassed18 \/ SpliceAsked \/ stopping19 \/ "term" \in pend34 \/ HupAsked \/ sig09)
  ~> (sup18 \in {"done", "broken"} \/ tail18 = "done" \/ Missed18 \/ main19 = "done" \/ missed19
      \/ (pc34 = "done" /\ kid34[Worker34] = "reaped") \/ Gone42 \/ Ended09)

\* Nothing stays undone: process 1 gets rid of its zombies although many deaths
\* raise one SIGCHLD, and fwatch reports what it holds back although one timer
\* serves all windows and the deadline.
BacklogClears ==
  ((Zombies # {} /\ ~stopReq) \/ Waiting # {}) ~> ((Zombies = {} \/ stopReq) /\ Waiting = {})
=============================================================================
