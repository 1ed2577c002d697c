------------------------------ MODULE CtlSocket ------------------------------
(***************************************************************************)
(* pmon v5, examples/19-unix-sockets-fd-passing/cpp/src/main.cpp: the main *)
(* thread serves a control socket, one client at a time; the reaper thread *)
(* waits for the child and starts the next one 300 ms later.  They share   *)
(* State under its mutex; a critical section is one step.  A child is in   *)
(* its own process group only once it has run setpgid, and kill(-pid)      *)
(* reaches it only then.  Pids are not reused.  A client may hang up, also *)
(* before it is accepted; SIGPIPE is neither ignored nor masked, so that   *)
(* the reply to one that did kills pmon and leaves the child behind.       *)
(***************************************************************************)
EXTENDS Naturals, FiniteSets

CONSTANTS
  Ctls,       \* clients
  Commands,   \* what they may ask: "status", "logfd", "stop", "junk"
  MaxSpawns   \* children in a behaviour
ASSUME CtlAssumption == MaxSpawns \in Nat \ {0}

Pids19 == 1..MaxSpawns

VARIABLES
  main19,     \* "accept", "read", "kill", "wait", "join", "done"; "killed" by SIGPIPE
  reap19,     \* "wait", "check", "backoff", "spawn", "publish", "undo", "collect", "done"
  proc19,     \* pid: "none", "forked", "run", "dead", "reaped"
  told19,     \* pids that got SIGTERM
  missed19,   \* a SIGTERM was sent to a group that did not exist yet
  pid19,      \* the reaper's pid
  toKill,     \* stop's copy of State::child
  child19, restarts19, stopping19, child_done, \* State
  ctl19,      \* client: "out", "waits", "served", "replied", "closed", "gone"
  ask19,      \* what it asks
  conn19,     \* the client the main thread serves
  reply19,    \* client -> what it was told; status: <<child, restarts>>
  spawned19   \* children forked
ctlVars == <<main19, reap19, proc19, told19, missed19, pid19, toKill, child19, restarts19,
             stopping19, child_done, ctl19, ask19, conn19, reply19, spawned19>>

NoReply == <<>>

\* pmctl command lines, and other clients of the socket.
CommandLine19 == ask19 \in [Ctls -> Commands]

\* open_log, listen_ctl: a fresh socket with nobody in its queue.
Listen19 == main19 = "accept" /\ ctl19 = [c \in Ctls |-> "out"] /\ conn19 \in Ctls

\* supervise up to its loops: log, socket, first child, State, reaper.
CtlInit ==
  /\ CommandLine19 /\ Listen19 /\ reap19 = "wait"
  /\ proc19 = [p \in Pids19 |-> IF p = 1 THEN "forked" ELSE "none"]
  /\ told19 = {} /\ missed19 = FALSE /\ pid19 = 1 /\ toKill = 0
  /\ child19 = 1 /\ restarts19 = 0 /\ stopping19 = FALSE /\ child_done = FALSE
  /\ reply19 = [c \in Ctls |-> NoReply] /\ spawned19 = 1

state19  == <<child19, restarts19, stopping19, child_done>>
client19 == <<ctl19, ask19, conn19, reply19>>

-----------------------------------------------------------------------------
(* Children and clients.                                                   *)

ChildSetsGroup(p) ==
  /\ proc19[p] = "forked" /\ proc19' = [proc19 EXCEPT ![p] = "run"]
  /\ UNCHANGED <<main19, reap19, told19, missed19, pid19, toKill, state19, client19, spawned19>>

ChildDies19(p) ==
  /\ proc19[p] = "run" /\ proc19' = [proc19 EXCEPT ![p] = "dead"]
  /\ UNCHANGED <<main19, reap19, told19, missed19, pid19, toKill, state19, client19, spawned19>>

\* connect_ctl.
CtlConnects(c) ==
  /\ ctl19[c] = "out" /\ main19 \notin {"done", "killed"}
  /\ ctl19' = [ctl19 EXCEPT ![c] = "waits"]
  /\ UNCHANGED <<main19, reap19, proc19, told19, missed19, pid19, toKill, state19, ask19,
                 conn19, reply19, spawned19>>

\* pmctl reads its reply up to the end of the stream, or sees the supervisor
\* go.
CtlEnds(c) ==
  /\ \/ ctl19[c] = "replied" /\ ask19[c] # "logfd"
     \/ ctl19[c] \in {"waits", "served"} /\ main19 \in {"done", "killed"}
  /\ ctl19' = [ctl19 EXCEPT ![c] = "closed"]
  /\ UNCHANGED <<main19, reap19, proc19, told19, missed19, pid19, toKill, state19, ask19,
                 conn19, reply19, spawned19>>

\* The client goes without its reply, whatever it has sent or not.
HangsUp(c) ==
  /\ ctl19[c] \in {"waits", "served"} /\ ctl19' = [ctl19 EXCEPT ![c] = "gone"]
  /\ UNCHANGED <<main19, reap19, proc19, told19, missed19, pid19, toKill, state19, ask19,
                 conn19, reply19, spawned19>>

\* recv_fd and log_tail_via_fd: the client has the log's open file, whatever
\* becomes of the supervisor, and reads its last lines by position.
TailViaFd(c) ==
  /\ ctl19[c] = "replied" /\ ask19[c] = "logfd" /\ ctl19' = [ctl19 EXCEPT ![c] = "closed"]
  /\ UNCHANGED <<main19, reap19, proc19, told19, missed19, pid19, toKill, state19, ask19,
                 conn19, reply19, spawned19>>

-----------------------------------------------------------------------------
(* The main thread.                                                        *)

\* A connection whose client is gone by now is in the queue all the same.
AcceptCtl(c) ==
  /\ main19 = "accept" /\ main19' = "read"
  /\ \/ ctl19[c] = "waits" /\ ctl19' = [ctl19 EXCEPT ![c] = "served"]
     \/ ctl19[c] = "gone" /\ UNCHANGED ctl19
  /\ conn19' = c
  /\ UNCHANGED <<reap19, proc19, told19, missed19, pid19, toKill, state19, ask19, reply19,
                 spawned19>>

\* accept4 failed: return 1, which joins the reaper first, and nobody tells it to
\* end.
AcceptFails ==
  /\ main19 = "accept" /\ main19' = "join"
  /\ UNCHANGED <<reap19, proc19, told19, missed19, pid19, toKill, state19, client19, spawned19>>

JoinReaper ==
  /\ main19 = "join" /\ reap19 = "done" /\ main19' = "done"
  /\ UNCHANGED <<reap19, proc19, told19, missed19, pid19, toKill, state19, client19, spawned19>>

\* write_all or send_fd to a client that is gone, whatever it asked or not:
\* SIGPIPE ends both threads.
ReplyIsSigpipe ==
  /\ main19 = "read" /\ ctl19[conn19] = "gone" /\ main19' = "killed"
  /\ UNCHANGED <<reap19, proc19, told19, missed19, pid19, toKill, state19, client19, spawned19>>

Reply(r) == /\ ctl19[conn19] = "served" /\ ctl19' = [ctl19 EXCEPT ![conn19] = "replied"]
            /\ reply19' = [reply19 EXCEPT ![conn19] = r]

\* The descriptor of the log travels with the reply.
SendFd == Reply(<<"fd">>)

\* read_command, then status, logfd (send_fd), or an error.
Serve19 ==
  /\ main19 = "read" /\ main19' = "accept"
  /\ \/ ask19[conn19] = "status" /\ Reply(<<child19, restarts19>>)
     \/ ask19[conn19] = "logfd" /\ SendFd
     \/ ask19[conn19] = "junk" /\ Reply(<<"err">>)
  /\ UNCHANGED <<reap19, proc19, told19, missed19, pid19, toKill, state19, ask19, conn19,
                 spawned19>>

\* stop: the reply, then the flag and a copy of the child's pid.
Stop19 ==
  /\ main19 = "read" /\ ask19[conn19] = "stop" /\ Reply(<<"stopping">>)
  /\ main19' = "kill" /\ stopping19' = TRUE /\ toKill' = child19
  /\ UNCHANGED <<reap19, proc19, told19, missed19, pid19, child19, restarts19, child_done,
                 ask19, conn19, spawned19>>

\* kill(-pid, SIGTERM): a group that does not exist is not an error.
Kill(p) == /\ told19' = IF proc19[p] = "run" THEN told19 \cup {p} ELSE told19
           /\ missed19' = (missed19 \/ proc19[p] = "forked")

StopKills ==
  /\ main19 = "kill" /\ main19' = "wait" /\ Kill(toKill)
  /\ UNCHANGED <<reap19, proc19, pid19, toKill, state19, client19, spawned19>>

StopWaits ==
  /\ main19 = "wait" /\ child_done /\ main19' = "done"
  /\ UNCHANGED <<reap19, proc19, told19, missed19, pid19, toKill, state19, client19, spawned19>>

-----------------------------------------------------------------------------
(* The reaper.                                                             *)

WaitPid ==
  /\ reap19 = "wait" /\ proc19[pid19] = "dead" /\ reap19' = "check"
  /\ proc19' = [proc19 EXCEPT ![pid19] = "reaped"]
  /\ UNCHANGED <<main19, told19, missed19, pid19, toKill, state19, client19, spawned19>>

\* The flag is looked at after the wait, and again throughout the back-off.
CheckStopping ==
  /\ reap19 \in {"check", "backoff"}
  /\ IF stopping19 THEN reap19' = "done" /\ child_done' = TRUE
     ELSE reap19' = (IF reap19 = "check" THEN "backoff" ELSE "spawn") /\ UNCHANGED child_done
  /\ UNCHANGED <<main19, proc19, told19, missed19, pid19, toKill, child19, restarts19,
                 stopping19, client19, spawned19>>

\* spawn_child; a fork that fails ends the reaper.
Respawn ==
  /\ reap19 = "spawn"
  /\ \/ /\ spawned19 < MaxSpawns /\ spawned19' = spawned19 + 1 /\ pid19' = spawned19 + 1
        /\ proc19' = [proc19 EXCEPT ![spawned19 + 1] = "forked"]
        /\ reap19' = "publish" /\ UNCHANGED child_done
     \/ /\ reap19' = "done" /\ child_done' = TRUE /\ UNCHANGED <<spawned19, pid19, proc19>>
  /\ UNCHANGED <<main19, told19, missed19, toKill, child19, restarts19, stopping19, client19>>

\* Faulty variant: the new child is published whatever happened meanwhile.
PublishBlindly ==
  /\ reap19 = "publish"
  /\ reap19' = "wait" /\ child19' = pid19 /\ restarts19' = restarts19 + 1
  /\ UNCHANGED <<main19, proc19, told19, missed19, pid19, toKill, stopping19, child_done,
                 client19, spawned19>>

\* The new child goes into State, unless stop came first.
Publish ==
  /\ reap19 = "publish"
  /\ IF stopping19 THEN reap19' = "undo" /\ UNCHANGED <<child19, restarts19>>
     ELSE reap19' = "wait" /\ child19' = pid19 /\ restarts19' = restarts19 + 1
  /\ UNCHANGED <<main19, proc19, told19, missed19, pid19, toKill, stopping19, child_done,
                 client19, spawned19>>

\* Faulty variant: the undone child is not waited for.
UndoUncollected ==
  /\ reap19 = "undo" /\ reap19' = "done" /\ Kill(pid19) /\ child_done' = TRUE
  /\ UNCHANGED <<main19, proc19, pid19, toKill, child19, restarts19, stopping19, client19,
                 spawned19>>

\* "stop raced with the respawn: undo it".
Undo ==
  /\ reap19 = "undo" /\ reap19' = "collect" /\ Kill(pid19)
  /\ UNCHANGED <<main19, proc19, pid19, toKill, state19, client19, spawned19>>

Collect ==
  /\ reap19 = "collect" /\ proc19[pid19] = "dead" /\ reap19' = "done" /\ child_done' = TRUE
  /\ proc19' = [proc19 EXCEPT ![pid19] = "reaped"]
  /\ UNCHANGED <<main19, told19, missed19, pid19, toKill, child19, restarts19, stopping19,
                 client19, spawned19>>

\* What the threads and the clients do by themselves; a child dies for certain
\* only when it is told to.
CtlReap == /\ main19 # "killed"
           /\ WaitPid \/ CheckStopping \/ Respawn \/ Publish \/ Undo \/ Collect
CtlProgress ==
  \/ (\E p \in Pids19 : ChildSetsGroup(p) \/ (p \in told19 /\ ChildDies19(p)))
  \/ (\E c \in Ctls : CtlConnects(c) \/ AcceptCtl(c) \/ CtlEnds(c) \/ TailViaFd(c))
  \/ Serve19 \/ Stop19 \/ ReplyIsSigpipe \/ StopKills \/ StopWaits \/ JoinReaper
  \/ CtlReap
CtlNext ==
  \/ CtlProgress \/ AcceptFails
  \/ (\E p \in Pids19 : ChildDies19(p)) \/ (\E c \in Ctls : HangsUp(c))
CtlSpec == CtlInit /\ [][CtlNext]_ctlVars

\* "stop -> "stopping", then the supervisor tears down and exits 0".
StopTearsDown == stopping19 ~> main19 = "done"

\* main.cpp:161: "peer gone; nothing sensible to do with a reply error".  The
\* error never comes back: write raises SIGPIPE first.
ReplyErrorIgnored == main19 # "killed"

\* When the supervisor has returned so have its children: none is left running
\* and none unreaped, whichever thread was where when stop came, also if accept
\* or the respawn failed.  It does not return when a reply kills it
\* (ReplyErrorIgnored is false), and then the child lives on.
NoChildSurvives == main19 = "done" => \A p \in Pids19 : proc19[p] \in {"none", "reaped"}
=============================================================================
