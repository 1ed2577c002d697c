----------------------------- MODULE CoroServer -----------------------------
(***************************************************************************)
(* chatterd v4, examples/27-async-runtimes-and-coroutines/cpp/src/main.cpp:*)
(* one thread per client, or a coroutine per client on a reactor over      *)
(* epoll with one-shot interest.  Registry, waiters_ and armed_ are keyed  *)
(* by descriptor numbers, which the kernel reuses.  A coroutine runs until *)
(* it suspends; each recv and each send in between is a step.  A JOIN is   *)
(* one unit of input, a MSG two, so that a frame may arrive in parts; the  *)
(* send buffer of a client holds one DELIVER, so that the second one waits *)
(* for the client to read, and for ever if the client reads no more.       *)
(***************************************************************************)
EXTENDS Naturals, Sequences, FiniteSets

CONSTANTS
  Sender,     \* loadtest's sender, or a client that says more
  Msgs27,     \* the MSGs it writes; one in loadtest
  Receivers,  \* loadtest's receivers
  Passing,    \* clients that join, and leave or stop reading
  Mute,       \* clients that connect and send nothing
  Fds27,      \* descriptor numbers
  NoFd,
  Modes27     \* engines to run, of "thread" and "async"

Conns27 == {Sender} \cup Receivers \cup Passing \cup Mute

ASSUME CoroAssumption ==
  /\ Fds27 \subseteq Nat /\ Cardinality(Fds27) >= Cardinality(Conns27)
  /\ NoFd \notin Fds27 \cup Conns27
  /\ Modes27 \subseteq {"thread", "async"} /\ Msgs27 \in Nat

VARIABLES
  mode27,
  g_stop, wake,   \* the signal's flag and eventfd
  serving,        \* "loop", "join" (thread engine: workers are joined), "exited"
  inWait,         \* the main thread is in poll or epoll_wait
  accepting,      \* it is in its accept loop
  user,           \* client: "out", "open", "joined", "half", "left", "deaf"
  written27,      \* MSGs the sender has written
  inq,            \* units that arrived at the server
  outq,           \* clients with an unread DELIVER in the send buffer
  heard,          \* client -> DELIVERs it has read
  waitingConns,   \* the listener's backlog
  sock,           \* descriptor table: fd -> connection
  fdOf,           \* connection -> fd, while open at the server
  clients_27,     \* Server::clients_, by fd
  buffered,       \* whether buf holds the first part of a MSG
  nicked,         \* have_nick
  mu,             \* holder of Server::mu_ during a broadcast
  tgts,           \* fds the broadcast of a connection still has to write to
  due,            \* connection -> broadcasts that were for it
  handled,        \* MSGs that have been broadcast
  (* thread engine *)
  worker,         \* "none", "read", "close", "gone"
  shut27,         \* connections shut down
  (* async engine *)
  active,         \* the coroutine that runs
  listenArmed,
  registered,     \* epoll: fds in the interest list
  interest,       \* and those whose one-shot interest is armed
  waiters_,       \* fd -> connection parked on it
  armed_,
  events,         \* fds of the batch not yet handled
  listenEvent     \* the batch holds the listener

net27   == <<user, written27, inq, outq, heard, waitingConns>>
hub27   == <<clients_27, buffered, nicked, mu, tgts, due, handled>>
react27 == <<active, listenArmed, registered, interest, waiters_, armed_, events, listenEvent>>
main27  == <<mode27, g_stop, wake, serving, inWait, accepting>>
thr27   == <<worker, shut27>>
coroVars == <<main27, net27, sock, fdOf, hub27, thr27, react27>>

\* serve --engine thread or async; the load test beside it.
CommandLine27 == mode27 \in Modes27

CoroInit ==
  /\ CommandLine27 /\ g_stop = FALSE /\ wake = FALSE /\ serving = "loop"
  /\ inWait = FALSE /\ accepting = FALSE
  /\ user = [c \in Conns27 |-> "out"] /\ inq = [c \in Conns27 |-> <<>>]
  /\ written27 = 0 /\ outq = {} /\ heard = [c \in Conns27 |-> 0] /\ waitingConns = {}
  /\ sock = [f \in Fds27 |-> NoFd] /\ fdOf = [c \in Conns27 |-> NoFd]
  /\ clients_27 = {} /\ buffered = {} /\ nicked = {} /\ mu = NoFd
  /\ tgts = {} /\ due = [c \in Conns27 |-> 0] /\ handled = 0
  /\ worker = [c \in Conns27 |-> "none"] /\ shut27 = {}
  /\ active = NoFd /\ listenArmed = TRUE /\ listenEvent = FALSE
  /\ registered = {} /\ interest = {} /\ waiters_ = [f \in Fds27 |-> NoFd]
  /\ armed_ = {} /\ events = {}

-----------------------------------------------------------------------------
(* Clients: loadtest, and others.                                          *)

\* loadtest connects its sender after the receivers have sent their JOIN.
ClientConnects(c) ==
  /\ user[c] = "out" /\ serving = "loop"
  /\ c = Sender => \A r \in Receivers : user[r] = "joined"
  /\ user' = [user EXCEPT ![c] = "open"] /\ waitingConns' = waitingConns \cup {c}
  /\ UNCHANGED <<main27, written27, inq, outq, heard, sock, fdOf, hub27, thr27, react27>>

\* JOIN; the sender waits 250 ms and writes its MSGs, here each in two parts.
ClientWrites27(c) ==
  /\ \/ /\ user[c] = "open" /\ c \notin Mute
        /\ user' = [user EXCEPT ![c] = "joined"] /\ inq' = [inq EXCEPT ![c] = Append(@, "join")]
        /\ UNCHANGED written27
     \/ /\ c = Sender /\ user[c] = "joined" /\ written27 < Msgs27
        /\ user' = [user EXCEPT ![c] = "half"] /\ inq' = [inq EXCEPT ![c] = Append(@, "head")]
        /\ UNCHANGED written27
     \/ /\ user[c] = "half" /\ written27' = written27 + 1
        /\ user' = [user EXCEPT ![c] = "joined"] /\ inq' = [inq EXCEPT ![c] = Append(@, "body")]
  /\ UNCHANGED <<main27, outq, heard, waitingConns, sock, fdOf, hub27,
                 thr27, react27>>

ClientReads27(c) ==
  /\ c \in outq /\ user[c] \notin {"left", "deaf"}
  /\ outq' = outq \ {c} /\ heard' = [heard EXCEPT ![c] = @ + 1]
  /\ UNCHANGED <<main27, user, written27, inq, waitingConns, sock, fdOf, hub27,
                 thr27, react27>>

ClientLeaves(c) ==
  /\ c \in Passing /\ user[c] = "joined"
  /\ user' = [user EXCEPT ![c] = "left"] /\ outq' = outq \ {c}
  /\ UNCHANGED <<main27, written27, inq, heard, waitingConns, sock, fdOf, hub27,
                 thr27, react27>>

\* The client stays connected and reads no more.
StopsReading(c) ==
  /\ c \in Passing /\ user[c] = "joined" /\ user' = [user EXCEPT ![c] = "deaf"]
  /\ UNCHANGED <<main27, written27, inq, outq, heard, waitingConns, sock, fdOf, hub27,
                 thr27, react27>>

\* Faulty variant: the handler only sets the flag.
OnSignalQuiet ==
  /\ ~g_stop /\ g_stop' = TRUE
  /\ UNCHANGED <<mode27, wake, serving, inWait, accepting, net27, sock, fdOf, hub27, thr27,
                 react27>>

\* on_signal: the flag, then the eventfd.  That the signal also interrupts a
\* wait that has begun changes nothing: the eventfd ends it too.
OnSignal ==
  /\ ~g_stop /\ g_stop' = TRUE /\ wake' = TRUE
  /\ UNCHANGED <<mode27, serving, inWait, accepting, net27, sock, fdOf, hub27, thr27, react27>>

-----------------------------------------------------------------------------
(* Both engines.                                                           *)

Lowest(f) == sock[f] = NoFd /\ \A g \in Fds27 : sock[g] = NoFd => f <= g

\* accept4 of one connection.
Accept27(c, f) ==
  /\ c \in waitingConns /\ waitingConns' = waitingConns \ {c}
  /\ Lowest(f) /\ sock' = [sock EXCEPT ![f] = c] /\ fdOf' = [fdOf EXCEPT ![c] = f]

\* What one more unit in the buffer leads to: JOIN registers, a whole MSG is
\* broadcast to everybody else, half a MSG waits.
TakeUnit(c) ==
  /\ inq[c] # <<>> /\ inq' = [inq EXCEPT ![c] = Tail(@)]
  /\ CASE Head(inq[c]) = "join" ->
            /\ mu = NoFd
            /\ clients_27' = clients_27 \cup {fdOf[c]} /\ nicked' = nicked \cup {c}
            /\ UNCHANGED <<buffered, mu, tgts, due, handled>>
       [] Head(inq[c]) = "head" ->
            /\ buffered' = buffered \cup {c}
            /\ UNCHANGED <<clients_27, nicked, mu, tgts, due, handled>>
       [] OTHER ->
            /\ mu = NoFd /\ mu' = c /\ buffered' = buffered \ {c}
            /\ tgts' = clients_27 \ {fdOf[c]} /\ handled' = handled + 1
            /\ due' = [d \in Conns27 |-> due[d] + (IF \E f \in tgts' : sock[f] = d
                                                   THEN 1 ELSE 0)]
            /\ UNCHANGED <<clients_27, nicked>>

\* send_all to one target of the broadcast, under mu_: it waits for room,
\* whatever the stop flag says; a client that is gone is dropped.
SendAll ==
  /\ mu # NoFd /\ tgts # {} /\ serving # "exited"
  /\ \E f \in tgts :
       /\ tgts' = tgts \ {f}
       /\ IF user[sock[f]] = "left" \/ sock[f] \in shut27
          THEN UNCHANGED outq ELSE sock[f] \notin outq /\ outq' = outq \cup {sock[f]}
  /\ UNCHANGED <<main27, user, written27, inq, heard, waitingConns, sock, fdOf,
                 clients_27, buffered, nicked, mu, due, handled, thr27, react27>>

BroadcastEnds ==
  /\ mu # NoFd /\ tgts = {} /\ mu' = NoFd /\ serving # "exited"
  /\ UNCHANGED <<main27, net27, sock, fdOf, clients_27, buffered,
                 nicked, tgts, due, handled, thr27, react27>>

-----------------------------------------------------------------------------
(* thread engine.                                                          *)

\* poll returns for the listener; the loop accepts until it would block.
PollAccepts ==
  /\ mode27 = "thread" /\ inWait /\ ~wake /\ waitingConns # {}
  /\ inWait' = FALSE /\ accepting' = TRUE
  /\ UNCHANGED <<mode27, g_stop, wake, serving, net27, sock, fdOf, hub27, thr27, react27>>

AcceptThread(c) ==
  /\ mode27 = "thread" /\ accepting
  /\ \E f \in Fds27 : Accept27(c, f)
  /\ worker' = [worker EXCEPT ![c] = "read"]
  /\ UNCHANGED <<main27, user, written27, inq, outq, heard, hub27, shut27, react27>>

WorkerReads(c) ==
  /\ worker[c] = "read" /\ mu # c /\ TakeUnit(c)
  /\ UNCHANGED <<main27, user, written27, outq, heard, waitingConns, sock, fdOf, thr27, react27>>

\* read_frame_blocking fails; the connection is removed and then closed.
WorkerLeaves(c) ==
  /\ worker[c] = "read" /\ mu # c /\ inq[c] = <<>> /\ (user[c] = "left" \/ c \in shut27)
  /\ c \in nicked => mu = NoFd
  /\ clients_27' = clients_27 \ {fdOf[c]}
  /\ worker' = [worker EXCEPT ![c] = "close"]
  /\ UNCHANGED <<main27, net27, sock, fdOf, buffered, nicked, mu, tgts,
                 due, handled, shut27, react27>>

WorkerCloses(c) ==
  /\ worker[c] = "close" /\ worker' = [worker EXCEPT ![c] = "gone"]
  /\ sock' = [sock EXCEPT ![fdOf[c]] = NoFd]
  /\ UNCHANGED <<main27, net27, fdOf, hub27, shut27, react27>>

\* The loop ends, at its guard or on the eventfd: shutdown_all, under mu_, and
\* then the joins.
ShutdownAll27 ==
  /\ mode27 = "thread" /\ serving = "loop" /\ mu = NoFd
  /\ IF inWait THEN wake ELSE g_stop /\ ~accepting
  /\ shut27' = {sock[f] : f \in clients_27} /\ serving' = "join" /\ inWait' = FALSE
  /\ UNCHANGED <<mode27, g_stop, wake, accepting, net27, sock, fdOf, hub27, worker, react27>>

JoinWorkers ==
  /\ serving = "join" /\ \A c \in Conns27 : worker[c] \in {"none", "gone"}
  /\ serving' = "exited"
  /\ UNCHANGED <<mode27, g_stop, wake, inWait, accepting, net27, sock, fdOf, hub27, thr27,
                 react27>>

-----------------------------------------------------------------------------
(* async engine.                                                           *)

Reactor == mode27 = "async" /\ serving = "loop" /\ mu = NoFd /\ ~inWait
Idle    == Reactor /\ active = NoFd /\ ~accepting

Readable(f) == sock[f] # NoFd /\ (inq[sock[f]] # <<>> \/ user[sock[f]] = "left")

\* epoll_wait returns: one-shot interest is spent by the report.
EpollWait27 ==
  LET fired == {f \in interest : Readable(f)}
      lst   == listenArmed /\ waitingConns # {}
  IN /\ mode27 = "async" /\ inWait /\ inWait' = FALSE
     /\ fired # {} \/ lst \/ wake
     /\ events' = fired /\ interest' = interest \ fired
     /\ listenEvent' = lst /\ listenArmed' = (listenArmed /\ ~lst)
     /\ UNCHANGED <<mode27, g_stop, wake, serving, accepting, net27, sock, fdOf, hub27, thr27,
                    active, registered, waiters_, armed_>>

\* An event resumes the coroutine parked on the descriptor, if there is one.
ResumeOn(f) ==
  /\ Idle /\ f \in events /\ events' = events \ {f}
  /\ active' = waiters_[f] /\ waiters_' = [waiters_ EXCEPT ![f] = NoFd]
  /\ UNCHANGED <<main27, net27, sock, fdOf, hub27, thr27, listenArmed, registered, interest,
                 armed_, listenEvent>>

ResumeAcceptor ==
  /\ Idle /\ listenEvent /\ listenEvent' = FALSE /\ accepting' = TRUE
  /\ UNCHANGED <<mode27, g_stop, wake, serving, inWait, net27, sock, fdOf, hub27, thr27, active,
                 listenArmed, registered, interest, waiters_, armed_, events>>

\* The acceptor starts a connection's coroutine at once.
AcceptorAccepts(c) ==
  /\ Reactor /\ accepting /\ active = NoFd
  /\ \E f \in Fds27 : Accept27(c, f)
  /\ active' = c
  /\ UNCHANGED <<main27, user, written27, inq, outq, heard, hub27, thr27, listenArmed, registered,
                 interest, waiters_, armed_, events, listenEvent>>

\* accept would block: back to the wait; the acceptor re-arms the listener.
AcceptLoopEnds ==
  /\ accepting /\ active = NoFd /\ waitingConns = {}
  /\ accepting' = FALSE /\ listenArmed' = TRUE
  /\ UNCHANGED <<mode27, g_stop, wake, serving, inWait, net27, sock, fdOf, hub27, thr27, active,
                 registered, interest, waiters_, armed_, events, listenEvent>>

CoroutineReads ==
  /\ Reactor /\ active # NoFd /\ TakeUnit(active)
  /\ UNCHANGED <<main27, user, written27, outq, heard, waitingConns, sock, fdOf,
                 thr27, react27>>

\* recv would block: wait_readable parks the coroutine.  The descriptor is
\* added to epoll, or re-armed if armed_ says it is there already, which has no
\* effect on one that is not.
WaitReadable ==
  LET f == fdOf[active] IN
  /\ Reactor /\ active # NoFd /\ inq[active] = <<>> /\ user[active] # "left"
  /\ waiters_' = [waiters_ EXCEPT ![f] = active] /\ active' = NoFd
  /\ IF f \in armed_
     THEN /\ interest' = IF f \in registered THEN interest \cup {f} ELSE interest
          /\ UNCHANGED <<registered, armed_>>
     ELSE /\ registered' = registered \cup {f} /\ interest' = interest \cup {f}
          /\ armed_' = armed_ \cup {f}
  /\ UNCHANGED <<main27, net27, sock, fdOf, hub27, thr27, listenArmed, events, listenEvent>>

\* The connection's Fd closes, which takes it out of epoll; remove took it out
\* of the registry.
CloseConn(f) ==
  /\ Reactor /\ active # NoFd /\ inq[active] = <<>> /\ user[active] = "left"
  /\ sock' = [sock EXCEPT ![f] = NoFd] /\ clients_27' = clients_27 \ {f}
  /\ registered' = registered \ {f} /\ interest' = interest \ {f} /\ active' = NoFd
  /\ UNCHANGED <<main27, net27, fdOf, buffered, nicked, mu, tgts, due, handled, thr27,
                 listenArmed, events, listenEvent>>

\* Faulty variant: the reactor is not told that the descriptor closes.
CoroutineEndsUnforgotten == CloseConn(fdOf[active]) /\ UNCHANGED <<armed_, waiters_>>

\* End of stream: forget, remove, close.
CoroutineEnds ==
  /\ CloseConn(fdOf[active])
  /\ armed_' = armed_ \ {fdOf[active]}
  /\ waiters_' = [waiters_ EXCEPT ![fdOf[active]] = NoFd]

-----------------------------------------------------------------------------
(* The main loop's guard, in both engines.                                 *)

BatchDone == /\ serving = "loop" /\ ~inWait /\ ~accepting /\ active = NoFd
             /\ events = {} /\ ~listenEvent

LoopGuard ==
  /\ BatchDone /\ ~g_stop /\ inWait' = TRUE
  /\ UNCHANGED <<mode27, g_stop, wake, serving, accepting, net27, sock, fdOf, hub27, thr27,
                 react27>>

ReactorStops ==
  /\ mode27 = "async" /\ BatchDone /\ g_stop /\ serving' = "exited"
  /\ UNCHANGED <<mode27, g_stop, wake, inWait, accepting, net27, sock, fdOf, hub27, thr27,
                 react27>>

-----------------------------------------------------------------------------
CoroProgress ==
  \/ \E c \in Conns27 :
       \/ ClientConnects(c) \/ ClientWrites27(c) \/ ClientReads27(c) \/ ClientLeaves(c)
       \/ AcceptThread(c) \/ WorkerReads(c) \/ WorkerLeaves(c) \/ WorkerCloses(c)
       \/ AcceptorAccepts(c)
  \/ PollAccepts \/ AcceptLoopEnds \/ LoopGuard \/ ResumeAcceptor
  \/ SendAll \/ BroadcastEnds \/ ShutdownAll27 \/ JoinWorkers
  \/ EpollWait27 \/ (\E f \in Fds27 : ResumeOn(f))
  \/ CoroutineReads \/ WaitReadable \/ CoroutineEnds \/ ReactorStops

CoroNext == CoroProgress \/ OnSignal \/ (\E c \in Conns27 : StopsReading(c))

\* Whoever broadcasts waits in send_all for a client that reads no more, with mu_.
Stuck27 ==
  /\ mu # NoFd
  /\ \E f \in tgts : user[sock[f]] = "deaf" /\ sock[f] \in outq /\ sock[f] \notin shut27

\* The clients have been served: every MSG was broadcast and everybody it was for
\* has read it; or the server was told to stop, or waits for one that reads no
\* more.
LoadServed ==
  \/ g_stop \/ Stuck27
  \/ handled = Msgs27 /\ \A c \in Conns27 \ Passing : due[c] = heard[c]

\* The server of the engine m has been told to stop.
Stopping27(m) == g_stop /\ mode27 = m

\* README.md:83: "serves until it receives SIGINT or SIGTERM, at which point it
\* logs chatterd: shutdown and exits 0".  The reactor does not come back from a
\* send_all to a client that reads no more.
SignalStopsReactor == Stopping27("async") ~> serving = "exited"

\* shutdown_all: "Wake every blocked client read so thread workers can retire".
SignalEndsThreads == Stopping27("thread") ~> serving = "exited"
=============================================================================
