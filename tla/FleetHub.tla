------------------------------ MODULE FleetHub ------------------------------
(***************************************************************************)
(* One chatterd server of the capstone fleet, at the level of file         *)
(* descriptors and threads (examples/41-capstone-fleet/cpp/src:            *)
(* chatterd.cpp, proto.cpp; rust/src/chatterd.rs).  The accept loop starts *)
(* one detached thread per connection; a thread reads JOIN, registers its  *)
(* PeerConn in the Hub and then turns every MSG into a DELIVER for each    *)
(* other registered connection.  A broadcast copies the registry under mu_ *)
(* and writes outside it, holding the wmu of one target at a time; a frame *)
(* is two writes, header and payload.                                      *)
(*                                                                         *)
(* Port tells two ports apart.  In "cpp" a PeerConn stores the number of   *)
(* the descriptor, handle_client closes it, and SIGPIPE has its default    *)
(* action.  In "rust" the PeerConn owns the descriptor, which closes with  *)
(* the last reference to it, and a broken pipe is an error return.         *)
(***************************************************************************)
EXTENDS Naturals, Sequences, FiniteSetsExt

CONSTANTS
  Conns,      \* client connections, each made once
  Fds,        \* descriptor numbers left for connections
  None,       \* no connection, no thread
  Port,       \* "cpp" or "rust"
  Kinds,      \* kinds of frame a client may send
  MaxFrames,  \* bound: frames the clients send, all together
  MaxUnread   \* bound: frames of one client not yet read by the server

ASSUME HubAssumption ==
  /\ Fds \subseteq Nat /\ IsFiniteSet(Fds) /\ None \notin Conns \cup Nat
  /\ Port \in {"cpp", "rust"}
  /\ Kinds \subseteq {"join", "msg", "other", "bad"}
  /\ MaxFrames \in Nat /\ MaxUnread \in Nat

VARIABLES
  server,     \* "up", "returned" (serve() has returned), "killed" (SIGPIPE)
  flag,       \* the SIGINT/SIGTERM flag
  client,     \* "out", "queued", "open", "closed": the client's end
  inbox,      \* frames sent by the client and not yet read
  sentCount,  \* frames the client has sent
  out,        \* pieces of frames that arrived at the client
  reset,      \* connections whose peer answered a write with RST
  fdTable,    \* the kernel's descriptor table
  thread,     \* program counter of handle_client, per connection
  fd,         \* PeerConn::fd
  clients_,   \* Hub::clients_
  targets,    \* the copy of the registry a broadcast still has to write to
  current,    \* the target whose wmu the broadcast holds
  wmu,        \* holder of PeerConn::wmu
  msg         \* the message being broadcast

net     == <<client, inbox, sentCount>>
bcast   == <<targets, current, msg>>
vars    == <<server, flag, net, out, reset, fdTable, thread, fd, clients_, bcast, wmu>>

\* Threads are detached: they run until the process is gone.
Alive == server # "killed"

Frames   == [kind : Kinds, from : Conns, n : 1..MaxFrames]
NoMsg    == [kind |-> "none"]
Pieces   == [part : {"hdr", "pay"}, of : Frames]

TypeOK ==
  /\ server \in {"up", "returned", "killed"} /\ flag \in BOOLEAN
  /\ client \in [Conns -> {"out", "queued", "open", "closed"}]
  /\ inbox \in [Conns -> Seq(Frames)]
  /\ sentCount \in [Conns -> 0..MaxFrames]
  /\ out \in [Conns -> Seq(Pieces)]
  /\ reset \subseteq Conns
  /\ fdTable \in [Fds -> Conns \cup {None}]
  /\ thread \in [Conns -> {"none", "first", "loop", "bcast", "remove", "close", "gone"}]
  /\ fd \in [Conns -> Fds \cup {None}]
  /\ \A c \in Conns : thread[c] # "none" => fd[c] \in Fds
  /\ clients_ \subseteq Conns
  /\ targets \in [Conns -> SUBSET Conns]
  /\ current \in [Conns -> Conns \cup {None}]
  /\ wmu \in [Conns -> Conns \cup {None}]
  /\ msg \in [Conns -> Frames \cup {NoMsg}]

Init ==
  /\ server = "up" /\ flag = FALSE
  /\ client = [c \in Conns |-> "out"]
  /\ inbox = [c \in Conns |-> <<>>]
  /\ sentCount = [c \in Conns |-> 0]
  /\ out = [c \in Conns |-> <<>>]
  /\ reset = {}
  /\ fdTable = [f \in Fds |-> None]
  /\ thread = [c \in Conns |-> "none"]
  /\ fd = [c \in Conns |-> None]
  /\ clients_ = {}
  /\ targets = [c \in Conns |-> {}]
  /\ current = [c \in Conns |-> None]
  /\ wmu = [c \in Conns |-> None]
  /\ msg = [c \in Conns |-> NoMsg]

-----------------------------------------------------------------------------
(* The clients (chatterd send, chatterd listen, a peer's bridge worker).   *)

\* connect(2): the kernel completes the handshake into the accept backlog.
Connect(c) ==
  /\ client[c] = "out" /\ server = "up"
  /\ client' = [client EXCEPT ![c] = "queued"]
  /\ UNCHANGED <<server, flag, inbox, sentCount, out, reset, fdTable, thread, fd,
                 clients_, bcast, wmu>>

ClientSends(c) ==
  /\ client[c] \in {"queued", "open"} /\ Len(inbox[c]) < MaxUnread
  /\ MapThenSumSet(LAMBDA d : sentCount[d], Conns) < MaxFrames
  /\ sentCount' = [sentCount EXCEPT ![c] = @ + 1]
  /\ \E k \in Kinds :
       inbox' = [inbox EXCEPT ![c] =
                   Append(@, [kind |-> k, from |-> c, n |-> sentCount'[c]])]
  /\ UNCHANGED <<server, flag, client, out, reset, fdTable, thread, fd, clients_,
                 bcast, wmu>>

ClientCloses(c) ==
  /\ client[c] = "open"
  /\ client' = [client EXCEPT ![c] = "closed"]
  /\ UNCHANGED <<server, flag, inbox, sentCount, out, reset, fdTable, thread, fd,
                 clients_, bcast, wmu>>

-----------------------------------------------------------------------------
(* serve: the accept loop.                                                 *)

FreeFds == {f \in Fds : fdTable[f] = None}

\* accept4 takes the lowest free descriptor; when it fails the loop polls again.
Accept(c) ==
  /\ server = "up" /\ ~flag
  /\ client[c] = "queued" /\ client' = [client EXCEPT ![c] = "open"]
  /\ \E f \in FreeFds :
       /\ \A g \in FreeFds : f <= g
       /\ fdTable' = [fdTable EXCEPT ![f] = c]
       /\ fd' = [fd EXCEPT ![c] = f]
  /\ thread' = [thread EXCEPT ![c] = "first"]
  /\ UNCHANGED <<server, flag, inbox, sentCount, out, reset, clients_, bcast, wmu>>

Signal ==
  /\ ~flag /\ flag' = TRUE
  /\ UNCHANGED <<server, net, out, reset, fdTable, thread, fd, clients_, bcast, wmu>>

\* The loop sees the flag and returns: the Hub, its local, is destroyed, while
\* the detached threads run on until the process ends.
ServeReturns ==
  /\ server = "up" /\ flag /\ server' = "returned"
  /\ UNCHANGED <<flag, net, out, reset, fdTable, thread, fd, clients_, bcast, wmu>>

-----------------------------------------------------------------------------
(* handle_client and Hub.                                                  *)

Goto(c, from, to) == thread[c] = from /\ thread' = [thread EXCEPT ![c] = to]

\* read_frame fails: end of stream, or a header with the wrong magic.
Unreadable(c) ==
  \/ inbox[c] = <<>> /\ client[c] = "closed"
  \/ inbox[c] # <<>> /\ Head(inbox[c]).kind = "bad"

\* The first frame must be a JOIN; it puts the connection into the registry.
ReadJoin(c) ==
  /\ Alive /\ inbox[c] # <<>> /\ Head(inbox[c]).kind = "join"
  /\ Goto(c, "first", "loop")
  /\ inbox' = [inbox EXCEPT ![c] = Tail(@)]
  /\ clients_' = clients_ \cup {c}
  /\ UNCHANGED <<server, flag, client, sentCount, out, reset, fdTable, fd, bcast, wmu>>

\* A first frame that cannot be read, or is not a JOIN, closes the connection.
RejectFirst(c) ==
  /\ Alive
  /\ Unreadable(c) \/ (inbox[c] # <<>> /\ Head(inbox[c]).kind # "join")
  /\ Goto(c, "first", "close")
  /\ UNCHANGED <<server, flag, net, out, reset, fdTable, fd, clients_, bcast, wmu>>

\* Faulty variant: the sender is not excluded from its own broadcast.
ReadMsgToAll(c) ==
  /\ Alive /\ inbox[c] # <<>> /\ Head(inbox[c]).kind = "msg"
  /\ Goto(c, "loop", "bcast")
  /\ inbox' = [inbox EXCEPT ![c] = Tail(@)]
  /\ targets' = [targets EXCEPT ![c] = clients_]
  /\ msg' = [msg EXCEPT ![c] = Head(inbox[c])]
  /\ UNCHANGED <<server, flag, client, sentCount, out, reset, fdTable, fd, clients_,
                 current, wmu>>

\* A MSG: broadcast_deliver copies the registry, the sender excluded.
ReadMsg(c) ==
  /\ Alive /\ inbox[c] # <<>> /\ Head(inbox[c]).kind = "msg"
  /\ Goto(c, "loop", "bcast")
  /\ inbox' = [inbox EXCEPT ![c] = Tail(@)]
  /\ targets' = [targets EXCEPT ![c] = clients_ \ {c}]
  /\ msg' = [msg EXCEPT ![c] = Head(inbox[c])]
  /\ UNCHANGED <<server, flag, client, sentCount, out, reset, fdTable, fd, clients_,
                 current, wmu>>

\* Any other type of frame is ignored.
SkipFrame(c) ==
  /\ Alive /\ thread[c] = "loop"
  /\ inbox[c] # <<>> /\ Head(inbox[c]).kind \in {"join", "other"}
  /\ inbox' = [inbox EXCEPT ![c] = Tail(@)]
  /\ UNCHANGED <<server, flag, client, sentCount, out, reset, fdTable, thread, fd,
                 clients_, bcast, wmu>>

\* The effect of write(2) on a descriptor: the bytes arrive, the first write
\* after the peer closed is answered with RST, the next one breaks the pipe.
Broken(f)  == f = None \/ fdTable[f] = None \/ fdTable[f] \in reset
Write(f, piece) ==
  /\ ~Broken(f)
  /\ IF client[fdTable[f]] = "closed"
     THEN reset' = reset \cup {fdTable[f]} /\ UNCHANGED out
     ELSE out' = [out EXCEPT ![fdTable[f]] = Append(@, piece)] /\ UNCHANGED reset

\* SIGPIPE keeps its default action in the C++ port; Rust's runtime ignores it.
SigPipe(f) == Port = "cpp" /\ fdTable[f] \in reset

\* Faulty variant: the write mutex of the target is not taken.
WriteHeaderUnlocked(c, t) ==
  /\ Alive /\ thread[c] = "bcast" /\ current[c] = None /\ t \in targets[c]
  /\ current' = [current EXCEPT ![c] = t]
  /\ Write(fd[t], [part |-> "hdr", of |-> msg[c]])
  /\ UNCHANGED <<server, flag, net, fdTable, thread, fd, clients_, targets, msg, wmu>>

\* write_frame on one target, holding its wmu: the header, then the payload.
WriteHeader(c, t) ==
  /\ Alive /\ thread[c] = "bcast" /\ current[c] = None /\ t \in targets[c]
  /\ wmu[t] = None /\ wmu' = [wmu EXCEPT ![t] = c]
  /\ current' = [current EXCEPT ![c] = t]
  /\ Write(fd[t], [part |-> "hdr", of |-> msg[c]])
  /\ UNCHANGED <<server, flag, net, fdTable, thread, fd, clients_, targets, msg>>

\* Faulty variant: a target stays on the list after a successful write.
ReleaseKeepsTarget(c, t) ==
  /\ wmu' = [wmu EXCEPT ![t] = IF @ = c THEN None ELSE @]
  /\ current' = [current EXCEPT ![c] = None]
  /\ \/ UNCHANGED targets
     \/ targets' = [targets EXCEPT ![c] = @ \ {t}]

\* The end of the loop body: the guard of wmu goes, the next target is next.
ReleaseTarget(c, t) ==
  /\ wmu' = [wmu EXCEPT ![t] = IF @ = c THEN None ELSE @]
  /\ current' = [current EXCEPT ![c] = None]
  /\ targets' = [targets EXCEPT ![c] = @ \ {t}]

WritePayload(c, t) ==
  /\ Alive /\ thread[c] = "bcast" /\ current[c] = t
  /\ Write(fd[t], [part |-> "pay", of |-> msg[c]])
  /\ ReleaseTarget(c, t)
  /\ UNCHANGED <<server, flag, net, fdTable, thread, fd, clients_, msg>>

\* A failed write is ignored: (void)proto::write_frame(...).  When it fails on
\* a broken pipe the kernel also sends SIGPIPE, which kills the C++ server.
WriteFails(c, t) ==
  /\ Alive /\ thread[c] = "bcast"
  /\ \/ current[c] = t
     \/ current[c] = None /\ t \in targets[c] /\ wmu[t] = None
  /\ Broken(fd[t])
  /\ IF fd[t] # None /\ SigPipe(fd[t])
     THEN server' = "killed" /\ UNCHANGED <<wmu, current, targets>>
     ELSE ReleaseTarget(c, t) /\ UNCHANGED server
  /\ UNCHANGED <<flag, net, out, reset, fdTable, thread, fd, clients_, msg>>

EndBroadcast(c) ==
  /\ Alive /\ targets[c] = {}
  /\ Goto(c, "bcast", "loop")
  /\ msg' = [msg EXCEPT ![c] = NoMsg]
  /\ UNCHANGED <<server, flag, net, out, reset, fdTable, fd, clients_, targets,
                 current, wmu>>

LeaveLoop(c) ==
  /\ Alive /\ Unreadable(c)
  /\ Goto(c, "loop", "remove")
  /\ UNCHANGED <<server, flag, net, out, reset, fdTable, fd, clients_, bcast, wmu>>

HubRemove(c) ==
  /\ Alive /\ Goto(c, "remove", "close")
  /\ clients_' = clients_ \ {c}
  /\ UNCHANGED <<server, flag, net, out, reset, fdTable, fd, bcast, wmu>>

\* close(fd).  The Rust port drops a reference; the descriptor closes when no
\* broadcast holds the PeerConn any more.
CloseFd(c) ==
  /\ Alive /\ Goto(c, "close", "gone")
  /\ Port = "rust" => \A d \in Conns : c \notin targets[d]
  /\ fdTable' = [fdTable EXCEPT ![fd[c]] = None]
  /\ UNCHANGED <<server, flag, net, out, reset, fd, clients_, bcast, wmu>>

Handler(c) ==
  \/ ReadJoin(c) \/ RejectFirst(c) \/ ReadMsg(c) \/ SkipFrame(c) \/ EndBroadcast(c)
  \/ LeaveLoop(c) \/ HubRemove(c) \/ CloseFd(c)
  \/ \E t \in Conns : WriteHeader(c, t) \/ WritePayload(c, t) \/ WriteFails(c, t)

Next ==
  \/ \E c \in Conns : Connect(c) \/ ClientSends(c) \/ ClientCloses(c) \/ Accept(c)
                      \/ Handler(c)
  \/ Signal \/ ServeReturns

Spec == Init /\ [][Next]_vars

-----------------------------------------------------------------------------
(* Properties.                                                             *)

Received(c) == {out[c][i].of : i \in DOMAIN out[c]}

\* Every client reads whole frames: a payload follows its own header, whoever
\* else writes to the connection.  Two broadcasts never mix on one stream.
FramesIntact ==
  \A c \in Conns : \A i \in DOMAIN out[c] :
    IF i % 2 = 1
    THEN out[c][i].part = "hdr"
    ELSE out[c][i] = [part |-> "pay", of |-> out[c][i - 1].of]

\* Only a connection whose JOIN was read receives anything, and never its own
\* message: what is in the registry is what is written to.
OnlyMembersReceive ==
  \A c \in Conns :
    /\ out[c] # <<>> => thread[c] \notin {"none", "first"}
    /\ \A m \in Received(c) : m.from # c

\* The messages of one sender arrive at each receiver in the order sent, and
\* none arrives twice.
SenderOrder ==
  \A c \in Conns : \A i, j \in DOMAIN out[c] :
    (i < j /\ out[c][i].part = out[c][j].part /\ out[c][i].of.from = out[c][j].of.from)
      => out[c][i].of.n < out[c][j].of.n

\* No client can end the server by going away: a failed write is "best-effort".
ServerSurvivesClients == server # "killed"
============================================================================
