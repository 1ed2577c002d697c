---------------------------- MODULE ScaleServer ----------------------------
(***************************************************************************)
(* chatterd v1, examples/22-scaling-the-server/cpp/src/main.cpp: the two   *)
(* engines of one chat server and its clients.  A frame is two units, the  *)
(* header and the payload; the kernel's send buffer of a connection holds  *)
(* SockBuf units, so that a frame may be cut by a partial send, and a      *)
(* client's frame may be cut by the reads of the server.  In the threaded  *)
(* engine a blocking send is a step for every part that fits; in the epoll *)
(* engine one event of a batch is one step.                                *)
(***************************************************************************)
EXTENDS Naturals, Sequences, FiniteSetsExt, SequencesExt

CONSTANTS
  Flooders,   \* connections of one "flood", FloodFirst among them sends
  FloodFirst,
  Senders,    \* clients of "send": JOIN, MSG, read until the echo
  Listeners,  \* clients of "listen --count 1"
  Hasty,      \* clients that are gone right after JOIN and MSG
  Engines,    \* engines to run, of "threaded" and "epoll"
  ThreadedCasts, EpollCasts,  \* the sets of clients that may come, by engine
  SockBuf     \* bound: units in a socket's send buffer

Clients == Flooders \cup Senders \cup Listeners \cup Hasty
NoOne   == "no one"

ASSUME ScaleAssumption ==
  /\ FloodFirst \in Flooders /\ NoOne \notin Clients
  /\ ThreadedCasts \cup EpollCasts \subseteq SUBSET Clients
  /\ Engines \subseteq {"threaded", "epoll"} /\ SockBuf \in Nat \ {0}

VARIABLES
  engine, cast,  \* the engine and the clients of this behaviour
  srv,        \* "up", "stopping", "stopped"
  sigfd,      \* SIGINT or SIGTERM is pending
  peer,       \* client: "out", "welcome", "ready", "echo", "done", "gaveup"
  backlog,    \* connections not accepted yet
  tosend,     \* units the client still writes
  up, down,   \* units in the kernel, to and from the server
  seen,       \* units the client has read
  rst,        \* connections that were reset
  conns,      \* Registry::conns_, EpollServer::conns_
  nick,       \* whether a JOIN has set the nick
  inbuf,
  (* threaded engine *)
  wpc,        \* serve_conn: "none", "welcome", "recv", "frames", "bcast", "gone"
  todo,       \* frames taken from inbuf and not handled, in both engines
  snap,       \* Registry::broadcast: targets left
  writing,    \* the target of the write in progress
  wr,         \* units of the frame not yet written
  wmuOf,      \* holder of Conn::wmu
  shut,       \* connections shut down by shutdown_all
  (* epoll engine *)
  outbuf, want_write, dead,
  batch,      \* events of the last epoll_wait not yet handled
  loop        \* the event being handled, or "wait" or "batch" for none

client == <<peer, tosend, seen, backlog>>
wire   == <<up, down, rst>>
thr    == <<wpc, todo, snap, writing, wr, wmuOf, shut>>
epo    == <<outbuf, want_write, dead, batch, loop>>
scaleVars == <<engine, cast, srv, sigfd, client, wire, conns, nick, inbuf, thr, epo>>

-----------------------------------------------------------------------------
(* Frames.                                                                 *)

Encode(t, from) == << <<t, from, 1>>, <<t, from, 2>> >>
IsHeader(u) == u[3] = 1

\* take_frame, as often as it succeeds: the whole frames at the front and what
\* stays in the buffer.  A header that is none clears the buffer.
TakeFrames(buf) ==
  LET bad   == {i \in DOMAIN buf : i % 2 = 1 /\ ~IsHeader(buf[i])}
      whole == IF bad = {} THEN Len(buf) \div 2 ELSE (Min(bad) - 1) \div 2
  IN [frames |-> [i \in 1..whole |-> <<buf[2 * i - 1][1], buf[2 * i - 1][2]>>],
      rest   |-> IF bad = {} /\ Len(buf) % 2 = 1 THEN <<Last(buf)>> ELSE <<>>]

Flood     == Flooders \cap cast
Closed(c) == peer[c] \in {"done", "gaveup"}
Space(c)  == IF SockBuf > Len(down[c]) THEN SockBuf - Len(down[c]) ELSE 0

\* An event that is not of a connection.
Special(t) == [tok |-> t, in |-> TRUE, out |-> FALSE, hup |-> FALSE]

\* serve with an engine, and the clients that send, listen or flood.
CommandLine22 ==
  engine \in Engines /\ cast \in (IF engine = "threaded" THEN ThreadedCasts ELSE EpollCasts)

ScaleInit ==
  /\ CommandLine22
  /\ srv = "up" /\ sigfd = FALSE
  /\ peer = [c \in Clients |-> "out"] /\ backlog = {}
  /\ tosend = [c \in Clients |-> Encode("join", c) \o
                 (IF c \in Flooders \cup Listeners THEN <<>> ELSE Encode("msg", c))]
  /\ up = [c \in Clients |-> <<>>] /\ down = [c \in Clients |-> <<>>]
  /\ seen = [c \in Clients |-> <<>>] /\ rst = {}
  /\ conns = {} /\ nick = {} /\ inbuf = [c \in Clients |-> <<>>]
  /\ wpc = [c \in Clients |-> "none"] /\ todo = [c \in Clients |-> <<>>]
  /\ snap = [c \in Clients |-> {}] /\ writing = [c \in Clients |-> NoOne]
  /\ wr = [c \in Clients |-> <<>>] /\ wmuOf = [c \in Clients |-> NoOne] /\ shut = {}
  /\ outbuf = [c \in Clients |-> <<>>] /\ want_write = {} /\ dead = {}
  /\ batch = {} /\ loop = Special("wait")

-----------------------------------------------------------------------------
(* Clients: cmd_flood, cmd_send, and one that does not wait.               *)

ConnectTo(c) ==
  /\ peer[c] = "out" /\ srv = "up" /\ c \in cast
  /\ peer' = [peer EXCEPT ![c] = IF c \in Flooders THEN "welcome" ELSE "echo"]
  /\ backlog' = backlog \cup {c}
  /\ UNCHANGED <<engine, cast, srv, sigfd, tosend, seen, wire, conns, nick, inbuf, thr, epo>>

\* The connection is closed by the client: unread data makes it a reset.
Leave(c, how) ==
  /\ peer' = [peer EXCEPT ![c] = how]
  /\ rst' = IF down[c] # <<>> THEN rst \cup {c} ELSE rst
  /\ down' = [down EXCEPT ![c] = <<>>]

\* The client's output arrives at the server, a JOIN whole and a MSG in two
\* parts; a hasty client is gone when all is written.
ClientWrites(c) ==
  /\ peer[c] \in {"welcome", "echo"} /\ tosend[c] # <<>>
  /\ LET n == IF Head(tosend[c])[1] = "join" THEN 2 ELSE 1
     IN /\ up' = [up EXCEPT ![c] = @ \o SubSeq(tosend[c], 1, n)]
        /\ tosend' = [tosend EXCEPT ![c] = SubSeq(@, n + 1, Len(@))]
  /\ IF c \in Hasty /\ Len(tosend[c]) = 1
     THEN Leave(c, "gaveup") ELSE UNCHANGED <<peer, down, rst>>
  /\ UNCHANGED <<engine, cast, srv, sigfd, seen, backlog, conns, nick, inbuf, thr, epo>>

\* recv_frame and what the client does with the frames: "flood" waits for
\* WELCOME, then for one DELIVER; "send" for the DELIVER of its own message,
\* "listen" for any.
ClientReads(c) ==
  /\ peer[c] \in {"welcome", "echo"} /\ down[c] # <<>>
  /\ seen' = [seen EXCEPT ![c] = @ \o down[c]]
  /\ down' = [down EXCEPT ![c] = <<>>]
  /\ LET n   == Len(TakeFrames(seen[c]).frames)
         new == ToSet(SubSeq(TakeFrames(seen'[c]).frames, n + 1, Len(TakeFrames(seen'[c]).frames)))
     IN peer' = [peer EXCEPT ![c] =
          IF c \in Flooders
          THEN CASE @ = "welcome" /\ <<"welcome", c>> \in new -> "ready"
                 [] @ = "echo" /\ (\E f \in new : f[1] = "deliver") -> "done"
                 [] OTHER -> @
          ELSE IF \E f \in new : f[1] = "deliver" /\ (c \in Listeners \/ f[2] = c)
               THEN "done" ELSE @]
  /\ UNCHANGED <<engine, cast, srv, sigfd, tosend, backlog, up, rst, conns, nick, inbuf, thr, epo>>

\* go: every flooder was welcomed, or five seconds have passed.
FloodGo(c) ==
  /\ peer[c] = "ready" /\ \A f \in Flood : peer[f] \notin {"out", "welcome"}
  /\ peer' = [peer EXCEPT ![c] = "echo"]
  /\ tosend' = [tosend EXCEPT ![c] = IF c = FloodFirst THEN Encode("msg", c) ELSE @]
  /\ UNCHANGED <<engine, cast, srv, sigfd, seen, backlog, wire, conns, nick, inbuf, thr, epo>>

\* recv returns nothing: the server has closed.
ClientSeesEnd(c) ==
  /\ peer[c] \in {"welcome", "ready", "echo"} /\ down[c] = <<>>
  /\ c \in shut \/ srv = "stopped"
  /\ Leave(c, "gaveup")
  /\ UNCHANGED <<engine, cast, srv, sigfd, tosend, seen, backlog, up, conns, nick, inbuf, thr, epo>>

\* SO_RCVTIMEO: "flood" and "listen" wait ten seconds for a frame.
ClientTimesOut(c) ==
  /\ c \in Flooders \cup Listeners /\ peer[c] \in {"welcome", "echo"} /\ down[c] = <<>>
  /\ Leave(c, "gaveup")
  /\ UNCHANGED <<engine, cast, srv, sigfd, tosend, seen, backlog, up, conns, nick, inbuf, thr, epo>>

Signal22 ==
  /\ ~sigfd /\ sigfd' = TRUE
  /\ UNCHANGED <<engine, cast, srv, client, wire, conns, nick, inbuf, thr, epo>>

-----------------------------------------------------------------------------
(* Threaded engine.                                                        *)

Threaded == engine = "threaded"
Goes(c, to) == wpc' = [wpc EXCEPT ![c] = to]

\* Faulty variant: the connection is not registered before its worker starts.
AcceptUnregistered(c) ==
  /\ Threaded /\ srv = "up" /\ ~sigfd /\ c \in backlog
  /\ backlog' = backlog \ {c} /\ Goes(c, "welcome")
  /\ wr' = [wr EXCEPT ![c] = Encode("welcome", c)]
  /\ writing' = [writing EXCEPT ![c] = c]
  /\ UNCHANGED <<engine, cast, srv, sigfd, peer, tosend, seen, wire, conns, nick, inbuf, todo,
                 snap, wmuOf, shut, epo>>

\* The main thread registers the connection and starts its worker.
AcceptThreaded(c) ==
  /\ Threaded /\ srv = "up" /\ ~sigfd /\ c \in backlog
  /\ backlog' = backlog \ {c} /\ conns' = conns \cup {c} /\ Goes(c, "welcome")
  /\ wr' = [wr EXCEPT ![c] = Encode("welcome", c)]
  /\ writing' = [writing EXCEPT ![c] = c]
  /\ UNCHANGED <<engine, cast, srv, sigfd, peer, tosend, seen, wire, nick, inbuf, todo, snap,
                 wmuOf, shut, epo>>

\* What a worker does when the target t of its write is served: it releases
\* wmu and goes on with the broadcast, the frames taken, the next recv.
AfterWrite(c, t) ==
  /\ wr' = [wr EXCEPT ![c] = <<>>]
  /\ writing' = [writing EXCEPT ![c] = NoOne]
  /\ wmuOf' = [wmuOf EXCEPT ![t] = IF @ = c THEN NoOne ELSE @]
  /\ snap' = [snap EXCEPT ![c] = @ \ {t}]
  /\ Goes(c, CASE snap'[c] # {} -> "bcast" [] todo[c] # <<>> -> "frames" [] OTHER -> "recv")

\* write_all: send what fits; a broken connection ends it.  The WELCOME is
\* written without wmu, a broadcast holds the wmu of its target.
WriteAll(c) ==
  LET t == writing[c]
      n == IF Space(t) < Len(wr[c]) THEN Space(t) ELSE Len(wr[c])
  IN /\ Threaded /\ t # NoOne
     /\ \/ t \in rst \cup shut /\ AfterWrite(c, t) /\ UNCHANGED <<down, rst>>
        \/ /\ t \notin rst \cup shut /\ Closed(t)
           /\ rst' = rst \cup {t} /\ AfterWrite(c, t) /\ UNCHANGED down
        \/ /\ t \notin rst \cup shut /\ ~Closed(t) /\ n > 0
           /\ down' = [down EXCEPT ![t] = @ \o SubSeq(wr[c], 1, n)] /\ UNCHANGED rst
           /\ IF n = Len(wr[c]) THEN AfterWrite(c, t)
              ELSE /\ wr' = [wr EXCEPT ![c] = SubSeq(@, n + 1, Len(@))]
                   /\ UNCHANGED <<wpc, snap, writing, wmuOf>>
     /\ UNCHANGED <<engine, cast, srv, sigfd, client, up, conns, nick, inbuf, todo, shut, epo>>

\* recv returns data: every whole frame is taken.
RecvFrames(c) ==
  /\ Threaded /\ wpc[c] = "recv" /\ up[c] # <<>> /\ c \notin rst
  /\ LET r == TakeFrames(inbuf[c] \o up[c])
     IN /\ todo' = [todo EXCEPT ![c] = r.frames] /\ inbuf' = [inbuf EXCEPT ![c] = r.rest]
  /\ up' = [up EXCEPT ![c] = <<>>] /\ Goes(c, IF todo'[c] = <<>> THEN "recv" ELSE "frames")
  /\ UNCHANGED <<engine, cast, srv, sigfd, client, down, rst, conns, nick, snap, writing, wr,
                 wmuOf, shut, epo>>

\* recv returns 0 or fails, or stop_requested is seen before it: the worker
\* unregisters.  A stop alone does not wake a worker that waits in recv.
RecvEnds(c) ==
  /\ Threaded /\ wpc[c] = "recv"
  /\ c \in rst \cup shut \/ (up[c] = <<>> /\ Closed(c))
  /\ conns' = conns \ {c} /\ Goes(c, "gone")
  /\ UNCHANGED <<engine, cast, srv, sigfd, client, wire, nick, inbuf, todo, snap, writing, wr,
                 wmuOf, shut, epo>>

\* JOIN sets the nick, MSG starts a broadcast to a copy of the registry; both
\* take the connection's own wmu for the nick.
HandleFrame(c) ==
  /\ Threaded /\ wpc[c] = "frames" /\ wmuOf[c] = NoOne
  /\ todo' = [todo EXCEPT ![c] = Tail(@)]
  /\ IF Head(todo[c])[1] = "join"
     THEN /\ nick' = nick \cup {c} /\ UNCHANGED snap
          /\ Goes(c, IF todo'[c] = <<>> THEN "recv" ELSE "frames")
     ELSE snap' = [snap EXCEPT ![c] = conns] /\ Goes(c, "bcast") /\ UNCHANGED nick
  /\ UNCHANGED <<engine, cast, srv, sigfd, client, wire, conns, inbuf, writing, wr, wmuOf,
                 shut, epo>>

\* Faulty variant: the write mutex of the target is not taken.
BroadcastToUnlocked(c, t) ==
  /\ Threaded /\ wpc[c] = "bcast" /\ writing[c] = NoOne /\ t \in snap[c]
  /\ writing' = [writing EXCEPT ![c] = t] /\ UNCHANGED wmuOf
  /\ wr' = [wr EXCEPT ![c] = Encode("deliver", IF c \in nick THEN c ELSE NoOne)]
  /\ UNCHANGED <<engine, cast, srv, sigfd, client, wire, conns, nick, inbuf, wpc, todo,
                 snap, shut, epo>>

BroadcastTo(c, t) ==
  /\ Threaded /\ wpc[c] = "bcast" /\ writing[c] = NoOne /\ t \in snap[c]
  /\ wmuOf[t] = NoOne /\ wmuOf' = [wmuOf EXCEPT ![t] = c]
  /\ writing' = [writing EXCEPT ![c] = t]
  /\ wr' = [wr EXCEPT ![c] = Encode("deliver", IF c \in nick THEN c ELSE NoOne)]
  /\ UNCHANGED <<engine, cast, srv, sigfd, client, wire, conns, nick, inbuf, wpc, todo,
                 snap, shut, epo>>

\* Faulty variant: the workers are joined without waking them up.
JoinWithoutShutdown ==
  /\ Threaded /\ srv = "up" /\ sigfd
  /\ srv' = "stopping" /\ UNCHANGED shut
  /\ UNCHANGED <<engine, cast, sigfd, client, wire, conns, nick, inbuf, wpc, todo, snap, writing,
                 wr, wmuOf, epo>>

\* The signal: close the listener, shut every registered connection down, and
\* then join the workers one after the other.
ShutdownAll ==
  /\ Threaded /\ srv = "up" /\ sigfd
  /\ srv' = "stopping" /\ shut' = conns
  /\ UNCHANGED <<engine, cast, sigfd, client, wire, conns, nick, inbuf, wpc, todo, snap, writing,
                 wr, wmuOf, epo>>

WorkersJoined ==
  /\ Threaded /\ srv = "stopping" /\ \A c \in Clients : wpc[c] \in {"none", "gone"}
  /\ srv' = "stopped"
  /\ UNCHANGED <<engine, cast, sigfd, client, wire, conns, nick, inbuf, thr, epo>>

Worker(c) ==
  \/ WriteAll(c) \/ RecvFrames(c) \/ RecvEnds(c) \/ HandleFrame(c)
  \/ \E t \in Clients : BroadcastTo(c, t)

-----------------------------------------------------------------------------
(* Epoll engine.                                                           *)

Epoll == engine = "epoll" /\ srv = "up"

Event(c) ==
  [tok |-> c, in  |-> up[c] # <<>> \/ Closed(c) \/ c \in rst,
   out |-> c \in want_write /\ (Space(c) > 0 \/ Closed(c) \/ c \in rst),
   hup |-> c \in rst]
Ready == {e \in {Event(c) : c \in conns} : e.in \/ e.out \/ e.hup}

EpollWait ==
  /\ Epoll /\ loop = Special("wait")
  /\ batch' = Ready \cup (IF backlog # {} THEN {Special("listen")} ELSE {})
                    \cup (IF sigfd THEN {Special("signal")} ELSE {})
  /\ batch' # {} /\ loop' = Special("batch")
  /\ UNCHANGED <<engine, cast, srv, sigfd, client, wire, conns, nick, inbuf, thr, outbuf,
                 want_write, dead>>

\* Faulty variant: EPOLLOUT is not armed when the socket buffer is full.
FlushUnarmed(c, ob) ==
  LET n == IF Space(c) < Len(ob) THEN Space(c) ELSE Len(ob)
      ok == c \notin rst /\ ob # <<>>
  IN [down |-> IF ok /\ ~Closed(c) THEN down[c] \o SubSeq(ob, 1, n) ELSE down[c],
      outbuf |-> IF ~ok THEN ob ELSE IF Closed(c) THEN <<>> ELSE SubSeq(ob, n + 1, Len(ob)),
      rst |-> c \in rst \/ (ok /\ Closed(c)),
      dead |-> c \in dead \/ (c \in rst /\ ob # <<>>),
      want |-> FALSE]

\* flush on the queue ob of connection c: send until the queue is empty or the
\* buffer full, then ask for EPOLLOUT exactly if something is left.  A reset
\* connection is dead and keeps its interest.
Flush(c, ob) ==
  LET n == IF Space(c) < Len(ob) THEN Space(c) ELSE Len(ob)
      ok == c \notin rst /\ ob # <<>>
  IN [down |-> IF ok /\ ~Closed(c) THEN down[c] \o SubSeq(ob, 1, n) ELSE down[c],
      outbuf |-> IF ~ok THEN ob ELSE IF Closed(c) THEN <<>> ELSE SubSeq(ob, n + 1, Len(ob)),
      rst |-> c \in rst \/ (ok /\ Closed(c)),
      dead |-> c \in dead \/ (c \in rst /\ ob # <<>>),
      want |-> IF c \in rst /\ ob # <<>> THEN c \in want_write
               ELSE ok /\ ~Closed(c) /\ n < Len(ob)]

\* queue and flush on the connections of cs, each with the new units given.
QueueOn(cs, new) ==
  LET r == [c \in cs |-> Flush(c, outbuf[c] \o new)] IN
  /\ down' = [c \in Clients |-> IF c \in cs THEN r[c].down ELSE down[c]]
  /\ outbuf' = [c \in Clients |-> IF c \in cs THEN r[c].outbuf ELSE outbuf[c]]
  /\ rst' = rst \cup {c \in cs : r[c].rst}
  /\ dead' = dead \cup {c \in cs : r[c].dead}
  /\ want_write' = (want_write \ cs) \cup {c \in cs : r[c].want}

\* accept_ready drains the backlog, one WELCOME queued for each connection.
AcceptReady ==
  /\ Epoll /\ loop = Special("batch") /\ Special("listen") \in batch
  /\ \E c \in backlog :
       /\ conns' = conns \cup {c} /\ backlog' = backlog \ {c}
       /\ batch' = IF backlog' = {} THEN batch \ {Special("listen")} ELSE batch
       /\ QueueOn({c}, Encode("welcome", c))
  /\ UNCHANGED <<engine, cast, srv, sigfd, peer, tosend, seen, up, nick, inbuf, thr, loop>>

\* The first part of an event of a connection: a hang-up marks it dead, and
\* on_readable reads until the socket is empty and takes the frames.  When the
\* stream has ended it returns before that.
OnReadable(e) ==
  LET c == e.tok
      ended == e.in /\ (Closed(c) \/ c \in rst)
      buf == IF e.in /\ c \notin rst THEN inbuf[c] \o up[c] ELSE inbuf[c]
      take == e.in /\ ~ended
  IN
  /\ Epoll /\ loop = Special("batch") /\ e \in batch /\ c \in conns
  /\ batch' = batch \ {e} /\ loop' = e
  /\ dead' = IF e.hup \/ ended THEN dead \cup {c} ELSE dead
  /\ up' = IF e.in THEN [up EXCEPT ![c] = <<>>] ELSE up
  /\ inbuf' = [inbuf EXCEPT ![c] = IF take THEN TakeFrames(buf).rest ELSE buf]
  /\ todo' = [todo EXCEPT ![c] = IF take THEN TakeFrames(buf).frames ELSE <<>>]
  /\ UNCHANGED <<engine, cast, srv, sigfd, client, down, rst, conns, nick, wpc, snap, writing, wr,
                 wmuOf, shut, outbuf, want_write>>

\* One frame: JOIN sets the nick, MSG is queued for every connection.
OnFrame(c) ==
  /\ Epoll /\ todo[c] # <<>> /\ todo' = [todo EXCEPT ![c] = Tail(@)]
  /\ IF Head(todo[c])[1] = "join"
     THEN nick' = nick \cup {c} /\ UNCHANGED <<down, outbuf, rst, dead, want_write>>
     ELSE /\ QueueOn(conns, Encode("deliver", IF c \in nick THEN c ELSE NoOne))
          /\ UNCHANGED nick
  /\ UNCHANGED <<engine, cast, srv, sigfd, client, up, conns, inbuf, wpc, snap, writing, wr, wmuOf,
                 shut, batch, loop>>

\* The last part of an event: EPOLLOUT flushes.
OnWritable(e) ==
  /\ Epoll /\ loop = e /\ todo[e.tok] = <<>>
  /\ loop' = Special("batch")
  /\ QueueOn(IF e.out THEN {e.tok} ELSE {}, <<>>)
  /\ UNCHANGED <<engine, cast, srv, sigfd, client, up, conns, nick, inbuf, thr, batch>>

\* The end of a batch: dead connections are closed and forgotten.
ReapClosed ==
  /\ Epoll /\ loop = Special("batch") /\ batch = {}
  /\ conns' = conns \ dead /\ loop' = Special("wait")
  /\ rst' = rst \cup dead
  /\ UNCHANGED <<engine, cast, srv, sigfd, client, up, down, nick, inbuf, thr, outbuf, want_write,
                 dead, batch>>

\* The signal's event ends the server within its batch.
EpollStops ==
  /\ Epoll /\ loop = Special("batch") /\ Special("signal") \in batch
  /\ conns' = conns \ dead /\ srv' = "stopped"
  /\ UNCHANGED <<engine, cast, sigfd, client, wire, nick, inbuf, thr, epo>>

EpollLoop ==
  \/ EpollWait \/ AcceptReady \/ ReapClosed \/ EpollStops
  \/ \E e \in batch : OnReadable(e)
  \/ \E c \in Clients : OnFrame(c)
  \/ loop.tok \in Clients /\ OnWritable(loop)

ClientSteps(c) ==
  \/ ConnectTo(c) \/ ClientWrites(c) \/ ClientReads(c) \/ FloodGo(c) \/ ClientSeesEnd(c)

ScaleMain == (\E c \in Clients : AcceptThreaded(c)) \/ ShutdownAll \/ WorkersJoined

ScaleProgress ==
  \/ \E c \in Clients : ClientSteps(c) \/ Worker(c)
  \/ ScaleMain \/ EpollLoop

ScaleNext == ScaleProgress \/ Signal22 \/ \E c \in Clients : ClientTimesOut(c)

ScaleSpec == ScaleInit /\ [][ScaleNext]_scaleVars

-----------------------------------------------------------------------------
(* Properties.                                                             *)

Stream(c) == seen[c] \o down[c]
NotWelcome(u) == u[1] # "welcome"

\* On a stream without its WELCOME, unit i comes next after unit j.
ComesNext(s, j, i) ==
  /\ j < i /\ NotWelcome(s[j]) /\ NotWelcome(s[i])
  /\ \A k \in DOMAIN s : j < k /\ k < i => ~NotWelcome(s[k])

WholeUnits(s) ==
  \A i \in DOMAIN s : s[i][3] = (IF i % 2 = 1 THEN 1 ELSE 2)
                      /\ (i % 2 = 0 => s[i][1] = s[i - 1][1] /\ s[i][2] = s[i - 1][2])

\* A payload comes next after its header, a header never after a header.
WholeButWelcome(s) ==
  \A i \in DOMAIN s : NotWelcome(s[i]) =>
    IF IsHeader(s[i]) THEN \A j \in DOMAIN s : ComesNext(s, j, i) => ~IsHeader(s[j])
    ELSE \E j \in DOMAIN s : ComesNext(s, j, i) /\ s[j] = <<s[i][1], s[i][2], 1>>

\* Whatever partial sends, full buffers and broadcasts of several workers cut
\* or delay, the units on a stream are whole frames, one after the other.  The
\* threaded engine writes its WELCOME without wmu, so there the claim leaves
\* the WELCOME out.
StreamsWhole ==
  \A c \in Clients :
    IF engine = "epoll" THEN WholeUnits(Stream(c)) ELSE WholeButWelcome(Stream(c))

\* "Wait for the WELCOME: proof the server has us in its fan-out set": a client
\* that has read it is registered until its connection ends.
WelcomeMeansMember ==
  \A c \in Flood :
    (peer[c] \in {"ready", "echo"} /\ srv = "up" /\ c \notin rst) => c \in conns

\* "send" and "flood" end with every connection served, in either engine, with
\* buffers running full, unless the server is told to stop or a client runs out
\* of patience.
EveryoneServed ==
  <>(sigfd \/ (\E c \in Flood : peer[c] = "gaveup")
           \/ \A c \in cast \cap (Flooders \cup Senders) : peer[c] = "done")

\* A signal stops the server, blocked writers and late readers included.
ServerStops == sigfd ~> srv = "stopped"

\* "Every MSG is delivered to every connected client, including the sender"
\* (README.md): a message that has arrived whole is broadcast, even if its sender
\* has left meanwhile.
EveryMsgBroadcast ==
  \A c \in dead : TakeFrames(inbuf[c]).frames = <<>>
=============================================================================
