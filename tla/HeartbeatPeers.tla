---------------------------- MODULE HeartbeatPeers ----------------------------
(***************************************************************************)
(* chatterd v3, examples/24-time-timers-deadlines/cpp/src/main.cpp: a peer *)
(* that listens and one that connects, heartbeats on a timerfd, a deadline *)
(* that traffic extends, and a reconnecting dialler with jittered backoff. *)
(* Time is a number of ticks; a program that has something to do does it   *)
(* before the next tick, and a frame arrives within Delay ticks unless the *)
(* network is cut.  A frame is its type; both peers speak the protocol, so *)
(* PeerError does not happen.                                              *)
(***************************************************************************)
EXTENDS Integers, Sequences, FiniteSets

CONSTANTS
  Heartbeat, Timeout, Backoff, MaxBackoff, \* the --*-ms options, in ticks
  Delay,
  MaxConns,   \* connections in a behaviour
  MaxFaults   \* crashes and network cuts in a behaviour

ASSUME HeartbeatAssumption ==
  /\ {Heartbeat, Timeout, Backoff, MaxBackoff, Delay, MaxConns, MaxFaults} \subseteq Nat
  /\ Heartbeat >= 1 /\ Heartbeat + Delay < Timeout
  /\ Backoff \div 2 > Delay /\ MaxBackoff >= Backoff

Peers == {"conn", "lstn"}
Other(p) == IF p = "conn" THEN "lstn" ELSE "conn"
Links == 1..MaxConns

VARIABLES
  role24,   \* "session", "exit", "down" (crashed); conn: "dial", "backoff"; lstn: "accept"
  link,     \* the connection of a peer's session, 0 for none
  linked,   \* JOIN received in this session
  sock_dead,
  left,     \* ticks to the session's deadline
  beat,     \* ticks to the next heartbeat
  wait24,   \* ticks left of the backoff
  backoff,
  made,     \* connections made so far
  backlog24,\* connections the listener has not accepted
  chan,     \* [link][receiver]: frames on their way, <<type, age>>
  shutEnd,  \* [link]: peers that have closed their end
  cut,      \* the network is cut
  hurt,     \* connections that lived through a cut
  faults24,
  blamed    \* a linked session timed out although the peer was there and the network whole
hbVars == <<role24, link, linked, sock_dead, left, beat, wait24, backoff, made, backlog24, chan,
            shutEnd, cut, hurt, faults24, blamed>>

\* One peer was started with connect, the other with listen.
CommandLine24 == role24 = [p \in Peers |-> IF p = "conn" THEN "dial" ELSE "accept"]

HbInit ==
  /\ CommandLine24 /\ link = [p \in Peers |-> 0] /\ linked = [p \in Peers |-> FALSE]
  /\ sock_dead = [p \in Peers |-> FALSE]
  /\ left = [p \in Peers |-> 0] /\ beat = [p \in Peers |-> 0]
  /\ wait24 = 0 /\ backoff = Backoff /\ made = 0 /\ backlog24 = <<>>
  /\ chan = [c \in Links |-> [p \in Peers |-> <<>>]] /\ shutEnd = [c \in Links |-> {}]
  /\ cut = FALSE /\ hurt = {} /\ faults24 = 0 /\ blamed = FALSE

\* send_frame of frames fs to the other end; a broken pipe is ignored.
Sent(ch, p, c, fs) ==
  IF Other(p) \in shutEnd[c] THEN ch
  ELSE [ch EXCEPT ![c][Other(p)] = @ \o [i \in DOMAIN fs |-> <<fs[i], 0>>]]

\* run_session up to its loop: the timer, JOIN, the deadline.
StartSession(p, c) ==
  /\ role24' = [role24 EXCEPT ![p] = "session"] /\ link' = [link EXCEPT ![p] = c]
  /\ linked' = [linked EXCEPT ![p] = FALSE] /\ sock_dead' = [sock_dead EXCEPT ![p] = FALSE]
  /\ left' = [left EXCEPT ![p] = Timeout] /\ beat' = [beat EXCEPT ![p] = Heartbeat]
  /\ chan' = Sent(chan, p, c, <<"join">>)

\* What p has of a session is over and its sockets cs close, with what has not
\* been read from them.
CloseAll(p, next, cs) ==
  /\ role24' = [role24 EXCEPT ![p] = next] /\ link' = [link EXCEPT ![p] = 0]
  /\ linked' = [linked EXCEPT ![p] = FALSE] /\ sock_dead' = [sock_dead EXCEPT ![p] = FALSE]
  /\ left' = [left EXCEPT ![p] = 0] /\ beat' = [beat EXCEPT ![p] = 0]
  /\ shutEnd' = [c \in Links |-> IF c \in cs THEN shutEnd[c] \cup {p} ELSE shutEnd[c]]
  /\ chan' = [c \in Links |-> IF c \in cs THEN [chan[c] EXCEPT ![p] = <<>>] ELSE chan[c]]

Drop(p, next) == CloseAll(p, next, {link[p]})

\* The process ends; the connections that it has not accepted close as well.
Ends24(p, next) ==
  /\ CloseAll(p, next, {link[p]} \cup
       (IF p = "lstn" THEN {backlog24[i] : i \in DOMAIN backlog24} ELSE {}))
  /\ backlog24' = IF p = "lstn" THEN <<>> ELSE backlog24

\* Faulty variant: the dialler comes back at once.
JitterNone(b) == {0}

\* Half of the backoff, and up to the other half by chance.
Jitter(b) == {b \div 2 + j : j \in 0..(b \div 2)}

-----------------------------------------------------------------------------
\* dial: connect succeeds when the listener's kernel has a listening socket,
\* accepted or not; it hangs while the network is cut.  A connection resets the
\* backoff.
Dial ==
  /\ role24["conn"] = "dial" /\ ~cut
  /\ IF role24["lstn"] \in {"accept", "session"}
     THEN /\ made < MaxConns /\ made' = made + 1 /\ backlog24' = Append(backlog24, made + 1)
          /\ StartSession("conn", made + 1) /\ backoff' = Backoff
          /\ UNCHANGED wait24
     ELSE /\ role24' = [role24 EXCEPT !["conn"] = "backoff"] /\ wait24' \in Jitter(backoff)
          /\ UNCHANGED <<made, backlog24, link, linked, sock_dead, left, beat, chan, backoff>>
  /\ UNCHANGED <<shutEnd, cut, hurt, faults24, blamed>>

\* sleep_or_shutdown is over; the backoff doubles up to its maximum.
BackoffEnds ==
  /\ role24["conn"] = "backoff" /\ wait24 = 0
  /\ role24' = [role24 EXCEPT !["conn"] = "dial"]
  /\ backoff' = IF 2 * backoff < MaxBackoff THEN 2 * backoff ELSE MaxBackoff
  /\ UNCHANGED <<link, linked, sock_dead, left, beat, wait24, made, backlog24, chan, shutEnd, cut,
                 hurt, faults24, blamed>>

\* run_listen accepts one connection and serves it until its session is over.
AcceptPeer ==
  /\ role24["lstn"] = "accept" /\ backlog24 # <<>> /\ backlog24' = Tail(backlog24)
  /\ StartSession("lstn", Head(backlog24))
  /\ UNCHANGED <<wait24, backoff, made, shutEnd, cut, hurt, faults24, blamed>>

InSession(p) == role24[p] = "session"

HeartbeatFires(p) ==
  /\ InSession(p) /\ beat[p] = 0 /\ beat' = [beat EXCEPT ![p] = Heartbeat]
  /\ chan' = IF sock_dead[p] THEN chan ELSE Sent(chan, p, link[p], <<"ping">>)
  /\ UNCHANGED <<role24, link, linked, sock_dead, left, wait24, backoff, made, backlog24, shutEnd,
                 cut, hurt, faults24, blamed>>

\* There is a frame to read, or one on its way that may have arrived; it has
\* arrived for sure when Delay ticks have passed.
Arrived(p) == InSession(p) /\ ~sock_dead[p] /\ ~cut /\ chan[link[p]][p] # <<>>
Due(p)     == Arrived(p) /\ Head(chan[link[p]][p])[2] >= Delay

\* Faulty variant: a heartbeat does not extend the deadline.
ReadFrameNoPing(p) ==
  LET c == link[p]
      f == Head(chan[c][p])[1]
      rest == [chan EXCEPT ![c][p] = Tail(@)]
  IN /\ Arrived(p)
     /\ left' = IF f = "ping" THEN left ELSE [left EXCEPT ![p] = Timeout]
     /\ linked' = [linked EXCEPT ![p] = @ \/ f = "join"]
     /\ chan' = IF f = "join" /\ ~linked[p] THEN Sent(rest, p, c, <<"msg">>) ELSE rest
     /\ UNCHANGED <<role24, link, sock_dead, beat, wait24, backoff, made, backlog24, shutEnd, cut,
                    hurt, faults24, blamed>>

\* Traffic of any kind extends the deadline; the first JOIN links, and sends
\* the message.
ReadFrame(p) ==
  LET c == link[p]
      f == Head(chan[c][p])[1]
      rest == [chan EXCEPT ![c][p] = Tail(@)]
  IN /\ Arrived(p)
     /\ left' = [left EXCEPT ![p] = Timeout]
     /\ linked' = [linked EXCEPT ![p] = @ \/ f = "join"]
     /\ chan' = IF f = "join" /\ ~linked[p] THEN Sent(rest, p, c, <<"msg">>) ELSE rest
     /\ UNCHANGED <<role24, link, sock_dead, beat, wait24, backoff, made, backlog24, shutEnd, cut,
                    hurt, faults24, blamed>>

Ended(p) == /\ InSession(p) /\ ~sock_dead[p] /\ ~cut /\ chan[link[p]][p] = <<>>
            /\ Other(p) \in shutEnd[link[p]]

\* End of stream: the deadline is left to declare the peer dead.
ReadEof(p) ==
  /\ Ended(p) /\ sock_dead' = [sock_dead EXCEPT ![p] = TRUE]
  /\ UNCHANGED <<role24, link, linked, left, beat, wait24, backoff, made, backlog24, chan, shutEnd,
                 cut, hurt, faults24, blamed>>

\* poll finds nothing at the deadline, though a frame may be on its way: the peer
\* has gone silent.  The listener accepts again, the dialler backs off.
TimedOut(p) ==
  /\ InSession(p) /\ left[p] = 0 /\ beat[p] # 0 /\ ~Due(p) /\ ~Ended(p)
  /\ IF p = "conn" THEN Drop(p, "backoff") /\ wait24' \in Jitter(backoff)
     ELSE Drop(p, "accept") /\ UNCHANGED wait24
  /\ blamed' = (blamed \/ (/\ linked[p] /\ link[Other(p)] = link[p]
                            /\ ~sock_dead[p] /\ link[p] \notin hurt))
  /\ UNCHANGED <<backoff, made, backlog24, cut, hurt, faults24>>

\* SIGTERM, noticed in a session, between two, or in the backoff, never in
\* connect.
Shutdown24(p) ==
  /\ role24[p] \in {"session", "accept", "backoff"} /\ Ends24(p, "exit")
  /\ UNCHANGED <<wait24, backoff, made, cut, hurt, faults24, blamed>>

-----------------------------------------------------------------------------
(* Faults and time.                                                        *)

Down(p) ==
  /\ faults24 < MaxFaults /\ role24[p] \notin {"down", "exit"} /\ faults24' = faults24 + 1
  /\ Ends24(p, "down")
  /\ UNCHANGED <<wait24, backoff, made, cut, hurt, blamed>>

Up(p) ==
  /\ role24[p] = "down"
  /\ role24' = [role24 EXCEPT ![p] = IF p = "conn" THEN "dial" ELSE "accept"]
  /\ backoff' = IF p = "conn" THEN Backoff ELSE backoff
  /\ wait24' = IF p = "conn" THEN 0 ELSE wait24
  /\ UNCHANGED <<link, linked, sock_dead, left, beat, made, backlog24, chan, shutEnd, cut, hurt,
                 faults24, blamed>>

Cut ==
  /\ ~cut /\ faults24 < MaxFaults /\ cut' = TRUE /\ faults24' = faults24 + 1
  /\ hurt' = 1..made
  /\ UNCHANGED <<role24, link, linked, sock_dead, left, beat, wait24, backoff, made, backlog24,
                 chan, shutEnd, blamed>>

Heal ==
  /\ cut /\ cut' = FALSE
  /\ UNCHANGED <<role24, link, linked, sock_dead, left, beat, wait24, backoff, made, backlog24,
                 chan, shutEnd, hurt, faults24, blamed>>

Less(n) == IF n > 0 THEN n - 1 ELSE 0

\* A peer with something to do at this instant.
Busy(p) ==
  \/ InSession(p) /\ (beat[p] = 0 \/ left[p] = 0 \/ Ended(p))
  \/ p = "conn" /\ ((role24[p] = "dial" /\ ~cut) \/ (role24[p] = "backoff" /\ wait24 = 0))
  \/ p = "lstn" /\ role24[p] = "accept" /\ backlog24 # <<>>
  \/ Due(p)

Tick ==
  /\ \A p \in Peers : ~Busy(p)
  /\ left' = [p \in Peers |-> Less(left[p])] /\ beat' = [p \in Peers |-> Less(beat[p])]
  /\ wait24' = Less(wait24)
  /\ chan' = [c \in Links |-> [p \in Peers |->
                [i \in DOMAIN chan[c][p] |->
                  <<chan[c][p][i][1], IF chan[c][p][i][2] < Delay THEN chan[c][p][i][2] + 1
                                      ELSE Delay>>]]]
  /\ UNCHANGED <<role24, link, linked, sock_dead, backoff, made, backlog24, shutEnd, cut, hurt,
                 faults24, blamed>>

HbProgress ==
  \/ Dial \/ BackoffEnds \/ AcceptPeer \/ Heal \/ Tick
  \/ \E p \in Peers : HeartbeatFires(p) \/ ReadFrame(p) \/ ReadEof(p) \/ TimedOut(p) \/ Up(p)
HbNext == HbProgress \/ Cut \/ \E p \in Peers : Shutdown24(p) \/ Down(p)

HbSpec == HbInit /\ [][HbNext]_hbVars

\* A peer that has linked and is there, on a network that is whole, is never
\* declared dead: its heartbeats come in time, however long a frame takes up to
\* Delay and whatever happened on earlier connections.
NoFalseTimeout == ~blamed

Together == /\ link["conn"] = link["lstn"] /\ linked["conn"] /\ linked["lstn"]

\* The peers have a common connection, or one was told to stop.
Relinked == Together \/ "exit" \in {role24["conn"], role24["lstn"]}
=============================================================================
