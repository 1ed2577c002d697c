------------------------------ MODULE Discovery ------------------------------
(***************************************************************************)
(* chatterd v2, examples/23-udp-and-peer-discovery, cpp/src/main.cpp:      *)
(* every peer announces itself by multicast, and on the first beacon of a  *)
(* name its receiver thread dials that peer and waits for a greeting, while*)
(* its accepter thread greets whoever dials.  Datagrams are lost,          *)
(* duplicated and late, foreign ones arrive, and a peer may be killed and  *)
(* started again.  All beacons of a peer are alike: of several that wait   *)
(* in a socket one is kept.                                                *)
(***************************************************************************)
EXTENDS Naturals, Sequences, FiniteSets, SequencesExt

CONSTANTS
  Peers23,    \* names
  Rounds,     \* --rounds
  DialTries,  \* attempts of dial_tcp, 40 in the code
  MaxFaults23 \* duplicated and foreign datagrams and kills

VARIABLES
  up23,      \* peer -> "off", "on", "stop" (threads asked to stop), "exit"
  rounds,    \* peer -> beacons still to send
  udp,       \* peer -> senders whose beacon waits in its socket
  rx,        \* receiver -> [at: "recv", "dial", "reply", "hear", "gone"; peer; tries]
  acc,       \* accepter -> <<>> in accept, <<p>> serving p, <<"gone">>
  backlog23, \* peer -> diallers in the queue of its listener
  seen23,    \* peer -> names in Seen
  said,      \* peer -> names that said hello, in order
  faults23
discVars == <<up23, rounds, udp, rx, acc, backlog23, seen23, said, faults23>>

Receiving == [at |-> "recv", peer |-> "none", tries |-> 0]
Listening(p) == up23[p] \in {"on", "stop"}

\* A command line that is accepted: each peer has a name of its own, and some rounds.
CommandLine23 == rounds = [p \in Peers23 |-> Rounds]

DiscInit ==
  /\ CommandLine23 /\ up23 = [p \in Peers23 |-> "off"]
  /\ udp = [p \in Peers23 |-> {}] /\ rx = [p \in Peers23 |-> Receiving]
  /\ acc = [p \in Peers23 |-> <<>>] /\ backlog23 = [p \in Peers23 |-> {}]
  /\ seen23 = [p \in Peers23 |-> {}] /\ said = [p \in Peers23 |-> <<>>] /\ faults23 = 0

Fault23 == faults23 < MaxFaults23 /\ faults23' = faults23 + 1

(* --------------------------------- main ---------------------------------- *)

\* The listener comes before the multicast socket, both before the first beacon.
StartPeer(p) ==
  /\ up23[p] = "off" /\ up23' = [up23 EXCEPT ![p] = "on"]
  /\ UNCHANGED <<rounds, udp, rx, acc, backlog23, seen23, said, faults23>>

\* A beacon reaches every member, the sender too.
Announce(p) ==
  /\ up23[p] = "on" /\ rounds[p] > 0 /\ rounds' = [rounds EXCEPT ![p] = @ - 1]
  /\ udp' = [q \in Peers23 |-> IF Listening(q) THEN udp[q] \cup {p} ELSE udp[q]]
  /\ UNCHANGED <<up23, rx, acc, backlog23, seen23, said, faults23>>

\* The 800 ms are over: both threads are asked to stop.
GraceEnds(p) ==
  /\ up23[p] = "on" /\ rounds[p] = 0 /\ up23' = [up23 EXCEPT ![p] = "stop"]
  /\ UNCHANGED <<rounds, udp, rx, acc, backlog23, seen23, said, faults23>>

\* The threads are joined, and the sockets closed.
ExitPeer(p) ==
  /\ up23[p] = "stop" /\ rx[p].at = "gone" /\ acc[p] = <<"gone">>
  /\ up23' = [up23 EXCEPT ![p] = "exit"]
  /\ backlog23' = [backlog23 EXCEPT ![p] = {}] /\ udp' = [udp EXCEPT ![p] = {}]
  /\ UNCHANGED <<rounds, rx, acc, seen23, said, faults23>>

(* ------------------------------ the network ------------------------------ *)

LoseBeacon(p, s) ==
  /\ s \in udp[p] /\ udp' = [udp EXCEPT ![p] = @ \ {s}]
  /\ UNCHANGED <<up23, rounds, rx, acc, backlog23, seen23, said, faults23>>

\* A datagram that is no beacon, or a late copy of one that was sent before.
StrayDatagram(p) ==
  /\ Fault23 /\ Listening(p)
  /\ \E s \in {"junk"} \cup {q \in Peers23 : rounds[q] < Rounds} :
       udp' = [udp EXCEPT ![p] = @ \cup {s}]
  /\ UNCHANGED <<up23, rounds, rx, acc, backlog23, seen23, said>>

\* A peer is killed, and its connections with it; it may be started again under
\* its name.
Kill23(p) ==
  /\ Fault23 /\ Listening(p) /\ up23' = [up23 EXCEPT ![p] = "off"]
  /\ backlog23' = [q \in Peers23 |-> IF q = p THEN {} ELSE backlog23[q] \ {p}]
  /\ acc' = [q \in Peers23 |-> IF q = p \/ acc[q] = <<p>> THEN <<>> ELSE acc[q]]
  /\ udp' = [udp EXCEPT ![p] = {}]
  /\ rounds' = [rounds EXCEPT ![p] = Rounds] /\ rx' = [rx EXCEPT ![p] = Receiving]
  /\ seen23' = [seen23 EXCEPT ![p] = {}]
  /\ said' = [said EXCEPT ![p] = <<>>]

(* ------------------------------- receiver -------------------------------- *)

\* Faulty variant: what insert returns is ignored.
FirstAlways(p, s) == seen23' = [seen23 EXCEPT ![p] = @ \cup {s}]

\* Seen::first notes the name before anything is done about it.
First(p, s) == s \notin seen23[p] /\ seen23' = [seen23 EXCEPT ![p] = @ \cup {s}]

RecvBeacon(p) ==
  /\ Listening(p) /\ rx[p].at = "recv"
  /\ \E s \in udp[p] :
       /\ udp' = [udp EXCEPT ![p] = @ \ {s}]
       /\ \/ /\ s \in Peers23 \ {p} /\ First(p, s)
             /\ rx' = [rx EXCEPT ![p] = [at |-> "dial", peer |-> s, tries |-> 0]]
          \/ /\ s \notin Peers23 \ {p} \/ s \in seen23[p]
             /\ UNCHANGED <<rx, seen23>>
  /\ UNCHANGED <<up23, rounds, acc, backlog23, said, faults23>>

\* A dial that fails is tried again after 50 ms, then given up.
DialAgain(p, q) ==
  /\ ~Listening(q) /\ UNCHANGED backlog23
  /\ IF rx[p].tries + 1 = DialTries THEN rx' = [rx EXCEPT ![p] = Receiving]
     ELSE rx' = [rx EXCEPT ![p].tries = @ + 1]

\* One that succeeds is followed by the JOIN.
Reached(p, q) ==
  /\ Listening(q) /\ backlog23' = [backlog23 EXCEPT ![q] = @ \cup {p}]
  /\ rx' = [rx EXCEPT ![p].at = "reply"]

DialPeer(p) ==
  /\ Listening(p) /\ rx[p].at = "dial"
  /\ Reached(p, rx[p].peer) \/ DialAgain(p, rx[p].peer)
  /\ UNCHANGED <<up23, rounds, udp, acc, seen23, said, faults23>>

\* "peer ... says".
HearHello(p) ==
  /\ Listening(p) /\ rx[p].at = "hear"
  /\ said' = [said EXCEPT ![p] = Append(@, rx[p].peer)] /\ rx' = [rx EXCEPT ![p] = Receiving]
  /\ UNCHANGED <<up23, rounds, udp, acc, backlog23, seen23, faults23>>

\* The peer went away with the connection.
ReplyFails(p) ==
  /\ Listening(p) /\ rx[p].at = "reply"
  /\ p \notin backlog23[rx[p].peer] /\ acc[rx[p].peer] # <<p>>
  /\ rx' = [rx EXCEPT ![p] = Receiving]
  /\ UNCHANGED <<up23, rounds, udp, acc, backlog23, seen23, said, faults23>>

\* The 200 ms of a receive are over, and the stop token is set.
ReceiverStops(p) ==
  /\ up23[p] = "stop" /\ rx[p].at = "recv" /\ rx' = [rx EXCEPT ![p].at = "gone"]
  /\ UNCHANGED <<up23, rounds, udp, acc, backlog23, seen23, said, faults23>>

(* ------------------------------- accepter -------------------------------- *)

\* Faulty variant: the thread that dials also accepts.
AcceptDialAlone(p) ==
  /\ Listening(p) /\ acc[p] = <<>> /\ rx[p].at = "recv"
  /\ \E q \in backlog23[p] :
       /\ backlog23' = [backlog23 EXCEPT ![p] = @ \ {q}] /\ acc' = [acc EXCEPT ![p] = <<q>>]
  /\ UNCHANGED <<up23, rounds, udp, rx, seen23, said, faults23>>

\* An accept that is under way takes a dialler after the stop request too.
AcceptDial(p) ==
  /\ Listening(p) /\ acc[p] = <<>>
  /\ \E q \in backlog23[p] :
       /\ backlog23' = [backlog23 EXCEPT ![p] = @ \ {q}] /\ acc' = [acc EXCEPT ![p] = <<q>>]
  /\ UNCHANGED <<up23, rounds, udp, rx, seen23, said, faults23>>

\* A frame was read: the DELIVER goes out, if the dialler is still there.
Greet(p) ==
  /\ Listening(p) /\ acc[p] \notin {<<>>, <<"gone">>} /\ acc' = [acc EXCEPT ![p] = <<>>]
  /\ LET q == acc[p][1]
     IN IF rx[q].at = "reply" /\ rx[q].peer = p THEN rx' = [rx EXCEPT ![q].at = "hear"]
        ELSE UNCHANGED rx
  /\ UNCHANGED <<up23, rounds, udp, backlog23, seen23, said, faults23>>

AccepterStops(p) ==
  /\ up23[p] = "stop" /\ acc[p] = <<>> /\ acc' = [acc EXCEPT ![p] = <<"gone">>]
  /\ UNCHANGED <<up23, rounds, udp, rx, backlog23, seen23, said, faults23>>

DiscProgress ==
  \E p \in Peers23 :
    \/ Announce(p) \/ RecvBeacon(p) \/ DialPeer(p) \/ HearHello(p) \/ ReplyFails(p)
    \/ ReceiverStops(p) \/ AcceptDial(p) \/ Greet(p) \/ AccepterStops(p) \/ ExitPeer(p)
DiscNext ==
  \/ DiscProgress
  \/ \E p \in Peers23 :
       \/ StartPeer(p) \/ GraceEnds(p) \/ StrayDatagram(p) \/ Kill23(p)
       \/ \E s \in udp[p] : LoseBeacon(p, s)

\* Two peers that dial each other at the same time greet each other, and a dead
\* peer holds nobody up: while no peer is about to exit, every receiver comes
\* back to its socket, with the hello of everyone it discovered unless a peer was
\* killed.
Greeted ==
  (\A p \in Peers23 : up23[p] \in {"off", "on"}) =>
    \A p \in Peers23 : up23[p] = "on" =>
      /\ rx[p].at = "recv"
      /\ faults23 = 0 => seen23[p] \subseteq ToSet(said[p])

\* "\"discovered peer ...\" prints exactly once per peer no matter how many beacons
\* arrive" (README.md): no peer is dialled again, though copies of its beacon arrive
\* before, during and after the exchange.
DialledOnce ==
  \A p \in Peers23 :
    /\ IsInjective(said[p])
    /\ rx[p].at \in {"dial", "reply", "hear"} => rx[p].peer \notin ToSet(said[p])

\* "then exits 0 after an 800 ms grace window" (README.md).
ExitsAfterGrace == \A p \in Peers23 : up23[p] = "stop" ~> up23[p] # "stop"
=============================================================================
