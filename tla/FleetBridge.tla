---------------------------- MODULE FleetBridge ----------------------------
(***************************************************************************)
(* Several chatterd servers bridged to each other (examples/41-capstone-   *)
(* fleet/cpp/src/chatterd.cpp).  The bridge worker of node n is a client   *)
(* of node Peer[n]: it dials, sends JOIN as "bridge@n" and re-broadcasts   *)
(* every DELIVER it reads to the clients of n with include_bridges false,  *)
(* tagging a nick that has no '@' yet with the name of the peer.  Links    *)
(* break, servers crash and are restarted by pmon, and the registry of the *)
(* peer forgets a broken link only when its handler reads the end of       *)
(* stream.                                                                 *)
(***************************************************************************)
EXTENDS Naturals, Sequences, FiniteSets

CONSTANTS
  Nodes,
  Clients,    \* users; each is connected to Home[c]
  Home,       \* the node of each user
  Peer,       \* Peer[n]: the node n's --peer names, NoPeer when it has none
  NoPeer,
  AtNicks,    \* users whose own nick contains '@'
  MaxMsgs,    \* bound: messages each user sends
  MaxBreaks,  \* bound: links that break
  MaxCrashes  \* bound: servers that crash

ASSUME BridgeAssumption ==
  /\ Home \in [Clients -> Nodes]
  /\ Peer \in [Nodes -> Nodes \cup {NoPeer}] /\ NoPeer \notin Nodes
  /\ \A n \in Nodes : Peer[n] # n
  /\ Nodes \cap Clients = {}
  /\ AtNicks \subseteq Clients
  /\ MaxMsgs \in [Clients -> Nat] /\ MaxBreaks \in Nat /\ MaxCrashes \in Nat

\* A registry tells users and links apart.
ASSUME LinkAssumption == Clients \cap (Nodes \X Nat) = {}

VARIABLES
  up,         \* nodes whose server runs
  online,     \* users whose connection to their server stands
  sent,       \* messages each user has sent
  heard,      \* DELIVER frames each user has read
  registry,   \* Hub::clients_ of each node: users, and links by generation
  job,        \* the broadcast a thread is doing: [targets, frame]
  worker,     \* bridge_worker of each node: "dial", "read", "lost", "off"
  gen,        \* generation of the link a worker dialed last
  chan,       \* frames on that link that the worker has not read
  breaks, crashes

\* A broadcast runs on the thread of a user's handler or of a bridge worker.
Threads == Clients \cup Nodes
Links   == Nodes \X (0..(MaxBreaks + MaxCrashes + 1))
NodeOf(t) == IF t \in Clients THEN Home[t] ELSE t

NoJob    == [targets |-> {}, frame |-> <<>>]
Idle(t)  == job[t] = NoJob
Workers  == {n \in Nodes : Peer[n] # NoPeer}

net  == <<up, online, registry, breaks, crashes>>
link == <<worker, gen, chan>>
vars == <<net, link, sent, heard, job>>

\* A nick is the user's own and the tags appended to it.
Nicks  == [base : Clients, tags : Seq(Nodes)]
Frames == [from : Clients, n : Nat, nick : Nicks]
Bare(c)    == [base |-> c, tags |-> <<>>]
HasAt(nick) == nick.base \in AtNicks \/ nick.tags # <<>>

BridgeTypeOK ==
  /\ up \subseteq Nodes /\ online \subseteq Clients
  /\ sent \in [Clients -> Nat]
  /\ heard \in [Clients -> Seq(Frames)]
  /\ registry \in [Nodes -> SUBSET (Clients \cup Links)]
  /\ job \in [Threads -> [targets : SUBSET (Clients \cup Links), frame : Frames \cup {<<>>}]]
  /\ worker \in [Nodes -> {"dial", "read", "lost", "off"}]
  /\ gen \in [Nodes -> 0..(MaxBreaks + MaxCrashes + 1)]
  /\ chan \in [Nodes -> Seq(Frames)]
  /\ breaks \in 0..MaxBreaks /\ crashes \in 0..MaxCrashes

Init ==
  /\ up = Nodes /\ online = Clients
  /\ sent = [c \in Clients |-> 0]
  /\ heard = [c \in Clients |-> <<>>]
  /\ registry = [n \in Nodes |-> {c \in Clients : Home[c] = n}]
  /\ job = [t \in Threads |-> NoJob]
  /\ worker = [n \in Nodes |-> IF Peer[n] = NoPeer THEN "off" ELSE "dial"]
  /\ gen = [n \in Nodes |-> 0]
  /\ chan = [n \in Nodes |-> <<>>]
  /\ breaks = 0 /\ crashes = 0

IsLink(t) == t \notin Clients
Current(l) == worker[l[1]] = "read" /\ gen[l[1]] = l[2]

-----------------------------------------------------------------------------
(* Hub::broadcast_deliver.                                                 *)

\* Faulty variant: include_bridges is ignored.
TargetsWithBridges(n, exclude, include_bridges) == registry[n] \ {exclude}

\* The copy of the registry taken under mu_.
Targets(n, exclude, include_bridges) ==
  {t \in registry[n] : t # exclude /\ (IsLink(t) => include_bridges)}

\* handle_client: a MSG of user c is broadcast to everyone else at its node,
\* the links that other nodes dialed in included.
LocalMsg(c) ==
  /\ c \in online /\ Idle(c) /\ sent[c] < MaxMsgs[c]
  /\ sent' = [sent EXCEPT ![c] = @ + 1]
  /\ job' = [job EXCEPT ![c] =
       [targets |-> Targets(Home[c], c, TRUE),
        frame   |-> [from |-> c, n |-> sent[c] + 1, nick |-> Bare(c)]]]
  /\ UNCHANGED <<net, link, heard>>

\* write_frame to one target, errors ignored: a user reads the frame, a live
\* link queues it, a link that is gone swallows it.
WriteFrame(th, t) ==
  /\ t \in job[th].targets
  /\ job' = [job EXCEPT ![th].targets = @ \ {t}]
  /\ heard' = IF ~IsLink(t) /\ t \in online
              THEN [heard EXCEPT ![t] = Append(@, job[th].frame)] ELSE heard
  /\ chan' = IF IsLink(t) /\ Current(t)
             THEN [chan EXCEPT ![t[1]] = Append(@, job[th].frame)] ELSE chan
  /\ UNCHANGED <<net, worker, gen, sent>>

EndBroadcast(th) ==
  /\ job[th].targets = {} /\ job[th].frame # <<>>
  /\ job' = [job EXCEPT ![th] = NoJob]
  /\ UNCHANGED <<net, link, sent, heard>>

-----------------------------------------------------------------------------
(* bridge_worker.                                                          *)

\* connect_tcp succeeds when the peer's server is up; a failure sleeps for
\* kBackoff and tries again, which changes nothing.  JOIN is written at once.
Dial(n) ==
  /\ n \in up /\ worker[n] = "dial" /\ Peer[n] \in up
  /\ worker' = [worker EXCEPT ![n] = "read"]
  /\ gen' = [gen EXCEPT ![n] = @ + 1]
  /\ chan' = [chan EXCEPT ![n] = <<>>]
  /\ UNCHANGED <<net, sent, heard, job>>

\* The peer's handle_client reads the JOIN and registers the link.
PeerReadsJoin(n) ==
  /\ worker[n] = "read" /\ Peer[n] \in up
  /\ <<n, gen[n]>> \notin registry[Peer[n]]
  /\ registry' = [registry EXCEPT ![Peer[n]] = @ \cup {<<n, gen[n]>>}]
  /\ UNCHANGED <<up, online, breaks, crashes, link, sent, heard, job>>

\* The peer's handle_client reads the end of a link and removes it.
PeerDropsLink(p, l) ==
  /\ p \in up /\ l \in registry[p] /\ IsLink(l) /\ ~Current(l)
  /\ registry' = [registry EXCEPT ![p] = @ \ {l}]
  /\ UNCHANGED <<up, online, breaks, crashes, link, sent, heard, job>>

\* Faulty variant: the tag is appended whether or not the nick has one.
RelayNickAlways(n, nick) == [nick EXCEPT !.tags = Append(@, Peer[n])]

RelayNick(n, nick) ==
  IF HasAt(nick) THEN nick ELSE [nick EXCEPT !.tags = Append(@, Peer[n])]

\* Faulty variant: the frame is handled but left on the stream.
RelayKeeps(n) ==
  /\ worker[n] \in {"read", "lost"} /\ Idle(n) /\ chan[n] # <<>>
  /\ \/ chan' = [chan EXCEPT ![n] = Tail(@)]
     \/ UNCHANGED chan
  /\ LET f == Head(chan[n])
     IN  job' = [job EXCEPT ![n] =
           [targets |-> Targets(n, NoPeer, FALSE),
            frame   |-> [f EXCEPT !.nick = RelayNick(n, @)]]]
  /\ UNCHANGED <<net, worker, gen, sent, heard>>

\* A DELIVER from the peer: tag the nick, re-broadcast with include_bridges
\* false and nobody excluded.
Relay(n) ==
  /\ worker[n] \in {"read", "lost"} /\ Idle(n) /\ chan[n] # <<>>
  /\ chan' = [chan EXCEPT ![n] = Tail(@)]
  /\ LET f == Head(chan[n])
     IN  job' = [job EXCEPT ![n] =
           [targets |-> Targets(n, NoPeer, FALSE),
            frame   |-> [f EXCEPT !.nick = RelayNick(n, @)]]]
  /\ UNCHANGED <<net, worker, gen, sent, heard>>

\* Faulty variant: a lost link ends the worker.
RedialNever(n) == FALSE

\* read_frame fails: the worker sleeps for kBackoff, then dials again.
Redial(n) ==
  /\ worker[n] = "lost" /\ Idle(n) /\ chan[n] = <<>>
  /\ worker' = [worker EXCEPT ![n] = "dial"]
  /\ UNCHANGED <<net, gen, chan, sent, heard, job>>

\* A connection is lost: the worker still reads the frames that arrived before,
\* any prefix of those that were on their way.
Arrived(n, k) == SubSeq(chan[n], 1, IF k < Len(chan[n]) THEN k ELSE Len(chan[n]))

LinkBreaks(n) ==
  /\ worker[n] = "read" /\ breaks < MaxBreaks /\ breaks' = breaks + 1
  /\ worker' = [worker EXCEPT ![n] = "lost"]
  /\ \E k \in 0..Len(chan[n]) : chan' = [chan EXCEPT ![n] = Arrived(n, k)]
  /\ UNCHANGED <<up, online, registry, crashes, gen, sent, heard, job>>

-----------------------------------------------------------------------------
(* A server crashes: its threads, its registry and its users' connections  *)
(* are gone, and so are the links that other workers had dialed to it.     *)

Crash(p) ==
  /\ p \in up /\ crashes < MaxCrashes /\ crashes' = crashes + 1
  /\ up' = up \ {p}
  /\ online' = {c \in online : Home[c] # p}
  /\ registry' = [registry EXCEPT ![p] = {}]
  /\ job' = [t \in Threads |-> IF NodeOf(t) = p THEN NoJob ELSE job[t]]
  /\ worker' = [n \in Nodes |->
       IF n = p THEN "off"
       ELSE IF worker[n] = "read" /\ Peer[n] = p THEN "lost" ELSE worker[n]]
  /\ \E k \in 0..Cardinality(Clients) :
       chan' = [n \in Nodes |-> IF n = p THEN <<>>
                                ELSE IF Peer[n] = p THEN Arrived(n, k) ELSE chan[n]]
  /\ UNCHANGED <<breaks, gen, sent, heard>>

\* pmon starts it again: an empty registry, and a worker that dials.
RestartNode(p) ==
  /\ p \notin up /\ up' = up \cup {p}
  /\ worker' = [worker EXCEPT ![p] = IF Peer[p] = NoPeer THEN "off" ELSE "dial"]
  /\ UNCHANGED <<online, registry, breaks, crashes, gen, chan, sent, heard, job>>

Thread(th) == EndBroadcast(th) \/ \E t \in Clients \cup Links : WriteFrame(th, t)

Next ==
  \/ \E c \in Clients : LocalMsg(c)
  \/ \E th \in Threads : Thread(th)
  \/ \E n \in Workers : Dial(n) \/ PeerReadsJoin(n) \/ Relay(n) \/ Redial(n) \/ LinkBreaks(n)
  \/ \E p \in Nodes : Crash(p) \/ RestartNode(p) \/ \E l \in Links : PeerDropsLink(p, l)

\* Threads run; pmon restarts a server; a dial is retried for ever.
Fairness ==
  /\ \A th \in Threads : WF_vars(Thread(th))
  /\ \A n \in Workers : /\ WF_vars(Dial(n)) /\ WF_vars(PeerReadsJoin(n))
                        /\ WF_vars(Relay(n)) /\ WF_vars(Redial(n))
  /\ \A p \in Nodes : WF_vars(RestartNode(p)) /\ WF_vars(\E l \in Links : PeerDropsLink(p, l))

Spec     == Init /\ [][Next]_vars
FairSpec == Spec /\ Fairness

-----------------------------------------------------------------------------
(* Properties.                                                             *)

\* The name under which d hears c.
NameOf(c, d) ==
  [base |-> c,
   tags |-> IF Home[c] = Home[d] \/ c \in AtNicks THEN <<>> ELSE <<Home[c]>>]

\* The bridged servers implement one chat room: at most once, in order, under
\* the right name, through every crash, broken link and stale registry entry.
Room == INSTANCE ChatRoom WITH posted <- sent, NameOf <- NameOf
ImplementsRoom == Room!Spec

\* What a user hears carries the name its sender has at that node.
RightNames ==
  \A d \in Clients : \A i \in DOMAIN heard[d] :
    /\ heard[d][i].from # d
    /\ heard[d][i].nick = NameOf(heard[d][i].from, d)

\* "no ping-pong between two nodes": what travels on the link that n dialed was
\* said by a user of Peer[n], and what n's worker says is heard at n only.
OneHop ==
  /\ \A n \in Workers : \A i \in DOMAIN chan[n] : Home[chan[n][i].from] = Peer[n]
  /\ \A n \in Nodes : \A t \in job[n].targets : ~IsLink(t) /\ Home[t] = n

\* "the bridge worker just retries on a backoff until the connection succeeds":
\* when links and servers stop failing, every link is registered for good.
BridgeHeals ==
  <>[](\A n \in Workers : worker[n] = "read" /\ <<n, gen[n]>> \in registry[Peer[n]])
============================================================================
