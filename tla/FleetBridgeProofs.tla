------------------------- MODULE FleetBridgeProofs -------------------------
(***************************************************************************)
(* For any number of nodes, users, broken links and crashes, and whatever  *)
(* the peers are (a pair, a chain, a ring, a star): a message travels one  *)
(* hop at most, it is heard under the right name, and the bridged servers  *)
(* implement the chat room of ChatRoom.                                    *)
(*                                                                         *)
(* None of the three is inductive: a target list is a copy of the registry *)
(* taken earlier, so the invariant says where everything in a registry, in *)
(* a target list and on a link comes from, and for the room in which order *)
(* it is under way.                                                        *)
(***************************************************************************)
EXTENDS FleetBridge, WellFoundedInduction, TLAPS

\* Registries hold the users of the node and the links dialed to it.
RegistryLocal ==
  \A p \in Nodes : \A t \in registry[p] :
    IF t \in Clients THEN Home[t] = p ELSE t[1] \in Nodes /\ Peer[t[1]] = p

\* A user's handler says what the user said, to others at its node.
HandlerJobs ==
  \A c \in Clients : \A t \in job[c].targets :
    /\ t # c
    /\ job[c].frame \in Frames
    /\ job[c].frame.from = c /\ job[c].frame.nick = Bare(c)
    /\ IF t \in Clients THEN Home[t] = Home[c] ELSE t[1] \in Nodes /\ Peer[t[1]] = Home[c]

\* The name a worker of n gives to a user of its peer.
WorkerName(n, c) ==
  [base |-> c, tags |-> IF c \in AtNicks THEN <<>> ELSE <<Peer[n]>>]

\* A worker says what users of its peer said, tagged, to users of its node.
WorkerJobs ==
  \A n \in Nodes : \A t \in job[n].targets :
    /\ job[n].frame \in Frames
    /\ Home[job[n].frame.from] = Peer[n]
    /\ job[n].frame.nick = WorkerName(n, job[n].frame.from)
    /\ t \in Clients /\ Home[t] = n

\* A link carries, untagged, what users of the dialed node said.
ChanFrames ==
  \A n \in Nodes : \A i \in DOMAIN chan[n] :
    /\ Home[chan[n][i].from] = Peer[n]
    /\ chan[n][i].nick = Bare(chan[n][i].from)

\* Every dial but the first was made necessary by a failure.
GenBound ==
  \A n \in Nodes :
    /\ gen[n] <= breaks + crashes + (IF worker[n] = "read" THEN 1 ELSE 0)
    /\ worker[n] = "read" => n \in up

BInv ==
  /\ GenBound
  /\ BridgeTypeOK /\ RegistryLocal /\ HandlerJobs /\ WorkerJobs /\ ChanFrames /\ RightNames

\* bridge_worker tags a bare nick once, and leaves one that has an @.
LEMMA RelayNickTags ==
  ASSUME NEW n \in Nodes, NEW c \in Clients
  PROVE  RelayNick(n, Bare(c)) = WorkerName(n, c)
  BY DEF RelayNick, Bare, HasAt, WorkerName

\* Every server is up, every registry holds its users, nothing is on its way.
LEMMA BInvInit == Init => BInv
  <1> SUFFICES ASSUME Init PROVE BInv
    OBVIOUS
  <1> USE BridgeAssumption
  <1>1. BridgeTypeOK
    <2>1. job \in [Threads -> [targets : SUBSET (Clients \cup Links), frame : Frames \cup {<<>>}]]
      BY DEF Init, NoJob
    <2>2. registry \in [Nodes -> SUBSET (Clients \cup Links)]
      BY DEF Init
    <2> QED
      BY <2>1, <2>2 DEF Init, BridgeTypeOK
  <1>2. RegistryLocal
    BY DEF Init, RegistryLocal
  <1>3. HandlerJobs /\ WorkerJobs
    BY DEF Init, HandlerJobs, WorkerJobs, NoJob, Threads
  <1>4. ChanFrames /\ RightNames
    BY DEF Init, ChanFrames, RightNames
  <1>5. GenBound
    BY DEF Init, GenBound
  <1> QED
    BY <1>1, <1>2, <1>3, <1>4, <1>5 DEF BInv

\* What Targets selects, whoever calls it.
LEMMA TargetsLocal ==
  ASSUME BridgeTypeOK, RegistryLocal, NEW n \in Nodes, NEW x, NEW b \in BOOLEAN
  PROVE  /\ Targets(n, x, b) \subseteq Clients \cup Links
         /\ \A t \in Targets(n, x, b) :
              /\ t # x
              /\ IF t \in Clients THEN Home[t] = n
                 ELSE b /\ t[1] \in Nodes /\ Peer[t[1]] = n
  BY DEF Targets, BridgeTypeOK, RegistryLocal, IsLink

\* A user speaks: the copy of the registry is local, the nick bare.
LEMMA StepLocalMsg ==
  ASSUME BInv, NEW c \in Clients, LocalMsg(c) PROVE BInv'
  <1> USE BridgeAssumption
  <1> DEFINE f == [from |-> c, n |-> sent[c] + 1, nick |-> Bare(c)]
             T == Targets(Home[c], c, TRUE)
  <1>1. f \in Frames /\ f.from = c /\ f.nick = Bare(c)
    BY DEF BInv, BridgeTypeOK, Frames, Nicks, Bare
  <1>2. /\ T \subseteq Clients \cup Links
        /\ \A t \in T : /\ t # c
                       /\ IF t \in Clients THEN Home[t] = Home[c]
                          ELSE t[1] \in Nodes /\ Peer[t[1]] = Home[c]
    BY TargetsLocal DEF BInv
  <1>3. job' = [job EXCEPT ![c] = [targets |-> T, frame |-> f]]
    BY DEF LocalMsg
  <1>4. c \in Threads /\ c \notin Nodes
    BY DEF Threads
  <1> HIDE DEF f, T
  <1>5. BridgeTypeOK'
    <2>1. [targets |-> T, frame |-> f]
            \in [targets : SUBSET (Clients \cup Links), frame : Frames \cup {<<>>}]
      BY <1>1, <1>2
    <2>2. job' \in [Threads -> [targets : SUBSET (Clients \cup Links), frame : Frames \cup {<<>>}]]
      BY <1>3, <2>1 DEF BInv, BridgeTypeOK
    <2>3. sent' \in [Clients -> Nat]
      BY DEF BInv, BridgeTypeOK, LocalMsg
    <2> QED
      BY <2>2, <2>3 DEF BInv, BridgeTypeOK, LocalMsg, net, link
  <1>6. HandlerJobs'
    <2>1. job'[c] = [targets |-> T, frame |-> f]
      BY <1>3, <1>4 DEF BInv, BridgeTypeOK
    <2>2. \A d \in Clients : d # c => job'[d] = job[d]
      BY <1>3 DEF BInv, BridgeTypeOK, Threads
    <2>3. SUFFICES ASSUME NEW d \in Clients, NEW t \in job'[d].targets
                   PROVE  /\ t # d
                          /\ job'[d].frame \in Frames
                          /\ job'[d].frame.from = d /\ job'[d].frame.nick = Bare(d)
                          /\ IF t \in Clients THEN Home[t] = Home[d]
                             ELSE t[1] \in Nodes /\ Peer[t[1]] = Home[d]
      BY DEF HandlerJobs
    <2>4. CASE d = c
      <3>1. job'[d].targets = T /\ job'[d].frame = f
        BY <2>1, <2>4
      <3>2. t \in T
        BY <3>1
      <3> QED
        BY <3>1, <3>2, <2>4, <1>1, <1>2, Zenon
    <2>5. CASE d # c
      BY <2>2, <2>3, <2>5 DEF BInv, HandlerJobs
    <2> QED
      BY <2>4, <2>5
  <1>7. WorkerJobs'
    BY <1>3, <1>4 DEF BInv, BridgeTypeOK, WorkerJobs, Threads
  <1>8. RegistryLocal' /\ ChanFrames' /\ RightNames'
    <2>1. registry' = registry /\ chan' = chan /\ heard' = heard
      BY DEF LocalMsg, net, link
    <2>2. RegistryLocal'
      BY <2>1 DEF BInv, RegistryLocal
    <2>3. ChanFrames'
      BY <2>1 DEF BInv, ChanFrames
    <2>4. RightNames'
      BY <2>1 DEF BInv, RightNames
    <2> QED
      BY <2>2, <2>3, <2>4
  <1>9. GenBound'
    BY DEF BInv, GenBound, LocalMsg, net, link
  <1> QED
    BY <1>5, <1>6, <1>7, <1>8, <1>9 DEF BInv

\* A frame reaches a user, a live link, or nobody.
LEMMA StepWriteFrame ==
  ASSUME BInv, NEW th \in Threads, NEW t \in Clients \cup Links, WriteFrame(th, t)
  PROVE  BInv'
  <1> USE BridgeAssumption
  <1> DEFINE f == job[th].frame
  <1>1. th \in Clients \/ th \in Nodes
    BY DEF Threads
  <1>2. /\ f \in Frames
        /\ t \in Clients => f.from # t /\ f.nick = NameOf(f.from, t)
        /\ IsLink(t) => /\ t[1] \in Nodes /\ Home[f.from] = Peer[t[1]]
                        /\ f.nick = Bare(f.from)
    <2>1. t \in job[th].targets
      BY DEF WriteFrame
    <2>2. CASE th \in Clients
      <3>1. /\ t # th /\ f \in Frames /\ f.from = th /\ f.nick = Bare(th)
            /\ IF t \in Clients THEN Home[t] = Home[th] ELSE t[1] \in Nodes /\ Peer[t[1]] = Home[th]
        BY <2>1, <2>2 DEF BInv, HandlerJobs
      <3>2. t \in Clients => Bare(th) = NameOf(th, t)
        BY <3>1 DEF Bare, NameOf
      <3> QED
        BY <3>1, <3>2 DEF IsLink
    <2>3. CASE th \in Nodes
      <3>1. f \in Frames /\ t \in Clients /\ Home[t] = th /\ Home[f.from] = Peer[th]
        BY <2>1, <2>3 DEF BInv, WorkerJobs
      <3>2. f.from \in Clients
        BY <3>1 DEF Frames
      <3>3. Home[f.from] # Home[t]
        BY <2>3, <3>1
      <3>4. f.nick = WorkerName(th, f.from)
        BY <2>1, <2>3 DEF BInv, WorkerJobs
      <3>5. WorkerName(th, f.from) = NameOf(f.from, t)
        BY <2>3, <3>1, <3>2, <3>3 DEF WorkerName, NameOf
      <3> QED
        BY <3>1, <3>3, <3>4, <3>5 DEF IsLink
    <2> QED
      BY <1>1, <2>2, <2>3
  <1>3. job' = [job EXCEPT ![th].targets = @ \ {t}]
    BY DEF WriteFrame
  <1>4. \A u \in Threads : job'[u].targets \subseteq job[u].targets /\ job'[u].frame = job[u].frame
    BY <1>3 DEF BInv, BridgeTypeOK
  <1>5. job' \in [Threads -> [targets : SUBSET (Clients \cup Links), frame : Frames \cup {<<>>}]]
    <2> DEFINE J == [targets : SUBSET (Clients \cup Links), frame : Frames \cup {<<>>}]
    <2>1. job \in [Threads -> J]
      BY DEF BInv, BridgeTypeOK
    <2>2. [job[th] EXCEPT !.targets = @ \ {t}] \in J
      BY <2>1
    <2>3. job' = [job EXCEPT ![th] = [job[th] EXCEPT !.targets = @ \ {t}]]
      BY <1>3
    <2> HIDE DEF J
    <2>4. job' \in [Threads -> J]
      BY <2>1, <2>2, <2>3
    <2> QED
      BY <2>4 DEF J
  <1>6. HandlerJobs' /\ WorkerJobs'
    BY <1>4 DEF BInv, HandlerJobs, WorkerJobs, Threads
  <1> HIDE DEF f
  <1>7. heard' = heard \/ (t \in Clients /\ heard' = [heard EXCEPT ![t] = Append(@, f)])
    BY DEF WriteFrame, IsLink, f
  <1>8. chan' = chan \/ (IsLink(t) /\ chan' = [chan EXCEPT ![t[1]] = Append(@, f)])
    BY DEF WriteFrame, f
  <1>9. heard' \in [Clients -> Seq(Frames)] /\ RightNames'
    <2>1. CASE heard' = heard
      BY <2>1 DEF BInv, BridgeTypeOK, RightNames
    <2>2. CASE t \in Clients /\ heard' = [heard EXCEPT ![t] = Append(@, f)]
      <3>1. heard' \in [Clients -> Seq(Frames)]
        BY <1>2, <2>2 DEF BInv, BridgeTypeOK
      <3>2. ASSUME NEW d \in Clients, NEW i \in DOMAIN heard'[d]
            PROVE  \/ i \in DOMAIN heard[d] /\ heard'[d][i] = heard[d][i]
                   \/ d = t /\ heard'[d][i] = f
        <4>1. heard[t] \in Seq(Frames) /\ heard[d] \in Seq(Frames)
          BY <2>2 DEF BInv, BridgeTypeOK
        <4>2. CASE d # t
          BY <2>2, <4>2 DEF BInv, BridgeTypeOK
        <4>3. CASE d = t
          <5>1. heard'[d] = Append(heard[d], f)
            BY <2>2, <4>3 DEF BInv, BridgeTypeOK
          <5> QED
            BY <1>2, <4>1, <4>3, <5>1
        <4> QED
          BY <4>2, <4>3
      <3>3. RightNames'
        BY <1>2, <2>2, <3>2 DEF BInv, RightNames
      <3> QED
        BY <3>1, <3>3
    <2> QED
      BY <1>7, <2>1, <2>2
  <1>10. chan' \in [Nodes -> Seq(Frames)] /\ ChanFrames'
    <2>1. CASE chan' = chan
      BY <2>1 DEF BInv, BridgeTypeOK, ChanFrames
    <2>2. CASE IsLink(t) /\ chan' = [chan EXCEPT ![t[1]] = Append(@, f)]
      <3>1. chan' \in [Nodes -> Seq(Frames)]
        BY <1>2, <2>2 DEF BInv, BridgeTypeOK
      <3>2. ASSUME NEW n \in Nodes, NEW i \in DOMAIN chan'[n]
            PROVE  \/ i \in DOMAIN chan[n] /\ chan'[n][i] = chan[n][i]
                   \/ n = t[1] /\ chan'[n][i] = f
        <4>1. chan[n] \in Seq(Frames)
          BY DEF BInv, BridgeTypeOK
        <4>2. CASE n # t[1]
          BY <1>2, <2>2, <4>2 DEF BInv, BridgeTypeOK
        <4>3. CASE n = t[1]
          <5>1. chan'[n] = Append(chan[n], f)
            BY <2>2, <4>3 DEF BInv, BridgeTypeOK
          <5> QED
            BY <1>2, <4>1, <4>3, <5>1
        <4> QED
          BY <4>2, <4>3
      <3>3. ChanFrames'
        BY <1>2, <2>2, <3>2 DEF BInv, ChanFrames
      <3> QED
        BY <3>1, <3>3
    <2> QED
      BY <1>8, <2>1, <2>2
  <1>11. BridgeTypeOK'
    BY <1>5, <1>9, <1>10 DEF BInv, BridgeTypeOK, WriteFrame, net
  <1>12. RegistryLocal'
    BY DEF BInv, RegistryLocal, WriteFrame, net
  <1>13. GenBound'
    BY DEF BInv, GenBound, WriteFrame, net
  <1> QED
    BY <1>6, <1>9, <1>10, <1>11, <1>12, <1>13 DEF BInv

\* What a thread forgets, or a link loses, disturbs nothing: smaller target
\* lists with the same frames, and shorter links made of the same frames.
LEMMA Shrink ==
  ASSUME BInv, BridgeTypeOK', RegistryLocal', GenBound', heard' = heard,
         \A th \in Threads : /\ job'[th].targets \subseteq job[th].targets
                             /\ job'[th].targets # {} => job'[th].frame = job[th].frame,
         \A n \in Nodes : \A i \in DOMAIN chan'[n] :
           \E j \in DOMAIN chan[n] : chan'[n][i] = chan[n][j]
  PROVE  BInv'
  <1>1. HandlerJobs'
    BY DEF BInv, HandlerJobs, Threads
  <1>2. WorkerJobs'
    BY DEF BInv, WorkerJobs, Threads
  <1>3. ChanFrames'
    BY DEF BInv, ChanFrames
  <1>4. RightNames'
    BY DEF BInv, RightNames
  <1> QED
    BY <1>1, <1>2, <1>3, <1>4 DEF BInv

\* A thread ends its broadcast.
LEMMA StepEndBroadcast ==
  ASSUME BInv, NEW th \in Threads, EndBroadcast(th) PROVE BInv'
  <1>1. job' \in [Threads -> [targets : SUBSET (Clients \cup Links), frame : Frames \cup {<<>>}]]
    BY DEF BInv, BridgeTypeOK, EndBroadcast, NoJob
  <1>2. BridgeTypeOK'
    BY <1>1 DEF BInv, BridgeTypeOK, EndBroadcast, net, link
  <1>3. RegistryLocal'
    BY DEF BInv, RegistryLocal, EndBroadcast, net
  <1>4. \A u \in Threads : /\ job'[u].targets \subseteq job[u].targets
                           /\ job'[u].targets # {} => job'[u].frame = job[u].frame
    BY DEF BInv, BridgeTypeOK, EndBroadcast, NoJob
  <1>5. GenBound'
    BY DEF BInv, GenBound, EndBroadcast, net, link
  <1>6. heard' = heard /\ chan' = chan
    BY DEF EndBroadcast, link
  <1> QED
    BY <1>2, <1>3, <1>4, <1>5, <1>6, Shrink

\* A worker dials, redials or loses its link.
LEMMA StepLink ==
  ASSUME BInv, NEW n \in Workers, Dial(n) \/ Redial(n) \/ LinkBreaks(n)
  PROVE  BInv'
  <1> USE BridgeAssumption
  <1>1. n \in Nodes
    BY DEF Workers
  <1>2. registry' = registry /\ heard' = heard /\ job' = job
    BY DEF Dial, Redial, LinkBreaks, net
  <1>3. /\ chan' \in [Nodes -> Seq(Frames)]
        /\ \A m \in Nodes : \A i \in DOMAIN chan'[m] :
             \E j \in DOMAIN chan[m] : chan'[m][i] = chan[m][j]
    <2>1. CASE Dial(n) \/ Redial(n)
      <3>1. chan' = [chan EXCEPT ![n] = <<>>] \/ chan' = chan
        BY <2>1 DEF Dial, Redial
      <3>2. chan' \in [Nodes -> Seq(Frames)]
        <4>1. chan \in [Nodes -> Seq(Frames)] /\ <<>> \in Seq(Frames)
          BY DEF BInv, BridgeTypeOK
        <4> QED
          BY <1>1, <3>1, <4>1
      <3>3. \A m \in Nodes : chan'[m] = chan[m] \/ chan'[m] = <<>>
        BY <1>1, <3>1 DEF BInv, BridgeTypeOK
      <3> QED
        BY <3>2, <3>3
    <2>2. CASE LinkBreaks(n)
      <3>1. PICK k \in 0..Len(chan[n]) : chan' = [chan EXCEPT ![n] = Arrived(n, k)]
        BY <2>2 DEF LinkBreaks
      <3>2. chan[n] \in Seq(Frames)
        BY <1>1 DEF BInv, BridgeTypeOK
      <3>3. /\ Arrived(n, k) \in Seq(Frames)
            /\ \A i \in DOMAIN Arrived(n, k) : i \in DOMAIN chan[n] /\ Arrived(n, k)[i] = chan[n][i]
        BY <3>2 DEF Arrived
      <3>4. ASSUME NEW m \in Nodes, NEW i \in DOMAIN chan'[m]
            PROVE  \E j \in DOMAIN chan[m] : chan'[m][i] = chan[m][j]
        <4>1. CASE m # n
          BY <3>1, <4>1 DEF BInv, BridgeTypeOK
        <4>2. CASE m = n
          <5>1. chan'[m] = Arrived(n, k)
            BY <1>1, <3>1, <4>2 DEF BInv, BridgeTypeOK
          <5> QED
            BY <3>3, <4>2, <5>1
        <4> QED
          BY <4>1, <4>2
      <3>5. chan' \in [Nodes -> Seq(Frames)]
        BY <1>1, <3>1, <3>3 DEF BInv, BridgeTypeOK
      <3> QED
        BY <3>4, <3>5
    <2> QED
      BY <2>1, <2>2
  <1>4. RegistryLocal'
    BY <1>2 DEF BInv, RegistryLocal
  <1>5. GenBound' /\ worker' \in [Nodes -> {"dial", "read", "lost", "off"}]
        /\ gen' \in [Nodes -> Nat] /\ breaks' \in 0..MaxBreaks /\ crashes' = crashes
    <2>1. CASE Dial(n)
      BY <1>1, <2>1 DEF BInv, BridgeTypeOK, GenBound, Dial, net
    <2>2. CASE Redial(n)
      BY <1>1, <2>2 DEF BInv, BridgeTypeOK, GenBound, Redial, net
    <2>3. CASE LinkBreaks(n)
      BY <1>1, <2>3 DEF BInv, BridgeTypeOK, GenBound, LinkBreaks
    <2> QED
      BY <2>1, <2>2, <2>3
  <1>6. gen' \in [Nodes -> 0..(MaxBreaks + MaxCrashes + 1)]
    <2>1. ASSUME NEW m \in Nodes PROVE gen'[m] \in 0..(MaxBreaks + MaxCrashes + 1)
      <3>1. gen'[m] <= breaks' + crashes' + (IF worker'[m] = "read" THEN 1 ELSE 0)
        BY <1>5 DEF GenBound
      <3>2. breaks' \in 0..MaxBreaks /\ crashes' \in 0..MaxCrashes /\ gen'[m] \in Nat
        BY <1>5 DEF BInv, BridgeTypeOK
      <3> QED
        BY <3>1, <3>2
    <2> QED
      BY <1>5, <2>1
  <1>7. up' = up /\ online' = online /\ sent' = sent
    BY DEF Dial, Redial, LinkBreaks, net
  <1>8. BridgeTypeOK'
    BY <1>2, <1>3, <1>5, <1>6, <1>7 DEF BInv, BridgeTypeOK
  <1> QED
    BY <1>2, <1>3, <1>4, <1>5, <1>8, Shrink

\* The peer registers a link or drops it.
LEMMA StepRegistry ==
  ASSUME BInv,
         \/ \E n \in Workers : PeerReadsJoin(n)
         \/ \E p \in Nodes : \E l \in Links : PeerDropsLink(p, l)
  PROVE  BInv'
  <1> USE BridgeAssumption
  <1>1. /\ up' = up /\ online' = online /\ sent' = sent /\ heard' = heard /\ job' = job
        /\ worker' = worker /\ gen' = gen /\ chan' = chan
        /\ breaks' = breaks /\ crashes' = crashes
    BY DEF PeerReadsJoin, PeerDropsLink, link
  <1>2. registry' \in [Nodes -> SUBSET (Clients \cup Links)] /\ RegistryLocal'
    <2>1. ASSUME NEW n \in Workers, PeerReadsJoin(n)
          PROVE  registry' \in [Nodes -> SUBSET (Clients \cup Links)] /\ RegistryLocal'
      <3> DEFINE l == <<n, gen[n]>>
      <3>1. n \in Nodes /\ Peer[n] \in Nodes /\ l \in Links /\ l[1] = n
        BY <2>1 DEF Workers, BInv, BridgeTypeOK, Links
      <3>2. registry' = [registry EXCEPT ![Peer[n]] = @ \cup {l}]
        BY <2>1 DEF PeerReadsJoin
      <3> HIDE DEF l
      <3>3. registry' \in [Nodes -> SUBSET (Clients \cup Links)]
        BY <3>1, <3>2 DEF BInv, BridgeTypeOK
      <3>4. l \in Clients => Home[l] = Peer[n]
        BY <3>1, LinkAssumption DEF Links
      <3>5. RegistryLocal'
        BY <3>1, <3>2, <3>4 DEF BInv, BridgeTypeOK, RegistryLocal
      <3> QED
        BY <3>3, <3>5
    <2>2. ASSUME NEW p \in Nodes, NEW l \in Links, PeerDropsLink(p, l)
          PROVE  registry' \in [Nodes -> SUBSET (Clients \cup Links)] /\ RegistryLocal'
      BY <2>2 DEF BInv, BridgeTypeOK, RegistryLocal, PeerDropsLink
    <2> QED
      BY <2>1, <2>2
  <1>3. BridgeTypeOK'
    BY <1>1, <1>2 DEF BInv, BridgeTypeOK
  <1>4. GenBound'
    BY <1>1 DEF BInv, GenBound
  <1> QED
    BY <1>1, <1>2, <1>3, <1>4, Shrink

\* A worker takes a frame off its link and says it to its users.
LEMMA StepRelay ==
  ASSUME BInv, NEW n \in Workers, Relay(n) PROVE BInv'
  <1> USE BridgeAssumption
  <1> DEFINE h == Head(chan[n])
             f == [h EXCEPT !.nick = RelayNick(n, @)]
             T == Targets(n, NoPeer, FALSE)
             J == [targets : SUBSET (Clients \cup Links), frame : Frames \cup {<<>>}]
  <1>1. n \in Nodes /\ n \in Threads /\ n \notin Clients /\ Peer[n] \in Nodes
    BY DEF Workers, Threads
  <1>2. chan[n] \in Seq(Frames) /\ chan[n] # <<>>
    BY <1>1 DEF BInv, BridgeTypeOK, Relay
  <1>3. h \in Frames /\ Home[h.from] = Peer[n] /\ h.nick = Bare(h.from)
    <2>1. h = chan[n][1] /\ 1 \in DOMAIN chan[n]
      BY <1>2
    <2> QED
      BY <1>1, <1>2, <2>1 DEF BInv, ChanFrames
  <1>4. h.from \in Clients /\ h.n \in Nat
    BY <1>3 DEF Frames
  <1>5. f = [from |-> h.from, n |-> h.n, nick |-> WorkerName(n, h.from)]
    BY <1>1, <1>3, <1>4, RelayNickTags DEF Frames
  <1>6. WorkerName(n, h.from) \in Nicks
    BY <1>1, <1>4 DEF WorkerName, Nicks
  <1>7. f \in Frames /\ Home[f.from] = Peer[n] /\ f.nick = WorkerName(n, f.from)
    <2> HIDE DEF h
    <2> QED
      BY <1>3, <1>4, <1>5, <1>6 DEF Frames
  <1>8. T \subseteq Clients \cup Links /\ \A t \in T : t \in Clients /\ Home[t] = n
    BY <1>1, TargetsLocal DEF BInv
  <1>9. job' = [job EXCEPT ![n] = [targets |-> T, frame |-> f]]
    BY DEF Relay
  <1>10. job \in [Threads -> J]
    BY DEF BInv, BridgeTypeOK
  <1> HIDE DEF h, f, T
  <1>11. [targets |-> T, frame |-> f] \in J
    BY <1>7, <1>8
  <1> HIDE DEF J
  <1>12. job' \in [Threads -> J] /\ \A u \in Threads : u # n => job'[u] = job[u]
    BY <1>9, <1>10, <1>11
  <1>13. job'[n].targets = T /\ job'[n].frame = f
    BY <1>1, <1>9, <1>10
  <1>14. HandlerJobs'
    BY <1>1, <1>12 DEF BInv, HandlerJobs, Threads
  <1>15. WorkerJobs'
    BY <1>7, <1>8, <1>12, <1>13 DEF BInv, WorkerJobs, Threads
  <1>16. chan' = [chan EXCEPT ![n] = Tail(chan[n])]
    BY DEF Relay
  <1>17. Tail(chan[n]) \in Seq(Frames)
    BY <1>2
  <1>18. chan' \in [Nodes -> Seq(Frames)]
    BY <1>16, <1>17 DEF BInv, BridgeTypeOK
  <1>19. \A i \in DOMAIN Tail(chan[n]) : i + 1 \in DOMAIN chan[n] /\ Tail(chan[n])[i] = chan[n][i + 1]
    BY <1>2
  <1>20. chan'[n] = Tail(chan[n]) /\ \A m \in Nodes : m # n => chan'[m] = chan[m]
    BY <1>1, <1>16 DEF BInv, BridgeTypeOK
  <1>21. ChanFrames'
    <2> SUFFICES ASSUME NEW m \in Nodes, NEW i \in DOMAIN chan'[m]
                 PROVE  /\ Home[chan'[m][i].from] = Peer[m]
                        /\ chan'[m][i].nick = Bare(chan'[m][i].from)
      BY DEF ChanFrames
    <2>1. PICK j \in DOMAIN chan[m] : chan'[m][i] = chan[m][j]
      <3>1. CASE m = n
        <4>1. chan'[m] = Tail(chan[n]) /\ i \in DOMAIN Tail(chan[n])
          BY <1>20, <3>1
        <4>2. i + 1 \in DOMAIN chan[m] /\ chan'[m][i] = chan[m][i + 1]
          BY <1>19, <3>1, <4>1
        <4> QED
          BY <4>2
      <3>2. CASE m # n
        BY <1>20, <3>2
      <3> QED
        BY <3>1, <3>2
    <2> QED
      BY <2>1 DEF BInv, ChanFrames
  <1>22. BridgeTypeOK'
    BY <1>12, <1>18 DEF BInv, BridgeTypeOK, Relay, net, J
  <1>23. RegistryLocal'
    BY DEF BInv, RegistryLocal, Relay, net
  <1>24. GenBound'
    BY DEF BInv, GenBound, Relay, net
  <1>25. RightNames'
    BY DEF BInv, RightNames, Relay
  <1> QED
    BY <1>14, <1>15, <1>21, <1>22, <1>23, <1>24, <1>25 DEF BInv

\* A server crashes, and every link to it with it.
LEMMA StepCrash ==
  ASSUME BInv, NEW p \in Nodes, Crash(p) PROVE BInv'
  <1> USE BridgeAssumption
  <1> DEFINE J == [targets : SUBSET (Clients \cup Links), frame : Frames \cup {<<>>}]
  <1>1. PICK k \in 0..Cardinality(Clients) :
          chan' = [n \in Nodes |-> IF n = p THEN <<>>
                                   ELSE IF Peer[n] = p THEN Arrived(n, k) ELSE chan[n]]
    BY DEF Crash
  <1>2. ASSUME NEW n \in Nodes
        PROVE  /\ chan'[n] \in Seq(Frames)
               /\ \A i \in DOMAIN chan'[n] : \E j \in DOMAIN chan[n] : chan'[n][i] = chan[n][j]
    <2>1. chan[n] \in Seq(Frames)
      BY DEF BInv, BridgeTypeOK
    <2>2. CASE chan'[n] = <<>> \/ chan'[n] = chan[n]
      <3>1. CASE chan'[n] = <<>>
        BY <3>1
      <3>2. CASE chan'[n] = chan[n]
        BY <2>1, <3>2
      <3> QED
        BY <2>2, <3>1, <3>2
    <2>3. CASE chan'[n] = Arrived(n, k)
      <3>1. CASE k < Len(chan[n])
        <4>1. chan'[n] = SubSeq(chan[n], 1, k)
          BY <2>3, <3>1 DEF Arrived
        <4>2. k \in Nat
          BY <3>1, <2>1
        <4> QED
          BY <2>1, <3>1, <4>1, <4>2
      <3>2. CASE ~(k < Len(chan[n]))
        <4>1. chan'[n] = SubSeq(chan[n], 1, Len(chan[n]))
          BY <2>3, <3>2 DEF Arrived
        <4> QED
          BY <2>1, <4>1
      <3> QED
        BY <3>1, <3>2
    <2> QED
      BY <1>1, <2>2, <2>3
  <1>3. chan' \in [Nodes -> Seq(Frames)]
    BY <1>1, <1>2
  <1>4. job \in [Threads -> J] /\ NoJob \in J
    BY DEF BInv, BridgeTypeOK, NoJob
  <1>5. job' = [t \in Threads |-> IF NodeOf(t) = p THEN NoJob ELSE job[t]]
    BY DEF Crash
  <1> HIDE DEF J
  <1>6. job' \in [Threads -> J]
    BY <1>4, <1>5
  <1>7. \A t \in Threads : /\ job'[t].targets \subseteq job[t].targets
                           /\ job'[t].targets # {} => job'[t].frame = job[t].frame
    BY <1>4, <1>5 DEF NoJob
  <1>8. registry' \in [Nodes -> SUBSET (Clients \cup Links)] /\ RegistryLocal'
    BY DEF BInv, BridgeTypeOK, RegistryLocal, Crash
  <1>9. worker' \in [Nodes -> {"dial", "read", "lost", "off"}] /\ gen' = gen
        /\ \A n \in Nodes : worker'[n] = "read" => worker[n] = "read"
    BY DEF BInv, BridgeTypeOK, Crash
  <1>10. breaks' = breaks /\ crashes' = crashes + 1 /\ crashes' \in 0..MaxCrashes
    BY DEF BInv, BridgeTypeOK, Crash
  <1>11. GenBound'
    <2> SUFFICES ASSUME NEW n \in Nodes
                 PROVE  /\ gen'[n] <= breaks' + crashes' + (IF worker'[n] = "read" THEN 1 ELSE 0)
                        /\ worker'[n] = "read" => n \in up'
      BY DEF GenBound
    <2>1. gen[n] \in Nat /\ breaks \in Nat /\ crashes \in Nat
      BY DEF BInv, BridgeTypeOK
    <2>2. gen[n] <= breaks + crashes + 1
      BY <2>1 DEF BInv, GenBound
    <2>3. worker'[n] = "read" => n \in up'
      BY <1>9 DEF BInv, GenBound, BridgeTypeOK, Crash
    <2>4. gen'[n] <= breaks' + crashes' + (IF worker'[n] = "read" THEN 1 ELSE 0)
      BY <1>9, <1>10, <2>1, <2>2
    <2> QED
      BY <2>3, <2>4
  <1>12. up' \subseteq Nodes /\ online' \subseteq Clients /\ sent' = sent /\ heard' = heard
    BY DEF BInv, BridgeTypeOK, Crash
  <1>13. BridgeTypeOK'
    BY <1>3, <1>6, <1>8, <1>9, <1>10, <1>12 DEF BInv, BridgeTypeOK, J
  <1> QED
    BY <1>2, <1>7, <1>8, <1>11, <1>12, <1>13, Shrink

\* pmon starts a server again.
LEMMA StepRestartNode ==
  ASSUME BInv, NEW p \in Nodes, RestartNode(p) PROVE BInv'
  <1>1. BridgeTypeOK'
    BY DEF BInv, BridgeTypeOK, RestartNode
  <1>2. RegistryLocal'
    BY DEF BInv, RegistryLocal, RestartNode
  <1>3. GenBound'
    BY DEF BInv, BridgeTypeOK, GenBound, RestartNode
  <1>4. heard' = heard /\ chan' = chan /\ job' = job
    BY DEF RestartNode
  <1> QED
    BY <1>1, <1>2, <1>3, <1>4, Shrink

\* Nothing happens.
LEMMA StepStutter ==
  ASSUME BInv, UNCHANGED vars PROVE BInv'
  <1>1. BridgeTypeOK'
    BY DEF BInv, BridgeTypeOK, vars, net, link
  <1>2. RegistryLocal'
    BY DEF BInv, RegistryLocal, vars, net
  <1>3. GenBound'
    BY DEF BInv, GenBound, vars, net, link
  <1>4. heard' = heard /\ chan' = chan /\ job' = job
    BY DEF vars, link
  <1> QED
    BY <1>1, <1>2, <1>3, <1>4, Shrink

\* The inductive invariant holds in every reachable state.
THEOREM BridgeInvariant == Spec => []BInv
  <1>1. BInv /\ [Next]_vars => BInv'
    <2> SUFFICES ASSUME BInv, [Next]_vars PROVE BInv'
      OBVIOUS
    <2>1. CASE \E c \in Clients : LocalMsg(c)
      BY <2>1, StepLocalMsg
    <2>2. CASE \E th \in Threads : Thread(th)
      BY <2>2, StepWriteFrame, StepEndBroadcast DEF Thread
    <2>3. CASE \E n \in Workers : Dial(n) \/ Redial(n) \/ LinkBreaks(n)
      BY <2>3, StepLink
    <2>4. CASE \/ \E n \in Workers : PeerReadsJoin(n)
               \/ \E p \in Nodes : \E l \in Links : PeerDropsLink(p, l)
      BY <2>4, StepRegistry
    <2>5. CASE \E n \in Workers : Relay(n)
      BY <2>5, StepRelay
    <2>6. CASE \E p \in Nodes : Crash(p) \/ RestartNode(p)
      BY <2>6, StepCrash, StepRestartNode
    <2>7. CASE UNCHANGED vars
      BY <2>7, StepStutter
    <2> QED
      BY <2>1, <2>2, <2>3, <2>4, <2>5, <2>6, <2>7 DEF Next
  <1> QED
    BY <1>1, BInvInit, PTL DEF Spec

\* A worker's target list and every link stay within one hop of the sender:
\* broadcast_deliver with include_bridges false never reaches a bridge.
THEOREM BridgeOneHop == Spec => []OneHop
  <1>1. BInv => OneHop
    BY DEF BInv, OneHop, ChanFrames, WorkerJobs, Workers, IsLink
  <1> QED
    BY <1>1, BridgeInvariant, PTL

\* bridge_worker tags a nick with the node it came from, once, and nobody
\* hears their own message, on any topology of peers.
THEOREM BridgeRightNames == Spec => []RightNames
  <1>1. BInv => RightNames
    BY DEF BInv
  <1> QED
    BY <1>1, BridgeInvariant, PTL

\* Type correctness, with the bound on how often a link was dialed.
THEOREM BridgeTypes == Spec => []BridgeTypeOK
  <1>1. BInv => BridgeTypeOK
    BY DEF BInv
  <1> QED
    BY <1>1, BridgeInvariant, PTL

-----------------------------------------------------------------------------
(* The bridged servers implement the chat room of ChatRoom.  That what a   *)
(* user hears is new rests on the order along the way of a message: what   *)
(* the user has heard is older than what the worker of the node is saying, *)
(* that than what is on the link, and that than what the handler of the    *)
(* sender is still saying.                                                 *)

\* Every frame of c in the sequence h is older than number n.
Below(h, c, n) == \A i \in DOMAIN h : h[i].from = c => h[i].n < n

\* Number n of c is new to the worker of m and to the users there.
NewAt(m, c, n) ==
  /\ \A d \in Clients : Home[d] = m => Below(heard[d], c, n)
  /\ job[m].targets # {} /\ job[m].frame.from = c => job[m].frame.n < n

\* Nothing is said that was not sent.
Numbered ==
  /\ \A d \in Clients : \A i \in DOMAIN heard[d] : heard[d][i].n <= sent[heard[d][i].from]
  /\ \A m \in Nodes : \A i \in DOMAIN chan[m] :
       1 <= chan[m][i].n /\ chan[m][i].n <= sent[chan[m][i].from]
  /\ \A th \in Threads : job[th].targets # {} =>
       1 <= job[th].frame.n /\ job[th].frame.n <= sent[job[th].frame.from]

\* A registry, and a copy of it, holds links that were dialed; of those of one
\* node at most the last is alive.
GenKnown ==
  /\ \A p \in Nodes : \A l \in registry[p] : IsLink(l) => l[2] <= gen[l[1]]
  /\ \A c \in Clients : \A l \in job[c].targets : IsLink(l) => l[2] <= gen[l[1]]

HandlerNew ==
  \A c \in Clients : \A t \in job[c].targets :
    /\ t \in Clients => Below(heard[t], c, job[c].frame.n)
    /\ IsLink(t) /\ Current(t) =>
         NewAt(t[1], c, job[c].frame.n) /\ Below(chan[t[1]], c, job[c].frame.n)

WorkerNew ==
  \A m \in Nodes : \A t \in job[m].targets :
    Below(heard[t], job[m].frame.from, job[m].frame.n)

LinkNew ==
  \A m \in Nodes : \A i \in DOMAIN chan[m] :
    /\ NewAt(m, chan[m][i].from, chan[m][i].n)
    /\ \A j \in DOMAIN chan[m] :
         i < j /\ chan[m][i].from = chan[m][j].from => chan[m][i].n < chan[m][j].n

OrderInv == Numbered /\ GenKnown /\ HandlerNew /\ WorkerNew /\ LinkNew

\* Nothing has been said.
LEMMA OrderInit == Init => OrderInv
  <1> SUFFICES ASSUME Init PROVE OrderInv
    OBVIOUS
  <1> USE BridgeAssumption
  <1>1. \A th \in Threads : job[th].targets = {}
    BY DEF Init, NoJob
  <1>2. \A c \in Clients : heard[c] = <<>>
    BY DEF Init
  <1>3. \A m \in Nodes : chan[m] = <<>>
    BY DEF Init
  <1>4. \A p \in Nodes : registry[p] \subseteq Clients
    BY DEF Init
  <1>5. Numbered /\ GenKnown
    BY <1>1, <1>2, <1>3, <1>4 DEF Numbered, GenKnown, Threads, IsLink
  <1>6. HandlerNew /\ WorkerNew /\ LinkNew
    BY <1>1, <1>3 DEF HandlerNew, WorkerNew, LinkNew, Threads
  <1> QED
    BY <1>5, <1>6 DEF OrderInv

\* What is forgotten, dropped or lost leaves the rest in order.
LEMMA OrderShrinks ==
  ASSUME BInv, OrderInv, sent' = sent, heard' = heard, gen' = gen,
         \A th \in Threads : /\ job'[th].targets \subseteq job[th].targets
                             /\ job'[th].targets # {} => job'[th].frame = job[th].frame,
         \A m \in Nodes : \A i \in DOMAIN chan'[m] : i \in DOMAIN chan[m] /\ chan'[m][i] = chan[m][i],
         \A m \in Nodes : worker'[m] = "read" => worker[m] = "read",
         \A p \in Nodes : registry'[p] \subseteq registry[p]
  PROVE  OrderInv'
  <1> USE BridgeAssumption
  <1>1. Numbered'
    BY DEF OrderInv, Numbered
  <1>2. GenKnown'
    BY DEF OrderInv, GenKnown, IsLink, Threads
  <1>3. ASSUME NEW m \in Nodes, NEW c, NEW n, NewAt(m, c, n) PROVE NewAt(m, c, n)'
    BY <1>3 DEF NewAt, Threads
  <1>4. ASSUME NEW m \in Nodes, NEW c, NEW n, Below(chan[m], c, n) PROVE Below(chan'[m], c, n)
    BY <1>4 DEF Below
  <1>5. HandlerNew'
    <2> SUFFICES ASSUME NEW c \in Clients, NEW t \in job'[c].targets
                 PROVE  /\ t \in Clients => Below(heard'[t], c, job'[c].frame.n)
                        /\ IsLink(t) /\ Current(t)' =>
                             /\ NewAt(t[1], c, job[c].frame.n)'
                             /\ Below(chan'[t[1]], c, job'[c].frame.n)
      BY DEF HandlerNew, IsLink
    <2>1. t \in job[c].targets /\ job'[c].frame = job[c].frame
      BY DEF Threads
    <2>2. IsLink(t) => t[1] \in Nodes
      BY <2>1 DEF BInv, HandlerJobs, IsLink
    <2>3. IsLink(t) /\ Current(t)' => Current(t)
      BY <2>2 DEF Current
    <2>4. /\ t \in Clients => Below(heard[t], c, job[c].frame.n)
          /\ IsLink(t) /\ Current(t) =>
               NewAt(t[1], c, job[c].frame.n) /\ Below(chan[t[1]], c, job[c].frame.n)
      BY <2>1 DEF OrderInv, HandlerNew
    <2> QED
      BY <1>3, <1>4, <2>1, <2>2, <2>3, <2>4
  <1>6. WorkerNew'
    BY DEF OrderInv, WorkerNew, Threads
  <1>7. LinkNew'
    BY <1>3 DEF OrderInv, LinkNew
  <1> QED
    BY <1>1, <1>2, <1>5, <1>6, <1>7 DEF OrderInv

\* A user posts: the new number is above all that anyone has heard or holds.
LEMMA OrderLocalMsg ==
  ASSUME BInv, OrderInv, NEW c \in Clients, LocalMsg(c) PROVE OrderInv'
  <1> USE BridgeAssumption
  <1> DEFINE f == [from |-> c, n |-> sent[c] + 1, nick |-> Bare(c)]
             T == Targets(Home[c], c, TRUE)
  <1>1. /\ heard' = heard /\ gen' = gen /\ chan' = chan /\ worker' = worker
        /\ registry' = registry
    BY DEF LocalMsg, net, link
  <1>2. job' = [job EXCEPT ![c] = [targets |-> T, frame |-> f]]
        /\ sent' = [sent EXCEPT ![c] = sent[c] + 1]
    BY DEF LocalMsg
  <1>3. c \in Threads /\ c \notin Nodes
    BY DEF Threads
  <1>4. f.from = c /\ f.n = sent[c] + 1
    OBVIOUS
  <1>5. T \subseteq registry[Home[c]]
    BY DEF Targets
  <1> HIDE DEF f, T
  <1>6. /\ job'[c].targets = T /\ job'[c].frame = f
        /\ \A u \in Threads : u # c => job'[u] = job[u]
    BY <1>2, <1>3 DEF BInv, BridgeTypeOK
  <1>7. \A m \in Nodes : job'[m] = job[m]
    BY <1>3, <1>6 DEF Threads
  <1>8. sent[c] \in Nat /\ sent'[c] = sent[c] + 1
        /\ \A d \in Clients : sent[d] \in Nat /\ sent'[d] \in Nat /\ sent[d] <= sent'[d]
    BY <1>2 DEF BInv, BridgeTypeOK
  <1>9. ASSUME NEW h \in Seq(Frames), NEW i \in DOMAIN h
        PROVE  h[i].from \in Clients /\ h[i].n \in Nat
    <2>1. h[i] \in Frames
      OBVIOUS
    <2> QED
      BY <2>1 DEF Frames
  <1>10. Numbered'
    <2>1. \A d \in Clients : \A i \in DOMAIN heard'[d] : heard'[d][i].n <= sent'[heard'[d][i].from]
      <3> SUFFICES ASSUME NEW d \in Clients, NEW i \in DOMAIN heard[d]
                   PROVE  heard[d][i].n <= sent'[heard[d][i].from]
        BY <1>1
      <3>1. heard[d] \in Seq(Frames)
        BY DEF BInv, BridgeTypeOK
      <3>2. heard[d][i].from \in Clients /\ heard[d][i].n \in Nat
        BY <1>9, <3>1
      <3>3. heard[d][i].n <= sent[heard[d][i].from]
        BY DEF OrderInv, Numbered
      <3> QED
        BY <1>8, <3>2, <3>3
    <2>2. \A m \in Nodes : \A i \in DOMAIN chan'[m] :
            1 <= chan'[m][i].n /\ chan'[m][i].n <= sent'[chan'[m][i].from]
      <3> SUFFICES ASSUME NEW m \in Nodes, NEW i \in DOMAIN chan[m]
                   PROVE  1 <= chan[m][i].n /\ chan[m][i].n <= sent'[chan[m][i].from]
        BY <1>1
      <3>1. chan[m] \in Seq(Frames)
        BY DEF BInv, BridgeTypeOK
      <3>2. chan[m][i].from \in Clients /\ chan[m][i].n \in Nat
        BY <1>9, <3>1
      <3>3. 1 <= chan[m][i].n /\ chan[m][i].n <= sent[chan[m][i].from]
        BY DEF OrderInv, Numbered
      <3> QED
        BY <1>8, <3>2, <3>3
    <2>3. ASSUME NEW th \in Threads, job'[th].targets # {}
          PROVE  1 <= job'[th].frame.n /\ job'[th].frame.n <= sent'[job'[th].frame.from]
      <3>1. CASE th = c
        BY <1>4, <1>6, <1>8, <3>1
      <3>2. CASE th # c
        <4>1. job'[th] = job[th] /\ job[th].targets # {}
          BY <1>6, <2>3, <3>2
        <4>2. 1 <= job[th].frame.n /\ job[th].frame.n <= sent[job[th].frame.from]
          BY <4>1 DEF OrderInv, Numbered
        <4>3. job[th].frame \in Frames
          BY <4>1 DEF BInv, HandlerJobs, WorkerJobs, Threads
        <4>4. job[th].frame.from \in Clients /\ job[th].frame.n \in Nat
          BY <4>3 DEF Frames
        <4> QED
          BY <1>8, <4>1, <4>2, <4>4
      <3> QED
        BY <3>1, <3>2
    <2> QED
      BY <2>1, <2>2, <2>3 DEF Numbered
  <1>11. GenKnown'
    BY <1>1, <1>5, <1>6 DEF OrderInv, GenKnown, IsLink, Threads
  <1>13. \A d \in Clients : Below(heard[d], c, sent[c] + 1)
    <2> SUFFICES ASSUME NEW d \in Clients, NEW i \in DOMAIN heard[d], heard[d][i].from = c
                 PROVE  heard[d][i].n < sent[c] + 1
      BY DEF Below
    <2>1. heard[d] \in Seq(Frames)
      BY DEF BInv, BridgeTypeOK
    <2>2. heard[d][i].n \in Nat
      BY <1>9, <2>1
    <2>3. heard[d][i].n <= sent[c]
      BY DEF OrderInv, Numbered
    <2> QED
      BY <1>8, <2>2, <2>3
  <1>14. \A m \in Nodes : NewAt(m, c, sent[c] + 1) /\ Below(chan[m], c, sent[c] + 1)
    <2> SUFFICES ASSUME NEW m \in Nodes PROVE NewAt(m, c, sent[c] + 1) /\ Below(chan[m], c, sent[c] + 1)
      OBVIOUS
    <2>1. ASSUME job[m].targets # {}, job[m].frame.from = c PROVE job[m].frame.n < sent[c] + 1
      <3>1. job[m].frame \in Frames
        BY <2>1 DEF BInv, WorkerJobs
      <3>2. job[m].frame.n \in Nat
        BY <3>1 DEF Frames
      <3>3. job[m].frame.n <= sent[c]
        BY <2>1 DEF OrderInv, Numbered, Threads
      <3> QED
        BY <1>8, <3>2, <3>3
    <2>2. Below(chan[m], c, sent[c] + 1)
      <3> SUFFICES ASSUME NEW i \in DOMAIN chan[m], chan[m][i].from = c
                   PROVE  chan[m][i].n < sent[c] + 1
        BY DEF Below
      <3>1. chan[m] \in Seq(Frames)
        BY DEF BInv, BridgeTypeOK
      <3>2. chan[m][i].n \in Nat
        BY <1>9, <3>1
      <3>3. chan[m][i].n <= sent[c]
        BY DEF OrderInv, Numbered
      <3> QED
        BY <1>8, <3>2, <3>3
    <2> QED
      BY <1>13, <2>1, <2>2 DEF NewAt
  <1>15. HandlerNew'
    <2> SUFFICES ASSUME NEW d \in Clients, NEW t \in job'[d].targets
                 PROVE  /\ t \in Clients => Below(heard[t], d, job'[d].frame.n)
                        /\ IsLink(t) /\ Current(t) =>
                             /\ NewAt(t[1], d, job[d].frame.n)'
                             /\ Below(chan[t[1]], d, job'[d].frame.n)
      BY <1>1 DEF HandlerNew, IsLink, Current
    <2>1. CASE d = c
      <3>1. t \in T /\ job'[d].frame.n = sent[c] + 1
        BY <1>4, <1>6, <2>1
      <3>2. IsLink(t) => t[1] \in Nodes
        BY <1>5, <3>1 DEF BInv, RegistryLocal, IsLink
      <3> QED
        BY <1>1, <1>7, <1>13, <1>14, <2>1, <3>1, <3>2 DEF NewAt
    <2>2. CASE d # c
      <3>1. job'[d] = job[d] /\ t \in job[d].targets
        BY <1>6, <2>2 DEF Threads
      <3>2. IsLink(t) => t[1] \in Nodes
        BY <3>1 DEF BInv, HandlerJobs, IsLink
      <3>3. /\ t \in Clients => Below(heard[t], d, job[d].frame.n)
            /\ IsLink(t) /\ Current(t) =>
                 NewAt(t[1], d, job[d].frame.n) /\ Below(chan[t[1]], d, job[d].frame.n)
        BY <3>1 DEF OrderInv, HandlerNew
      <3> QED
        BY <1>1, <1>7, <3>1, <3>2, <3>3 DEF NewAt
    <2> QED
      BY <2>1, <2>2
  <1>16. WorkerNew'
    BY <1>1, <1>7 DEF OrderInv, WorkerNew
  <1>17. LinkNew'
    BY <1>1, <1>7 DEF OrderInv, LinkNew, NewAt
  <1> QED
    BY <1>10, <1>11, <1>15, <1>16, <1>17 DEF OrderInv

\* Who says what to whom: a handler its user's message to users of the node and
\* to links, a worker what a user of the peer said, to users of its node.
LEMMA WhoWrites ==
  ASSUME BInv, NEW th \in Threads, NEW t \in job[th].targets
  PROVE  /\ job[th].frame \in Frames
         /\ job[th].frame.from \in Clients /\ job[th].frame.n \in Nat
         /\ th \in Clients => /\ job[th].frame.from = th
                              /\ t \in Clients => Home[t] = Home[th]
                              /\ IsLink(t) => t[1] \in Nodes /\ Peer[t[1]] = Home[th]
         /\ th \in Nodes => /\ t \in Clients /\ Home[t] = th
                            /\ Home[job[th].frame.from] = Peer[th]
  <1>1. job[th].frame \in Frames
    BY DEF BInv, HandlerJobs, WorkerJobs, Threads
  <1>2. job[th].frame.from \in Clients /\ job[th].frame.n \in Nat
    BY <1>1 DEF Frames
  <1> QED
    BY <1>1, <1>2 DEF BInv, HandlerJobs, WorkerJobs, IsLink

\* A frame appended to a sequence is all that can disturb Below.
LEMMA BelowAppend ==
  ASSUME NEW h \in Seq(Frames), NEW f \in Frames, NEW c, NEW n,
         Below(h, c, n), f.from = c => f.n < n
  PROVE  Below(Append(h, f), c, n)
  <1> SUFFICES ASSUME NEW i \in DOMAIN Append(h, f), Append(h, f)[i].from = c
               PROVE  Append(h, f)[i].n < n
    BY DEF Below
  <1>1. CASE i \in DOMAIN h /\ Append(h, f)[i] = h[i]
    BY <1>1 DEF Below
  <1>2. CASE Append(h, f)[i] = f
    BY <1>2
  <1>3. (i \in DOMAIN h /\ Append(h, f)[i] = h[i]) \/ Append(h, f)[i] = f
    OBVIOUS
  <1> QED
    BY <1>1, <1>2, <1>3

\* A user reads a frame: no older one is on its way to it any more.
LEMMA OrderUserReads ==
  ASSUME BInv, OrderInv, NEW th \in Threads, NEW t \in Clients, WriteFrame(th, t), t \in online
  PROVE  OrderInv'
  <1> USE BridgeAssumption
  <1> DEFINE f == job[th].frame
  <1>1. t \in job[th].targets
    BY DEF WriteFrame
  <1>2. /\ f \in Frames /\ f.from \in Clients /\ f.n \in Nat
        /\ th \in Clients => f.from = th /\ Home[t] = Home[th]
        /\ th \in Nodes => Home[t] = th /\ Home[f.from] = Peer[th]
    BY <1>1, WhoWrites
  <1>3. /\ heard' = [heard EXCEPT ![t] = Append(heard[t], f)]
        /\ chan' = chan /\ worker' = worker /\ gen' = gen /\ sent' = sent /\ registry' = registry
    BY DEF WriteFrame, IsLink, net
  <1>4. /\ \A u \in Threads : job'[u].targets \subseteq job[u].targets /\ job'[u].frame = job[u].frame
        /\ t \notin job'[th].targets
    <2>1. job' = [job EXCEPT ![th].targets = @ \ {t}]
      BY DEF WriteFrame
    <2>2. \A u \in Threads : u # th => job'[u] = job[u]
      BY <2>1 DEF BInv, BridgeTypeOK
    <2>3. job'[th].targets = job[th].targets \ {t} /\ job'[th].frame = job[th].frame
      BY <2>1 DEF BInv, BridgeTypeOK
    <2> QED
      BY <2>2, <2>3
  <1>5. f.n <= sent[f.from]
    BY <1>1 DEF OrderInv, Numbered
  <1>6. th \in Clients \/ th \in Nodes
    BY DEF Threads
  <1>7. heard[t] \in Seq(Frames) /\ heard'[t] = Append(heard[t], f)
        /\ \A d \in Clients : d # t => heard'[d] = heard[d]
    BY <1>3 DEF BInv, BridgeTypeOK
  <1>8. \A m \in Nodes : job[m].targets # {} => job[m].frame \in Frames /\ Home[job[m].frame.from] = Peer[m]
    BY DEF BInv, WorkerJobs
  <1>9. job[th].targets # {}
    BY <1>1
  <1> HIDE DEF f
  <1>10. ASSUME NEW d \in Clients, NEW c, NEW n, Below(heard[d], c, n), d = t /\ f.from = c => f.n < n
         PROVE  Below(heard'[d], c, n)
    <2>1. CASE d # t
      BY <1>7, <1>10, <2>1
    <2>2. CASE d = t
      <3>1. PICK h : h = heard[t]
        OBVIOUS
      <3>2. h \in Seq(Frames) /\ Below(h, c, n) /\ (f.from = c => f.n < n)
        BY <1>7, <1>10, <2>2, <3>1
      <3>3. Below(Append(h, f), c, n)
        BY <1>2, <3>2, BelowAppend
      <3> QED
        BY <1>7, <2>2, <3>1, <3>3
    <2> QED
      BY <2>1, <2>2
  <1>11. ASSUME NEW m \in Nodes, NEW c \in Clients, NEW n, Home[c] = Peer[m], NewAt(m, c, n)
         PROVE  NewAt(m, c, n)'
    <2>1. Home[t] = m /\ f.from = c => f.n < n
      BY <1>2, <1>6, <1>9, <1>11 DEF NewAt, f
    <2>2. \A d \in Clients : Home[d] = m => Below(heard'[d], c, n)
      BY <1>10, <1>11, <2>1 DEF NewAt
    <2>3. job'[m].targets # {} /\ job'[m].frame.from = c => job'[m].frame.n < n
      BY <1>4, <1>11 DEF NewAt, Threads
    <2> QED
      BY <2>2, <2>3 DEF NewAt
  <1>12. Numbered'
    <2>1. ASSUME NEW d \in Clients, NEW i \in DOMAIN heard'[d]
          PROVE  heard'[d][i].n <= sent'[heard'[d][i].from]
      <3>1. CASE d # t
        BY <1>3, <1>7, <3>1 DEF OrderInv, Numbered
      <3>2. CASE d = t
        <4>1. (i \in DOMAIN heard[t] /\ heard'[d][i] = heard[t][i]) \/ heard'[d][i] = f
          <5>1. PICK h : h = heard[t]
            OBVIOUS
          <5>2. h \in Seq(Frames) /\ heard'[d] = Append(h, f)
            BY <1>7, <3>2, <5>1
          <5>3. i \in DOMAIN Append(h, f)
            BY <5>2
          <5>4. (i \in DOMAIN h /\ Append(h, f)[i] = h[i]) \/ Append(h, f)[i] = f
            BY <1>2, <5>2, <5>3
          <5> QED
            BY <5>1, <5>2, <5>4
        <4> QED
          BY <1>3, <1>5, <4>1 DEF OrderInv, Numbered
      <3> QED
        BY <3>1, <3>2
    <2>2. \A u \in Threads : job'[u].targets # {} => job[u].targets # {}
      BY <1>4
    <2> QED
      BY <1>3, <1>4, <2>1, <2>2 DEF OrderInv, Numbered
  <1>13. GenKnown'
    BY <1>3, <1>4 DEF OrderInv, GenKnown, IsLink, Threads
  <1>14. HandlerNew'
    <2> SUFFICES ASSUME NEW c \in Clients, NEW x \in job'[c].targets
                 PROVE  /\ x \in Clients => Below(heard'[x], c, job[c].frame.n)
                        /\ IsLink(x) /\ Current(x) =>
                             /\ NewAt(x[1], c, job[c].frame.n)'
                             /\ Below(chan[x[1]], c, job[c].frame.n)
      BY <1>3, <1>4 DEF HandlerNew, IsLink, Current, Threads
    <2>1. x \in job[c].targets /\ job'[c].frame = job[c].frame /\ (c = th => x # t)
      BY <1>4 DEF Threads
    <2>2. /\ x \in Clients => Below(heard[x], c, job[c].frame.n)
          /\ IsLink(x) /\ Current(x) =>
               NewAt(x[1], c, job[c].frame.n) /\ Below(chan[x[1]], c, job[c].frame.n)
      BY <2>1 DEF OrderInv, HandlerNew
    <2>3. /\ x \in Clients => Home[x] = Home[c]
          /\ IsLink(x) => x[1] \in Nodes /\ Peer[x[1]] = Home[c]
      BY <2>1, WhoWrites DEF Threads
    <2>4. ASSUME x \in Clients PROVE Below(heard'[x], c, job[c].frame.n)
      <3>1. ~(x = t /\ f.from = c)
        BY <1>2, <1>6, <2>1, <2>3, <2>4
      <3> QED
        BY <1>10, <2>2, <2>4, <3>1
    <2>5. ASSUME IsLink(x), Current(x) PROVE NewAt(x[1], c, job[c].frame.n)'
      <3>1. PICK k : k = job[c].frame.n
        OBVIOUS
      <3>2. NewAt(x[1], c, k)'
        BY <1>11, <2>2, <2>3, <2>5, <3>1
      <3> QED
        BY <2>1, <3>1, <3>2
    <2> QED
      BY <2>2, <2>4, <2>5
  <1>15. WorkerNew'
    <2> SUFFICES ASSUME NEW m \in Nodes, NEW x \in job'[m].targets
                 PROVE  Below(heard'[x], job[m].frame.from, job[m].frame.n)
      BY <1>4 DEF WorkerNew, Threads
    <2>1. x \in job[m].targets /\ (m = th => x # t)
      BY <1>4 DEF Threads
    <2>2. Below(heard[x], job[m].frame.from, job[m].frame.n)
      BY <2>1 DEF OrderInv, WorkerNew
    <2>3. x \in Clients /\ Home[x] = m /\ Home[job[m].frame.from] = Peer[m]
      BY <2>1, WhoWrites DEF Threads
    <2>4. ~(x = t /\ f.from = job[m].frame.from)
      BY <1>2, <1>6, <2>1, <2>3
    <2> QED
      BY <1>10, <2>2, <2>3, <2>4
  <1>16. LinkNew'
    <2> SUFFICES ASSUME NEW m \in Nodes, NEW i \in DOMAIN chan[m]
                 PROVE  /\ NewAt(m, chan[m][i].from, chan[m][i].n)'
                        /\ \A j \in DOMAIN chan[m] :
                             i < j /\ chan[m][i].from = chan[m][j].from => chan[m][i].n < chan[m][j].n
      BY <1>3 DEF LinkNew
    <2>1. PICK c, k : c = chan[m][i].from /\ k = chan[m][i].n
      OBVIOUS
    <2>2. c \in Clients /\ Home[c] = Peer[m]
      <3>1. chan[m][i] \in Frames
        BY DEF BInv, BridgeTypeOK
      <3> QED
        BY <2>1, <3>1 DEF BInv, ChanFrames, Frames
    <2>3. NewAt(m, c, k)'
      BY <1>11, <2>1, <2>2 DEF OrderInv, LinkNew
    <2> QED
      BY <1>3, <2>1, <2>3 DEF OrderInv, LinkNew
  <1> QED
    BY <1>12, <1>13, <1>14, <1>15, <1>16 DEF OrderInv

\* A live link queues a frame of a handler: newer than all that was queued, and
\* the handler has no other live link to the same node.
LEMMA OrderLinkQueues ==
  ASSUME BInv, OrderInv, NEW th \in Threads, NEW t \in Links, WriteFrame(th, t),
         IsLink(t), Current(t)
  PROVE  OrderInv'
  <1> USE BridgeAssumption
  <1> DEFINE f == job[th].frame
             m == t[1]
  <1>1. t \in job[th].targets
    BY DEF WriteFrame
  <1>2. /\ f \in Frames /\ f.from = th /\ f.n \in Nat
        /\ th \in Clients /\ m \in Nodes /\ Peer[m] = Home[th]
    BY <1>1, WhoWrites DEF Threads, IsLink
  <1>3. /\ chan' = [chan EXCEPT ![m] = Append(chan[m], f)]
        /\ heard' = heard /\ worker' = worker /\ gen' = gen /\ sent' = sent /\ registry' = registry
    BY DEF WriteFrame, net
  <1>4. /\ \A u \in Threads : job'[u].targets \subseteq job[u].targets /\ job'[u].frame = job[u].frame
        /\ t \notin job'[th].targets
    BY DEF BInv, BridgeTypeOK, WriteFrame
  <1>5. 1 <= f.n /\ f.n <= sent[th]
    BY <1>1, <1>2 DEF OrderInv, Numbered
  <1>6. NewAt(m, th, f.n) /\ Below(chan[m], th, f.n)
    BY <1>1, <1>2 DEF OrderInv, HandlerNew
  <1>7. chan[m] \in Seq(Frames) /\ chan'[m] = Append(chan[m], f)
        /\ \A p \in Nodes : p # m => chan'[p] = chan[p]
    BY <1>2, <1>3 DEF BInv, BridgeTypeOK
  <1>8. gen[m] = t[2] /\ t = <<t[1], t[2]>>
    BY DEF Current, Links
  <1> HIDE DEF f
  <1>9. \A p \in Nodes : \A c, n : NewAt(p, c, n) => NewAt(p, c, n)'
    BY <1>3, <1>4 DEF NewAt, Threads
  <1>10. PICK h : h = chan[m]
    OBVIOUS
  <1>11. h \in Seq(Frames) /\ chan'[m] = Append(h, f) /\ Below(h, th, f.n)
    BY <1>6, <1>7, <1>10
  <1>12. /\ DOMAIN Append(h, f) = 1..(Len(h) + 1) /\ DOMAIN h = 1..Len(h) /\ Len(h) \in Nat
         /\ Append(h, f)[Len(h) + 1] = f
         /\ \A i \in DOMAIN h : Append(h, f)[i] = h[i]
    BY <1>2, <1>11
  <1>13. ASSUME NEW i \in DOMAIN chan'[m]
         PROVE  \/ i \in DOMAIN h /\ chan'[m][i] = h[i]
                \/ i = Len(h) + 1 /\ chan'[m][i] = f
    BY <1>11, <1>12
  <1>14. Numbered'
    <2>1. ASSUME NEW p \in Nodes, NEW i \in DOMAIN chan'[p]
          PROVE  1 <= chan'[p][i].n /\ chan'[p][i].n <= sent'[chan'[p][i].from]
      <3>1. CASE p # m
        BY <1>3, <1>7, <3>1 DEF OrderInv, Numbered
      <3>2. CASE p = m
        BY <1>2, <1>3, <1>5, <1>10, <1>13, <3>2 DEF OrderInv, Numbered
      <3> QED
        BY <3>1, <3>2
    <2>2. \A u \in Threads : job'[u].targets # {} => job[u].targets # {}
      BY <1>4
    <2> QED
      BY <1>3, <1>4, <2>1, <2>2 DEF OrderInv, Numbered
  <1>15. GenKnown'
    BY <1>3, <1>4 DEF OrderInv, GenKnown, IsLink, Threads
  <1>16. HandlerNew'
    <2> SUFFICES ASSUME NEW c \in Clients, NEW x \in job'[c].targets
                 PROVE  /\ x \in Clients => Below(heard[x], c, job[c].frame.n)
                        /\ IsLink(x) /\ Current(x) =>
                             /\ NewAt(x[1], c, job[c].frame.n)'
                             /\ Below(chan'[x[1]], c, job[c].frame.n)
      BY <1>3, <1>4 DEF HandlerNew, IsLink, Current, Threads
    <2>1. x \in job[c].targets /\ job'[c].frame = job[c].frame /\ (c = th => x # t)
      BY <1>4 DEF Threads
    <2>2. /\ x \in Clients => Below(heard[x], c, job[c].frame.n)
          /\ IsLink(x) /\ Current(x) =>
               NewAt(x[1], c, job[c].frame.n) /\ Below(chan[x[1]], c, job[c].frame.n)
      BY <2>1 DEF OrderInv, HandlerNew
    <2>3. IsLink(x) => x[1] \in Nodes /\ x \in Links
      BY <2>1, WhoWrites DEF Threads, BInv, BridgeTypeOK, IsLink
    <2>4. ASSUME IsLink(x), Current(x)
          PROVE  NewAt(x[1], c, job[c].frame.n)' /\ Below(chan'[x[1]], c, job[c].frame.n)
      <3>1. PICK k : k = job[c].frame.n
        OBVIOUS
      <3>2. NewAt(x[1], c, k)'
        BY <1>9, <2>2, <2>3, <2>4, <3>1
      <3>3. CASE x[1] # m
        BY <1>7, <2>1, <2>2, <2>3, <2>4, <3>1, <3>2, <3>3
      <3>4. CASE x[1] = m
        <4>1. x = t
          BY <1>8, <2>3, <2>4, <3>4 DEF Current, Links
        <4>2. f.from # c
          BY <1>2, <2>1, <4>1
        <4>3. Below(Append(h, f), c, k)
          BY <1>2, <1>10, <1>11, <2>2, <2>4, <3>1, <3>4, <4>2, BelowAppend
        <4> QED
          BY <1>11, <2>1, <3>1, <3>2, <3>4, <4>3
      <3> QED
        BY <3>3, <3>4
    <2> QED
      BY <2>2, <2>4
  <1>17. WorkerNew'
    BY <1>3, <1>4 DEF OrderInv, WorkerNew, Threads
  <1>18. LinkNew'
    <2> SUFFICES ASSUME NEW p \in Nodes, NEW i \in DOMAIN chan'[p]
                 PROVE  /\ NewAt(p, chan[p][i].from, chan[p][i].n)'
                        /\ \A j \in DOMAIN chan'[p] :
                             i < j /\ chan'[p][i].from = chan'[p][j].from => chan'[p][i].n < chan'[p][j].n
      BY DEF LinkNew
    <2>1. CASE p # m
      <3>1. chan'[p] = chan[p]
        BY <1>7, <2>1
      <3> QED
        BY <1>9, <3>1 DEF OrderInv, LinkNew
    <2>2. CASE p = m
      <3>1. PICK g : g = chan'[p][i]
        OBVIOUS
      <3>2. CASE i \in DOMAIN h /\ g = h[i]
        <4>1. NewAt(m, g.from, g.n)
          BY <1>2, <1>10, <3>2 DEF OrderInv, LinkNew
        <4>2. NewAt(m, g.from, g.n)'
          BY <1>2, <1>9, <4>1
        <4>3. ASSUME NEW j \in DOMAIN chan'[p], i < j, g.from = chan'[p][j].from
              PROVE  g.n < chan'[p][j].n
          <5>1. CASE j \in DOMAIN h /\ chan'[m][j] = h[j]
            BY <1>2, <1>10, <2>2, <3>2, <4>3, <5>1 DEF OrderInv, LinkNew
          <5>2. CASE chan'[m][j] = f
            BY <1>2, <1>11, <2>2, <3>2, <4>3, <5>2 DEF Below
          <5> QED
            BY <1>13, <2>2, <5>1, <5>2
        <4> QED
          BY <2>2, <3>1, <4>2, <4>3
      <3>3. CASE i = Len(h) + 1 /\ g = f
        <4>1. NewAt(m, g.from, g.n)'
          BY <1>2, <1>6, <1>9, <3>3
        <4>2. \A j \in DOMAIN chan'[p] : ~(i < j)
          BY <1>11, <1>12, <2>2, <3>3
        <4> QED
          BY <2>2, <3>1, <4>1, <4>2
      <3> QED
        BY <1>13, <2>2, <3>1, <3>2, <3>3
    <2> QED
      BY <2>1, <2>2
  <1> QED
    BY <1>14, <1>15, <1>16, <1>17, <1>18 DEF OrderInv

\* A frame reaches a user, a live link, or nobody: the order stays.
LEMMA OrderWriteFrame ==
  ASSUME BInv, OrderInv, NEW th \in Threads, NEW t \in Clients \cup Links, WriteFrame(th, t)
  PROVE  OrderInv'
  <1>1. CASE t \in Clients /\ t \in online
    BY <1>1, OrderUserReads
  <1>2. CASE IsLink(t) /\ Current(t)
    <2>1. t \in Links
      BY <1>2 DEF IsLink
    <2> QED
      BY <1>2, <2>1, OrderLinkQueues
  <1>3. CASE ~(t \in Clients /\ t \in online) /\ ~(IsLink(t) /\ Current(t))
    <2>1. /\ heard' = heard /\ chan' = chan /\ worker' = worker /\ gen' = gen /\ sent' = sent
          /\ registry' = registry
      BY <1>3 DEF WriteFrame, IsLink, net
    <2>2. \A u \in Threads : job'[u].targets \subseteq job[u].targets /\ job'[u].frame = job[u].frame
      BY DEF BInv, BridgeTypeOK, WriteFrame
    <2> QED
      BY <2>1, <2>2, OrderShrinks
  <1> QED
    BY <1>1, <1>2, <1>3

\* A new link is empty, and no thread holds it yet.
LEMMA OrderDial ==
  ASSUME BInv, OrderInv, NEW n \in Workers, Dial(n) PROVE OrderInv'
  <1> USE BridgeAssumption
  <1>1. n \in Nodes
    BY DEF Workers
  <1>2. sent' = sent /\ heard' = heard /\ job' = job /\ registry' = registry
    BY DEF Dial, net
  <1>3. /\ worker'[n] = "read" /\ gen'[n] = gen[n] + 1 /\ gen[n] \in Nat /\ chan'[n] = <<>>
        /\ \A m \in Nodes : m # n => worker'[m] = worker[m] /\ gen'[m] = gen[m] /\ chan'[m] = chan[m]
        /\ \A m \in Nodes : gen[m] \in Nat /\ gen[m] <= gen'[m]
    BY <1>1 DEF Dial, BInv, BridgeTypeOK
  <1>4. Numbered'
    BY <1>2, <1>3 DEF OrderInv, Numbered
  <1>5. \A l \in Links : l[1] \in Nodes /\ l[2] \in Nat
    BY DEF Links
  <1>6. GenKnown'
    <2>1. ASSUME NEW l \in Links, l[2] <= gen[l[1]] PROVE l[2] <= gen'[l[1]]
      BY <1>3, <1>5, <2>1
    <2>2. ASSUME NEW p \in Nodes, NEW l \in registry[p], IsLink(l) PROVE l[2] <= gen'[l[1]]
      <3>1. l \in Links
        BY <2>2 DEF BInv, BridgeTypeOK, IsLink
      <3> QED
        BY <2>1, <2>2, <3>1 DEF OrderInv, GenKnown
    <2>3. ASSUME NEW c \in Clients, NEW l \in job[c].targets, IsLink(l) PROVE l[2] <= gen'[l[1]]
      <3>1. l \in Links
        BY <2>3 DEF BInv, BridgeTypeOK, IsLink, Threads
      <3> QED
        BY <2>1, <2>3, <3>1 DEF OrderInv, GenKnown
    <2> QED
      BY <1>2, <2>2, <2>3 DEF GenKnown, IsLink
  <1>7. ASSUME NEW m \in Nodes, NEW c, NEW k, NewAt(m, c, k) PROVE NewAt(m, c, k)'
    BY <1>2, <1>7 DEF NewAt
  <1>8. HandlerNew'
    <2> SUFFICES ASSUME NEW c \in Clients, NEW t \in job[c].targets
                 PROVE  /\ t \in Clients => Below(heard[t], c, job[c].frame.n)
                        /\ IsLink(t) /\ Current(t)' =>
                             /\ NewAt(t[1], c, job[c].frame.n)'
                             /\ Below(chan'[t[1]], c, job[c].frame.n)
      BY <1>2 DEF HandlerNew, IsLink
    <2>1. /\ t \in Clients => Below(heard[t], c, job[c].frame.n)
          /\ IsLink(t) /\ Current(t) =>
               NewAt(t[1], c, job[c].frame.n) /\ Below(chan[t[1]], c, job[c].frame.n)
      BY DEF OrderInv, HandlerNew
    <2>2. ASSUME IsLink(t) PROVE t[1] \in Nodes /\ t[2] \in Nat /\ t[2] <= gen[t[1]]
      <3>1. t \in Links
        BY <2>2 DEF BInv, BridgeTypeOK, IsLink, Threads
      <3> QED
        BY <1>5, <2>2, <3>1 DEF OrderInv, GenKnown
    <2>3. IsLink(t) /\ Current(t)' => t[1] # n /\ Current(t)
      BY <1>3, <2>2 DEF Current
    <2>4. PICK k : k = job[c].frame.n
      OBVIOUS
    <2>5. IsLink(t) /\ Current(t)' => NewAt(t[1], c, k)'
      BY <1>7, <2>1, <2>2, <2>3, <2>4
    <2> QED
      BY <1>2, <1>3, <2>1, <2>2, <2>3, <2>4, <2>5
  <1>9. WorkerNew'
    BY <1>2 DEF OrderInv, WorkerNew
  <1>10. LinkNew'
    <2>1. \A m \in Nodes : \A i \in DOMAIN chan'[m] : chan'[m] = chan[m]
      BY <1>3
    <2> QED
      BY <1>7, <2>1 DEF OrderInv, LinkNew
  <1> QED
    BY <1>4, <1>6, <1>8, <1>9, <1>10 DEF OrderInv

\* The peer registers the link as it was dialed last.
LEMMA OrderPeerReadsJoin ==
  ASSUME BInv, OrderInv, NEW n \in Workers, PeerReadsJoin(n) PROVE OrderInv'
  <1> USE BridgeAssumption
  <1>1. /\ sent' = sent /\ heard' = heard /\ job' = job
        /\ worker' = worker /\ gen' = gen /\ chan' = chan
    BY DEF PeerReadsJoin, link
  <1>2. n \in Nodes /\ gen[n] \in Nat
    BY DEF Workers, BInv, BridgeTypeOK
  <1>3. \A p \in Nodes : \A l \in registry'[p] : l \in registry[p] \/ l = <<n, gen[n]>>
    BY DEF PeerReadsJoin, BInv, BridgeTypeOK
  <1>4. GenKnown'
    BY <1>1, <1>2, <1>3 DEF OrderInv, GenKnown, IsLink
  <1>5. Numbered' /\ WorkerNew'
    BY <1>1 DEF OrderInv, Numbered, WorkerNew
  <1>6. HandlerNew'
    BY <1>1 DEF OrderInv, HandlerNew, IsLink, Current, NewAt
  <1>7. LinkNew'
    BY <1>1 DEF OrderInv, LinkNew, NewAt
  <1> QED
    BY <1>4, <1>5, <1>6, <1>7 DEF OrderInv

\* A worker takes the oldest frame off its link: the rest of the link, and what
\* the sender's handler still holds for it, is newer.
LEMMA OrderRelay ==
  ASSUME BInv, OrderInv, NEW n \in Workers, Relay(n) PROVE OrderInv'
  <1> USE BridgeAssumption
  <1> DEFINE h == Head(chan[n])
             f == [h EXCEPT !.nick = RelayNick(n, @)]
             T == Targets(n, NoPeer, FALSE)
  <1>1. n \in Nodes /\ n \in Threads /\ n \notin Clients
    BY DEF Workers, Threads
  <1>2. chan[n] \in Seq(Frames) /\ chan[n] # <<>>
    BY <1>1 DEF BInv, BridgeTypeOK, Relay
  <1>3. h = chan[n][1] /\ 1 \in DOMAIN chan[n] /\ h \in Frames
    BY <1>2
  <1>4. h.from \in Clients /\ h.n \in Nat /\ f.from = h.from /\ f.n = h.n
    BY <1>3 DEF Frames
  <1>5. /\ sent' = sent /\ heard' = heard /\ worker' = worker /\ gen' = gen /\ registry' = registry
        /\ chan' = [chan EXCEPT ![n] = Tail(chan[n])]
        /\ job' = [job EXCEPT ![n] = [targets |-> T, frame |-> f]]
    BY DEF Relay, net
  <1>6. \A t \in T : t \in Clients /\ Home[t] = n
    BY <1>1, TargetsLocal DEF BInv
  <1> HIDE DEF T, f
  <1>7. /\ job'[n].targets = T /\ job'[n].frame = f
        /\ \A u \in Threads : u # n => job'[u] = job[u]
    BY <1>1, <1>5 DEF BInv, BridgeTypeOK
  <1>8. \A c \in Clients : job'[c] = job[c]
    BY <1>1, <1>7 DEF Threads
  <1>9. chan'[n] = Tail(chan[n]) /\ \A m \in Nodes : m # n => chan'[m] = chan[m]
    BY <1>1, <1>5 DEF BInv, BridgeTypeOK
  <1>10. \A i \in DOMAIN Tail(chan[n]) :
           /\ i + 1 \in DOMAIN chan[n] /\ Tail(chan[n])[i] = chan[n][i + 1]
           /\ i \in Nat /\ 1 < i + 1
    BY <1>2
  <1> HIDE DEF h
  <1>11. 1 <= h.n /\ h.n <= sent[h.from]
    BY <1>1, <1>3 DEF OrderInv, Numbered
  <1>12. NewAt(n, h.from, h.n)
    BY <1>1, <1>3 DEF OrderInv, LinkNew
  <1>13. ASSUME NEW m \in Nodes, NEW c, NEW k, NewAt(m, c, k), m = n /\ h.from = c => h.n < k
         PROVE  NewAt(m, c, k)'
    <2>1. \A d \in Clients : Home[d] = m => Below(heard'[d], c, k)
      BY <1>5, <1>13 DEF NewAt
    <2>2. job'[m].targets # {} /\ job'[m].frame.from = c => job'[m].frame.n < k
      BY <1>4, <1>7, <1>13 DEF NewAt, Threads
    <2> QED
      BY <2>1, <2>2 DEF NewAt
  <1>14. Numbered'
    <2>1. ASSUME NEW m \in Nodes, NEW i \in DOMAIN chan'[m]
          PROVE  1 <= chan'[m][i].n /\ chan'[m][i].n <= sent'[chan'[m][i].from]
      <3>1. CASE m # n
        BY <1>5, <1>9, <3>1 DEF OrderInv, Numbered
      <3>2. CASE m = n
        <4>1. i + 1 \in DOMAIN chan[n] /\ chan'[m][i] = chan[n][i + 1]
          BY <1>9, <1>10, <3>2
        <4> QED
          BY <1>1, <1>5, <4>1 DEF OrderInv, Numbered
      <3> QED
        BY <3>1, <3>2
    <2>2. ASSUME NEW th \in Threads, job'[th].targets # {}
          PROVE  1 <= job'[th].frame.n /\ job'[th].frame.n <= sent'[job'[th].frame.from]
      <3>1. CASE th = n
        BY <1>4, <1>5, <1>7, <1>11, <3>1
      <3>2. CASE th # n
        BY <1>5, <1>7, <2>2, <3>2 DEF OrderInv, Numbered
      <3> QED
        BY <3>1, <3>2
    <2> QED
      BY <1>5, <2>1, <2>2 DEF OrderInv, Numbered
  <1>15. GenKnown'
    BY <1>5, <1>8 DEF OrderInv, GenKnown, IsLink
  <1>16. HandlerNew'
    <2> SUFFICES ASSUME NEW c \in Clients, NEW t \in job[c].targets
                 PROVE  /\ t \in Clients => Below(heard[t], c, job[c].frame.n)
                        /\ IsLink(t) /\ Current(t) =>
                             /\ NewAt(t[1], c, job[c].frame.n)'
                             /\ Below(chan'[t[1]], c, job[c].frame.n)
      BY <1>5, <1>8 DEF HandlerNew, IsLink, Current
    <2>1. PICK k : k = job[c].frame.n
      OBVIOUS
    <2>2. /\ t \in Clients => Below(heard[t], c, k)
          /\ IsLink(t) /\ Current(t) => NewAt(t[1], c, k) /\ Below(chan[t[1]], c, k)
      BY <2>1 DEF OrderInv, HandlerNew
    <2>3. ASSUME IsLink(t), Current(t)
          PROVE  NewAt(t[1], c, k)' /\ Below(chan'[t[1]], c, k)
      <3>1. t[1] \in Nodes
        BY <2>3 DEF BInv, HandlerJobs, IsLink
      <3>2. t[1] = n /\ h.from = c => h.n < k
        BY <1>3, <2>2, <2>3 DEF Below
      <3>3. NewAt(t[1], c, k)'
        BY <1>13, <2>2, <2>3, <3>1, <3>2
      <3>4. Below(chan'[t[1]], c, k)
        <4>1. CASE t[1] # n
          BY <1>9, <2>2, <2>3, <3>1, <4>1
        <4>2. CASE t[1] = n
          <5>1. Below(chan[n], c, k) /\ chan'[t[1]] = Tail(chan[n])
            BY <1>9, <2>2, <2>3, <4>2
          <5> QED
            BY <1>10, <5>1 DEF Below
        <4> QED
          BY <4>1, <4>2
      <3> QED
        BY <3>3, <3>4
    <2> QED
      BY <1>8, <2>1, <2>2, <2>3
  <1>17. WorkerNew'
    <2> SUFFICES ASSUME NEW m \in Nodes, NEW t \in job'[m].targets
                 PROVE  Below(heard[t], job'[m].frame.from, job'[m].frame.n)
      BY <1>5 DEF WorkerNew
    <2>1. CASE m = n
      <3>1. t \in Clients /\ Home[t] = n
        BY <1>6, <1>7, <2>1
      <3>2. Below(heard[t], h.from, h.n)
        BY <1>12, <3>1 DEF NewAt
      <3> QED
        BY <1>4, <1>7, <2>1, <3>2
    <2>2. CASE m # n
      BY <1>7, <2>2 DEF OrderInv, WorkerNew, Threads
    <2> QED
      BY <2>1, <2>2
  <1>18. LinkNew'
    <2> SUFFICES ASSUME NEW m \in Nodes, NEW i \in DOMAIN chan'[m]
                 PROVE  /\ NewAt(m, chan[m][i].from, chan[m][i].n)'
                        /\ \A j \in DOMAIN chan'[m] :
                             i < j /\ chan'[m][i].from = chan'[m][j].from => chan'[m][i].n < chan'[m][j].n
      BY DEF LinkNew
    <2>1. PICK g : g = chan'[m][i]
      OBVIOUS
    <2>2. CASE m # n
      <3>1. chan'[m] = chan[m]
        BY <1>9, <2>2
      <3>2. NewAt(m, g.from, g.n)
        BY <2>1, <3>1 DEF OrderInv, LinkNew
      <3>3. NewAt(m, g.from, g.n)'
        BY <1>13, <2>2, <3>2
      <3> QED
        BY <2>1, <3>1, <3>3 DEF OrderInv, LinkNew
    <2>3. CASE m = n
      <3>1. i + 1 \in DOMAIN chan[n] /\ g = chan[n][i + 1] /\ 1 < i + 1
        BY <1>9, <1>10, <2>1, <2>3
      <3>2. NewAt(n, g.from, g.n) /\ (h.from = g.from => h.n < g.n)
        BY <1>1, <1>3, <3>1 DEF OrderInv, LinkNew
      <3>3. NewAt(n, g.from, g.n)'
        BY <1>1, <1>13, <3>2
      <3>4. ASSUME NEW j \in DOMAIN chan'[m], i < j, g.from = chan'[m][j].from
            PROVE  g.n < chan'[m][j].n
        <4>1. i \in Nat /\ j \in Nat /\ j + 1 \in DOMAIN chan[n] /\ chan'[m][j] = chan[n][j + 1]
          BY <1>9, <1>10, <2>3
        <4>2. i + 1 < j + 1
          BY <3>4, <4>1
        <4> QED
          BY <1>1, <3>1, <3>4, <4>1, <4>2 DEF OrderInv, LinkNew
      <3> QED
        BY <2>1, <2>3, <3>3, <3>4
    <2> QED
      BY <2>2, <2>3
  <1> QED
    BY <1>14, <1>15, <1>16, <1>17, <1>18 DEF OrderInv

\* The steps that only forget: a broadcast ends, a registry entry goes, a link
\* or a server is lost, a server starts again.
LEMMA OrderForgets ==
  ASSUME BInv, OrderInv,
         \/ \E th \in Threads : EndBroadcast(th)
         \/ \E n \in Workers : Redial(n) \/ LinkBreaks(n)
         \/ \E p \in Nodes : Crash(p) \/ RestartNode(p) \/ \E l \in Links : PeerDropsLink(p, l)
         \/ UNCHANGED vars
  PROVE  OrderInv'
  <1> USE BridgeAssumption
  <1>1. sent' = sent /\ heard' = heard /\ gen' = gen
    BY DEF EndBroadcast, Redial, LinkBreaks, Crash, RestartNode, PeerDropsLink, vars, net, link
  <1>2. \A m \in Nodes : worker'[m] = "read" => worker[m] = "read"
    BY DEF EndBroadcast, Redial, LinkBreaks, Crash, RestartNode, PeerDropsLink, vars, net, link,
           BInv, BridgeTypeOK, Workers
  <1>3. \A p \in Nodes : registry'[p] \subseteq registry[p]
    BY DEF EndBroadcast, Redial, LinkBreaks, Crash, RestartNode, PeerDropsLink, vars, net, link,
           BInv, BridgeTypeOK
  <1>4. \A th \in Threads : /\ job'[th].targets \subseteq job[th].targets
                            /\ job'[th].targets # {} => job'[th].frame = job[th].frame
    <2>1. ASSUME NEW u \in Threads, EndBroadcast(u) PROVE <1>4!:
      BY <2>1 DEF EndBroadcast, BInv, BridgeTypeOK, NoJob
    <2>2. ASSUME NEW p \in Nodes, Crash(p) PROVE <1>4!:
      BY <2>2 DEF Crash, NoJob
    <2>3. CASE job' = job
      BY <2>3
    <2> QED
      BY <2>1, <2>2, <2>3 DEF Redial, LinkBreaks, RestartNode, PeerDropsLink, vars
  <1>5. ASSUME NEW m \in Nodes, NEW k \in Nat, NEW i \in DOMAIN Arrived(m, k)
        PROVE  i \in DOMAIN chan[m] /\ Arrived(m, k)[i] = chan[m][i]
    <2>1. PICK c \in Seq(Frames) : c = chan[m]
      BY DEF BInv, BridgeTypeOK
    <2>2. CASE k < Len(c)
      <3>1. Arrived(m, k) = SubSeq(c, 1, k)
        BY <2>1, <2>2 DEF Arrived
      <3> QED
        BY <2>1, <2>2, <3>1
    <2>3. CASE ~(k < Len(c))
      <3>1. Arrived(m, k) = SubSeq(c, 1, Len(c))
        BY <2>1, <2>3 DEF Arrived
      <3> QED
        BY <2>1, <3>1
    <2> QED
      BY <2>2, <2>3
  <1>6. ASSUME NEW m \in Nodes
        PROVE  \/ chan'[m] = chan[m] \/ chan'[m] = <<>>
               \/ \E k \in Nat : chan'[m] = Arrived(m, k)
    <2>1. CASE \E n \in Workers : LinkBreaks(n)
      <3>1. PICK n \in Workers : LinkBreaks(n)
        BY <2>1
      <3>2. PICK k \in 0..Len(chan[n]) : chan' = [chan EXCEPT ![n] = Arrived(n, k)]
        BY <3>1 DEF LinkBreaks
      <3>3. n \in Nodes /\ k \in Nat
        BY DEF Workers, BInv, BridgeTypeOK
      <3> QED
        BY <3>2, <3>3 DEF BInv, BridgeTypeOK
    <2>2. CASE \E p \in Nodes : Crash(p)
      <3>1. PICK p \in Nodes : Crash(p)
        BY <2>2
      <3>2. PICK k \in 0..Cardinality(Clients) :
              chan' = [n \in Nodes |-> IF n = p THEN <<>>
                                       ELSE IF Peer[n] = p THEN Arrived(n, k) ELSE chan[n]]
        BY <3>1 DEF Crash
      <3>3. k \in Nat
        OBVIOUS
      <3> QED
        BY <3>2, <3>3
    <2>3. CASE chan' = chan
      BY <2>3
    <2> QED
      BY <2>1, <2>2, <2>3 DEF EndBroadcast, Redial, RestartNode, PeerDropsLink, vars, link
  <1>7. \A m \in Nodes : \A i \in DOMAIN chan'[m] : i \in DOMAIN chan[m] /\ chan'[m][i] = chan[m][i]
    BY <1>5, <1>6
  <1> QED
    BY <1>1, <1>2, <1>3, <1>4, <1>7, OrderShrinks

\* Along the way of a message everything is in order, in every reachable state.
THEOREM BridgeInOrder == Spec => [](BInv /\ OrderInv)
  <1>1. BInv /\ OrderInv /\ [Next]_vars => OrderInv'
    <2> SUFFICES ASSUME BInv, OrderInv, [Next]_vars PROVE OrderInv'
      OBVIOUS
    <2>1. CASE \E c \in Clients : LocalMsg(c)
      BY <2>1, OrderLocalMsg
    <2>2. CASE \E th \in Threads : \E t \in Clients \cup Links : WriteFrame(th, t)
      BY <2>2, OrderWriteFrame
    <2>3. CASE \E n \in Workers : Dial(n)
      BY <2>3, OrderDial
    <2>4. CASE \E n \in Workers : PeerReadsJoin(n)
      BY <2>4, OrderPeerReadsJoin
    <2>5. CASE \E n \in Workers : Relay(n)
      BY <2>5, OrderRelay
    <2>6. CASE \/ \E th \in Threads : EndBroadcast(th)
               \/ \E n \in Workers : Redial(n) \/ LinkBreaks(n)
               \/ \E p \in Nodes : Crash(p) \/ RestartNode(p) \/ \E l \in Links : PeerDropsLink(p, l)
               \/ UNCHANGED vars
      BY <2>6, OrderForgets
    <2> QED
      BY <2>1, <2>2, <2>3, <2>4, <2>5, <2>6 DEF Next, Thread
  <1> QED
    BY <1>1, BridgeInvariant, OrderInit, PTL DEF Spec

\* A set of numbers below a bound, when it has any, has a greatest one.
LEMMA GreatestBelow ==
  ASSUME NEW b \in Nat, NEW S \in SUBSET Nat, S # {}, \A k \in S : k < b
  PROVE  \E k \in S : \A j \in S : j <= k
  <1> DEFINE D == {b - k : k \in S}
  <1>1. D \subseteq Nat
    OBVIOUS
  <1>2. D # {}
    OBVIOUS
  <1> HIDE DEF D
  <1>3. PICK x \in D : \A y \in D : ~(<<y, x>> \in OpToRel(<, Nat))
    BY <1>1, <1>2, NatLessThanWellFounded, WFMin
  <1>4. \A y \in D : x <= y
    <2> SUFFICES ASSUME NEW y \in D, y < x PROVE FALSE
      BY <1>1
    <2>1. <<y, x>> \in OpToRel(<, Nat)
      BY <1>1 DEF OpToRel
    <2> QED
      BY <1>3, <2>1
  <1>5. PICK k \in S : x = b - k
    BY DEF D
  <1>6. ASSUME NEW j \in S PROVE j <= k
    <2>1. b - k <= b - j
      BY <1>4, <1>5 DEF D
    <2> QED
      BY <2>1
  <1> QED
    BY <1>6

\* What d is about to hear of c is newer than the last it heard.
LEMMA LastHeardBelow ==
  ASSUME BInv, NEW d \in Clients, NEW c \in Clients, NEW k \in Nat, 1 <= k,
         Below(heard[d], c, k)
  PROVE  Room!LastHeard(d, c) \in Nat /\ Room!LastHeard(d, c) < k
  <1> DEFINE ns == {heard[d][i].n : i \in {j \in DOMAIN heard[d] : heard[d][j].from = c}}
  <1>1. ns \in SUBSET Nat
    <2>1. \A i \in DOMAIN heard[d] : heard[d][i] \in Frames
      BY DEF BInv, BridgeTypeOK
    <2>2. \A f \in Frames : f.n \in Nat
      BY DEF Frames
    <2> QED
      BY <2>1, <2>2
  <1>2. \A x \in ns : x < k
    BY DEF Below
  <1>3. Room!LastHeard(d, c) = IF ns = {} THEN 0 ELSE CHOOSE x \in ns : \A m \in ns : m <= x
    BY DEF Room!LastHeard
  <1> HIDE DEF ns
  <1>4. CASE ns # {}
    <2>1. \E x \in ns : \A m \in ns : m <= x
      BY <1>1, <1>2, <1>4, GreatestBelow
    <2>2. Room!LastHeard(d, c) \in ns
      BY <1>3, <1>4, <2>1
    <2> QED
      BY <1>1, <1>2, <2>2
  <1> QED
    BY <1>3, <1>4

\* A frame that a user reads is a Hear of the room.
LEMMA ReadIsHear ==
  ASSUME BInv, OrderInv, NEW th \in Threads, NEW d \in Clients, WriteFrame(th, d), d \in online
  PROVE  Room!Next
  <1> USE BridgeAssumption
  <1>1. d \in job[th].targets
    BY DEF WriteFrame
  <1>2. PICK f, c, k : f = job[th].frame /\ c = f.from /\ k = f.n
    OBVIOUS
  <1>3. /\ f \in Frames /\ c \in Clients /\ k \in Nat
        /\ th \in Clients => c = th /\ Home[d] = Home[th]
        /\ th \in Nodes => Home[d] = th /\ Home[c] = Peer[th]
    BY <1>1, <1>2, WhoWrites
  <1>4. th \in Clients \/ th \in Nodes
    BY DEF Threads
  <1>5. c # d /\ f.nick = NameOf(c, d)
    <2>1. CASE th \in Clients
      <3>1. d # th /\ f.nick = Bare(th)
        BY <1>1, <1>2, <2>1 DEF BInv, HandlerJobs
      <3> QED
        BY <1>3, <2>1, <3>1 DEF Bare, NameOf
    <2>2. CASE th \in Nodes
      <3>1. f.nick = WorkerName(th, c)
        BY <1>1, <1>2, <2>2 DEF BInv, WorkerJobs
      <3> QED
        BY <1>3, <2>2, <3>1 DEF WorkerName, NameOf
    <2> QED
      BY <1>4, <2>1, <2>2
  <1>6. f = [from |-> c, n |-> k, nick |-> NameOf(c, d)]
    <2>1. f = [from |-> f.from, n |-> f.n, nick |-> f.nick]
      BY <1>3 DEF Frames
    <2> QED
      BY <1>2, <1>5, <2>1
  <1>7. 1 <= k /\ k <= sent[c] /\ sent[c] \in Nat
    BY <1>1, <1>2, <1>3 DEF OrderInv, Numbered, BInv, BridgeTypeOK
  <1>8. Below(heard[d], c, k)
    BY <1>1, <1>2, <1>3, <1>4 DEF OrderInv, HandlerNew, WorkerNew
  <1>9. k \in (Room!LastHeard(d, c) + 1)..sent[c]
    BY <1>3, <1>7, <1>8, LastHeardBelow
  <1>10. heard' = [heard EXCEPT ![d] = Append(@, f)] /\ sent' = sent
    BY <1>2 DEF WriteFrame, IsLink
  <1>11. Room!Hear(d, c)
    BY <1>5, <1>6, <1>9, <1>10 DEF Room!Hear
  <1> QED
    BY <1>3, <1>11 DEF Room!Next

\* Every step of the bridged servers is a step of the room or leaves it alone.
LEMMA StepIsRoomStep ==
  ASSUME BInv, OrderInv, [Next]_vars PROVE [Room!Next]_<<sent, heard>>
  <1>1. CASE \E c \in Clients : LocalMsg(c)
    <2>1. PICK c \in Clients : LocalMsg(c)
      BY <1>1
    <2>2. Room!Post(c)
      BY <2>1 DEF LocalMsg, Room!Post
    <2> QED
      BY <2>2 DEF Room!Next
  <1>2. CASE \E th \in Threads : \E t \in Clients \cup Links : WriteFrame(th, t)
    <2>1. PICK th \in Threads, t \in Clients \cup Links : WriteFrame(th, t)
      BY <1>2
    <2>2. CASE t \in Clients /\ t \in online
      BY <2>1, <2>2, ReadIsHear
    <2>3. CASE ~(t \in Clients /\ t \in online)
      BY <2>1, <2>3 DEF WriteFrame, IsLink
    <2> QED
      BY <2>2, <2>3
  <1>3. CASE UNCHANGED <<sent, heard>>
    BY <1>3
  <1> QED
    BY <1>1, <1>2, <1>3 DEF Next, Thread, EndBroadcast, Dial, PeerReadsJoin, Relay, Redial,
       LinkBreaks, Crash, RestartNode, PeerDropsLink, vars

\* The bridged servers implement the room: whatever the peers are and however
\* often links break and servers crash, broadcast_deliver and bridge_worker let
\* a user hear each message at most once, each sender in order, rightly named.
THEOREM BridgeImplementsRoom == Spec => ImplementsRoom
  <1>1. Init => Room!Init
    BY DEF Init, Room!Init
  <1>2. BInv /\ OrderInv /\ [Next]_vars => [Room!Next]_<<sent, heard>>
    BY StepIsRoomStep
  <1> QED
    BY <1>1, <1>2, BridgeInOrder, PTL DEF Spec, ImplementsRoom, Room!Spec
=============================================================================
