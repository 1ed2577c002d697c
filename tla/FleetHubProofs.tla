--------------------------- MODULE FleetHubProofs ---------------------------
(***************************************************************************)
(* The Rust port of the fleet's chat server, for any set of connections,   *)
(* any descriptors and any bounds.  The three properties of its streams    *)
(* are proved together: that a write reaches the connection it was meant   *)
(* for rests on a broadcast keeping the descriptors of its targets open,   *)
(* that a frame stays whole on the write mutex being held from header to   *)
(* payload, and the order of a sender's messages on both.                  *)
(***************************************************************************)
EXTENDS FleetHub, TLAPS

\* Frames without the bound on their number.
Msgs == [kind : Kinds, from : Conns, n : Nat]

HubTypeOK ==
  /\ inbox \in [Conns -> Seq(Msgs)] /\ sentCount \in [Conns -> Nat]
  /\ out \in [Conns -> Seq([part : {"hdr", "pay"}, of : Msgs])] /\ reset \subseteq Conns
  /\ fdTable \in [Fds -> Conns \cup {None}] /\ fd \in [Conns -> Fds \cup {None}]
  /\ thread \in [Conns -> {"none", "first", "loop", "bcast", "remove", "close", "gone"}]
  /\ clients_ \subseteq Conns /\ targets \in [Conns -> SUBSET Conns]
  /\ current \in [Conns -> Conns \cup {None}] /\ wmu \in [Conns -> Conns \cup {None}]
  /\ msg \in [Conns -> Msgs \cup {NoMsg}]

\* A thread owns the descriptor it was started with until it closes it.
Descriptors ==
  \A c \in Conns :
    thread[c] \notin {"none", "gone"} => fd[c] \in Fds /\ fdTable[fd[c]] = c

Registry == \A c \in clients_ : thread[c] \in {"loop", "bcast", "remove"}

\* The targets of a broadcast are members, or were, whose descriptor is open.
Broadcasts ==
  \A c \in Conns :
    /\ thread[c] = "bcast" => msg[c] \in Msgs /\ msg[c].from = c
    /\ thread[c] # "bcast" => targets[c] = {}
    /\ \A t \in targets[c] : t # c /\ thread[t] \in {"loop", "bcast", "remove", "close"}
    /\ current[c] # None => current[c] \in targets[c]

Locks == \A c, t \in Conns : wmu[t] = c <=> current[c] = t

\* A stream whose peer still reads ends in half a frame exactly while the
\* broadcast that wrote the header holds its mutex.
Halves ==
  \A t \in Conns \ reset :
    /\ wmu[t] = None => Len(out[t]) % 2 = 0
    /\ wmu[t] # None => /\ Len(out[t]) % 2 = 1
                        /\ out[t][Len(out[t])] = [part |-> "hdr", of |-> msg[wmu[t]]]

\* The unread frames q of client s, which has sent b frames; all numbers of q are
\* above x.
QueueOK(q, s, b) ==
  /\ \A k \in DOMAIN q : q[k].from = s /\ q[k].n <= b
  /\ \A k, l \in DOMAIN q : k < l => q[k].n < q[l].n
Above(q, x) == \A k \in DOMAIN q : x < q[k].n

\* What a client has sent and the server has not read is newer than the message
\* its thread is handing out.
Queues ==
  \A s \in Conns :
    /\ QueueOK(inbox[s], s, sentCount[s])
    /\ thread[s] = "bcast" => msg[s].n <= sentCount[s] /\ Above(inbox[s], msg[s].n)

\* A piece p on the stream of t against the state of the thread of its sender s.
OldPiece(t, p, s) ==
  /\ p.of.n <= sentCount[s] /\ Above(inbox[s], p.of.n)
  /\ thread[s] = "bcast" => p.of.n <= msg[s].n
  /\ t \in targets[s] => p.of.n < msg[s].n \/ (current[s] = t /\ p.part = "hdr")

Delivered == \A t \in Conns : \A i \in DOMAIN out[t] : OldPiece(t, out[t][i], out[t][i].of.from)

\* The properties, stream by stream.
WholeFrames(o) ==
  \A i \in DOMAIN o : IF i % 2 = 1 THEN o[i].part = "hdr"
                      ELSE o[i] = [part |-> "pay", of |-> o[i - 1].of]
Foreign(o, c) == \A i \in DOMAIN o : o[i].of.from # c
InOrder(o) ==
  \A i, j \in DOMAIN o :
    (i < j /\ o[i].part = o[j].part /\ o[i].of.from = o[j].of.from) => o[i].of.n < o[j].of.n

StreamsOK ==
  \A c \in Conns :
    /\ WholeFrames(out[c]) /\ InOrder(out[c]) /\ Foreign(out[c], c)
    /\ out[c] # <<>> => thread[c] \notin {"none", "first"}

HubCore ==
  /\ HubTypeOK /\ Descriptors /\ Registry /\ Broadcasts /\ Locks /\ Halves /\ Queues
  /\ Delivered /\ StreamsOK

\* A connection that was not accepted has no thread.
NotAccepted ==
  /\ client \in [Conns -> {"out", "queued", "open", "closed"}]
  /\ \A c \in Conns : client[c] \in {"out", "queued"} => thread[c] = "none"

HubInv == HubCore /\ NotAccepted

-----------------------------------------------------------------------------
(* Sequences of frames and of pieces.                                       *)

\* What Append does, position by position.
LEMMA AppendIndex ==
  ASSUME NEW S, NEW s \in Seq(S), NEW x \in S
  PROVE  /\ Append(s, x) \in Seq(S)
         /\ Len(s) \in Nat /\ DOMAIN s = 1..Len(s)
         /\ Len(Append(s, x)) = Len(s) + 1
         /\ DOMAIN Append(s, x) = 1..(Len(s) + 1)
         /\ \A i \in DOMAIN s : Append(s, x)[i] = s[i]
         /\ Append(s, x)[Len(s) + 1] = x
         /\ \A i \in 1..(Len(s) + 1) : i \in DOMAIN s \/ i = Len(s) + 1
  OBVIOUS

\* The next frame a client sends has the next number.
LEMMA QueueAppend ==
  ASSUME NEW q \in Seq(Msgs), NEW s, NEW b \in Nat, NEW m \in Msgs, m.from = s, m.n = b + 1,
         QueueOK(q, s, b)
  PROVE  /\ QueueOK(Append(q, m), s, b + 1)
         /\ \A x \in Nat : x <= b /\ Above(q, x) => Above(Append(q, m), x)
<1>1. \A k \in DOMAIN q : q[k].n \in Nat
  <2>1. \A k \in DOMAIN q : q[k] \in Msgs
    OBVIOUS
  <2> QED
    BY <2>1 DEF Msgs
<1> DEFINE r == Append(q, m)
<1>2. /\ DOMAIN q = 1..Len(q) /\ Len(q) \in Nat /\ DOMAIN r = 1..(Len(q) + 1)
      /\ \A i \in DOMAIN q : r[i] = q[i]
      /\ r[Len(q) + 1] = m
      /\ \A i \in 1..(Len(q) + 1) : i \in DOMAIN q \/ i = Len(q) + 1
  BY AppendIndex
<1> HIDE DEF r
<1>3. QueueOK(r, s, b + 1)
  BY <1>1, <1>2 DEF QueueOK
<1>4. ASSUME NEW x \in Nat, x <= b, Above(q, x) PROVE Above(r, x)
  BY <1>1, <1>2, <1>4 DEF Above
<1> QED
  BY <1>3, <1>4 DEF r

\* The frame that is read is older than those behind it.
LEMMA QueueTail ==
  ASSUME NEW q \in Seq(Msgs), q # <<>>, NEW s, NEW b \in Nat, QueueOK(q, s, b)
  PROVE  /\ Tail(q) \in Seq(Msgs) /\ Head(q) \in Msgs
         /\ Head(q).from = s /\ Head(q).n <= b
         /\ QueueOK(Tail(q), s, b) /\ Above(Tail(q), Head(q).n)
         /\ \A x \in Nat : Above(q, x) => x < Head(q).n /\ Above(Tail(q), x)
<1>1. /\ Tail(q) \in Seq(Msgs) /\ Head(q) \in Msgs /\ Head(q) = q[1] /\ 1 \in DOMAIN q
      /\ \A k \in DOMAIN Tail(q) : k \in Nat /\ k + 1 \in DOMAIN q /\ Tail(q)[k] = q[k + 1] /\ k >= 1
  OBVIOUS
<1>2. QueueOK(Tail(q), s, b)
  BY <1>1 DEF QueueOK
<1>3. Above(Tail(q), Head(q).n)
  BY <1>1 DEF QueueOK, Above
<1> QED
  BY <1>1, <1>2, <1>3 DEF QueueOK, Above

Piece == [part : {"hdr", "pay"}, of : Msgs]

\* A header begins a frame on a stream of whole frames, a payload ends it.
LEMMA FrameBegins ==
  ASSUME NEW o \in Seq(Piece), WholeFrames(o), Len(o) % 2 = 0,
         NEW p \in Piece, p.part = "hdr"
  PROVE  /\ WholeFrames(Append(o, p)) /\ Len(Append(o, p)) % 2 = 1
         /\ Append(o, p)[Len(Append(o, p))] = p
<1> DEFINE r == Append(o, p)
<1>2. /\ DOMAIN o = 1..Len(o) /\ Len(o) \in Nat /\ DOMAIN r = 1..(Len(o) + 1)
      /\ Len(r) = Len(o) + 1
      /\ \A i \in DOMAIN o : r[i] = o[i]
      /\ r[Len(o) + 1] = p
      /\ \A i \in 1..(Len(o) + 1) : i \in DOMAIN o \/ i = Len(o) + 1
  BY AppendIndex
<1> HIDE DEF r
<1>3. Len(r) % 2 = 1
  BY <1>2
<1>4. ASSUME NEW i \in DOMAIN r
      PROVE  IF i % 2 = 1 THEN r[i].part = "hdr" ELSE r[i] = [part |-> "pay", of |-> r[i - 1].of]
  <2>1. CASE i = Len(o) + 1
    BY <1>2, <1>3, <2>1
  <2>2. CASE i \in DOMAIN o /\ i % 2 = 1
    BY <1>2, <2>2 DEF WholeFrames
  <2>3. CASE i \in DOMAIN o /\ i % 2 # 1
    <3>1. i - 1 \in DOMAIN o
      BY <1>2, <2>3
    <3> QED
      BY <1>2, <2>3, <3>1 DEF WholeFrames
  <2> QED
    BY <1>2, <2>1, <2>2, <2>3
<1> QED
  BY <1>2, <1>3, <1>4 DEF WholeFrames, r

\* The payload that follows its header completes the frame.
LEMMA FrameEnds ==
  ASSUME NEW o \in Seq(Piece), WholeFrames(o), Len(o) % 2 = 1,
         NEW p \in Piece, p.part = "pay", o[Len(o)].of = p.of
  PROVE  WholeFrames(Append(o, p)) /\ Len(Append(o, p)) % 2 = 0
<1> DEFINE r == Append(o, p)
<1>1. p = [part |-> "pay", of |-> p.of]
  BY DEF Piece
<1>3. /\ DOMAIN o = 1..Len(o) /\ Len(o) \in Nat /\ DOMAIN r = 1..(Len(o) + 1)
      /\ Len(r) = Len(o) + 1
      /\ \A i \in DOMAIN o : r[i] = o[i]
      /\ r[Len(o) + 1] = p
      /\ \A i \in 1..(Len(o) + 1) : i \in DOMAIN o \/ i = Len(o) + 1
  BY AppendIndex
<1> HIDE DEF r
<1>4. Len(r) % 2 = 0 /\ Len(o) \in DOMAIN o
  BY <1>3
<1>5. ASSUME NEW i \in DOMAIN r
      PROVE  IF i % 2 = 1 THEN r[i].part = "hdr" ELSE r[i] = [part |-> "pay", of |-> r[i - 1].of]
  <2>1. CASE i = Len(o) + 1
    <3>1. i - 1 = Len(o) /\ i % 2 # 1
      BY <1>3, <1>4, <2>1
    <3>2. r[i - 1].of = p.of /\ r[i] = p
      BY <1>3, <1>4, <2>1, <3>1
    <3> QED
      BY <1>1, <3>1, <3>2
  <2>2. CASE i \in DOMAIN o /\ i % 2 = 1
    BY <1>3, <2>2 DEF WholeFrames
  <2>3. CASE i \in DOMAIN o /\ i % 2 # 1
    <3>1. i - 1 \in DOMAIN o
      BY <1>3, <2>3
    <3> QED
      BY <1>3, <2>3, <3>1 DEF WholeFrames
  <2> QED
    BY <1>3, <2>1, <2>2, <2>3
<1> QED
  BY <1>3, <1>4, <1>5 DEF WholeFrames, r

\* A piece that is newer than every piece of its sender and its kind keeps the
\* order.
LEMMA OrderExtends ==
  ASSUME NEW o \in Seq(Piece), InOrder(o), NEW p \in Piece,
         \A i \in DOMAIN o : (o[i].part = p.part /\ o[i].of.from = p.of.from) => o[i].of.n < p.of.n
  PROVE  InOrder(Append(o, p))
<1> DEFINE r == Append(o, p)
<1>1. /\ DOMAIN o = 1..Len(o) /\ Len(o) \in Nat /\ DOMAIN r = 1..(Len(o) + 1)
      /\ \A i \in DOMAIN o : r[i] = o[i]
      /\ r[Len(o) + 1] = p
      /\ \A i \in 1..(Len(o) + 1) : i \in DOMAIN o \/ i = Len(o) + 1
  BY AppendIndex
<1> HIDE DEF r
<1>2. ASSUME NEW i \in DOMAIN r, NEW j \in DOMAIN r, i < j, r[i].part = r[j].part,
             r[i].of.from = r[j].of.from
      PROVE  r[i].of.n < r[j].of.n
  <2>1. i \in DOMAIN o
    BY <1>1, <1>2
  <2>2. CASE j \in DOMAIN o
    BY <1>1, <1>2, <2>1, <2>2 DEF InOrder
  <2>3. CASE j = Len(o) + 1
    BY <1>1, <1>2, <2>1, <2>3
  <2> QED
    BY <1>1, <2>2, <2>3
<1> QED
  BY <1>2 DEF InOrder, r

-----------------------------------------------------------------------------
(* What each part of the invariant depends on.                              *)

\* The parts of the invariant about descriptors, members, broadcasts and locks.
LEMMA KeepThreads ==
  ASSUME HubCore, UNCHANGED <<fdTable, fd, thread, clients_, targets, current, wmu, msg>>
  PROVE  Descriptors' /\ Registry' /\ Broadcasts' /\ Locks'
<1> USE DEF HubCore
<1>1. Descriptors' /\ Registry'
  BY DEF Descriptors, Registry
<1>2. Broadcasts' /\ Locks'
  BY DEF Broadcasts, Locks
<1> QED
  BY <1>1, <1>2

\* What the holder of a write mutex has begun stays begun.
LEMMA KeepHalves ==
  ASSUME HubCore, UNCHANGED <<out, reset, wmu>>,
         \A t \in Conns : wmu[t] # None => msg'[wmu[t]] = msg[wmu[t]]
  PROVE  Halves'
  BY DEF HubCore, Halves

\* What keeps the streams, and makes nobody a newcomer again.
LEMMA KeepStreams ==
  ASSUME HubCore, UNCHANGED out,
         \A c \in Conns : thread'[c] \in {"none", "first"} => thread[c] \in {"none", "first"}
  PROVE  StreamsOK'
  BY DEF HubCore, StreamsOK

\* The pieces on the streams have a sender and a number.
LEMMA PieceShape ==
  ASSUME HubTypeOK, NEW t \in Conns
  PROVE  /\ out[t] \in Seq(Piece)
         /\ \A i \in DOMAIN out[t] :
              /\ out[t][i] \in Piece /\ out[t][i].part \in {"hdr", "pay"} /\ out[t][i].of \in Msgs
              /\ out[t][i].of.from \in Conns /\ out[t][i].of.n \in Nat
<1>1. out[t] \in Seq(Piece)
  BY DEF HubTypeOK, Piece
<1>2. \A i \in DOMAIN out[t] : out[t][i] \in Piece
  BY <1>1
<1>3. \A p \in Piece : p.part \in {"hdr", "pay"} /\ p.of \in Msgs
  BY DEF Piece
<1>4. \A m \in Msgs : m.from \in Conns /\ m.n \in Nat
  BY DEF Msgs
<1> QED
  BY <1>1, <1>2, <1>3, <1>4, Zenon

\* Unread messages and counts have their types.
LEMMA QueueShape ==
  ASSUME HubTypeOK, NEW s \in Conns
  PROVE  inbox[s] \in Seq(Msgs) /\ sentCount[s] \in Nat
  BY DEF HubTypeOK

\* The message of a broadcast has its sender and a number.
LEMMA MsgShape ==
  ASSUME HubCore, NEW s \in Conns, thread[s] = "bcast"
  PROVE  msg[s] \in Msgs /\ msg[s].from = s /\ msg[s].n \in Nat
<1>1. msg[s] \in Msgs /\ msg[s].from = s
  BY DEF HubCore, Broadcasts
<1> QED
  BY <1>1 DEF Msgs

\* Every piece stays old when nothing about its sender changes for the worse.
LEMMA KeepDelivered ==
  ASSUME HubCore, UNCHANGED out,
         \A s \in Conns : \A x \in Nat :
           /\ x <= sentCount[s] => x <= sentCount'[s]
           /\ x <= sentCount[s] /\ Above(inbox[s], x) => Above(inbox'[s], x),
         \A s \in Conns :
           /\ thread'[s] = "bcast" => thread[s] = "bcast" /\ msg'[s] = msg[s]
           /\ \A t \in targets'[s] : /\ t \in targets[s] /\ msg'[s] = msg[s]
                                     /\ current[s] = t => current'[s] = t
  PROVE  Delivered'
<1> SUFFICES ASSUME NEW t \in Conns, NEW i \in DOMAIN out[t]
             PROVE  OldPiece(t, out[t][i], out[t][i].of.from)'
  BY DEF Delivered
<1>1. OldPiece(t, out[t][i], out[t][i].of.from)
  BY DEF HubCore, Delivered
<1>2. out[t][i].of.from \in Conns /\ out[t][i].of.n \in Nat
  BY PieceShape DEF HubCore
<1> QED
  BY <1>1, <1>2 DEF OldPiece

-----------------------------------------------------------------------------
(* The steps.                                                               *)

\* Nothing is connected, so nothing is owned, held or written.
LEMMA HubInitInv == Init => HubInv
<1> SUFFICES ASSUME Init PROVE HubInv
  OBVIOUS
<1>1. HubTypeOK
  BY DEF Init, HubTypeOK
<1>2. Descriptors /\ Registry /\ Broadcasts
  BY DEF Init, Descriptors, Registry, Broadcasts
<1>3. Locks
  BY HubAssumption DEF Init, Locks
<1>4. Halves /\ Queues
  BY DEF Init, Halves, Queues, QueueOK
<1>5. Delivered /\ StreamsOK
  BY DEF Init, Delivered, StreamsOK, WholeFrames, InOrder, Foreign
<1>6. NotAccepted
  BY DEF Init, NotAccepted
<1> QED
  BY <1>1, <1>2, <1>3, <1>4, <1>5, <1>6 DEF HubInv, HubCore

hubVars == <<inbox, sentCount, out, reset, fdTable, fd, thread, clients_, targets, current, wmu,
             msg>>

\* Connecting, closing the client's end, the signal and serve's return leave
\* what the invariant is about alone.
LEMMA HubQuiet ==
  ASSUME HubCore, UNCHANGED hubVars
  PROVE  HubCore'
<1> USE DEF HubCore, hubVars
<1>1. HubTypeOK'
  BY DEF HubTypeOK
<1>2. Descriptors' /\ Registry' /\ Broadcasts' /\ Locks'
  BY KeepThreads
<1>3. Halves' /\ StreamsOK'
  BY KeepHalves, KeepStreams
<1>4. Queues'
  BY DEF Queues
<1>5. Delivered'
  BY KeepDelivered
<1> QED
  BY <1>1, <1>2, <1>3, <1>4, <1>5

\* The numbers of a client's frames grow.
LEMMA HubSends ==
  ASSUME HubCore, NEW c \in Conns, ClientSends(c)
  PROVE  HubCore'
<1> USE DEF HubCore
<1>1. PICK k \in Kinds :
        inbox' = [inbox EXCEPT ![c] = Append(@, [kind |-> k, from |-> c, n |-> sentCount'[c]])]
  BY DEF ClientSends
<1>2. sentCount' = [sentCount EXCEPT ![c] = @ + 1]
  BY DEF ClientSends
<1>3. UNCHANGED <<out, reset, fdTable, fd, thread, clients_, targets, current, wmu, msg>>
  BY DEF ClientSends, bcast
<1> DEFINE m == [kind |-> k, from |-> c, n |-> sentCount[c] + 1]
<1>4. sentCount'[c] = sentCount[c] + 1 /\ sentCount[c] \in Nat
      /\ inbox[c] \in Seq(Msgs)
  BY <1>2 DEF HubTypeOK
<1>5. m \in Msgs /\ m.from = c /\ m.n = sentCount[c] + 1
  BY <1>4 DEF Msgs
<1>6. inbox' = [inbox EXCEPT ![c] = Append(@, m)]
  BY <1>1, <1>4
<1> HIDE DEF m
<1>7. inbox'[c] = Append(inbox[c], m)
      /\ \A s \in Conns : s # c => inbox'[s] = inbox[s] /\ sentCount'[s] = sentCount[s]
  BY <1>2, <1>6 DEF HubTypeOK
<1>8. /\ QueueOK(inbox'[c], c, sentCount'[c])
      /\ \A x \in Nat : x <= sentCount[c] /\ Above(inbox[c], x) => Above(inbox'[c], x)
  <2>1. QueueOK(inbox[c], c, sentCount[c])
    BY DEF Queues
  <2> QED
    BY <1>4, <1>5, <1>7, <2>1, QueueAppend
<1>9. HubTypeOK'
  <2>1. inbox' \in [Conns -> Seq(Msgs)]
    BY <1>4, <1>5, <1>6 DEF HubTypeOK
  <2>2. sentCount' \in [Conns -> Nat]
    BY <1>2 DEF HubTypeOK
  <2> QED
    BY <1>3, <2>1, <2>2 DEF HubTypeOK
<1>10. Descriptors' /\ Registry' /\ Broadcasts' /\ Locks' /\ Halves' /\ StreamsOK'
  BY <1>3, KeepThreads, KeepHalves, KeepStreams
<1>11. Queues'
  <2> SUFFICES ASSUME NEW s \in Conns
               PROVE  /\ QueueOK(inbox'[s], s, sentCount'[s])
                      /\ thread[s] = "bcast" =>
                            msg[s].n <= sentCount'[s] /\ Above(inbox'[s], msg[s].n)
    BY <1>3 DEF Queues
  <2>1. CASE s # c
    BY <1>7, <2>1 DEF Queues
  <2>2. CASE s = c
    BY <1>4, <1>8, <2>2, MsgShape DEF Queues
  <2> QED
    BY <2>1, <2>2
<1>12. Delivered'
  <2>1. \A s \in Conns : \A x \in Nat :
          /\ x <= sentCount[s] => x <= sentCount'[s]
          /\ x <= sentCount[s] /\ Above(inbox[s], x) => Above(inbox'[s], x)
    <3> SUFFICES ASSUME NEW s \in Conns, NEW x \in Nat, x <= sentCount[s]
                 PROVE  /\ x <= sentCount'[s]
                        /\ Above(inbox[s], x) => Above(inbox'[s], x)
      OBVIOUS
    <3>1. CASE s = c
      BY <1>4, <1>8, <3>1
    <3>2. CASE s # c
      BY <1>7, <3>2
    <3> QED
      BY <3>1, <3>2
  <2> QED
    BY <1>3, <2>1, KeepDelivered
<1> QED
  BY <1>9, <1>10, <1>11, <1>12

\* A new thread owns a descriptor that was free.
LEMMA HubAccept ==
  ASSUME HubCore, NEW c \in Conns, thread[c] = "none", Accept(c)
  PROVE  HubCore'
<1> USE DEF HubCore
<1>1. PICK f \in FreeFds : fdTable' = [fdTable EXCEPT ![f] = c] /\ fd' = [fd EXCEPT ![c] = f]
  BY DEF Accept
<1>2. thread' = [thread EXCEPT ![c] = "first"]
      /\ UNCHANGED <<inbox, sentCount, out, reset, clients_, targets, current, wmu, msg>>
  BY DEF Accept, bcast
<1>3. f \in Fds /\ fdTable[f] = None
  BY <1>1 DEF FreeFds
<1>4. thread'[c] = "first" /\ \A d \in Conns : d # c => thread'[d] = thread[d]
  BY <1>2 DEF HubTypeOK
<1>5. HubTypeOK'
  BY <1>1, <1>2, <1>3 DEF HubTypeOK
<1>6. Descriptors'
  <2>1. fd'[c] = f /\ fdTable'[f] = c
    BY <1>1, <1>3 DEF HubTypeOK
  <2>2. ASSUME NEW d \in Conns, d # c, thread'[d] \notin {"none", "gone"}
        PROVE  fd'[d] \in Fds /\ fdTable'[fd'[d]] = d
    <3>1. fd[d] \in Fds /\ fdTable[fd[d]] = d /\ d # None
      BY <1>4, <2>2, HubAssumption DEF Descriptors
    <3>2. fd'[d] = fd[d] /\ fd[d] # f
      BY <1>1, <1>3, <2>2, <3>1 DEF HubTypeOK
    <3> QED
      BY <1>1, <1>3, <3>1, <3>2 DEF HubTypeOK
  <2> QED
    BY <1>3, <2>1, <2>2 DEF Descriptors
<1>7. Registry' /\ Broadcasts' /\ Locks'
  <2>1. Registry' /\ Locks'
    BY <1>2, <1>4 DEF Registry, Locks, HubTypeOK
  <2>2. Broadcasts'
    BY <1>2, <1>4 DEF Broadcasts, HubTypeOK
  <2> QED
    BY <2>1, <2>2
<1>8. Halves' /\ StreamsOK'
  BY <1>2, <1>4, KeepHalves, KeepStreams
<1>9. Queues' /\ Delivered'
  BY <1>2, <1>4, KeepDelivered DEF Queues
<1> QED
  BY <1>5, <1>6, <1>7, <1>8, <1>9

\* A frame is taken off the queue: JOIN, or one that is skipped.
LEMMA HubReads ==
  ASSUME HubCore, NEW c \in Conns, ReadJoin(c) \/ SkipFrame(c)
  PROVE  HubCore'
<1> USE DEF HubCore
<1>1. /\ inbox[c] # <<>> /\ inbox' = [inbox EXCEPT ![c] = Tail(@)]
      /\ thread[c] \in {"first", "loop"} /\ thread' = [thread EXCEPT ![c] = "loop"]
      /\ clients_' \in {clients_, clients_ \cup {c}}
      /\ UNCHANGED <<sentCount, out, reset, fdTable, fd, targets, current, wmu, msg>>
  BY DEF ReadJoin, SkipFrame, Goto, bcast, HubTypeOK
<1>2. inbox[c] \in Seq(Msgs) /\ sentCount[c] \in Nat /\ QueueOK(inbox[c], c, sentCount[c])
  BY QueueShape DEF Queues
<1>3. /\ Tail(inbox[c]) \in Seq(Msgs) /\ QueueOK(Tail(inbox[c]), c, sentCount[c])
      /\ \A x \in Nat : Above(inbox[c], x) => Above(Tail(inbox[c]), x)
  BY <1>1, <1>2, QueueTail
<1>4. inbox'[c] = Tail(inbox[c]) /\ \A s \in Conns : s # c => inbox'[s] = inbox[s]
  BY <1>1 DEF HubTypeOK
<1>5. thread'[c] = "loop" /\ \A d \in Conns : d # c => thread'[d] = thread[d]
  BY <1>1 DEF HubTypeOK
<1>6. HubTypeOK'
  <2>1. inbox' \in [Conns -> Seq(Msgs)]
    BY <1>1, <1>3 DEF HubTypeOK
  <2>2. /\ clients_' \subseteq Conns
        /\ thread' \in [Conns -> {"none", "first", "loop", "bcast", "remove", "close", "gone"}]
    BY <1>1 DEF HubTypeOK
  <2> QED
    BY <1>1, <2>1, <2>2 DEF HubTypeOK
<1>7. Descriptors' /\ Locks'
  BY <1>1, <1>5 DEF Descriptors, Locks
<1>8. Registry'
  BY <1>1, <1>5 DEF Registry, HubTypeOK
<1>9. Broadcasts'
  BY <1>1, <1>5 DEF Broadcasts, HubTypeOK
<1>10. Halves' /\ StreamsOK'
  BY <1>1, <1>5, KeepHalves, KeepStreams
<1>11. Queues'
  BY <1>1, <1>3, <1>4, <1>5 DEF Queues
<1>12. Delivered'
  BY <1>1, <1>3, <1>4, <1>5, KeepDelivered
<1> QED
  BY <1>6, <1>7, <1>8, <1>9, <1>10, <1>11, <1>12

\* A MSG becomes the message of a broadcast to the other members.
LEMMA HubReadMsg ==
  ASSUME HubCore, NEW c \in Conns, ReadMsg(c)
  PROVE  HubCore'
<1> USE DEF HubCore
<1>1. /\ inbox[c] # <<>> /\ inbox' = [inbox EXCEPT ![c] = Tail(@)]
      /\ thread[c] = "loop" /\ thread' = [thread EXCEPT ![c] = "bcast"]
      /\ targets' = [targets EXCEPT ![c] = clients_ \ {c}]
      /\ msg' = [msg EXCEPT ![c] = Head(inbox[c])]
      /\ UNCHANGED <<sentCount, out, reset, fdTable, fd, clients_, current, wmu>>
  BY DEF ReadMsg, Goto
<1>2. inbox[c] \in Seq(Msgs) /\ sentCount[c] \in Nat /\ QueueOK(inbox[c], c, sentCount[c])
  BY QueueShape DEF Queues
<1> DEFINE h == Head(inbox[c])
<1>3. /\ Tail(inbox[c]) \in Seq(Msgs) /\ QueueOK(Tail(inbox[c]), c, sentCount[c])
      /\ h \in Msgs /\ h.from = c /\ h.n <= sentCount[c] /\ Above(Tail(inbox[c]), h.n)
      /\ \A x \in Nat : Above(inbox[c], x) => x < h.n /\ Above(Tail(inbox[c]), x)
  BY <1>1, <1>2, QueueTail
<1> HIDE DEF h
<1>4. inbox'[c] = Tail(inbox[c]) /\ \A s \in Conns : s # c => inbox'[s] = inbox[s]
  BY <1>1 DEF HubTypeOK
<1>5. thread'[c] = "bcast" /\ \A d \in Conns : d # c => thread'[d] = thread[d]
  BY <1>1 DEF HubTypeOK
<1>6. msg'[c] = h /\ \A d \in Conns : d # c => msg'[d] = msg[d]
  BY <1>1 DEF HubTypeOK, h
<1>7. targets'[c] = clients_ \ {c} /\ \A d \in Conns : d # c => targets'[d] = targets[d]
  BY <1>1 DEF HubTypeOK
<1>8. targets[c] = {} /\ current[c] = None
  BY <1>1 DEF Broadcasts, HubTypeOK
<1>9. HubTypeOK'
  <2>1. inbox' \in [Conns -> Seq(Msgs)]
    BY <1>1, <1>3 DEF HubTypeOK
  <2>2. /\ targets' \in [Conns -> SUBSET Conns]
        /\ thread' \in [Conns -> {"none", "first", "loop", "bcast", "remove", "close", "gone"}]
    BY <1>1 DEF HubTypeOK
  <2>3. msg' \in [Conns -> Msgs \cup {NoMsg}]
    BY <1>1, <1>3 DEF HubTypeOK, h
  <2> QED
    BY <1>1, <2>1, <2>2, <2>3 DEF HubTypeOK
<1>10. Descriptors' /\ Locks'
  BY <1>1, <1>5 DEF Descriptors, Locks
<1>11. Registry'
  BY <1>1, <1>5 DEF Registry, HubTypeOK
<1>12. Broadcasts'
  <2> SUFFICES ASSUME NEW d \in Conns
               PROVE  /\ thread'[d] = "bcast" => msg'[d] \in Msgs /\ msg'[d].from = d
                      /\ thread'[d] # "bcast" => targets'[d] = {}
                      /\ \A t \in targets'[d] :
                            t # d /\ thread'[t] \in {"loop", "bcast", "remove", "close"}
                      /\ current[d] # None => current[d] \in targets'[d]
    BY <1>1 DEF Broadcasts
  <2>1. \A t \in Conns : thread[t] \in {"loop", "bcast", "remove", "close"}
                           => thread'[t] \in {"loop", "bcast", "remove", "close"}
    BY <1>5
  <2>2. CASE d = c
    BY <1>3, <1>5, <1>6, <1>7, <1>8, <2>1, <2>2 DEF Registry, HubTypeOK
  <2>3. CASE d # c
    BY <1>5, <1>6, <1>7, <2>1, <2>3 DEF Broadcasts, HubTypeOK
  <2> QED
    BY <2>2, <2>3
<1>13. \A t \in Conns : wmu[t] # c
  BY <1>8, HubAssumption DEF Locks
<1>14. Halves' /\ StreamsOK'
  <2>1. \A t \in Conns : wmu[t] # None => msg'[wmu[t]] = msg[wmu[t]]
    BY <1>6, <1>13 DEF HubTypeOK
  <2> QED
    BY <1>1, <1>5, <2>1, KeepHalves, KeepStreams
<1>15. Queues'
  BY <1>1, <1>3, <1>4, <1>5, <1>6 DEF Queues
<1>16. Delivered'
  <2> SUFFICES ASSUME NEW t \in Conns, NEW i \in DOMAIN out[t]
               PROVE  OldPiece(t, out[t][i], out[t][i].of.from)'
    BY <1>1 DEF Delivered
  <2>1. OldPiece(t, out[t][i], out[t][i].of.from)
    BY DEF Delivered
  <2>2. out[t][i].of.from \in Conns /\ out[t][i].of.n \in Nat
    BY PieceShape
  <2>3. CASE out[t][i].of.from = c
    <3>1. out[t][i].of.n < h.n /\ Above(inbox'[c], out[t][i].of.n)
      BY <1>3, <1>4, <2>1, <2>2, <2>3 DEF OldPiece
    <3>2. h.n \in Nat
      BY <1>3 DEF Msgs
    <3> QED
      BY <1>1, <1>6, <2>1, <2>2, <2>3, <3>1, <3>2 DEF OldPiece
  <2>4. CASE out[t][i].of.from # c
    <3>1. PICK s \in Conns : s = out[t][i].of.from /\ s # c
      BY <2>2, <2>4
    <3>2. /\ out'[t][i] = out[t][i] /\ inbox'[s] = inbox[s] /\ sentCount' = sentCount
          /\ thread'[s] = thread[s] /\ msg'[s] = msg[s] /\ targets'[s] = targets[s]
          /\ current'[s] = current[s]
      BY <1>1, <1>4, <1>5, <1>6, <1>7, <3>1
    <3> QED
      BY <2>1, <3>1, <3>2 DEF OldPiece
  <2> QED
    BY <2>3, <2>4
<1> QED
  BY <1>9, <1>10, <1>11, <1>12, <1>14, <1>15, <1>16

\* A thread gives up its connection, or ends its broadcast.
LEMMA HubMoves ==
  ASSUME HubCore, NEW c \in Conns,
         RejectFirst(c) \/ LeaveLoop(c) \/ EndBroadcast(c) \/ HubRemove(c)
  PROVE  HubCore'
<1> USE DEF HubCore
<1>1. /\ thread[c] \in {"first", "loop", "bcast", "remove"} /\ targets[c] = {}
      /\ thread' \in {[thread EXCEPT ![c] = "close"], [thread EXCEPT ![c] = "remove"],
                      [thread EXCEPT ![c] = "loop"]}
      /\ msg' \in {msg, [msg EXCEPT ![c] = NoMsg]}
      /\ UNCHANGED <<inbox, sentCount, out, reset, fdTable, fd, targets, current, wmu>>
  BY DEF RejectFirst, LeaveLoop, EndBroadcast, HubRemove, Goto, bcast, net, Broadcasts
<1>2. /\ thread'[c] \in {"close", "remove", "loop"}
      /\ \A d \in Conns : d # c => thread'[d] = thread[d] /\ msg'[d] = msg[d]
  BY <1>1 DEF HubTypeOK
<1>3. c \in clients_' => thread'[c] \in {"loop", "remove"}
  BY DEF RejectFirst, LeaveLoop, EndBroadcast, HubRemove, Goto, HubTypeOK, Registry
<1>4. clients_' \subseteq clients_
  BY DEF RejectFirst, LeaveLoop, EndBroadcast, HubRemove
<1>5. current[c] = None /\ \A t \in Conns : wmu[t] # c
  BY <1>1, HubAssumption DEF Broadcasts, Locks
<1>6. HubTypeOK'
  <2>1. thread' \in [Conns -> {"none", "first", "loop", "bcast", "remove", "close", "gone"}]
    BY <1>1 DEF HubTypeOK
  <2>2. msg' \in [Conns -> Msgs \cup {NoMsg}]
    BY <1>1 DEF HubTypeOK
  <2> QED
    BY <1>1, <1>4, <2>1, <2>2 DEF HubTypeOK
<1>7. Descriptors' /\ Locks'
  BY <1>1, <1>2 DEF Descriptors, Locks
<1>8. Registry'
  BY <1>2, <1>3, <1>4 DEF Registry, HubTypeOK
<1>9. Broadcasts'
  <2> SUFFICES ASSUME NEW d \in Conns
               PROVE  /\ thread'[d] = "bcast" => msg'[d] \in Msgs /\ msg'[d].from = d
                      /\ thread'[d] # "bcast" => targets[d] = {}
                      /\ \A t \in targets[d] :
                           t # d /\ thread'[t] \in {"loop", "bcast", "remove", "close"}
                      /\ current[d] # None => current[d] \in targets[d]
    BY <1>1 DEF Broadcasts
  <2>1. \A t \in targets[d] :
          t \in Conns /\ t # d /\ thread[t] \in {"loop", "bcast", "remove", "close"}
    BY DEF Broadcasts, HubTypeOK
  <2>2. \A t \in targets[d] : thread'[t] \in {"loop", "bcast", "remove", "close"}
    BY <1>2, <2>1
  <2> QED
    BY <1>1, <1>2, <2>1, <2>2 DEF Broadcasts
<1>10. Halves' /\ StreamsOK'
  <2>1. \A t \in Conns : wmu[t] # None => msg'[wmu[t]] = msg[wmu[t]]
    BY <1>2, <1>5 DEF HubTypeOK
  <2> QED
    BY <1>1, <1>2, <2>1, KeepHalves, KeepStreams
<1>11. Queues'
  BY <1>1, <1>2 DEF Queues
<1>12. Delivered'
  BY <1>1, <1>2, KeepDelivered
<1> QED
  BY <1>6, <1>7, <1>8, <1>9, <1>10, <1>11, <1>12

\* The descriptor closes when no broadcast holds the connection any more: this
\* is where the Rust port differs.
LEMMA HubClose ==
  ASSUME HubCore, Port = "rust", NEW c \in Conns, CloseFd(c)
  PROVE  HubCore'
<1> USE DEF HubCore
<1>1. /\ thread[c] = "close" /\ thread' = [thread EXCEPT ![c] = "gone"]
      /\ \A d \in Conns : c \notin targets[d]
      /\ fdTable' = [fdTable EXCEPT ![fd[c]] = None]
      /\ UNCHANGED <<inbox, sentCount, out, reset, fd, clients_, targets, current, wmu, msg>>
  BY DEF CloseFd, Goto, bcast, net
<1>2. thread'[c] = "gone" /\ \A d \in Conns : d # c => thread'[d] = thread[d]
  BY <1>1 DEF HubTypeOK
<1>3. fd[c] \in Fds /\ fdTable[fd[c]] = c
  BY <1>1 DEF Descriptors
<1>4. HubTypeOK'
  BY <1>1, <1>3 DEF HubTypeOK
<1>5. Descriptors'
  BY <1>1, <1>2, <1>3 DEF Descriptors, HubTypeOK
<1>6. Registry' /\ Locks'
  BY <1>1, <1>2 DEF Registry, Locks, HubTypeOK
<1>7. Broadcasts'
  BY <1>1, <1>2 DEF Broadcasts, HubTypeOK
<1>8. Halves' /\ StreamsOK'
  BY <1>1, <1>2, KeepHalves, KeepStreams
<1>9. Queues' /\ Delivered'
  BY <1>1, <1>2, KeepDelivered DEF Queues
<1> QED
  BY <1>4, <1>5, <1>6, <1>7, <1>8, <1>9

-----------------------------------------------------------------------------
(* The writes of a broadcast.                                               *)

\* A write to a target arrives at this target, or draws its RST.
LEMMA WriteHits ==
  ASSUME HubCore, NEW c \in Conns, NEW t \in targets[c], NEW p, Write(fd[t], p)
  PROVE  /\ t \in Conns /\ t # c /\ t \notin reset /\ thread[c] = "bcast"
         /\ \/ reset' = reset \cup {t} /\ out' = out
            \/ out' = [out EXCEPT ![t] = Append(@, p)] /\ reset' = reset
<1>1. t \in Conns /\ t # c /\ thread[t] \in {"loop", "bcast", "remove", "close"}
      /\ thread[c] = "bcast"
  BY DEF HubCore, Broadcasts, HubTypeOK
<1>2. fd[t] \in Fds /\ fdTable[fd[t]] = t
  BY <1>1 DEF HubCore, Descriptors
<1> QED
  BY <1>1, <1>2 DEF Write, Broken

\* One more piece p of the message of s at the end of the stream of t.
LEMMA StreamGrows ==
  ASSUME HubCore, NEW t \in Conns, NEW s \in Conns, t # s, thread[s] = "bcast", t \in targets[s],
         NEW p \in Piece, p.of = msg[s],
         p.part = "hdr" => current[s] # t,
         out' = [out EXCEPT ![t] = Append(@, p)],
         WholeFrames(Append(out[t], p)),
         UNCHANGED thread
  PROVE  /\ StreamsOK' /\ out' \in [Conns -> Seq(Piece)]
         /\ out'[t] = Append(out[t], p) /\ \A d \in Conns : d # t => out'[d] = out[d]
<1> USE DEF HubCore
<1>1. out \in [Conns -> Seq(Piece)]
  BY DEF HubTypeOK, Piece
<1>2. out'[t] = Append(out[t], p) /\ \A d \in Conns : d # t => out'[d] = out[d]
  BY <1>1
<1>3. out' \in [Conns -> Seq(Piece)]
  BY <1>1
<1>4. p.of.from = s /\ p.of.n = msg[s].n /\ p.of.n \in Nat
  BY MsgShape
<1>5. ASSUME NEW i \in DOMAIN out[t], out[t][i].part = p.part, out[t][i].of.from = s
      PROVE  out[t][i].of.n < p.of.n
  <2>1. OldPiece(t, out[t][i], s)
    BY <1>5 DEF Delivered
  <2> QED
    BY <1>4, <1>5, <2>1 DEF OldPiece
<1>6. out[t] \in Seq(Piece) /\ InOrder(out[t]) /\ Foreign(out[t], t)
  BY <1>1 DEF StreamsOK
<1>7. InOrder(Append(out[t], p))
  BY <1>4, <1>5, <1>6, OrderExtends
<1>8. Foreign(Append(out[t], p), t)
  <2>1. /\ DOMAIN Append(out[t], p) = 1..(Len(out[t]) + 1)
        /\ \A i \in DOMAIN out[t] : Append(out[t], p)[i] = out[t][i]
        /\ Append(out[t], p)[Len(out[t]) + 1] = p
        /\ \A i \in 1..(Len(out[t]) + 1) : i \in DOMAIN out[t] \/ i = Len(out[t]) + 1
    BY <1>6, AppendIndex
  <2> QED
    BY <1>4, <1>6, <2>1, Zenon DEF Foreign
<1>9. thread[t] \notin {"none", "first"}
  BY DEF Broadcasts
<1>10. StreamsOK'
  BY <1>2, <1>7, <1>8, <1>9 DEF StreamsOK
<1> QED
  BY <1>2, <1>3, <1>10

\* The header, under the mutex of the target.
LEMMA HubWriteHeader ==
  ASSUME HubCore, NEW c \in Conns, NEW t \in Conns, WriteHeader(c, t)
  PROVE  HubCore'
<1> USE DEF HubCore
<1> DEFINE p == [part |-> "hdr", of |-> msg[c]]
<1>1. /\ thread[c] = "bcast" /\ current[c] = None /\ t \in targets[c] /\ wmu[t] = None
      /\ wmu' = [wmu EXCEPT ![t] = c] /\ current' = [current EXCEPT ![c] = t]
      /\ Write(fd[t], p)
      /\ UNCHANGED <<inbox, sentCount, fdTable, thread, fd, clients_, targets, msg>>
  BY DEF WriteHeader, net
<1>2. /\ t # c /\ t \notin reset
      /\ \/ reset' = reset \cup {t} /\ out' = out
         \/ out' = [out EXCEPT ![t] = Append(@, p)] /\ reset' = reset
  BY <1>1, WriteHits
<1>3. msg[c] \in Msgs /\ msg[c].n \in Nat
  BY <1>1, MsgShape
<1>4. p \in Piece /\ p.part = "hdr" /\ p.of = msg[c]
  BY <1>3 DEF Piece
<1>5. wmu'[t] = c /\ \A d \in Conns : d # t => wmu'[d] = wmu[d]
  BY <1>1 DEF HubTypeOK
<1>6. current'[c] = t /\ \A d \in Conns : d # c => current'[d] = current[d]
  BY <1>1 DEF HubTypeOK
<1>7. /\ wmu' \in [Conns -> Conns \cup {None}] /\ current' \in [Conns -> Conns \cup {None}]
      /\ reset' \subseteq Conns
  BY <1>1, <1>2 DEF HubTypeOK
<1>8. None \notin Conns
  BY HubAssumption
<1>9. Descriptors' /\ Registry'
  BY <1>1 DEF Descriptors, Registry
<1>10. Broadcasts'
  BY <1>1, <1>6 DEF Broadcasts
<1>11. Locks'
  BY <1>1, <1>5, <1>6, <1>8 DEF Locks
<1>12. Queues'
  BY <1>1 DEF Queues
<1>13. CASE reset' = reset \cup {t} /\ out' = out
  <2>1. HubTypeOK'
    BY <1>1, <1>7, <1>13 DEF HubTypeOK
  <2>2. Halves'
    BY <1>1, <1>5, <1>13 DEF Halves
  <2>3. StreamsOK'
    BY <1>1, <1>13, KeepStreams
  <2>4. Delivered'
    <3>1. \A s \in Conns : \A d \in targets[s] : current[s] = d => current'[s] = d
      BY <1>1, <1>6, <1>8 DEF HubTypeOK
    <3> QED
      BY <1>1, <1>13, <3>1, KeepDelivered
  <2> QED
    BY <1>9, <1>10, <1>11, <1>12, <2>1, <2>2, <2>3, <2>4
<1>14. CASE out' = [out EXCEPT ![t] = Append(@, p)] /\ reset' = reset
  <2>1. out[t] \in Seq(Piece) /\ WholeFrames(out[t]) /\ Len(out[t]) % 2 = 0
    BY <1>1, <1>2, PieceShape DEF StreamsOK, Halves
  <2>2. /\ WholeFrames(Append(out[t], p)) /\ Len(Append(out[t], p)) % 2 = 1
        /\ Append(out[t], p)[Len(Append(out[t], p))] = p
    BY <1>4, <2>1, FrameBegins
  <2> HIDE DEF p
  <2>3. /\ StreamsOK' /\ out' \in [Conns -> Seq(Piece)]
        /\ out'[t] = Append(out[t], p) /\ \A d \in Conns : d # t => out'[d] = out[d]
    BY <1>1, <1>2, <1>4, <1>8, <1>14, <2>2, StreamGrows
  <2>4. HubTypeOK'
    BY <1>1, <1>7, <2>3 DEF HubTypeOK, Piece
  <2>5. Halves'
    <3> SUFFICES ASSUME NEW d \in Conns \ reset
                 PROVE  /\ wmu'[d] = None => Len(out'[d]) % 2 = 0
                        /\ wmu'[d] # None =>
                             /\ Len(out'[d]) % 2 = 1
                             /\ out'[d][Len(out'[d])] = [part |-> "hdr", of |-> msg[wmu'[d]]]
      BY <1>1, <1>14 DEF Halves
    <3>1. CASE d = t
      BY <1>5, <1>8, <2>2, <2>3, <3>1 DEF p
    <3>2. CASE d # t
      BY <1>5, <2>3, <3>2 DEF Halves
    <3> QED
      BY <3>1, <3>2
  <2>6. Delivered'
    <3> SUFFICES ASSUME NEW d \in Conns, NEW i \in DOMAIN out'[d], NEW q, q = out'[d][i]
                 PROVE  OldPiece(d, q, q.of.from)'
      BY DEF Delivered, OldPiece
    <3>1. CASE q = p /\ d = t
      <4>1. q.of = msg[c] /\ q.of.from = c /\ q.part = "hdr"
        BY <1>1, <1>4, <3>1, MsgShape
      <4> QED
        BY <1>1, <1>3, <1>6, <3>1, <4>1 DEF OldPiece, Queues
    <3>2. CASE i \in DOMAIN out[d] /\ q = out[d][i]
      <4>1. OldPiece(d, q, q.of.from) /\ q.of.from \in Conns
        BY <3>2, PieceShape DEF Delivered
      <4> QED
        BY <1>1, <1>6, <1>8, <4>1 DEF OldPiece
    <3>3. (q = p /\ d = t) \/ (i \in DOMAIN out[d] /\ q = out[d][i])
      <4>1. CASE d # t
        BY <2>3, <4>1
      <4>2. CASE d = t
        BY <1>4, <2>1, <2>3, <4>2, AppendIndex
      <4> QED
        BY <4>1, <4>2
    <3> QED
      BY <3>1, <3>2, <3>3
  <2> QED
    BY <1>9, <1>10, <1>11, <1>12, <2>3, <2>4, <2>5, <2>6
<1> QED
  BY <1>2, <1>13, <1>14

\* The end of the loop body frees the mutex, if this broadcast has it, and moves
\* on; no piece that is out becomes newer by it.
LEMMA Released ==
  ASSUME HubCore, NEW c \in Conns, NEW t \in Conns, thread[c] = "bcast", t \in targets[c],
         current[c] = t \/ (current[c] = None /\ wmu[t] = None), ReleaseTarget(c, t),
         UNCHANGED <<inbox, sentCount, fdTable, thread, fd, clients_, msg>>
  PROVE  /\ wmu' \in [Conns -> Conns \cup {None}] /\ current' \in [Conns -> Conns \cup {None}]
         /\ targets' \in [Conns -> SUBSET Conns]
         /\ wmu'[t] = None /\ \A d \in Conns : d # t => wmu'[d] = wmu[d]
         /\ Descriptors' /\ Registry' /\ Broadcasts' /\ Locks' /\ Queues'
         /\ \A d \in Conns : \A q \in Piece :
              q.of.from \in Conns /\ OldPiece(d, q, q.of.from) => OldPiece(d, q, q.of.from)'
<1> USE DEF HubCore
<1>1. None \notin Conns
  BY HubAssumption
<1>2. wmu[t] \in {c, None}
  BY DEF Locks
<1>3. wmu'[t] = None /\ \A d \in Conns : d # t => wmu'[d] = wmu[d]
  BY <1>1, <1>2 DEF ReleaseTarget, HubTypeOK
<1>4. current'[c] = None /\ \A d \in Conns : d # c => current'[d] = current[d]
  BY DEF ReleaseTarget, HubTypeOK
<1>5. targets'[c] = targets[c] \ {t} /\ \A d \in Conns : d # c => targets'[d] = targets[d]
  BY DEF ReleaseTarget, HubTypeOK
<1>6. /\ wmu' \in [Conns -> Conns \cup {None}] /\ current' \in [Conns -> Conns \cup {None}]
      /\ targets' \in [Conns -> SUBSET Conns]
  BY DEF ReleaseTarget, HubTypeOK
<1>7. Descriptors' /\ Registry' /\ Queues'
  BY DEF Descriptors, Registry, Queues
<1>8. Broadcasts'
  BY <1>4, <1>5 DEF Broadcasts
<1>9. Locks'
  BY <1>1, <1>2, <1>3, <1>4 DEF Locks
<1>10. ASSUME NEW d \in Conns, NEW q \in Piece, q.of.from \in Conns, OldPiece(d, q, q.of.from)
       PROVE  OldPiece(d, q, q.of.from)'
  <2>1. CASE q.of.from = c
    BY <1>1, <1>5, <1>10, <2>1 DEF OldPiece
  <2>2. CASE q.of.from # c
    BY <1>4, <1>5, <1>10, <2>2 DEF OldPiece
  <2> QED
    BY <2>1, <2>2
<1> QED
  BY <1>3, <1>6, <1>7, <1>8, <1>9, <1>10

\* The payload, and the mutex is free again.
LEMMA HubWritePayload ==
  ASSUME HubCore, NEW c \in Conns, NEW t \in Conns, WritePayload(c, t)
  PROVE  HubCore'
<1> USE DEF HubCore
<1> DEFINE p == [part |-> "pay", of |-> msg[c]]
<1>1. /\ thread[c] = "bcast" /\ current[c] = t /\ Write(fd[t], p) /\ ReleaseTarget(c, t)
      /\ UNCHANGED <<inbox, sentCount, fdTable, thread, fd, clients_, msg>>
  BY DEF WritePayload, net
<1>2. None \notin Conns
  BY HubAssumption
<1>3. t \in targets[c] /\ wmu[t] = c
  BY <1>1, <1>2 DEF Broadcasts, Locks
<1>4. /\ t # c /\ t \notin reset
      /\ \/ reset' = reset \cup {t} /\ out' = out
         \/ out' = [out EXCEPT ![t] = Append(@, p)] /\ reset' = reset
  <2> HIDE DEF p
  <2>1. Write(fd[t], p)
    BY <1>1
  <2> QED
    BY <1>3, <2>1, WriteHits
<1>5. msg[c] \in Msgs /\ msg[c].from = c /\ msg[c].n \in Nat
  BY <1>1, MsgShape
<1>6. p \in Piece /\ p.part = "pay" /\ p.of = msg[c]
  BY <1>5 DEF Piece
<1>7. /\ wmu' \in [Conns -> Conns \cup {None}] /\ current' \in [Conns -> Conns \cup {None}]
      /\ targets' \in [Conns -> SUBSET Conns]
      /\ wmu'[t] = None /\ \A d \in Conns : d # t => wmu'[d] = wmu[d]
      /\ Descriptors' /\ Registry' /\ Broadcasts' /\ Locks' /\ Queues'
      /\ \A d \in Conns : \A q \in Piece :
           q.of.from \in Conns /\ OldPiece(d, q, q.of.from) => OldPiece(d, q, q.of.from)'
  BY <1>1, <1>3, Released
<1>8. ASSUME NEW d \in Conns, NEW i \in DOMAIN out[d], NEW q, q = out[d][i]
      PROVE  OldPiece(d, q, q.of.from)'
  <2>1. OldPiece(d, q, q.of.from) /\ q.of.from \in Conns /\ q \in Piece
    BY <1>8, PieceShape DEF Delivered
  <2> QED
    BY <1>7, <2>1
<1>9. CASE reset' = reset \cup {t} /\ out' = out
  <2>1. HubTypeOK'
    BY <1>1, <1>7, <1>9 DEF HubTypeOK
  <2>2. Halves'
    BY <1>1, <1>7, <1>9 DEF Halves
  <2>3. StreamsOK'
    BY <1>1, <1>9, KeepStreams
  <2>4. Delivered'
    BY <1>8, <1>9 DEF Delivered, OldPiece
  <2> QED
    BY <1>7, <2>1, <2>2, <2>3, <2>4
<1>10. CASE out' = [out EXCEPT ![t] = Append(@, p)] /\ reset' = reset
  <2>1. /\ out[t] \in Seq(Piece) /\ WholeFrames(out[t]) /\ Len(out[t]) % 2 = 1
        /\ out[t][Len(out[t])] = [part |-> "hdr", of |-> msg[c]]
    BY <1>2, <1>3, <1>4, PieceShape DEF StreamsOK, Halves
  <2>2. out[t][Len(out[t])].of = p.of
    BY <2>1
  <2> HIDE DEF p
  <2>3. WholeFrames(Append(out[t], p)) /\ Len(Append(out[t], p)) % 2 = 0
    BY <1>6, <2>1, <2>2, FrameEnds
  <2>4. /\ StreamsOK' /\ out' \in [Conns -> Seq(Piece)]
        /\ out'[t] = Append(out[t], p) /\ \A d \in Conns : d # t => out'[d] = out[d]
    BY <1>1, <1>3, <1>4, <1>6, <1>10, <2>3, StreamGrows
  <2>5. HubTypeOK'
    BY <1>1, <1>7, <1>10, <2>4 DEF HubTypeOK, Piece
  <2>6. Halves'
    <3> SUFFICES ASSUME NEW d \in Conns \ reset
                 PROVE  /\ wmu'[d] = None => Len(out'[d]) % 2 = 0
                        /\ wmu'[d] # None =>
                             /\ Len(out'[d]) % 2 = 1
                             /\ out'[d][Len(out'[d])] = [part |-> "hdr", of |-> msg[wmu'[d]]]
      BY <1>1, <1>10 DEF Halves
    <3>1. CASE d = t
      BY <1>7, <2>3, <2>4, <3>1
    <3>2. CASE d # t
      BY <1>7, <2>4, <3>2 DEF Halves
    <3> QED
      BY <3>1, <3>2
  <2>7. Delivered'
    <3> SUFFICES ASSUME NEW d \in Conns, NEW i \in DOMAIN out'[d], NEW q, q = out'[d][i]
                 PROVE  OldPiece(d, q, q.of.from)'
      BY DEF Delivered, OldPiece
    <3>1. CASE q = p /\ d = t
      <4>1. q.of = msg[c] /\ q.of.from = c
        BY <1>5, <1>6, <3>1
      <4>2. targets'[c] = targets[c] \ {t}
        BY <1>1 DEF ReleaseTarget, HubTypeOK
      <4> QED
        BY <1>1, <1>5, <3>1, <4>1, <4>2 DEF OldPiece, Queues
    <3>2. CASE i \in DOMAIN out[d] /\ q = out[d][i]
      BY <1>8, <3>2
    <3>3. (q = p /\ d = t) \/ (i \in DOMAIN out[d] /\ q = out[d][i])
      <4>1. CASE d # t
        BY <2>4, <4>1
      <4>2. CASE d = t
        <5>1. PICK o \in Seq(Piece) : o = out[t]
          BY <2>1
        <5>2. /\ DOMAIN Append(o, p) = 1..(Len(o) + 1) /\ Append(o, p)[Len(o) + 1] = p
              /\ \A j \in DOMAIN o : Append(o, p)[j] = o[j]
              /\ \A j \in 1..(Len(o) + 1) : j \in DOMAIN o \/ j = Len(o) + 1
          BY <1>6, AppendIndex
        <5>3. i \in 1..(Len(o) + 1) /\ q = Append(o, p)[i]
          BY <2>4, <4>2, <5>1, <5>2
        <5> QED
          BY <4>2, <5>1, <5>2, <5>3
      <4> QED
        BY <4>1, <4>2
    <3> QED
      BY <3>1, <3>2, <3>3
  <2> QED
    BY <1>7, <2>4, <2>5, <2>6, <2>7
<1> QED
  BY <1>4, <1>9, <1>10

\* A write fails only on a stream that was reset: half a frame may be its end.
LEMMA HubWriteFails ==
  ASSUME HubCore, Port = "rust", NEW c \in Conns, NEW t \in Conns, WriteFails(c, t)
  PROVE  HubCore'
<1> USE DEF HubCore
<1>1. /\ thread[c] = "bcast" /\ Broken(fd[t]) /\ ReleaseTarget(c, t)
      /\ current[c] = t \/ (current[c] = None /\ t \in targets[c] /\ wmu[t] = None)
      /\ UNCHANGED <<inbox, sentCount, out, reset, fdTable, thread, fd, clients_, msg>>
  BY DEF WriteFails, SigPipe, net
<1>2. None \notin Conns /\ None \notin Fds
  BY HubAssumption
<1>3. t \in targets[c]
  BY <1>1, <1>2 DEF Broadcasts
<1>4. t \in reset
  <2>1. thread[t] \in {"loop", "bcast", "remove", "close"}
    BY <1>3 DEF Broadcasts
  <2>2. fd[t] \in Fds /\ fdTable[fd[t]] = t
    BY <2>1 DEF Descriptors
  <2> QED
    BY <1>1, <1>2, <2>2 DEF Broken
<1>5. /\ wmu' \in [Conns -> Conns \cup {None}] /\ current' \in [Conns -> Conns \cup {None}]
      /\ targets' \in [Conns -> SUBSET Conns]
      /\ wmu'[t] = None /\ \A d \in Conns : d # t => wmu'[d] = wmu[d]
      /\ Descriptors' /\ Registry' /\ Broadcasts' /\ Locks' /\ Queues'
      /\ \A d \in Conns : \A q \in Piece :
           q.of.from \in Conns /\ OldPiece(d, q, q.of.from) => OldPiece(d, q, q.of.from)'
  BY <1>1, <1>3, Released
<1>6. HubTypeOK'
  BY <1>1, <1>5 DEF HubTypeOK
<1>7. Halves'
  BY <1>1, <1>4, <1>5 DEF Halves
<1>8. StreamsOK'
  BY <1>1, KeepStreams
<1>9. Delivered'
  <2> SUFFICES ASSUME NEW d \in Conns, NEW i \in DOMAIN out[d], NEW q, q = out[d][i]
               PROVE  OldPiece(d, q, q.of.from)'
    BY <1>1 DEF Delivered, OldPiece
  <2>1. OldPiece(d, q, q.of.from) /\ q.of.from \in Conns /\ q \in Piece
    BY PieceShape DEF Delivered
  <2> QED
    BY <1>5, <2>1
<1> QED
  BY <1>5, <1>6, <1>7, <1>8, <1>9

-----------------------------------------------------------------------------

\* A thread is started once per connection.
LEMMA KeepNotAccepted ==
  ASSUME HubInv, [Next]_vars
  PROVE  NotAccepted'
<1> USE DEF HubInv, HubCore
<1> DEFINE Moves(c) == /\ thread[c] # "none" /\ UNCHANGED client
                       /\ \A d \in Conns : d # c => thread'[d] = thread[d]
<1>1. ASSUME NEW c \in Conns, Handler(c) PROVE Moves(c)
  <2>1. CASE ReadJoin(c) \/ RejectFirst(c) \/ ReadMsg(c) \/ SkipFrame(c)
    BY <2>1 DEF ReadJoin, RejectFirst, ReadMsg, SkipFrame, Goto, net, HubTypeOK
  <2>2. CASE EndBroadcast(c) \/ LeaveLoop(c) \/ HubRemove(c) \/ CloseFd(c)
    BY <2>2 DEF EndBroadcast, LeaveLoop, HubRemove, CloseFd, Goto, net, HubTypeOK
  <2>3. CASE \E t \in Conns : WriteHeader(c, t) \/ WritePayload(c, t) \/ WriteFails(c, t)
    BY <2>3 DEF WriteHeader, WritePayload, WriteFails, net
  <2> QED
    BY <1>1, <2>1, <2>2, <2>3 DEF Handler
<1>2. CASE \E c \in Conns : Handler(c)
  BY <1>1, <1>2 DEF NotAccepted
<1>3. CASE \E c \in Conns : ClientSends(c)
  BY <1>3 DEF ClientSends, NotAccepted
<1>4. CASE Signal \/ ServeReturns \/ UNCHANGED vars
  BY <1>4 DEF Signal, ServeReturns, vars, net, NotAccepted
<1>5. ASSUME NEW c \in Conns, Connect(c) \/ ClientCloses(c) \/ Accept(c) PROVE NotAccepted'
  <2>1. CASE Connect(c)
    BY <2>1 DEF Connect, NotAccepted
  <2>2. CASE ClientCloses(c)
    BY <2>2 DEF ClientCloses, NotAccepted
  <2>3. CASE Accept(c)
    BY <2>3 DEF Accept, NotAccepted, HubTypeOK
  <2> QED
    BY <1>5, <2>1, <2>2, <2>3
<1> QED
  BY <1>2, <1>3, <1>4, <1>5 DEF Next

\* Every step of the server keeps the invariant.
LEMMA HubNextInv ==
  ASSUME Port = "rust", HubInv, [Next]_vars
  PROVE  HubInv'
<1> USE DEF HubInv
<1>1. CASE Signal \/ ServeReturns \/ UNCHANGED vars \/ \E c \in Conns : Connect(c) \/ ClientCloses(c)
  <2>1. UNCHANGED hubVars
    BY <1>1 DEF Signal, ServeReturns, vars, Connect, ClientCloses, hubVars, net, bcast
  <2> QED
    BY <2>1, HubQuiet, KeepNotAccepted
<1>2. ASSUME NEW c \in Conns, Accept(c) PROVE HubCore'
  BY <1>2, HubAccept DEF Accept, NotAccepted
<1>3. ASSUME NEW c \in Conns, Handler(c) PROVE HubCore'
  BY <1>3, HubReads, HubReadMsg, HubMoves, HubClose, HubWriteHeader, HubWritePayload, HubWriteFails
     DEF Handler
<1> QED
  BY <1>1, <1>2, <1>3, HubSends, KeepNotAccepted DEF Next

\* The Rust port's streams, for all three properties.
LEMMA HubInvariant == Port = "rust" => (Spec => []HubInv)
<1> SUFFICES ASSUME Port = "rust" PROVE Spec => []HubInv
  OBVIOUS
<1>1. HubInv /\ [Next]_vars => HubInv'
  BY HubNextInv
<1> QED
  BY <1>1, HubInitInv, PTL DEF Spec

\* In the Rust port every client reads whole frames: a payload follows its own
\* header whoever else broadcasts, for any number of connections, broadcasts and
\* descriptors, and however connections close and descriptors are used again.
THEOREM HubFramesIntact == Port = "rust" => (Spec => []FramesIntact)
<1> SUFFICES ASSUME Port = "rust" PROVE Spec => []FramesIntact
  OBVIOUS
<1>1. HubInv => FramesIntact
  BY DEF HubInv, HubCore, StreamsOK, WholeFrames, FramesIntact
<1> QED
  BY <1>1, HubInvariant, PTL

\* In the Rust port nothing is written to a connection that has not joined, and
\* nobody gets its own message.
THEOREM HubOnlyMembersReceive == Port = "rust" => (Spec => []OnlyMembersReceive)
<1> SUFFICES ASSUME Port = "rust" PROVE Spec => []OnlyMembersReceive
  OBVIOUS
<1>1. HubInv => OnlyMembersReceive
  BY DEF HubInv, HubCore, StreamsOK, Foreign, OnlyMembersReceive, Received
<1> QED
  BY <1>1, HubInvariant, PTL

\* In the Rust port the messages of one sender arrive at each receiver in the
\* order sent and none twice.
THEOREM HubSenderOrder == Port = "rust" => (Spec => []SenderOrder)
<1> SUFFICES ASSUME Port = "rust" PROVE Spec => []SenderOrder
  OBVIOUS
<1>1. HubInv => SenderOrder
  BY DEF HubInv, HubCore, StreamsOK, InOrder, SenderOrder
<1> QED
  BY <1>1, HubInvariant, PTL
=============================================================================
