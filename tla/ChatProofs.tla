------------------------------ MODULE ChatProofs ------------------------------
(***************************************************************************)
(* Two versions of chatterd.  Example 24 (HeartbeatPeers), for any         *)
(* heartbeat, deadline and delay that fit and any number of connections,   *)
(* crashes and cuts; example 22 (ScaleServer), for any clients and any     *)
(* size of the send buffers.                                               *)
(***************************************************************************)
EXTENDS HeartbeatPeers, ScaleServer, SequenceTheorems, TLAPS

-----------------------------------------------------------------------------
(* chatterd v3.  That a peer which is there is never declared dead is a    *)
(* matter of time: as long as nothing is on its way to p, its deadline is  *)
(* further off than the next heartbeat of the other by more than Delay,    *)
(* and a frame that is on its way has not used up that margin.             *)

Roles24  == {"session", "exit", "down", "dial", "backoff", "accept"}
Frames24 == {"join", "ping", "msg"} \X (0..Delay)

HbTypeOK ==
  /\ role24 \in [Peers -> Roles24] /\ link \in [Peers -> 0..MaxConns]
  /\ linked \in [Peers -> BOOLEAN] /\ sock_dead \in [Peers -> BOOLEAN]
  /\ left \in [Peers -> 0..Timeout] /\ beat \in [Peers -> 0..Heartbeat]
  /\ made \in 0..MaxConns /\ backlog24 \in Seq(Links)
  /\ chan \in [Links -> [Peers -> Seq(Frames24)]]
  /\ shutEnd \in [Links -> SUBSET Peers]
  /\ cut \in BOOLEAN /\ hurt \subseteq Links

\* A peer is in a session exactly when it has a connection, and has not closed it.
Sessions ==
  \A p \in Peers :
    /\ link[p] # 0 <=> InSession(p)
    /\ link[p] <= made
    /\ link[p] # 0 => p \notin shutEnd[link[p]]
    /\ link[p] # 0 /\ sock_dead[p] => Other(p) \in shutEnd[link[p]]

\* On a connection that waits in the backlog the listener has said nothing yet.
Waiting ==
  \A i \in DOMAIN backlog24 :
    /\ backlog24[i] <= made /\ backlog24[i] # link["lstn"]
    /\ "lstn" \notin shutEnd[backlog24[i]]
    /\ chan[backlog24[i]]["conn"] = <<>>
    /\ link["conn"] = backlog24[i] => ~linked["conn"]
    /\ \A j \in DOMAIN backlog24 : backlog24[i] = backlog24[j] => i = j

\* A connection that was not made yet is unused; the ones made before a cut that
\* still lasts are hurt.
Unused ==
  /\ \A c \in Links : c > made => shutEnd[c] = {} /\ \A p \in Peers : chan[c][p] = <<>>
  /\ cut => \A c \in Links : c <= made => c \in hurt
  /\ \A c \in hurt : c <= made

\* p has heard from the other on this connection, the other is still there, and
\* the network has been whole.
Sound24(p) ==
  /\ link[p] # 0 /\ link[Other(p)] = link[p] /\ linked[p] /\ link[p] \notin hurt

\* With frames h on their way, l ticks to the deadline and b to the next heartbeat.
Margin(h, l, b) ==
  IF h = <<>> THEN l >= b + (Timeout - Heartbeat) ELSE l + h[1][2] >= Timeout - Heartbeat

InTime ==
  \A p \in Peers : Sound24(p) => Margin(chan[link[p]][p], left[p], beat[Other(p)])

HbInv == HbTypeOK /\ Sessions /\ Waiting /\ Unused /\ InTime /\ NoFalseTimeout

\* The options are numbers of ticks.
LEMMA Ticks ==
  /\ Heartbeat \in Nat /\ Timeout \in Nat /\ Delay \in Nat /\ MaxConns \in Nat
  /\ Heartbeat >= 1 /\ Heartbeat + Delay < Timeout
  BY HeartbeatAssumption

\* There are two peers.
LEMMA TwoPeers ==
  /\ "conn" \in Peers /\ "lstn" \in Peers
  /\ \A p \in Peers : /\ Other(p) \in Peers /\ Other(p) # p /\ Other(Other(p)) = p
                      /\ \A q \in Peers : q = p \/ q = Other(p)
  BY DEF Peers, Other

\* A deadline that was just extended leaves time enough, whatever is on its way.
LEMMA MarginFresh ==
  ASSUME NEW h \in Seq(Frames24), NEW b \in 0..Heartbeat
  PROVE  Margin(h, Timeout, b)
  <1>1. Timeout \in Nat /\ Heartbeat \in Nat /\ Heartbeat < Timeout
    BY HeartbeatAssumption
  <1>2. CASE h = <<>>
    BY <1>1, <1>2 DEF Margin
  <1>3. CASE h # <<>>
    <2>1. h[1] \in Frames24
      BY <1>3
    <2>2. h[1][2] \in Nat
      BY <2>1, HeartbeatAssumption DEF Frames24
    <2> QED
      BY <1>1, <1>3, <2>2 DEF Margin
  <1> QED
    BY <1>2, <1>3

\* A frame that is sent in time arrives in time.
LEMMA MarginSent ==
  ASSUME NEW h \in Seq(Frames24), NEW l \in 0..Timeout, NEW b \in 0..Heartbeat, Margin(h, l, b),
         NEW f \in Frames24, f[2] = 0, NEW a
  PROVE  Margin(Append(h, f), l, a)
  <1>1. Timeout \in Nat /\ Heartbeat \in Nat /\ Heartbeat < Timeout
    BY HeartbeatAssumption
  <1>2. Append(h, f) # <<>>
    OBVIOUS
  <1>3. CASE h = <<>>
    <2>1. Append(h, f)[1] = f
      BY <1>3
    <2> QED
      BY <1>1, <1>2, <1>3, <2>1 DEF Margin
  <1>4. CASE h # <<>>
    <2>1. Append(h, f)[1] = h[1]
      BY <1>4
    <2> QED
      BY <1>2, <1>4, <2>1 DEF Margin
  <1> QED
    BY <1>3, <1>4

\* As long as there is a margin, the deadline has not come.
LEMMA MarginPositive ==
  ASSUME NEW h \in Seq(Frames24), NEW l \in 0..Timeout, NEW b \in 0..Heartbeat, Margin(h, l, b)
  PROVE  l > 0
  <1>1. /\ Timeout \in Nat /\ Heartbeat \in Nat /\ Delay \in Nat
        /\ Timeout - Heartbeat > Delay
    BY HeartbeatAssumption
  <1>2. CASE h = <<>>
    BY <1>1, <1>2 DEF Margin
  <1>3. CASE h # <<>>
    <2>1. h[1] \in Frames24
      BY <1>3
    <2>2. h[1][2] \in 0..Delay
      BY <2>1 DEF Frames24
    <2> QED
      BY <1>1, <1>3, <2>2 DEF Margin
  <1> QED
    BY <1>2, <1>3

\* The frames of h a tick later.
Older(h) == [i \in DOMAIN h |-> <<h[i][1], IF h[i][2] < Delay THEN h[i][2] + 1 ELSE Delay>>]

\* A tick keeps the frames in their order, and makes the first one a tick older
\* as long as it is not due.
LEMMA OlderType ==
  ASSUME NEW h \in Seq(Frames24)
  PROVE  /\ Older(h) \in Seq(Frames24)
         /\ h = <<>> => Older(h) = <<>>
         /\ h # <<>> => Older(h) # <<>> /\ h[1][2] \in 0..Delay
                        /\ (h[1][2] < Delay => Older(h)[1][2] = h[1][2] + 1)
  <1>1. \A i \in DOMAIN h : /\ h[i] \in Frames24 /\ h[i][1] \in {"join", "ping", "msg"}
                            /\ h[i][2] \in 0..Delay
    BY DEF Frames24
  <1>2. Delay \in Nat
    BY HeartbeatAssumption
  <1>3. \A i \in DOMAIN h :
          <<h[i][1], IF h[i][2] < Delay THEN h[i][2] + 1 ELSE Delay>> \in Frames24
    BY <1>1, <1>2 DEF Frames24
  <1>4. Len(h) \in Nat /\ DOMAIN h = 1..Len(h)
    OBVIOUS
  <1>5. Older(h) \in [1..Len(h) -> Frames24]
    BY <1>3, <1>4 DEF Older
  <1>6. Older(h) \in Seq(Frames24) /\ Len(Older(h)) = Len(h)
    BY <1>4, <1>5
  <1>7. CASE h = <<>>
    BY <1>6, <1>7
  <1>8. CASE h # <<>>
    <2>1. 1 \in DOMAIN h
      BY <1>8
    <2>2. Older(h)[1] = <<h[1][1], IF h[1][2] < Delay THEN h[1][2] + 1 ELSE Delay>>
      BY <2>1 DEF Older
    <2> QED
      BY <1>1, <1>4, <1>6, <1>8, <2>1, <2>2
  <1> QED
    BY <1>6, <1>7, <1>8

\* Time passes, and the margin with it, unless a heartbeat or a frame was due.
LEMMA MarginTick ==
  ASSUME NEW h \in Seq(Frames24), NEW l \in 0..Timeout, NEW b \in 0..Heartbeat, Margin(h, l, b),
         b > 0, h # <<>> => h[1][2] < Delay
  PROVE  Margin(Older(h), Less(l), Less(b))
  <1>1. Timeout \in Nat /\ Heartbeat \in Nat /\ Delay \in Nat
    BY HeartbeatAssumption
  <1>2. l > 0
    BY MarginPositive
  <1>3. Less(l) = l - 1 /\ Less(b) = b - 1
    BY <1>2 DEF Less
  <1>4. CASE h = <<>>
    <2>1. Older(h) = <<>> /\ l >= b + (Timeout - Heartbeat)
      BY <1>4, OlderType DEF Margin
    <2>2. l - 1 >= (b - 1) + (Timeout - Heartbeat)
      BY <1>1, <2>1
    <2> QED
      BY <1>3, <2>1, <2>2 DEF Margin
  <1>5. CASE h # <<>>
    <2>1. PICK o : o = Older(h)
      OBVIOUS
    <2>2. o # <<>> /\ h[1][2] \in 0..Delay /\ o[1][2] = h[1][2] + 1
      BY <1>5, <2>1, OlderType
    <2>3. l + h[1][2] >= Timeout - Heartbeat
      BY <1>5 DEF Margin
    <2>4. (l - 1) + o[1][2] >= Timeout - Heartbeat
      BY <1>1, <2>2, <2>3
    <2> QED
      BY <1>3, <2>1, <2>2, <2>4 DEF Margin
  <1> QED
    BY <1>4, <1>5

\* A frame x is added to what is on its way from p on connection c, unless the
\* other end is closed, and nothing else is touched.
Adds(ch, new, p, c, x) ==
  /\ new \in [Links -> [Peers -> Seq(Frames24)]]
  /\ \A d \in Links : \A q \in Peers :
       new[d][q] = IF d = c /\ q = Other(p) /\ q \notin shutEnd[c]
                   THEN Append(ch[d][q], <<x, 0>>) ELSE ch[d][q]

\* That is what send_frame does.
LEMMA SentAdds ==
  ASSUME HbTypeOK, NEW ch \in [Links -> [Peers -> Seq(Frames24)]], NEW p \in Peers,
         NEW c \in Links, NEW x \in {"join", "ping", "msg"}, NEW new,
         new = Sent(ch, p, c, <<x>>)
  PROVE  Adds(ch, new, p, c, x)
  <1> DEFINE q == Other(p)
             g == [i \in DOMAIN <<x>> |-> <<(<<x>>)[i], 0>>]
  <1>1. q \in Peers
    BY TwoPeers
  <1>2. ch[c][q] \in Seq(Frames24)
    BY <1>1
  <1>3. <<x, 0>> \in Frames24
    BY HeartbeatAssumption DEF Frames24
  <1>4. g = << <<x, 0>> >>
    OBVIOUS
  <1>5. ch[c][q] \o g = Append(ch[c][q], <<x, 0>>)
    BY <1>2, <1>3, <1>4
  <1>6. Append(ch[c][q], <<x, 0>>) \in Seq(Frames24)
    BY <1>2, <1>3
  <1>7. CASE q \in shutEnd[c]
    BY <1>7 DEF Sent, Adds
  <1>8. CASE q \notin shutEnd[c]
    <2>1. new = [ch EXCEPT ![c] = [ch[c] EXCEPT ![q] = ch[c][q] \o g]]
      BY <1>8 DEF Sent
    <2>2. PICK s \in Seq(Frames24) : s = Append(ch[c][q], <<x, 0>>)
      BY <1>6
    <2>3. new = [ch EXCEPT ![c] = [ch[c] EXCEPT ![q] = s]]
      BY <1>5, <2>1, <2>2
    <2>4. [ch[c] EXCEPT ![q] = s] \in [Peers -> Seq(Frames24)]
      BY <1>1
    <2>5. new \in [Links -> [Peers -> Seq(Frames24)]]
      BY <2>3, <2>4
    <2>6. \A d \in Links : \A r \in Peers :
            new[d][r] = IF d = c /\ r = q THEN s ELSE ch[d][r]
      BY <1>1, <2>3
    <2> QED
      BY <1>8, <2>2, <2>5, <2>6 DEF Adds
  <1> QED
    BY <1>7, <1>8

\* No peer has a connection at the start.
LEMMA HbInitInv == HbInit => HbInv
  <1> SUFFICES ASSUME HbInit PROVE HbInv
    OBVIOUS
  <1> USE Ticks DEF HbInit
  <1>1. HbTypeOK
    <2>1. role24 \in [Peers -> Roles24]
      BY DEF CommandLine24, Roles24
    <2>2. chan \in [Links -> [Peers -> Seq(Frames24)]]
      OBVIOUS
    <2>3. link \in [Peers -> 0..MaxConns] /\ made \in 0..MaxConns
      OBVIOUS
    <2>4. left \in [Peers -> 0..Timeout] /\ beat \in [Peers -> 0..Heartbeat]
      OBVIOUS
    <2>5. linked \in [Peers -> BOOLEAN] /\ sock_dead \in [Peers -> BOOLEAN]
      OBVIOUS
    <2>6. backlog24 \in Seq(Links) /\ shutEnd \in [Links -> SUBSET Peers]
      OBVIOUS
    <2>7. cut \in BOOLEAN /\ hurt \subseteq Links
      OBVIOUS
    <2> QED
      BY <2>1, <2>2, <2>3, <2>4, <2>5, <2>6, <2>7, Zenon DEF HbTypeOK
  <1>2. Sessions
    BY DEF Sessions, InSession, CommandLine24
  <1>3. Waiting
    BY DEF Waiting
  <1>4. Unused
    BY DEF Unused
  <1>5. InTime
    BY DEF InTime, Sound24
  <1> QED
    BY <1>1, <1>2, <1>3, <1>4, <1>5 DEF HbInv, NoFalseTimeout

\* A dialler that waits or comes back, a peer that is started, a cut and its end
\* touch no session.
LEMMA HbOutside ==
  ASSUME HbInv, role24' \in [Peers -> Roles24], \A p \in Peers : InSession(p)' <=> InSession(p),
         UNCHANGED <<link, linked, sock_dead, left, beat, made, backlog24, chan, shutEnd, blamed>>,
         cut' \in BOOLEAN, hurt' \subseteq Links, hurt \subseteq hurt',
         cut' => \A c \in Links : c <= made => c \in hurt',
         \A c \in hurt' : c <= made
  PROVE  HbInv'
  <1>1. HbTypeOK'
    BY DEF HbInv, HbTypeOK
  <1>2. Sessions'
    BY DEF HbInv, Sessions
  <1>3. Waiting'
    BY DEF HbInv, Waiting
  <1>4. Unused'
    BY DEF HbInv, Unused
  <1>5. InTime'
    BY DEF HbInv, InTime, Sound24
  <1> QED
    BY <1>1, <1>2, <1>3, <1>4, <1>5 DEF HbInv, NoFalseTimeout

\* Those steps are of that kind.
LEMMA HbOutsideSteps ==
  ASSUME HbInv,
         \/ Dial /\ role24["lstn"] \notin {"accept", "session"}
         \/ BackoffEnds \/ Heal \/ Cut \/ (\E p \in Peers : Up(p)) \/ UNCHANGED hbVars
  PROVE  HbInv'
  <1> USE Ticks
  <1>1. UNCHANGED <<link, linked, sock_dead, left, beat, made, backlog24, chan, shutEnd, blamed>>
    BY DEF Dial, BackoffEnds, Heal, Cut, Up, hbVars
  <1>2. role24' \in [Peers -> Roles24] /\ \A p \in Peers : InSession(p)' <=> InSession(p)
    <2>1. role24 \in [Peers -> Roles24]
      BY DEF HbInv, HbTypeOK
    <2>2. \/ role24' = role24
          \/ \E p \in Peers : \E r \in Roles24 \ {"session"} :
               role24[p] # "session" /\ role24' = [role24 EXCEPT ![p] = r]
      BY TwoPeers DEF Roles24, Dial, BackoffEnds, Heal, Cut, Up, hbVars
    <2> QED
      BY <2>1, <2>2 DEF InSession
  <1>3. /\ cut' \in BOOLEAN /\ hurt' \subseteq Links /\ hurt \subseteq hurt'
        /\ cut' => \A c \in Links : c <= made => c \in hurt'
        /\ \A c \in hurt' : c <= made
    <2>1. CASE Cut
      <3>1. cut' = TRUE /\ hurt' = 1..made /\ made \in 0..MaxConns
        BY <2>1 DEF Cut, HbInv, HbTypeOK
      <3> QED
        BY <3>1 DEF HbInv, HbTypeOK, Unused, Links
    <2>2. CASE hurt' = hurt /\ cut' = cut
      BY <2>2 DEF HbInv, HbTypeOK, Unused
    <2>3. CASE hurt' = hurt /\ cut' = FALSE
      BY <2>3 DEF HbInv, HbTypeOK, Unused
    <2> QED
      BY <2>1, <2>2, <2>3 DEF Dial, BackoffEnds, Heal, Up, hbVars
  <1> QED
    BY <1>1, <1>2, <1>3, HbOutside

\* The dialler opens a connection that nobody has used.
LEMMA HbDial ==
  ASSUME HbInv, Dial, role24["lstn"] \in {"accept", "session"} PROVE HbInv'
  <1> USE Ticks
  <1> DEFINE c == made + 1
  <1>1. /\ role24["conn"] = "dial" /\ ~cut /\ made < MaxConns /\ made' = c
        /\ backlog24' = Append(backlog24, c) /\ StartSession("conn", c)
        /\ UNCHANGED <<shutEnd, cut, hurt, faults24, blamed>>
    BY DEF Dial
  <1>2. made \in Nat /\ c \in Links /\ c > made /\ c \in 0..MaxConns /\ c # 0
    BY <1>1 DEF HbInv, HbTypeOK, Links
  <1> HIDE DEF c
  <1>3. /\ role24' = [role24 EXCEPT !["conn"] = "session"] /\ link' = [link EXCEPT !["conn"] = c]
        /\ linked' = [linked EXCEPT !["conn"] = FALSE]
        /\ sock_dead' = [sock_dead EXCEPT !["conn"] = FALSE]
        /\ left' = [left EXCEPT !["conn"] = Timeout] /\ beat' = [beat EXCEPT !["conn"] = Heartbeat]
        /\ chan' = Sent(chan, "conn", c, <<"join">>)
    BY <1>1 DEF StartSession
  <1>4. /\ chan' \in [Links -> [Peers -> Seq(Frames24)]]
        /\ \A d \in Links : chan'[d]["conn"] = chan[d]["conn"]
        /\ \A d \in Links : \A q \in Peers : d # c => chan'[d][q] = chan[d][q]
    <2>1. chan \in [Links -> [Peers -> Seq(Frames24)]] /\ HbTypeOK
      BY DEF HbInv, HbTypeOK
    <2>2. "conn" \in Peers /\ Other("conn") = "lstn" /\ "join" \in {"join", "ping", "msg"}
      BY DEF Peers, Other
    <2>3. PICK ch \in [Links -> [Peers -> Seq(Frames24)]] : ch = chan
      BY <2>1
    <2>4. PICK new : new = chan'
      OBVIOUS
    <2>5. Adds(ch, new, "conn", c, "join")
      BY <1>2, <1>3, <2>1, <2>2, <2>3, <2>4, SentAdds DEF HbInv
    <2> QED
      BY <2>2, <2>3, <2>4, <2>5 DEF Adds
  <1>5. HbTypeOK'
    <2>1. backlog24' \in Seq(Links)
      BY <1>1, <1>2 DEF HbInv, HbTypeOK
    <2>2. role24' \in [Peers -> Roles24] /\ link' \in [Peers -> 0..MaxConns]
      BY <1>2, <1>3 DEF HbInv, HbTypeOK, Roles24
    <2>3. left' \in [Peers -> 0..Timeout] /\ beat' \in [Peers -> 0..Heartbeat]
      <3>1. Timeout \in 0..Timeout /\ Heartbeat \in 0..Heartbeat
        OBVIOUS
      <3> QED
        BY <1>3, <3>1 DEF HbInv, HbTypeOK
    <2>4. linked' \in [Peers -> BOOLEAN] /\ sock_dead' \in [Peers -> BOOLEAN]
      BY <1>3 DEF HbInv, HbTypeOK
    <2> QED
      BY <1>1, <1>2, <1>4, <2>1, <2>2, <2>3, <2>4 DEF HbInv, HbTypeOK
  <1>6. /\ link'["conn"] = c /\ link'["lstn"] = link["lstn"] /\ link["lstn"] <= made
        /\ link["lstn"] \in Nat /\ linked'["conn"] = FALSE
        /\ sock_dead'["conn"] = FALSE /\ sock_dead'["lstn"] = sock_dead["lstn"]
        /\ role24'["conn"] = "session" /\ role24'["lstn"] = role24["lstn"]
    BY <1>3, TwoPeers DEF HbInv, HbTypeOK, Sessions
  <1>7. shutEnd[c] = {} /\ shutEnd' = shutEnd
    BY <1>1, <1>2 DEF HbInv, Unused
  <1>8. Sessions'
    <2> SUFFICES ASSUME NEW p \in Peers
                 PROVE  /\ link'[p] # 0 <=> role24'[p] = "session"
                        /\ link'[p] <= made'
                        /\ link'[p] # 0 => p \notin shutEnd[link'[p]]
                        /\ link'[p] # 0 /\ sock_dead'[p] => Other(p) \in shutEnd[link'[p]]
      BY <1>7 DEF Sessions, InSession
    <2>1. CASE p = "conn"
      BY <1>1, <1>2, <1>6, <1>7, <2>1
    <2>2. CASE p = "lstn"
      BY <1>1, <1>2, <1>6, <2>2 DEF HbInv, Sessions, InSession
    <2> QED
      BY <2>1, <2>2 DEF Peers
  <1>9. Waiting'
    <2>1. PICK b \in Seq(Links) : b = backlog24
      BY DEF HbInv, HbTypeOK
    <2> DEFINE n == Len(b)
    <2>2. /\ backlog24' = Append(b, c) /\ DOMAIN b = 1..n /\ n \in Nat
          /\ DOMAIN backlog24' = 1..(n + 1) /\ backlog24'[n + 1] = c
          /\ \A i \in 1..n : backlog24'[i] = b[i] /\ b[i] \in Links
      BY <1>1, <1>2, <2>1
    <2> HIDE DEF n
    <2>3. \A i \in 1..n : /\ b[i] <= made /\ b[i] # c /\ b[i] # link["lstn"]
                          /\ "lstn" \notin shutEnd[b[i]] /\ chan[b[i]]["conn"] = <<>>
                          /\ \A j \in 1..n : b[i] = b[j] => i = j
      <3>1. \A i \in 1..n : b[i] <= made => b[i] # c
        BY <1>2, <2>2 DEF Links
      <3> QED
        BY <2>1, <2>2, <3>1 DEF HbInv, Waiting
    <2>4. chan[c]["conn"] = <<>>
      BY <1>2, TwoPeers DEF HbInv, Unused
    <2> SUFFICES ASSUME NEW i \in 1..(n + 1)
                 PROVE  /\ backlog24'[i] <= made' /\ backlog24'[i] # link'["lstn"]
                        /\ "lstn" \notin shutEnd[backlog24'[i]]
                        /\ chan'[backlog24'[i]]["conn"] = <<>>
                        /\ link'["conn"] = backlog24'[i] => ~linked'["conn"]
                        /\ \A j \in 1..(n + 1) : backlog24'[i] = backlog24'[j] => i = j
      BY <1>7, <2>2 DEF Waiting
    <2>5. CASE i = n + 1
      BY <1>1, <1>2, <1>4, <1>6, <1>7, <2>2, <2>3, <2>4, <2>5
    <2>6. CASE i \in 1..n
      <3>1. backlog24'[i] = b[i] /\ b[i] \in Nat /\ b[i] \in Links /\ b[i] <= made /\ b[i] # c
        BY <2>2, <2>3, <2>6 DEF Links
      <3>2. b[i] <= made'
        BY <1>1, <1>2, <3>1 DEF c
      <3>3. chan'[b[i]]["conn"] = <<>>
        BY <1>4, <2>3, <2>6, <3>1
      <3>4. ASSUME NEW j \in 1..(n + 1), backlog24'[j] = b[i] PROVE i = j
        <4>1. j \in 1..n
          BY <2>2, <3>1, <3>4
        <4> QED
          BY <2>2, <2>3, <2>6, <3>4, <4>1
      <3> QED
        BY <1>6, <2>2, <2>3, <2>6, <3>1, <3>2, <3>3, <3>4
    <2> QED
      BY <2>2, <2>5, <2>6
  <1>10. Unused'
    <2>1. ASSUME NEW d \in Links, d > made'
          PROVE  shutEnd'[d] = {} /\ \A q \in Peers : chan'[d][q] = <<>>
      <3>1. d > made /\ d # c
        BY <1>1, <1>2, <2>1 DEF c, Links
      <3> QED
        BY <1>4, <1>7, <3>1 DEF HbInv, Unused
    <2>2. ASSUME NEW d \in hurt PROVE d <= made'
      <3>1. d \in Links /\ d <= made
        BY <2>2 DEF HbInv, HbTypeOK, Unused
      <3> QED
        BY <1>1, <1>2, <3>1 DEF c, Links
    <2> QED
      BY <1>1, <2>1, <2>2 DEF Unused
  <1>11. InTime'
    <2>1. \A p \in Peers : ~Sound24(p)'
      BY <1>2, <1>6 DEF Sound24, Peers, Other
    <2> QED
      BY <2>1 DEF InTime
  <1> QED
    BY <1>1, <1>5, <1>8, <1>9, <1>10, <1>11 DEF HbInv, NoFalseTimeout

\* The listener takes the oldest connection of its backlog.
LEMMA HbAccept ==
  ASSUME HbInv, AcceptPeer PROVE HbInv'
  <1> USE Ticks
  <1> DEFINE c == Head(backlog24)
  <1>1. PICK b \in Seq(Links) : b = backlog24 /\ b # <<>>
    BY DEF HbInv, HbTypeOK, AcceptPeer
  <1>2. /\ c = b[1] /\ c \in Links /\ 1 \in DOMAIN b /\ Tail(b) \in Seq(Links)
        /\ \A i \in DOMAIN Tail(b) : i + 1 \in DOMAIN b /\ Tail(b)[i] = b[i + 1] /\ i + 1 # 1
                                     /\ i \in Nat
    BY <1>1
  <1>3. /\ role24["lstn"] = "accept" /\ backlog24' = Tail(b) /\ StartSession("lstn", c)
        /\ UNCHANGED <<made, shutEnd, cut, hurt, blamed>>
    BY <1>1 DEF AcceptPeer
  <1>4. /\ c <= made /\ "lstn" \notin shutEnd[c] /\ chan[c]["conn"] = <<>>
        /\ link["conn"] = c => ~linked["conn"]
    BY <1>1, <1>2 DEF HbInv, Waiting
  <1> HIDE DEF c
  <1>5. c # 0 /\ c \in Nat /\ c \in 0..MaxConns /\ made \in Nat
    BY <1>2 DEF Links, HbInv, HbTypeOK
  <1>6. /\ role24' = [role24 EXCEPT !["lstn"] = "session"] /\ link' = [link EXCEPT !["lstn"] = c]
        /\ linked' = [linked EXCEPT !["lstn"] = FALSE]
        /\ sock_dead' = [sock_dead EXCEPT !["lstn"] = FALSE]
        /\ left' = [left EXCEPT !["lstn"] = Timeout] /\ beat' = [beat EXCEPT !["lstn"] = Heartbeat]
        /\ chan' = Sent(chan, "lstn", c, <<"join">>)
    BY <1>3 DEF StartSession
  <1>7. /\ link'["lstn"] = c /\ link'["conn"] = link["conn"] /\ linked'["lstn"] = FALSE
        /\ linked'["conn"] = linked["conn"]
        /\ sock_dead'["lstn"] = FALSE /\ sock_dead'["conn"] = sock_dead["conn"]
        /\ role24'["lstn"] = "session" /\ role24'["conn"] = role24["conn"]
    BY <1>6, TwoPeers DEF HbInv, HbTypeOK
  <1>8. /\ chan' \in [Links -> [Peers -> Seq(Frames24)]]
        /\ \A d \in Links : \A q \in Peers : d # c => chan'[d][q] = chan[d][q]
    <2>1. PICK ch \in [Links -> [Peers -> Seq(Frames24)]] : ch = chan
      BY DEF HbInv, HbTypeOK
    <2>2. PICK new : new = chan'
      OBVIOUS
    <2>3. HbTypeOK /\ "lstn" \in Peers /\ "join" \in {"join", "ping", "msg"}
      BY TwoPeers DEF HbInv
    <2>4. Adds(ch, new, "lstn", c, "join")
      BY <1>2, <1>6, <2>1, <2>2, <2>3, SentAdds
    <2> QED
      BY <2>1, <2>2, <2>4 DEF Adds
  <1>9. HbTypeOK'
    <2>1. role24' \in [Peers -> Roles24] /\ link' \in [Peers -> 0..MaxConns]
      BY <1>5, <1>6 DEF HbInv, HbTypeOK, Roles24
    <2>2. left' \in [Peers -> 0..Timeout] /\ beat' \in [Peers -> 0..Heartbeat]
      <3>1. Timeout \in 0..Timeout /\ Heartbeat \in 0..Heartbeat
        OBVIOUS
      <3> QED
        BY <1>6, <3>1 DEF HbInv, HbTypeOK
    <2>3. linked' \in [Peers -> BOOLEAN] /\ sock_dead' \in [Peers -> BOOLEAN]
      BY <1>6 DEF HbInv, HbTypeOK
    <2> QED
      BY <1>2, <1>3, <1>8, <2>1, <2>2, <2>3 DEF HbInv, HbTypeOK
  <1>10. Sessions'
    <2> SUFFICES ASSUME NEW p \in Peers
                 PROVE  /\ link'[p] # 0 <=> role24'[p] = "session"
                        /\ link'[p] <= made
                        /\ link'[p] # 0 => p \notin shutEnd[link'[p]]
                        /\ link'[p] # 0 /\ sock_dead'[p] => Other(p) \in shutEnd[link'[p]]
      BY <1>3 DEF Sessions, InSession
    <2>1. CASE p = "lstn"
      BY <1>4, <1>5, <1>7, <2>1
    <2>2. CASE p = "conn"
      BY <1>7, <2>2 DEF HbInv, Sessions, InSession
    <2> QED
      BY <2>1, <2>2 DEF Peers
  <1>11. Waiting'
    <2> SUFFICES ASSUME NEW i \in DOMAIN Tail(b)
                 PROVE  /\ Tail(b)[i] <= made /\ Tail(b)[i] # c
                        /\ "lstn" \notin shutEnd[Tail(b)[i]]
                        /\ chan'[Tail(b)[i]]["conn"] = <<>>
                        /\ link["conn"] = Tail(b)[i] => ~linked["conn"]
                        /\ \A j \in DOMAIN Tail(b) : Tail(b)[i] = Tail(b)[j] => i = j
      BY <1>3, <1>7 DEF Waiting
    <2>1. PICK d \in Links : d = Tail(b)[i] /\ d = b[i + 1] /\ i + 1 \in DOMAIN b /\ i + 1 # 1
      BY <1>1, <1>2
    <2>2. /\ d <= made /\ "lstn" \notin shutEnd[d] /\ chan[d]["conn"] = <<>>
          /\ link["conn"] = d => ~linked["conn"]
          /\ \A j \in DOMAIN b : b[i + 1] = b[j] => i + 1 = j
      BY <1>1, <2>1 DEF HbInv, Waiting
    <2>3. d # c
      BY <1>2, <2>1, <2>2
    <2>4. chan'[d]["conn"] = <<>>
      BY <1>8, <2>2, <2>3, TwoPeers
    <2>5. ASSUME NEW j \in DOMAIN Tail(b), Tail(b)[i] = Tail(b)[j] PROVE i = j
      <3>1. i + 1 = j + 1 /\ i \in Nat /\ j \in Nat
        BY <1>2, <2>1, <2>2, <2>5
      <3> QED
        BY <3>1
    <2> QED
      BY <2>1, <2>2, <2>3, <2>4, <2>5
  <1>12. Unused'
    <2>1. ASSUME NEW d \in Links, d > made PROVE \A q \in Peers : chan'[d][q] = <<>>
      <3>1. d # c
        BY <1>4, <1>5, <2>1 DEF Links
      <3> QED
        BY <1>8, <2>1, <3>1 DEF HbInv, Unused
    <2> QED
      BY <1>3, <2>1 DEF HbInv, Unused
  <1>13. InTime'
    <2>1. \A p \in Peers : ~Sound24(p)'
      BY <1>4, <1>7 DEF Sound24, Peers, Other
    <2> QED
      BY <2>1 DEF InTime
  <1> QED
    BY <1>3, <1>9, <1>10, <1>11, <1>12, <1>13 DEF HbInv, NoFalseTimeout

\* A frame of p adds to what the other finds, on the connection of p only.
LEMMA HbFires ==
  ASSUME HbInv, NEW p \in Peers, HeartbeatFires(p) PROVE HbInv'
  <1> USE Ticks
  <1> DEFINE c == link[p]
             q == Other(p)
  <1>1. /\ InSession(p) /\ beat[p] = 0 /\ beat' = [beat EXCEPT ![p] = Heartbeat]
        /\ chan' = IF sock_dead[p] THEN chan ELSE Sent(chan, p, c, <<"ping">>)
        /\ UNCHANGED <<role24, link, linked, sock_dead, left, made, backlog24, shutEnd, cut, hurt,
                       blamed>>
    BY DEF HeartbeatFires
  <1>2. c \in Links /\ c <= made /\ q \in Peers /\ q # p /\ Other(q) = p
    BY <1>1, TwoPeers DEF HbInv, HbTypeOK, Sessions, Links
  <1> HIDE DEF c, q
  <1>3. chan' = chan \/ Adds(chan, chan', p, c, "ping")
    <2>1. PICK ch \in [Links -> [Peers -> Seq(Frames24)]] : ch = chan
      BY DEF HbInv, HbTypeOK
    <2>2. PICK new : new = chan'
      OBVIOUS
    <2>3. HbTypeOK /\ "ping" \in {"join", "ping", "msg"}
      BY DEF HbInv
    <2>4. ASSUME ~sock_dead[p] PROVE Adds(ch, new, p, c, "ping")
      BY <1>1, <1>2, <2>1, <2>2, <2>3, <2>4, SentAdds
    <2> QED
      BY <1>1, <2>1, <2>2, <2>4
  <1>4. /\ chan' \in [Links -> [Peers -> Seq(Frames24)]]
        /\ \A d \in Links : \A r \in Peers :
             \/ chan'[d][r] = chan[d][r]
             \/ d = c /\ r = q /\ chan'[d][r] = Append(chan[d][r], <<"ping", 0>>)
    BY <1>3 DEF Adds, q, HbInv, HbTypeOK
  <1>5. HbTypeOK'
    <2>1. beat' \in [Peers -> 0..Heartbeat]
      <3>1. Heartbeat \in 0..Heartbeat
        OBVIOUS
      <3> QED
        BY <1>1, <3>1 DEF HbInv, HbTypeOK
    <2> QED
      BY <1>1, <1>4, <2>1 DEF HbInv, HbTypeOK
  <1>6. Sessions'
    BY <1>1 DEF HbInv, Sessions, InSession
  <1>7. Waiting'
    <2> SUFFICES ASSUME NEW i \in DOMAIN backlog24
                 PROVE  chan'[backlog24[i]]["conn"] = <<>>
      BY <1>1 DEF HbInv, Waiting
    <2>1. backlog24[i] \in Links /\ chan[backlog24[i]]["conn"] = <<>> /\ backlog24[i] # link["lstn"]
      BY DEF HbInv, HbTypeOK, Waiting
    <2>2. ~(backlog24[i] = c /\ "conn" = q)
      BY <2>1 DEF c, q, Other, Peers
    <2> QED
      BY <1>4, <2>1, <2>2, TwoPeers
  <1>8. Unused'
    <2>1. ASSUME NEW d \in Links, d > made PROVE \A r \in Peers : chan'[d][r] = <<>>
      <3>1. d # c
        BY <1>2, <2>1 DEF Links, HbInv, HbTypeOK
      <3> QED
        BY <1>4, <2>1, <3>1 DEF HbInv, Unused
    <2> QED
      BY <1>1, <2>1 DEF HbInv, Unused
  <1>9. InTime'
    <2> SUFFICES ASSUME NEW r \in Peers, Sound24(r)
                 PROVE  Margin(chan'[link[r]][r], left[r], beat'[Other(r)])
      BY <1>1 DEF InTime, Sound24
    <2>1. Margin(chan[link[r]][r], left[r], beat[Other(r)])
      BY DEF HbInv, InTime
    <2>2. CASE r = p
      <3>1. beat'[Other(r)] = beat[Other(r)]
        BY <1>1, <1>2, <2>2 DEF HbInv, HbTypeOK, q
      <3>2. chan'[link[r]][r] = chan[link[r]][r]
        BY <1>2, <1>4, <2>2 DEF c
      <3> QED
        BY <2>1, <3>1, <3>2
    <2>3. CASE r = q
      <3>1. link[r] = c /\ Other(r) = p
        BY <1>2, <2>3 DEF Sound24, c
      <3>2. q \notin shutEnd[c] /\ ~sock_dead[p]
        <4>1. q \notin shutEnd[c]
          BY <1>2, <2>3, <3>1 DEF HbInv, Sessions, Sound24, c
        <4>2. sock_dead[p] => q \in shutEnd[c]
          BY <3>1, <2>3 DEF HbInv, Sessions, Sound24, q, c
        <4> QED
          BY <4>1, <4>2
      <3>3. PICK h \in Seq(Frames24) : h = chan[c][q]
        BY <1>2 DEF HbInv, HbTypeOK
      <3>4. chan'[c][q] = Append(h, <<"ping", 0>>)
        <4>1. chan' = Sent(chan, p, c, <<"ping">>)
          BY <1>1, <3>2
        <4>2. PICK ch \in [Links -> [Peers -> Seq(Frames24)]] : ch = chan
          BY DEF HbInv, HbTypeOK
        <4>3. PICK new : new = chan'
          OBVIOUS
        <4>4. HbTypeOK /\ "ping" \in {"join", "ping", "msg"}
          BY DEF HbInv
        <4>5. Adds(ch, new, p, c, "ping")
          BY <1>2, <4>1, <4>2, <4>3, <4>4, SentAdds
        <4> QED
          BY <1>2, <3>2, <3>3, <4>2, <4>3, <4>5 DEF Adds, q
      <3>5. <<"ping", 0>> \in Frames24
        BY DEF Frames24
      <3>6. left[r] \in 0..Timeout /\ beat[p] \in 0..Heartbeat /\ Margin(h, left[r], beat[p])
        BY <2>1, <2>3, <3>1, <3>3 DEF HbInv, HbTypeOK
      <3>7. Margin(Append(h, <<"ping", 0>>), left[r], beat'[p])
        <4>1. PICK l, b, a, f : l = left[r] /\ b = beat[p] /\ a = beat'[p] /\ f = <<"ping", 0>>
          OBVIOUS
        <4>2. f \in Frames24 /\ f[2] = 0
          BY <3>5, <4>1
        <4> QED
          BY <3>6, <4>1, <4>2, MarginSent
      <3> QED
        BY <2>3, <3>1, <3>4, <3>7
    <2> QED
      BY <2>2, <2>3, TwoPeers DEF q
  <1> QED
    BY <1>1, <1>5, <1>6, <1>7, <1>8, <1>9 DEF HbInv, NoFalseTimeout

\* A frame that is read puts off the deadline of its reader; the message that
\* answers a JOIN is one more frame for the other.
LEMMA HbReads ==
  ASSUME HbInv, NEW p \in Peers, ReadFrame(p) PROVE HbInv'
  <1> USE Ticks
  <1> DEFINE c == link[p]
             q == Other(p)
             f == Head(chan[c][p])[1]
             rest == [chan EXCEPT ![c][p] = Tail(@)]
  <1>1. /\ InSession(p) /\ chan[c][p] # <<>> /\ left' = [left EXCEPT ![p] = Timeout]
        /\ linked' = [linked EXCEPT ![p] = linked[p] \/ f = "join"]
        /\ chan' = rest \/ chan' = Sent(rest, p, c, <<"msg">>)
        /\ UNCHANGED <<role24, link, sock_dead, beat, made, backlog24, shutEnd, cut, hurt, blamed>>
    BY DEF ReadFrame, Arrived
  <1> HIDE DEF f, rest
  <1>2. c \in Links /\ c <= made /\ q \in Peers /\ q # p /\ Other(q) = p
    <2>1. InSession(p)
      BY <1>1
    <2> QED
      BY <2>1, TwoPeers DEF HbInv, HbTypeOK, Sessions, Links
  <1>3. PICK ch \in [Links -> [Peers -> Seq(Frames24)]] : ch = chan
    BY DEF HbInv, HbTypeOK
  <1> HIDE DEF c, q
  <1>4. /\ rest \in [Links -> [Peers -> Seq(Frames24)]] /\ rest[c][p] = Tail(ch[c][p])
        /\ \A d \in Links : \A r \in Peers : (d = c /\ r = p) \/ rest[d][r] = ch[d][r]
    <2>0. PICK s \in Seq(Frames24) : s = ch[c][p] /\ s # <<>>
      BY <1>1, <1>2, <1>3
    <2>1. PICK t \in Seq(Frames24) : t = Tail(s)
      <3>1. Tail(s) \in Seq(Frames24)
        BY <2>0
      <3> QED
        BY <3>1
    <2>2. rest = [ch EXCEPT ![c] = [ch[c] EXCEPT ![p] = t]]
      BY <1>3, <2>0, <2>1 DEF rest
    <2>3. [ch[c] EXCEPT ![p] = t] \in [Peers -> Seq(Frames24)]
      BY <1>2
    <2> QED
      BY <1>2, <2>0, <2>1, <2>2, <2>3
  <1>5. PICK mid \in [Links -> [Peers -> Seq(Frames24)]] : mid = rest
    BY <1>4
  <1>6. PICK new : new = chan'
    OBVIOUS
  <1>7. new = mid \/ Adds(mid, new, p, c, "msg")
    <2>1. HbTypeOK /\ "msg" \in {"join", "ping", "msg"}
      BY DEF HbInv
    <2>2. new = Sent(mid, p, c, <<"msg">>) => Adds(mid, new, p, c, "msg")
      BY <1>2, <2>1, SentAdds
    <2> QED
      BY <1>1, <1>5, <1>6, <2>2
  <1>8. /\ new \in [Links -> [Peers -> Seq(Frames24)]]
        /\ \A d \in Links : \A r \in Peers :
             \/ new[d][r] = ch[d][r] /\ ~(d = c /\ r = p)
             \/ d = c /\ r = p
             \/ d = c /\ r = q /\ new[d][r] = Append(ch[d][r], <<"msg", 0>>)
    <2>1. CASE new = mid
      BY <1>4, <1>5, <2>1
    <2>2. CASE Adds(mid, new, p, c, "msg")
      <3>1. /\ new \in [Links -> [Peers -> Seq(Frames24)]]
            /\ \A d \in Links : \A r \in Peers :
                 \/ new[d][r] = mid[d][r]
                 \/ d = c /\ r = q /\ new[d][r] = Append(mid[d][r], <<"msg", 0>>)
        BY <2>2 DEF Adds, q
      <3>2. \A d \in Links : \A r \in Peers : ~(d = c /\ r = p) => mid[d][r] = ch[d][r]
        BY <1>4, <1>5
      <3> QED
        BY <3>1, <3>2
    <2> QED
      BY <1>7, <2>1, <2>2
  <1>9. HbTypeOK'
    <2>1. left' \in [Peers -> 0..Timeout]
      <3>1. Timeout \in 0..Timeout
        OBVIOUS
      <3> QED
        BY <1>1, <3>1 DEF HbInv, HbTypeOK
    <2>2. linked' \in [Peers -> BOOLEAN]
      BY <1>1 DEF HbInv, HbTypeOK
    <2> QED
      BY <1>1, <1>6, <1>8, <2>1, <2>2 DEF HbInv, HbTypeOK
  <1>10. Sessions'
    BY <1>1 DEF HbInv, Sessions, InSession
  <1>11. \A r \in Peers : r # p => linked'[r] = linked[r] /\ left'[r] = left[r]
    BY <1>1 DEF HbInv, HbTypeOK
  <1>12. Waiting'
    <2> SUFFICES ASSUME NEW i \in DOMAIN backlog24
                 PROVE  /\ chan'[backlog24[i]]["conn"] = <<>>
                        /\ link["conn"] = backlog24[i] => ~linked'["conn"]
      BY <1>1 DEF HbInv, Waiting
    <2>1. /\ backlog24[i] \in Links /\ chan[backlog24[i]]["conn"] = <<>>
          /\ backlog24[i] # link["lstn"]
          /\ link["conn"] = backlog24[i] => ~linked["conn"]
      BY DEF HbInv, HbTypeOK, Waiting
    <2>2. CASE p = "conn"
      <3>1. backlog24[i] # c /\ link["conn"] = c
        BY <1>1, <2>1, <2>2 DEF c
      <3> QED
        BY <1>3, <1>6, <1>8, <2>1, <3>1, TwoPeers
    <2>3. CASE p = "lstn"
      <3>1. backlog24[i] # c /\ "conn" # p
        BY <2>1, <2>3 DEF c
      <3>2. linked'["conn"] = linked["conn"]
        BY <1>11, <3>1, TwoPeers
      <3> QED
        BY <1>3, <1>6, <1>8, <2>1, <3>1, <3>2, TwoPeers
    <2> QED
      BY <2>2, <2>3 DEF Peers
  <1>13. Unused'
    <2>1. ASSUME NEW d \in Links, d > made PROVE \A r \in Peers : chan'[d][r] = <<>>
      <3>1. d # c
        BY <1>2, <2>1 DEF Links, HbInv, HbTypeOK
      <3> QED
        BY <1>3, <1>6, <1>8, <2>1, <3>1 DEF HbInv, Unused
    <2> QED
      BY <1>1, <2>1 DEF HbInv, Unused
  <1>14. InTime'
    <2> SUFFICES ASSUME NEW r \in Peers, Sound24(r)'
                 PROVE  Margin(new[link[r]][r], left'[r], beat[Other(r)])
      BY <1>1, <1>6 DEF InTime
    <2>1. CASE r = p
      <3>1. left'[r] = Timeout
        BY <1>1, <2>1 DEF HbInv, HbTypeOK
      <3>2. PICK h, b : h = new[link[r]][r] /\ b = beat[Other(r)]
        OBVIOUS
      <3>3. h \in Seq(Frames24) /\ b \in 0..Heartbeat
        BY <1>2, <1>8, <2>1, <3>2, TwoPeers DEF HbInv, HbTypeOK, c
      <3>4. Margin(h, Timeout, b)
        BY <3>3, MarginFresh
      <3> QED
        BY <3>1, <3>2, <3>4
    <2>2. CASE r = q
      <3>1. Sound24(r) /\ left'[r] = left[r] /\ link[r] = c /\ Other(r) = p
        BY <1>1, <1>2, <1>11, <2>2 DEF Sound24, c
      <3>2. PICK h, l, b : h = ch[c][r] /\ l = left[r] /\ b = beat[p]
        OBVIOUS
      <3>3. h \in Seq(Frames24) /\ l \in 0..Timeout /\ b \in 0..Heartbeat
        BY <1>2, <2>2, <3>2 DEF HbInv, HbTypeOK
      <3>4. Margin(h, l, b)
        BY <1>3, <3>1, <3>2 DEF HbInv, InTime
      <3>5. PICK g : g = <<"msg", 0>>
        OBVIOUS
      <3>6. Margin(Append(h, g), l, b)
        <4>1. g \in Frames24 /\ g[2] = 0
          BY <3>5 DEF Frames24
        <4> QED
          BY <3>3, <3>4, <4>1, MarginSent
      <3>7. new[c][r] = h \/ new[c][r] = Append(h, g)
        BY <1>2, <1>8, <2>2, <3>2, <3>5
      <3> QED
        BY <3>1, <3>2, <3>4, <3>6, <3>7
    <2> QED
      BY <2>1, <2>2, TwoPeers DEF q
  <1> QED
    BY <1>1, <1>9, <1>10, <1>12, <1>13, <1>14 DEF HbInv, NoFalseTimeout

\* An end of stream is read only when the other end is closed.
LEMMA HbEof ==
  ASSUME HbInv, NEW p \in Peers, ReadEof(p) PROVE HbInv'
  <1>1. /\ InSession(p) /\ Other(p) \in shutEnd[link[p]]
        /\ sock_dead' = [sock_dead EXCEPT ![p] = TRUE]
        /\ UNCHANGED <<role24, link, linked, left, beat, made, backlog24, chan, shutEnd, cut, hurt,
                       blamed>>
    BY DEF ReadEof, Ended
  <1>2. HbTypeOK'
    BY <1>1 DEF HbInv, HbTypeOK
  <1>3. Sessions'
    <2>1. \A q \in Peers : q # p => sock_dead'[q] = sock_dead[q]
      BY <1>1 DEF HbInv, HbTypeOK
    <2> QED
      BY <1>1, <2>1 DEF HbInv, Sessions, InSession
  <1>4. Waiting' /\ Unused'
    BY <1>1 DEF HbInv, Waiting, Unused
  <1>5. InTime'
    BY <1>1 DEF HbInv, InTime, Sound24
  <1> QED
    BY <1>1, <1>2, <1>3, <1>4, <1>5 DEF HbInv, NoFalseTimeout

\* A peer that closes its connections leaves no sound session behind, and closes
\* none that is in the backlog, unless the whole backlog goes.
LEMMA HbCloses ==
  ASSUME HbInv, NEW p \in Peers, NEW next \in Roles24 \ {"session"}, NEW cs,
         CloseAll(p, next, cs), UNCHANGED <<made, cut, hurt>>, blamed' = FALSE,
         \A d \in cs : d <= made,
         backlog24' = <<>> \/ (backlog24' = backlog24 /\ cs = {link[p]})
  PROVE  HbInv'
  <1> USE Ticks
  <1>1. /\ role24' = [role24 EXCEPT ![p] = next] /\ link' = [link EXCEPT ![p] = 0]
        /\ linked' = [linked EXCEPT ![p] = FALSE] /\ sock_dead' = [sock_dead EXCEPT ![p] = FALSE]
        /\ left' = [left EXCEPT ![p] = 0] /\ beat' = [beat EXCEPT ![p] = 0]
        /\ shutEnd' = [c \in Links |-> IF c \in cs THEN shutEnd[c] \cup {p} ELSE shutEnd[c]]
        /\ chan' = [c \in Links |-> IF c \in cs THEN [chan[c] EXCEPT ![p] = <<>>] ELSE chan[c]]
    BY DEF CloseAll
  <1>2. chan' \in [Links -> [Peers -> Seq(Frames24)]]
    <2>1. PICK ch \in [Links -> [Peers -> Seq(Frames24)]] : ch = chan
      BY DEF HbInv, HbTypeOK
    <2>2. PICK e \in Seq(Frames24) : e = <<>>
      <3>1. <<>> \in Seq(Frames24)
        OBVIOUS
      <3> QED
        BY <3>1
    <2>3. \A c \in Links : [ch[c] EXCEPT ![p] = e] \in [Peers -> Seq(Frames24)]
      OBVIOUS
    <2>4. chan' = [c \in Links |-> IF c \in cs THEN [ch[c] EXCEPT ![p] = e] ELSE ch[c]]
      BY <1>1, <2>1, <2>2
    <2> QED
      BY <2>3, <2>4
  <1>3. \A c \in Links :
          /\ c \in cs => shutEnd'[c] = shutEnd[c] \cup {p}
          /\ c \notin cs => shutEnd'[c] = shutEnd[c] /\ chan'[c] = chan[c]
          /\ \A q \in Peers : chan'[c][q] = chan[c][q] \/ (q = p /\ chan'[c][q] = <<>>)
    <2> SUFFICES
          ASSUME NEW c \in Links
          PROVE  /\ c \in cs => shutEnd'[c] = shutEnd[c] \cup {p}
                 /\ c \notin cs => shutEnd'[c] = shutEnd[c] /\ chan'[c] = chan[c]
                 /\ \A q \in Peers : chan'[c][q] = chan[c][q] \/ (q = p /\ chan'[c][q] = <<>>)
      OBVIOUS
    <2>1. /\ c \in cs => shutEnd'[c] = shutEnd[c] \cup {p}
          /\ c \notin cs => shutEnd'[c] = shutEnd[c]
      BY <1>1
    <2>2. /\ c \in cs => chan'[c] = [chan[c] EXCEPT ![p] = <<>>]
          /\ c \notin cs => chan'[c] = chan[c]
      BY <1>1
    <2>3. PICK f \in [Peers -> Seq(Frames24)] : f = chan[c]
      BY DEF HbInv, HbTypeOK
    <2>4. chan'[c] = f \/ chan'[c] = [f EXCEPT ![p] = <<>>]
      BY <2>2, <2>3
    <2>5. \A q \in Peers : chan'[c][q] = f[q] \/ (q = p /\ chan'[c][q] = <<>>)
      BY <2>4
    <2> QED
      BY <2>1, <2>2, <2>3, <2>5
  <1>4. HbTypeOK'
    <2>1. role24' \in [Peers -> Roles24] /\ link' \in [Peers -> 0..MaxConns]
      BY <1>1 DEF HbInv, HbTypeOK
    <2>2. left' \in [Peers -> 0..Timeout] /\ beat' \in [Peers -> 0..Heartbeat]
      BY <1>1 DEF HbInv, HbTypeOK
    <2>3. linked' \in [Peers -> BOOLEAN] /\ sock_dead' \in [Peers -> BOOLEAN]
      BY <1>1 DEF HbInv, HbTypeOK
    <2>4. backlog24' \in Seq(Links)
      <3>1. backlog24 \in Seq(Links) /\ <<>> \in Seq(Links)
        BY DEF HbInv, HbTypeOK
      <3> QED
        BY <3>1
    <2>5. shutEnd' \in [Links -> SUBSET Peers]
      BY <1>1 DEF HbInv, HbTypeOK
    <2> QED
      BY <1>2, <2>1, <2>2, <2>3, <2>4, <2>5 DEF HbInv, HbTypeOK
  <1>5. /\ link'[p] = 0 /\ role24'[p] # "session" /\ linked'[p] = FALSE
        /\ \A q \in Peers :
             q # p => /\ link'[q] = link[q] /\ role24'[q] = role24[q]
                      /\ linked'[q] = linked[q] /\ sock_dead'[q] = sock_dead[q]
    BY <1>1 DEF HbInv, HbTypeOK
  <1>6. Sessions'
    <2> SUFFICES ASSUME NEW q \in Peers
                 PROVE  /\ link'[q] # 0 <=> role24'[q] = "session"
                        /\ link'[q] <= made
                        /\ link'[q] # 0 => q \notin shutEnd'[link'[q]]
                        /\ link'[q] # 0 /\ sock_dead'[q] => Other(q) \in shutEnd'[link'[q]]
      BY DEF Sessions, InSession
    <2>1. CASE q = p
      BY <1>5, <2>1 DEF HbInv, HbTypeOK
    <2>2. CASE q # p
      <3>1. /\ link[q] # 0 <=> role24[q] = "session"
            /\ link[q] <= made
            /\ link[q] # 0 => q \notin shutEnd[link[q]]
            /\ link[q] # 0 /\ sock_dead[q] => Other(q) \in shutEnd[link[q]]
        BY DEF HbInv, Sessions, InSession
      <3>2. link[q] # 0 => link[q] \in Links
        BY DEF HbInv, HbTypeOK, Links
      <3> QED
        BY <1>3, <1>5, <2>2, <3>1, <3>2
    <2> QED
      BY <2>1, <2>2
  <1>7. Waiting'
    <2>1. CASE backlog24' = <<>>
      BY <2>1 DEF Waiting
    <2>2. CASE backlog24' = backlog24 /\ cs = {link[p]}
      <3> SUFFICES ASSUME NEW i \in DOMAIN backlog24
                   PROVE  /\ backlog24[i] # link'["lstn"]
                          /\ "lstn" \notin shutEnd'[backlog24[i]]
                          /\ chan'[backlog24[i]]["conn"] = <<>>
                          /\ link'["conn"] = backlog24[i] => ~linked'["conn"]
        BY <2>2 DEF HbInv, Waiting
      <3>1. /\ backlog24[i] \in Links /\ backlog24[i] # link["lstn"]
            /\ "lstn" \notin shutEnd[backlog24[i]]
            /\ chan[backlog24[i]]["conn"] = <<>>
            /\ link["conn"] = backlog24[i] => ~linked["conn"]
        BY DEF HbInv, HbTypeOK, Waiting
      <3>2. chan'[backlog24[i]]["conn"] = <<>>
        BY <1>3, <3>1, TwoPeers
      <3>3. backlog24[i] # link'["lstn"] /\ (link'["conn"] = backlog24[i] => ~linked'["conn"])
        BY <1>5, <3>1, TwoPeers DEF Links
      <3>4. "lstn" \notin shutEnd'[backlog24[i]]
        BY <1>3, <2>2, <3>1
      <3> QED
        BY <3>2, <3>3, <3>4
    <2> QED
      BY <2>1, <2>2
  <1>8. Unused'
    <2>1. ASSUME NEW c \in Links, c > made
          PROVE  shutEnd'[c] = {} /\ \A q \in Peers : chan'[c][q] = <<>>
      <3>1. c \notin cs
        BY <2>1 DEF HbInv, HbTypeOK, Links
      <3> QED
        BY <1>3, <2>1, <3>1 DEF HbInv, Unused
    <2> QED
      BY <2>1 DEF HbInv, Unused
  <1>9. InTime'
    <2>1. \A q \in Peers : ~Sound24(q)'
      BY <1>5, TwoPeers DEF Sound24
    <2> QED
      BY <2>1 DEF InTime
  <1> QED
    BY <1>4, <1>6, <1>7, <1>8, <1>9 DEF HbInv, NoFalseTimeout

\* A deadline that has come is not that of a sound session.
LEMMA HbTimesOut ==
  ASSUME HbInv, NEW p \in Peers, TimedOut(p) PROVE HbInv'
  <1>1. /\ InSession(p) /\ left[p] = 0 /\ UNCHANGED <<made, backlog24, cut, hurt>>
        /\ \E next \in {"backoff", "accept"} : CloseAll(p, next, {link[p]})
        /\ blamed' = (blamed \/ (/\ linked[p] /\ link[Other(p)] = link[p]
                                  /\ ~sock_dead[p] /\ link[p] \notin hurt))
    BY DEF TimedOut, Drop
  <1>2. ~Sound24(p)
    <2> SUFFICES ASSUME Sound24(p) PROVE FALSE
      OBVIOUS
    <2>1. PICK h, l, b : h = chan[link[p]][p] /\ l = left[p] /\ b = beat[Other(p)]
      OBVIOUS
    <2>2. h \in Seq(Frames24) /\ l \in 0..Timeout /\ b \in 0..Heartbeat
      BY <2>1, TwoPeers DEF HbInv, HbTypeOK, Sound24, Links
    <2>3. Margin(h, l, b)
      BY <2>1 DEF HbInv, InTime
    <2>4. l > 0
      BY <2>2, <2>3, MarginPositive
    <2> QED
      BY <1>1, <2>1, <2>4
  <1>3. link[p] # 0 /\ link[p] <= made
    BY <1>1 DEF HbInv, Sessions
  <1>4. blamed' = FALSE
    BY <1>1, <1>2, <1>3 DEF Sound24, HbInv, NoFalseTimeout
  <1>5. PICK next \in Roles24 \ {"session"} : CloseAll(p, next, {link[p]})
    BY <1>1 DEF Roles24
  <1>6. PICK cs : cs = {link[p]}
    OBVIOUS
  <1>7. CloseAll(p, next, cs) /\ \A d \in cs : d <= made
    BY <1>3, <1>5, <1>6
  <1> QED
    BY <1>1, <1>4, <1>6, <1>7, HbCloses

\* A process that ends closes the connections it has and those it was to accept.
LEMMA HbEnds ==
  ASSUME HbInv, NEW p \in Peers, NEW next \in Roles24 \ {"session"}, Ends24(p, next),
         UNCHANGED <<made, cut, hurt, blamed>>
  PROVE  HbInv'
  <1>1. PICK cs : cs = {link[p]} \cup
                       (IF p = "lstn" THEN {backlog24[i] : i \in DOMAIN backlog24} ELSE {})
    OBVIOUS
  <1>2. CloseAll(p, next, cs) /\ backlog24' = IF p = "lstn" THEN <<>> ELSE backlog24
    BY <1>1 DEF Ends24
  <1>3. \A d \in cs : d <= made
    BY <1>1 DEF HbInv, Sessions, Waiting
  <1>4. blamed' = FALSE
    BY DEF HbInv, NoFalseTimeout, HbTypeOK
  <1>5. backlog24' = <<>> \/ (backlog24' = backlog24 /\ cs = {link[p]})
    BY <1>1, <1>2
  <1> QED
    BY <1>2, <1>3, <1>4, <1>5, HbCloses

\* Time passes when no heartbeat and no frame is due, and uses up the margin of a
\* sound session no faster than it brings the next heartbeat or the frame nearer.
LEMMA HbTick ==
  ASSUME HbInv, Tick PROVE HbInv'
  <1> USE Ticks
  <1>1. /\ \A p \in Peers : ~Busy(p)
        /\ left' = [p \in Peers |-> Less(left[p])] /\ beat' = [p \in Peers |-> Less(beat[p])]
        /\ UNCHANGED <<role24, link, linked, sock_dead, made, backlog24, shutEnd, cut, hurt, blamed>>
    BY DEF Tick
  <1>2. chan' = [c \in Links |-> [p \in Peers |-> Older(chan[c][p])]]
    BY DEF Tick, Older
  <1>3. PICK ch \in [Links -> [Peers -> Seq(Frames24)]] : ch = chan
    BY DEF HbInv, HbTypeOK
  <1>4. \A c \in Links : \A p \in Peers :
          /\ chan'[c][p] = Older(ch[c][p]) /\ Older(ch[c][p]) \in Seq(Frames24)
          /\ ch[c][p] = <<>> => Older(ch[c][p]) = <<>>
    <2> TAKE c \in Links
    <2> TAKE p \in Peers
    <2>2. ch[c][p] \in Seq(Frames24)
      OBVIOUS
    <2>3. /\ Older(ch[c][p]) \in Seq(Frames24)
          /\ ch[c][p] = <<>> => Older(ch[c][p]) = <<>>
      BY <2>2, OlderType
    <2> QED
      BY <1>2, <1>3, <2>3
  <1>5. HbTypeOK'
    <2>1. chan' \in [Links -> [Peers -> Seq(Frames24)]]
      BY <1>2, <1>3, <1>4
    <2>2. left' \in [Peers -> 0..Timeout] /\ beat' \in [Peers -> 0..Heartbeat]
      BY <1>1 DEF HbInv, HbTypeOK, Less
    <2> QED
      BY <1>1, <2>1, <2>2 DEF HbInv, HbTypeOK
  <1>6. Sessions'
    BY <1>1 DEF HbInv, Sessions, InSession
  <1>7. Waiting'
    <2> SUFFICES ASSUME NEW i \in DOMAIN backlog24
                 PROVE  chan'[backlog24[i]]["conn"] = <<>>
      BY <1>1 DEF HbInv, Waiting
    <2>1. backlog24[i] \in Links /\ chan[backlog24[i]]["conn"] = <<>>
      BY DEF HbInv, HbTypeOK, Waiting
    <2> QED
      BY <1>3, <1>4, <2>1, TwoPeers
  <1>8. Unused'
    <2>1. ASSUME NEW c \in Links, c > made PROVE \A p \in Peers : chan'[c][p] = <<>>
      BY <1>3, <1>4, <2>1 DEF HbInv, Unused
    <2> QED
      BY <1>1, <2>1 DEF HbInv, Unused
  <1>9. InTime'
    <2> SUFFICES ASSUME NEW p \in Peers, Sound24(p)
                 PROVE  Margin(chan'[link[p]][p], left'[p], beat'[Other(p)])
      BY <1>1 DEF InTime, Sound24
    <2>1. PICK c, h, l, b : c = link[p] /\ h = ch[c][p] /\ l = left[p] /\ b = beat[Other(p)]
      OBVIOUS
    <2>2. /\ c \in Links /\ h \in Seq(Frames24) /\ l \in 0..Timeout /\ b \in 0..Heartbeat
          /\ Other(p) \in Peers
      <3>1. Other(p) \in Peers
        BY TwoPeers
      <3>2. c \in Links
        BY <2>1 DEF HbInv, HbTypeOK, Sound24, Links
      <3> QED
        BY <1>3, <2>1, <3>1, <3>2 DEF HbInv, HbTypeOK
    <2>3. Margin(h, l, b)
      BY <1>3, <2>1 DEF HbInv, InTime
    <2>4. InSession(p) /\ InSession(Other(p))
      BY <2>2 DEF HbInv, Sessions, Sound24
    <2>5. b > 0
      <3>1. beat[Other(p)] # 0
        BY <1>1, <2>2, <2>4 DEF Busy
      <3> QED
        BY <2>1, <2>2, <3>1
    <2>6. ASSUME h # <<>> PROVE h[1][2] < Delay
      <3>1. ~cut
        BY <2>1, <2>2 DEF HbInv, Unused, Sessions, Sound24
      <3>2. ~sock_dead[p]
        BY <2>2 DEF HbInv, Sessions, Sound24
      <3>3. Arrived(p) /\ Head(h) = h[1]
        BY <1>3, <2>1, <2>2, <2>4, <2>6, <3>1, <3>2 DEF Arrived
      <3>4. ~(Head(h)[2] >= Delay)
        BY <1>1, <1>3, <2>1, <3>3 DEF Busy, Due
      <3>5. h[1][2] \in 0..Delay
        BY <2>2, <2>6, OlderType
      <3> QED
        BY <3>3, <3>4, <3>5
    <2>7. Margin(Older(h), Less(l), Less(b))
      BY <2>2, <2>3, <2>5, <2>6, MarginTick
    <2> QED
      BY <1>1, <1>4, <2>1, <2>2, <2>7
  <1> QED
    BY <1>1, <1>5, <1>6, <1>7, <1>8, <1>9 DEF HbInv, NoFalseTimeout

\* Every step keeps the invariant.
LEMMA HbNextInv ==
  ASSUME HbInv, [HbNext]_hbVars PROVE HbInv'
  <1>1. CASE Dial
    BY <1>1, HbDial, HbOutsideSteps
  <1>2. CASE BackoffEnds \/ Heal \/ Cut \/ (\E p \in Peers : Up(p)) \/ UNCHANGED hbVars
    BY <1>2, HbOutsideSteps
  <1>3. CASE AcceptPeer
    BY <1>3, HbAccept
  <1>4. CASE Tick
    BY <1>4, HbTick
  <1>5. ASSUME NEW p \in Peers, HeartbeatFires(p) \/ ReadFrame(p) \/ ReadEof(p) \/ TimedOut(p)
        PROVE  HbInv'
    BY <1>5, HbFires, HbReads, HbEof, HbTimesOut
  <1>6. ASSUME NEW p \in Peers, Shutdown24(p) \/ Down(p)
        PROVE  HbInv'
    <2>1. PICK next \in Roles24 \ {"session"} :
            Ends24(p, next) /\ UNCHANGED <<made, cut, hurt, blamed>>
      BY <1>6 DEF Shutdown24, Down, Roles24
    <2> QED
      BY <2>1, HbEnds
  <1> QED
    BY <1>1, <1>2, <1>3, <1>4, <1>5, <1>6 DEF HbNext, HbProgress

\* A peer that has linked and is there, on a network that is whole, is never
\* declared dead, whatever the options are as long as the deadline exceeds a
\* heartbeat and the time a frame takes.
THEOREM HbNoFalseTimeout == HbSpec => []NoFalseTimeout
  <1>1. HbInit => HbInv
    BY HbInitInv
  <1>2. HbInv /\ [HbNext]_hbVars => HbInv'
    BY HbNextInv
  <1>3. HbInv => NoFalseTimeout
    BY DEF HbInv
  <1> QED
    BY <1>1, <1>2, <1>3, PTL DEF HbSpec

-----------------------------------------------------------------------------
(* chatterd v1.  That a WELCOME means membership is not inductive: what    *)
(* matters is that nothing is ever written, queued or about to be written  *)
(* to a connection that is not registered, unless it is over.              *)

Units22 == {"welcome", "deliver"} \X (Clients \cup {NoOne}) \X {1, 2}

ScaleTypeOK ==
  /\ peer \in [Clients -> {"out", "welcome", "ready", "echo", "done", "gaveup"}]
  /\ seen \in [Clients -> Seq(Units22)] /\ down \in [Clients -> Seq(Units22)]
  /\ outbuf \in [Clients -> Seq(Units22)] /\ wr \in [Clients -> Seq(Units22)]
  /\ writing \in [Clients -> Clients \cup {NoOne}] /\ snap \in [Clients -> SUBSET Clients]
  /\ conns \subseteq Clients /\ backlog \subseteq Clients

\* The connection is over, or the server is.
Over(c)  == c \in rst \/ Closed(c) \/ srv # "up"
Known(c) == c \in conns \/ Over(c)

\* Something was written to c or is queued for it.
Touched(c) == seen[c] # <<>> \/ down[c] # <<>> \/ outbuf[c] # <<>>

Reached ==
  /\ shut # {} => srv # "up"
  /\ \A c \in Clients :
       /\ Touched(c) => Known(c)
       /\ \A t \in Clients : (writing[c] = t \/ t \in snap[c]) => Known(t)
       /\ (c \in Flooders /\ peer[c] \in {"ready", "echo"}) => seen[c] # <<>>

MemInv == ScaleTypeOK /\ Reached

\* The first state.
LEMMA MemInitInv == ScaleInit => MemInv
  <1> SUFFICES ASSUME ScaleInit PROVE MemInv
    OBVIOUS
  <1>1. ScaleTypeOK
    <2>1. seen \in [Clients -> Seq(Units22)] /\ down \in [Clients -> Seq(Units22)]
      BY DEF ScaleInit
    <2>2. outbuf \in [Clients -> Seq(Units22)] /\ wr \in [Clients -> Seq(Units22)]
      BY DEF ScaleInit
    <2>3. /\ peer \in [Clients -> {"out", "welcome", "ready", "echo", "done", "gaveup"}]
          /\ writing \in [Clients -> Clients \cup {NoOne}] /\ snap \in [Clients -> SUBSET Clients]
          /\ conns \subseteq Clients /\ backlog \subseteq Clients
      BY DEF ScaleInit
    <2> QED
      BY <2>1, <2>2, <2>3 DEF ScaleTypeOK
  <1>2. Reached
    BY ScaleAssumption DEF ScaleInit, Reached, Touched
  <1> QED
    BY <1>1, <1>2 DEF MemInv

\* What a step must keep so that the invariant is kept: a registered connection
\* is forgotten only when it is over, and only a known one is written to.
LEMMA MemStep ==
  ASSUME MemInv, ScaleTypeOK', shut' = shut \/ srv' # "up",
         srv # "up" => srv' # "up", rst \subseteq rst', \A c \in Clients : Closed(c) => Closed(c)',
         \A c \in conns : Known(c)',
         \A c \in Clients :
           /\ Touched(c)' => Touched(c) \/ Known(c)'
           /\ \A t \in Clients : writing'[c] = t => writing[c] = t \/ Known(t)'
           /\ \A t \in snap'[c] : t \in snap[c] \/ Known(t)'
           /\ (c \in Flooders /\ peer'[c] \in {"ready", "echo"}) => seen'[c] # <<>>
  PROVE  MemInv'
  <1>1. \A c \in Clients : Known(c) => Known(c)'
    BY DEF Known, Over
  <1>2. shut' # {} => srv' # "up"
    BY DEF MemInv, Reached
  <1>3. \A c \in Clients : Touched(c)' => Known(c)'
    BY <1>1 DEF MemInv, Reached
  <1>4. \A c, t \in Clients : (writing'[c] = t \/ t \in snap'[c]) => Known(t)'
    BY <1>1 DEF MemInv, Reached
  <1> QED
    BY <1>2, <1>3, <1>4 DEF MemInv, Reached

\* A part of a sequence of units is one, and nothing comes of nothing.
LEMMA UnitParts ==
  ASSUME NEW s \in Seq(Units22), NEW n \in Nat, n <= Len(s)
  PROVE  /\ SubSeq(s, 1, n) \in Seq(Units22) /\ SubSeq(s, n + 1, Len(s)) \in Seq(Units22)
         /\ Len(SubSeq(s, 1, n)) = n /\ Len(SubSeq(s, n + 1, Len(s))) = Len(s) - n
         /\ \A i \in 1..n : SubSeq(s, 1, n)[i] = s[i]
         /\ \A i \in 1..(Len(s) - n) : SubSeq(s, n + 1, Len(s))[i] = s[n + i]
  OBVIOUS

\* A frame is two units.
LEMMA FrameUnits ==
  ASSUME NEW t \in {"welcome", "deliver"}, NEW c \in Clients \cup {NoOne}
  PROVE  Encode(t, c) \in Seq(Units22) /\ Len(Encode(t, c)) = 2
  BY DEF Encode, Units22

\* A client that leaves takes what it has not read with it.
LEMMA MemLeaves ==
  ASSUME MemInv, NEW c \in Clients, NEW how \in {"done", "gaveup"}, Leave(c, how),
         UNCHANGED <<srv, shut, conns, seen, outbuf, wr, writing, snap, backlog>>
  PROVE  MemInv'
  <1>1. /\ peer' = [peer EXCEPT ![c] = how] /\ rst \subseteq rst'
        /\ down' = [down EXCEPT ![c] = <<>>]
    BY DEF Leave
  <1>2. ScaleTypeOK'
    BY <1>1 DEF MemInv, ScaleTypeOK
  <1>3. \A d \in Clients : /\ peer'[d] = IF d = c THEN how ELSE peer[d]
                           /\ down'[d] = IF d = c THEN <<>> ELSE down[d]
    BY <1>1 DEF MemInv, ScaleTypeOK
  <1>4. \A d \in Clients : Closed(d) => Closed(d)'
    BY <1>3 DEF Closed
  <1>5. \A d \in Clients : Touched(d)' => Touched(d)
    BY <1>3 DEF Touched
  <1>6. \A d \in Clients :
          (d \in Flooders /\ peer'[d] \in {"ready", "echo"}) => seen'[d] # <<>>
    BY <1>3 DEF MemInv, Reached
  <1>7. \A d \in conns : Known(d)'
    BY DEF Known
  <1> QED
    BY <1>1, <1>2, <1>4, <1>5, <1>6, <1>7, MemStep

\* A flooder is past its WELCOME only when it has read something.
LEMMA MemReads ==
  ASSUME MemInv, NEW c \in Clients, ClientReads(c) PROVE MemInv'
  <1>1. /\ peer[c] \in {"welcome", "echo"} /\ down[c] # <<>>
        /\ seen' = [seen EXCEPT ![c] = seen[c] \o down[c]]
        /\ down' = [down EXCEPT ![c] = <<>>]
        /\ UNCHANGED <<srv, shut, conns, rst, outbuf, wr, writing, snap, backlog>>
    BY DEF ClientReads, thr, epo
  <1>2. PICK to \in {"welcome", "ready", "echo", "done"} : peer' = [peer EXCEPT ![c] = to]
    BY <1>1 DEF ClientReads
  <1>3. seen[c] \o down[c] \in Seq(Units22) /\ seen[c] \o down[c] # <<>>
    <2>1. seen[c] \in Seq(Units22) /\ down[c] \in Seq(Units22)
      BY DEF MemInv, ScaleTypeOK
    <2> QED
      BY <1>1, <2>1
  <1>4. ScaleTypeOK'
    BY <1>1, <1>2, <1>3 DEF MemInv, ScaleTypeOK
  <1>5. \A d \in Clients : /\ d # c => peer'[d] = peer[d] /\ seen'[d] = seen[d]
                           /\ d = c => seen'[d] # <<>>
                           /\ down'[d] = IF d = c THEN <<>> ELSE down[d]
    BY <1>1, <1>2, <1>3 DEF MemInv, ScaleTypeOK
  <1>6. \A d \in Clients : Closed(d) => Closed(d)'
    BY <1>1, <1>5 DEF Closed
  <1>7. \A d \in Clients : Touched(d)' => Touched(d)
    BY <1>1, <1>5 DEF Touched
  <1>8. \A d \in Clients :
          (d \in Flooders /\ peer'[d] \in {"ready", "echo"}) => seen'[d] # <<>>
    BY <1>5 DEF MemInv, Reached
  <1>9. \A d \in conns : Known(d)'
    BY <1>1 DEF Known
  <1> QED
    BY <1>1, <1>4, <1>6, <1>7, <1>8, <1>9, MemStep

\* The other steps of the clients, and the signal.
LEMMA MemClients ==
  ASSUME MemInv, NEW c \in Clients,
         \/ ConnectTo(c) \/ ClientWrites(c) \/ FloodGo(c) \/ ClientSeesEnd(c) \/ ClientTimesOut(c)
         \/ Signal22
  PROVE  MemInv'
  <1>1. UNCHANGED <<srv, shut, conns, seen, outbuf, wr, writing, snap>>
    BY DEF ConnectTo, ClientWrites, FloodGo, ClientSeesEnd, ClientTimesOut, Signal22, client, thr,
           epo
  <1>2. CASE Leave(c, "gaveup") /\ backlog' = backlog
    BY <1>1, <1>2, MemLeaves
  <1>3. CASE /\ UNCHANGED <<down, rst>>
             /\ backlog' = backlog \/ backlog' = backlog \cup {c}
             /\ \/ peer' = peer
                \/ \E to \in {"welcome", "echo"} :
                     /\ peer' = [peer EXCEPT ![c] = to]
                     /\ \/ peer[c] = "out" /\ (c \in Flooders => to = "welcome")
                        \/ peer[c] = "ready" /\ to = "echo"
    <2>1. ScaleTypeOK'
      BY <1>1, <1>3 DEF MemInv, ScaleTypeOK
    <2>2. \A d \in Clients : Closed(d) => Closed(d)'
      BY <1>3 DEF Closed, MemInv, ScaleTypeOK
    <2>3. \A d \in Clients : Touched(d)' => Touched(d)
      BY <1>1, <1>3 DEF Touched
    <2>4. \A d \in Clients :
            (d \in Flooders /\ peer'[d] \in {"ready", "echo"}) => seen'[d] # <<>>
      BY <1>1, <1>3 DEF MemInv, Reached, ScaleTypeOK
    <2>5. \A d \in conns : Known(d)'
      BY <1>1 DEF Known
    <2> QED
      BY <1>1, <1>3, <2>1, <2>2, <2>3, <2>4, <2>5, MemStep
  <1> QED
    <2>1. CASE ConnectTo(c)
      BY <1>3, <2>1 DEF ConnectTo, wire
    <2>2. CASE ClientWrites(c)
      BY <1>2, <1>3, <2>2 DEF ClientWrites
    <2>3. CASE FloodGo(c)
      BY <1>3, <2>3 DEF FloodGo, wire
    <2>4. CASE ClientSeesEnd(c) \/ ClientTimesOut(c)
      BY <1>2, <2>4 DEF ClientSeesEnd, ClientTimesOut
    <2>5. CASE Signal22
      BY <1>3, <2>5 DEF Signal22, client, wire
    <2> QED
      BY <2>1, <2>2, <2>3, <2>4, <2>5

\* A worker writes to a connection it was given or found registered.
LEMMA MemWrites ==
  ASSUME MemInv, NEW c \in Clients, WriteAll(c) PROVE MemInv'
  <1> DEFINE t == writing[c]
             n == IF Space(t) < Len(wr[c]) THEN Space(t) ELSE Len(wr[c])
  <1>1. t \in Clients /\ Known(t) /\ wr[c] \in Seq(Units22) /\ down[t] \in Seq(Units22)
    BY DEF WriteAll, MemInv, Reached, ScaleTypeOK
  <1>2. n \in Nat /\ n <= Len(wr[c])
    BY <1>1, ScaleAssumption DEF Space
  <1>3. PICK a, b \in Seq(Units22) : a = SubSeq(wr[c], 1, n) /\ b = SubSeq(wr[c], n + 1, Len(wr[c]))
    BY <1>1, <1>2, UnitParts
  <1>4. /\ UNCHANGED <<srv, shut, conns, peer, seen, outbuf, backlog>>
        /\ rst \subseteq rst'
        /\ down' = down \/ down' = [down EXCEPT ![t] = down[t] \o a]
        /\ wr' = [wr EXCEPT ![c] = <<>>] \/ wr' = [wr EXCEPT ![c] = b]
        /\ writing' = writing \/ writing' = [writing EXCEPT ![c] = NoOne]
        /\ snap' = snap \/ snap' = [snap EXCEPT ![c] = snap[c] \ {t}]
    BY <1>3 DEF WriteAll, AfterWrite, client, epo
  <1> HIDE DEF n, t
  <1>5. ScaleTypeOK'
    <2>1. down' \in [Clients -> Seq(Units22)]
      <3>1. down[t] \o a \in Seq(Units22)
        BY <1>1, <1>3
      <3> QED
        BY <1>4, <3>1 DEF MemInv, ScaleTypeOK
    <2>2. wr' \in [Clients -> Seq(Units22)]
      <3>1. <<>> \in Seq(Units22)
        OBVIOUS
      <3> QED
        BY <1>3, <1>4, <3>1 DEF MemInv, ScaleTypeOK
    <2>3. writing' \in [Clients -> Clients \cup {NoOne}]
      BY <1>4 DEF MemInv, ScaleTypeOK
    <2>4. snap' \in [Clients -> SUBSET Clients]
      <3>1. snap \in [Clients -> SUBSET Clients] /\ snap[c] \ {t} \in SUBSET Clients
        BY DEF MemInv, ScaleTypeOK
      <3> QED
        BY <1>4, <3>1
    <2> QED
      BY <1>4, <2>1, <2>2, <2>3, <2>4 DEF MemInv, ScaleTypeOK
  <1>6. \A d \in Clients : Known(d) => Known(d)'
    BY <1>4 DEF Known, Over, Closed
  <1>7. \A d \in Clients : Touched(d)' => Touched(d) \/ Known(d)'
    <2>1. \A d \in Clients : d # t => down'[d] = down[d]
      BY <1>4 DEF MemInv, ScaleTypeOK
    <2> QED
      BY <1>1, <1>4, <1>6, <2>1 DEF Touched
  <1>8. \A d, u \in Clients : writing'[d] = u => writing[d] = u
    BY <1>4, ScaleAssumption DEF MemInv, ScaleTypeOK
  <1>9. \A d \in Clients : Closed(d) => Closed(d)'
    BY <1>4 DEF Closed
  <1>10. \A d \in conns : Known(d)'
    BY <1>4 DEF Known
  <1>11. \A d \in Clients :
           (d \in Flooders /\ peer'[d] \in {"ready", "echo"}) => seen'[d] # <<>>
    BY <1>4 DEF MemInv, Reached
  <1>12. \A d \in Clients : \A u \in snap'[d] : u \in snap[d]
    <2>1. snap \in [Clients -> SUBSET Clients]
      BY DEF MemInv, ScaleTypeOK
    <2>2. \A d \in Clients : snap'[d] = snap[d] \/ (d = c /\ snap'[d] = snap[c] \ {t})
      BY <1>4, <2>1
    <2> QED
      BY <2>2
  <1> QED
    BY <1>4, <1>5, <1>7, <1>8, <1>9, <1>10, <1>11, <1>12, MemStep

\* The other steps of workers and main thread: a connection is registered before
\* its worker starts, broadcasts go to a copy of the registry, and a worker
\* unregisters what is over.
LEMMA MemThreads ==
  ASSUME MemInv, NEW c \in Clients,
         \/ AcceptThreaded(c) \/ RecvFrames(c) \/ RecvEnds(c) \/ HandleFrame(c)
         \/ (\E t \in Clients : BroadcastTo(c, t)) \/ ShutdownAll \/ WorkersJoined
  PROVE  MemInv'
  <1>1. UNCHANGED <<peer, seen, down, rst, outbuf>>
    BY DEF AcceptThreaded, RecvFrames, RecvEnds, HandleFrame, BroadcastTo, ShutdownAll,
           WorkersJoined, client, wire, epo
  <1>2. /\ \A d \in Clients : Closed(d) => Closed(d)'
        /\ \A d \in Clients : Touched(d)' => Touched(d)
        /\ \A d \in Clients :
             (d \in Flooders /\ peer'[d] \in {"ready", "echo"}) => seen'[d] # <<>>
    BY <1>1 DEF Closed, Touched, MemInv, Reached
  <1>3. srv # "up" => srv' # "up"
    BY DEF AcceptThreaded, RecvFrames, RecvEnds, HandleFrame, BroadcastTo, ShutdownAll,
           WorkersJoined
  <1>4. shut' = shut \/ srv' # "up"
    BY DEF AcceptThreaded, RecvFrames, RecvEnds, HandleFrame, BroadcastTo, ShutdownAll,
           WorkersJoined, thr
  <1>5. \A d \in conns : Known(d)'
    <2>1. CASE RecvEnds(c)
      <3>1. c \in rst \/ c \in shut \/ Closed(c)
        BY <2>1 DEF RecvEnds
      <3>2. c \in shut => srv # "up"
        BY DEF MemInv, Reached
      <3>3. Over(c)'
        BY <1>1, <1>3, <3>1, <3>2 DEF Over, Closed
      <3>4. conns' = conns \ {c}
        BY <2>1 DEF RecvEnds
      <3> QED
        BY <3>3, <3>4 DEF Known
    <2>2. CASE ~RecvEnds(c)
      <3>1. conns \subseteq conns'
        BY <2>2 DEF AcceptThreaded, RecvFrames, HandleFrame, BroadcastTo, ShutdownAll,
                    WorkersJoined
      <3> QED
        BY <3>1 DEF Known
    <2> QED
      BY <2>1, <2>2
  <1>6. \A d \in Clients : Known(d) => Known(d)'
    BY <1>1, <1>2, <1>3, <1>5 DEF Known, Over
  <1>7. ScaleTypeOK' /\ \A d \in Clients :
                          /\ \A t \in Clients : writing'[d] = t => writing[d] = t \/ Known(t)'
                          /\ \A t \in snap'[d] : t \in snap[d] \/ Known(t)'
    <2>1. CASE AcceptThreaded(c)
      <3>1. /\ conns' = conns \cup {c} /\ backlog' = backlog \ {c} /\ snap' = snap
            /\ wr' = [wr EXCEPT ![c] = Encode("welcome", c)]
            /\ writing' = [writing EXCEPT ![c] = c]
        BY <2>1 DEF AcceptThreaded
      <3>2. Encode("welcome", c) \in Seq(Units22)
        BY FrameUnits
      <3>3. wr' \in [Clients -> Seq(Units22)]
        BY <3>1, <3>2 DEF MemInv, ScaleTypeOK
      <3>4. ScaleTypeOK'
        BY <1>1, <3>1, <3>3 DEF MemInv, ScaleTypeOK
      <3>5. Known(c)'
        BY <3>1 DEF Known
      <3> QED
        BY <3>1, <3>4, <3>5 DEF MemInv, ScaleTypeOK
    <2>2. CASE \E t \in Clients : BroadcastTo(c, t)
      <3>1. PICK t \in Clients : BroadcastTo(c, t)
        BY <2>2
      <3>2. PICK u \in Clients \cup {NoOne} : u = IF c \in nick THEN c ELSE NoOne
        OBVIOUS
      <3>3. /\ t \in snap[c] /\ UNCHANGED <<conns, backlog, snap>>
            /\ writing' = [writing EXCEPT ![c] = t]
            /\ wr' = [wr EXCEPT ![c] = Encode("deliver", u)]
        BY <3>1, <3>2 DEF BroadcastTo, client
      <3>4. Encode("deliver", u) \in Seq(Units22)
        BY FrameUnits
      <3>5. wr' \in [Clients -> Seq(Units22)]
        BY <3>3, <3>4 DEF MemInv, ScaleTypeOK
      <3>6. ScaleTypeOK'
        BY <1>1, <3>3, <3>5 DEF MemInv, ScaleTypeOK
      <3>7. Known(t)'
        BY <1>6, <3>3 DEF MemInv, Reached
      <3> QED
        BY <3>3, <3>6, <3>7 DEF MemInv, ScaleTypeOK
    <2>3. CASE HandleFrame(c)
      <3>1. /\ UNCHANGED <<conns, backlog, writing, wr>>
            /\ snap' = snap \/ snap' = [snap EXCEPT ![c] = conns]
        BY <2>3 DEF HandleFrame, client
      <3>2. ScaleTypeOK'
        BY <1>1, <3>1 DEF MemInv, ScaleTypeOK
      <3> QED
        BY <1>5, <3>1, <3>2 DEF MemInv, ScaleTypeOK
    <2>4. CASE RecvFrames(c) \/ RecvEnds(c) \/ ShutdownAll \/ WorkersJoined
      <3>1. UNCHANGED <<backlog, writing, wr, snap>> /\ conns' \subseteq conns
        BY <2>4 DEF RecvFrames, RecvEnds, ShutdownAll, WorkersJoined, client, thr
      <3> QED
        BY <1>1, <3>1 DEF MemInv, ScaleTypeOK
    <2> QED
      BY <2>1, <2>2, <2>3, <2>4
  <1> QED
    BY <1>1, <1>2, <1>3, <1>4, <1>5, <1>7, MemStep

\* What flush makes of the queue ob of connection d: nothing reaches a connection
\* that is over, and otherwise a part of the queue moves into the socket.
Flushed(d, ob) ==
  \/ (d \in rst \/ Closed(d)) /\ down'[d] = down[d] /\ outbuf'[d] \in {ob, <<>>}
  \/ /\ d \notin rst /\ ~Closed(d)
     /\ \E n \in Nat : /\ n <= Len(ob) /\ down'[d] = down[d] \o SubSeq(ob, 1, n)
                       /\ outbuf'[d] = SubSeq(ob, n + 1, Len(ob))

\* QueueOn flushes exactly the connections it is given.
LEMMA QueueFlushes ==
  ASSUME MemInv, NEW cs \in SUBSET Clients, NEW new \in Seq(Units22), QueueOn(cs, new)
  PROVE  /\ rst \subseteq rst'
         /\ \A d \in cs : Flushed(d, outbuf[d] \o new)
         /\ \A d \in Clients \ cs : down'[d] = down[d] /\ outbuf'[d] = outbuf[d]
  <1>1. /\ rst \subseteq rst'
        /\ \A d \in Clients :
             /\ down'[d] = IF d \in cs THEN Flush(d, outbuf[d] \o new).down ELSE down[d]
             /\ outbuf'[d] = IF d \in cs THEN Flush(d, outbuf[d] \o new).outbuf ELSE outbuf[d]
    BY DEF QueueOn
  <1>2. ASSUME NEW d \in cs PROVE Flushed(d, outbuf[d] \o new)
    <2>1. PICK ob \in Seq(Units22) : ob = outbuf[d] \o new
      <3>1. outbuf[d] \in Seq(Units22)
        BY <1>2 DEF MemInv, ScaleTypeOK
      <3>2. outbuf[d] \o new \in Seq(Units22)
        BY <3>1
      <3> QED
        BY <3>2
    <2>2. PICK n : n = IF Space(d) < Len(ob) THEN Space(d) ELSE Len(ob)
      OBVIOUS
    <2>3. down[d] \in Seq(Units22)
      BY <1>2 DEF MemInv, ScaleTypeOK
    <2>4. n \in Nat /\ n <= Len(ob)
      BY <2>1, <2>2, <2>3, ScaleAssumption DEF Space
    <2>5. /\ down'[d] = IF (d \notin rst /\ ob # <<>>) /\ ~Closed(d)
                        THEN down[d] \o SubSeq(ob, 1, n) ELSE down[d]
          /\ outbuf'[d] = IF ~(d \notin rst /\ ob # <<>>) THEN ob
                          ELSE IF Closed(d) THEN <<>> ELSE SubSeq(ob, n + 1, Len(ob))
      BY <1>1, <2>1, <2>2 DEF Flush
    <2>6. CASE d \in rst \/ Closed(d)
      BY <2>1, <2>5, <2>6 DEF Flushed
    <2>7. CASE d \notin rst /\ ~Closed(d) /\ ob # <<>>
      BY <2>1, <2>4, <2>5, <2>7 DEF Flushed
    <2>8. CASE d \notin rst /\ ~Closed(d) /\ ob = <<>>
      <3>1. 0 <= Len(ob) /\ down[d] \o SubSeq(ob, 1, 0) = down[d] /\ SubSeq(ob, 1, Len(ob)) = ob
        BY <2>3, <2>8
      <3>2. down'[d] = down[d] \o SubSeq(ob, 1, 0) /\ outbuf'[d] = SubSeq(ob, 0 + 1, Len(ob))
        BY <2>5, <2>8, <3>1
      <3>3. \E k \in Nat : /\ k <= Len(ob) /\ down'[d] = down[d] \o SubSeq(ob, 1, k)
                           /\ outbuf'[d] = SubSeq(ob, k + 1, Len(ob))
        BY <3>1, <3>2
      <3> QED
        BY <2>1, <2>8, <3>3 DEF Flushed
    <2> QED
      BY <2>6, <2>7, <2>8
  <1>3. \A d \in Clients \ cs : down'[d] = down[d] /\ outbuf'[d] = outbuf[d]
    BY <1>1
  <1> QED
    BY <1>1, <1>2, <1>3

\* The epoll loop queues frames for registered connections only; EPOLLOUT adds
\* nothing to a queue.
LEMMA MemQueues ==
  ASSUME MemInv, NEW cs \in SUBSET Clients, NEW new \in Seq(Units22), QueueOn(cs, new),
         UNCHANGED <<srv, shut, peer, seen, wr, writing, snap>>,
         conns \subseteq conns', conns' \subseteq Clients, backlog' \subseteq Clients,
         cs \subseteq conns' \/ new = <<>>
  PROVE  MemInv'
  <1>1. /\ rst \subseteq rst'
        /\ \A d \in cs : Flushed(d, outbuf[d] \o new)
        /\ \A d \in Clients \ cs : down'[d] = down[d] /\ outbuf'[d] = outbuf[d]
    BY QueueFlushes
  <1>2. ASSUME NEW d \in Clients
        PROVE  /\ down'[d] \in Seq(Units22) /\ outbuf'[d] \in Seq(Units22)
               /\ Touched(d)' => Touched(d) \/ d \in conns'
    <2>1. down[d] \in Seq(Units22) /\ outbuf[d] \in Seq(Units22)
      BY DEF MemInv, ScaleTypeOK
    <2>2. PICK ob \in Seq(Units22) : ob = outbuf[d] \o new /\ (new = <<>> => ob = outbuf[d])
      <3>1. outbuf[d] \o new \in Seq(Units22) /\ outbuf[d] \o <<>> = outbuf[d]
        BY <2>1
      <3> QED
        BY <3>1
    <2>3. CASE d \notin cs
      BY <1>1, <2>1, <2>3 DEF Touched
    <2>4. CASE d \in cs /\ down'[d] = down[d] /\ outbuf'[d] \in {ob, <<>>}
      <3>1. <<>> \in Seq(Units22)
        OBVIOUS
      <3> QED
        BY <2>1, <2>2, <2>4, <3>1 DEF Touched
    <2>5. ASSUME NEW n \in Nat, d \in cs, n <= Len(ob), down'[d] = down[d] \o SubSeq(ob, 1, n),
                 outbuf'[d] = SubSeq(ob, n + 1, Len(ob))
          PROVE  /\ down'[d] \in Seq(Units22) /\ outbuf'[d] \in Seq(Units22)
                 /\ Touched(d)' => Touched(d) \/ d \in conns'
      <3>1. PICK a, b \in Seq(Units22) : /\ a = SubSeq(ob, 1, n) /\ b = SubSeq(ob, n + 1, Len(ob))
                                         /\ Len(a) = n /\ Len(b) = Len(ob) - n
        BY <2>5, UnitParts
      <3>2. down[d] \o a \in Seq(Units22)
        BY <2>1, <3>1
      <3>3. (ob = <<>> /\ down[d] = <<>>) => (down[d] \o a = <<>> /\ b = <<>>)
        BY <2>5, <3>1
      <3> QED
        BY <2>2, <2>5, <3>1, <3>2, <3>3 DEF Touched
    <2> QED
      BY <1>1, <2>2, <2>3, <2>4, <2>5 DEF Flushed
  <1>3. ScaleTypeOK'
    <2>1. down' = [d \in Clients |-> down'[d]] /\ outbuf' = [d \in Clients |-> outbuf'[d]]
      BY DEF QueueOn
    <2>2. down' \in [Clients -> Seq(Units22)] /\ outbuf' \in [Clients -> Seq(Units22)]
      BY <1>2, <2>1
    <2> QED
      BY <2>2 DEF MemInv, ScaleTypeOK
  <1>4. /\ \A d \in Clients : Closed(d) => Closed(d)'
        /\ \A d \in Clients :
             (d \in Flooders /\ peer'[d] \in {"ready", "echo"}) => seen'[d] # <<>>
    BY DEF Closed, MemInv, Reached
  <1>5. (\A d \in conns : Known(d)') /\ \A d \in Clients : Touched(d)' => Touched(d) \/ Known(d)'
    BY <1>2 DEF Known
  <1> QED
    BY <1>1, <1>3, <1>4, <1>5, MemStep

\* The steps of the epoll loop.
LEMMA MemEpoll ==
  ASSUME MemInv, EpollLoop PROVE MemInv'
  <1>1. CASE AcceptReady
    <2>1. PICK c \in backlog : /\ conns' = conns \cup {c} /\ backlog' = backlog \ {c}
                               /\ QueueOn({c}, Encode("welcome", c))
      BY <1>1 DEF AcceptReady
    <2>2. c \in Clients /\ conns \subseteq Clients /\ backlog \subseteq Clients
      BY DEF MemInv, ScaleTypeOK
    <2>3. PICK new \in Seq(Units22) : new = Encode("welcome", c)
      BY <2>2, FrameUnits
    <2>4. PICK cs \in SUBSET Clients : cs = {c}
      BY <2>2
    <2>5. /\ QueueOn(cs, new) /\ cs \subseteq conns' /\ conns \subseteq conns'
          /\ conns' \subseteq Clients /\ backlog' \subseteq Clients
      BY <2>1, <2>2, <2>3, <2>4
    <2>6. UNCHANGED <<srv, shut, peer, seen, wr, writing, snap>>
      BY <1>1 DEF AcceptReady, thr
    <2> QED
      BY <2>5, <2>6, MemQueues
  <1>2. ASSUME NEW c \in Clients, OnFrame(c), Head(todo[c])[1] # "join" PROVE MemInv'
    <2>1. PICK u \in Clients \cup {NoOne} : u = IF c \in nick THEN c ELSE NoOne
      OBVIOUS
    <2>2. PICK new \in Seq(Units22) : new = Encode("deliver", u)
      BY FrameUnits
    <2>3. conns \subseteq Clients /\ backlog \subseteq Clients
      BY DEF MemInv, ScaleTypeOK
    <2>4. PICK cs \in SUBSET Clients : cs = conns
      BY <2>3
    <2>5. QueueOn(cs, new) /\ UNCHANGED <<conns, srv, shut, peer, seen, wr, writing, snap, backlog>>
      BY <1>2, <2>1, <2>2, <2>4 DEF OnFrame, client
    <2> QED
      BY <2>3, <2>4, <2>5, MemQueues
  <1>3. CASE loop.tok \in Clients /\ OnWritable(loop)
    <2>1. PICK cs \in SUBSET Clients : cs = IF loop.out THEN {loop.tok} ELSE {}
      BY <1>3
    <2>2. PICK new \in Seq(Units22) : new = <<>>
      <3>1. <<>> \in Seq(Units22)
        OBVIOUS
      <3> QED
        BY <3>1
    <2>3. QueueOn(cs, new) /\ UNCHANGED <<conns, srv, shut, peer, seen, wr, writing, snap, backlog>>
      BY <1>3, <2>1, <2>2 DEF OnWritable, client, thr
    <2>4. conns \subseteq Clients /\ backlog \subseteq Clients
      BY DEF MemInv, ScaleTypeOK
    <2> QED
      BY <2>2, <2>3, <2>4, MemQueues
  <1>4. CASE \/ EpollWait \/ ReapClosed \/ EpollStops \/ (\E e \in batch : OnReadable(e))
             \/ \E c \in Clients : OnFrame(c) /\ Head(todo[c])[1] = "join"
    <2>1. UNCHANGED <<shut, peer, seen, down, wr, writing, snap, outbuf, backlog>>
      BY <1>4 DEF EpollWait, ReapClosed, EpollStops, OnReadable, OnFrame, client, wire, thr, epo
    <2>2. rst \subseteq rst' /\ conns' \subseteq conns /\ (srv # "up" => srv' # "up")
      BY <1>4 DEF EpollWait, ReapClosed, EpollStops, OnReadable, OnFrame, client, wire, Epoll
    <2>3. \A d \in conns : d \in conns' \/ d \in rst' \/ srv' # "up"
      BY <1>4 DEF EpollWait, ReapClosed, EpollStops, OnReadable, OnFrame, client, wire
    <2>4. ScaleTypeOK'
      BY <2>1, <2>2 DEF MemInv, ScaleTypeOK
    <2>5. /\ \A d \in Clients : Closed(d) => Closed(d)'
          /\ \A d \in Clients : Touched(d)' => Touched(d)
          /\ \A d \in Clients :
               (d \in Flooders /\ peer'[d] \in {"ready", "echo"}) => seen'[d] # <<>>
      BY <2>1 DEF Closed, Touched, MemInv, Reached
    <2>6. \A d \in conns : Known(d)'
      BY <2>3 DEF Known, Over
    <2> QED
      BY <2>1, <2>2, <2>4, <2>5, <2>6, MemStep
  <1> QED
    BY <1>1, <1>2, <1>3, <1>4 DEF EpollLoop

\* Every step keeps the invariant.
LEMMA MemNextInv ==
  ASSUME MemInv, [ScaleNext]_scaleVars PROVE MemInv'
  <1>1. ASSUME NEW c \in Clients, ClientSteps(c) \/ Worker(c) \/ ClientTimesOut(c) PROVE MemInv'
    BY <1>1, MemReads, MemClients, MemWrites, MemThreads DEF ClientSteps, Worker
  <1>2. CASE ScaleMain \/ Signal22
    <2>1. FloodFirst \in Clients
      BY ScaleAssumption DEF Clients
    <2> QED
      BY <1>2, <2>1, MemClients, MemThreads DEF ScaleMain
  <1>3. CASE EpollLoop
    BY <1>3, MemEpoll
  <1>4. CASE UNCHANGED scaleVars
    <2>1. UNCHANGED <<peer, seen, down, outbuf, wr, writing, snap, conns, backlog, shut, srv, rst>>
      BY <1>4 DEF scaleVars, client, wire, thr, epo
    <2>2. ScaleTypeOK'
      BY <2>1 DEF MemInv, ScaleTypeOK
    <2> QED
      BY <2>1, <2>2 DEF MemInv, Reached, Touched, Known, Over, Closed
  <1> QED
    BY <1>1, <1>2, <1>3, <1>4 DEF ScaleNext, ScaleProgress

\* A flooder that has read its WELCOME is in the server's fan-out set until its
\* connection or the server ends, in either engine, for any clients and any size
\* of the send buffers.
THEOREM ScaleWelcomeMeansMember == ScaleSpec => []WelcomeMeansMember
  <1>1. ScaleInit => MemInv
    BY MemInitInv
  <1>2. MemInv /\ [ScaleNext]_scaleVars => MemInv'
    BY MemNextInv
  <1>3. MemInv => WelcomeMeansMember
    BY DEF MemInv, Reached, Touched, Known, Over, Closed, WelcomeMeansMember, Flood, Clients
  <1> QED
    BY <1>1, <1>2, <1>3, PTL DEF ScaleSpec

-----------------------------------------------------------------------------
(* The streams of the epoll engine.  What is on a stream and what is still *)
(* queued for it are whole frames together, as long as the connection is   *)
(* there: a flush only moves the border between the two.                   *)

EvenUnits(s) == WholeUnits(s) /\ Len(s) % 2 = 0

QueuesWhole ==
  engine = "epoll" =>
    \A c \in Clients :
      /\ WholeUnits(Stream(c))
      /\ (~Closed(c) /\ c \notin rst) => EvenUnits(Stream(c) \o outbuf[c])

\* The front of whole frames is whole frames, the last one perhaps in part.
LEMMA WholeFront ==
  ASSUME NEW a \in Seq(Units22), NEW b \in Seq(Units22), WholeUnits(a \o b)
  PROVE  WholeUnits(a)
  <1>1. Len(a) \in Nat /\ Len(b) \in Nat /\ DOMAIN a = 1..Len(a)
        /\ DOMAIN (a \o b) = 1..(Len(a) + Len(b)) /\ \A i \in 1..Len(a) : (a \o b)[i] = a[i]
    OBVIOUS
  <1> SUFFICES ASSUME NEW i \in 1..Len(a)
               PROVE  /\ a[i][3] = (IF i % 2 = 1 THEN 1 ELSE 2)
                      /\ (i % 2 = 0 => a[i][1] = a[i - 1][1] /\ a[i][2] = a[i - 1][2])
    BY <1>1 DEF WholeUnits
  <1>2. i \in DOMAIN (a \o b) /\ (a \o b)[i] = a[i]
    BY <1>1
  <1>3. i % 2 = 0 => (a \o b)[i - 1] = a[i - 1]
    BY <1>1
  <1> QED
    BY <1>2, <1>3 DEF WholeUnits

\* Joined sequences of units.  (As an operator of its own, so that the steps
\* below are about joining and not about the indices of sequences.)
Join(s, t) == s \o t

\* Joining is associative.
LEMMA UnitsJoin ==
  ASSUME NEW s \in Seq(Units22), NEW t \in Seq(Units22), NEW u \in Seq(Units22)
  PROVE  Join(s, t) \in Seq(Units22) /\ Join(Join(s, t), u) = Join(s, Join(t, u))
  <1>1. s \o t \in Seq(Units22)
    OBVIOUS
  <1>2. (s \o t) \o u = s \o (t \o u)
    OBVIOUS
  <1> QED
    BY <1>1, <1>2 DEF Join

\* One more frame, or none, behind whole frames.
LEMMA WholeMore ==
  ASSUME NEW w \in Seq(Units22), EvenUnits(w), NEW t \in {"welcome", "deliver"},
         NEW u \in Clients \cup {NoOne}, NEW new \in {Encode(t, u), <<>>}
  PROVE  EvenUnits(w \o new)
  <1>1. CASE new = <<>>
    <2>1. w \o <<>> = w
      OBVIOUS
    <2> QED
      BY <1>1, <2>1
  <1>2. CASE new = Encode(t, u)
    <2>1. PICK f \in Seq(Units22) : /\ f = new /\ Len(f) = 2
                                    /\ f[1] = <<t, u, 1>> /\ f[2] = <<t, u, 2>>
      BY <1>2, FrameUnits DEF Encode
    <2>b. PICK n \in Nat : n = Len(w)
      OBVIOUS
    <2>2. n = Len(w) /\ n % 2 = 0
      BY <2>b DEF EvenUnits
    <2>a. /\ DOMAIN w = 1..n /\ DOMAIN (w \o f) = 1..(n + 2) /\ Len(w \o f) = n + 2
          /\ \A i \in 1..n : (w \o f)[i] = w[i]
          /\ (w \o f)[n + 1] = f[1] /\ (w \o f)[n + 2] = f[2]
      <3>a. PICK m \in Nat : m = Len(f)
        OBVIOUS
      <3>1. m = 2
        BY <2>1, <3>a
      <3>2. /\ w \o f \in Seq(Units22) /\ Len(w \o f) = n + m
            /\ \A i \in 1..n : (w \o f)[i] = w[i]
            /\ \A i \in (n + 1)..(n + m) : (w \o f)[i] = f[i - n]
        BY <2>b, <3>a
      <3>3. /\ n + 1 \in (n + 1)..(n + m) /\ (n + 1) - n = 1
            /\ n + 2 \in (n + 1)..(n + m) /\ (n + 2) - n = 2
        BY <2>2, <3>1
      <3>4. DOMAIN w = 1..n /\ DOMAIN (w \o f) = 1..(n + 2)
        BY <2>2, <3>1, <3>2
      <3> QED
        BY <3>1, <3>2, <3>3, <3>4
    <2>3. (n + 2) % 2 = 0 /\ (n + 1) % 2 = 1
      BY <2>2
    <2>4. ASSUME NEW i \in 1..(n + 2)
          PROVE  /\ (w \o f)[i][3] = (IF i % 2 = 1 THEN 1 ELSE 2)
                 /\ (i % 2 = 0 => /\ (w \o f)[i][1] = (w \o f)[i - 1][1]
                                  /\ (w \o f)[i][2] = (w \o f)[i - 1][2])
      <3>1. CASE i \in 1..n
        <4>1. i % 2 = 0 => i - 1 \in 1..n
          BY <2>2, <3>1
        <4> QED
          BY <2>a, <3>1, <4>1 DEF EvenUnits, WholeUnits
      <3>2. CASE i = n + 1
        BY <2>1, <2>2, <2>3, <2>a, <3>2
      <3>3. CASE i = n + 2
        <4>1. i - 1 = n + 1
          BY <2>2, <3>3
        <4> QED
          BY <2>1, <2>2, <2>3, <2>a, <3>3, <4>1
      <3>4. i \in 1..n \/ i = n + 1 \/ i = n + 2
        BY <2>2
      <3> QED
        BY <3>1, <3>2, <3>3, <3>4
    <2> QED
      BY <2>1, <2>2, <2>3, <2>a, <2>4 DEF EvenUnits, WholeUnits
  <1> QED
    BY <1>1, <1>2

\* A sequence of units is its two parts.
LEMMA UnitsSplit ==
  ASSUME NEW ob \in Seq(Units22), NEW n \in Nat, n <= Len(ob)
  PROVE  \E a, b \in Seq(Units22) : /\ a = SubSeq(ob, 1, n) /\ b = SubSeq(ob, n + 1, Len(ob))
                                    /\ a \o b = ob
  <1>2. PICK a, b \in Seq(Units22) :
          /\ a = SubSeq(ob, 1, n) /\ b = SubSeq(ob, n + 1, Len(ob))
          /\ Len(a) = n /\ Len(b) = Len(ob) - n
          /\ \A i \in 1..n : a[i] = ob[i]
          /\ \A j \in 1..(Len(ob) - n) : b[j] = ob[n + j]
    BY UnitParts
  <1>3. a \o b = ob
    <2>1. /\ a \o b \in Seq(Units22) /\ Len(a \o b) = Len(ob)
          /\ \A i \in 1..n : (a \o b)[i] = a[i]
          /\ \A i \in (n + 1)..Len(ob) : (a \o b)[i] = b[i - n]
      <3>a. PICK m \in Nat : m = Len(b)
        OBVIOUS
      <3>1. Len(a) = n /\ Len(b) = Len(ob) - n
        BY <1>2
      <3>b. n = Len(a) /\ n + m = Len(ob)
        <4>1. PICK k \in Nat : k = Len(ob)
          OBVIOUS
        <4>2. m = k - n
          BY <3>1, <3>a, <4>1
        <4>3. n + m = k
          BY <4>2
        <4> QED
          BY <3>1, <4>1, <4>3
      <3>2. /\ a \o b \in Seq(Units22) /\ Len(a \o b) = n + m
            /\ \A i \in 1..n : (a \o b)[i] = a[i]
            /\ \A i \in (n + 1)..(n + m) : (a \o b)[i] = b[i - n]
        BY <3>a, <3>b
      <3> QED
        BY <3>b, <3>2
    <2>2. \A i \in (n + 1)..Len(ob) : b[i - n] = ob[i]
      <3> TAKE i \in (n + 1)..Len(ob)
      <3>1. PICK j \in 1..(Len(ob) - n) : j = i - n /\ n + j = i
        OBVIOUS
      <3> QED
        BY <1>2, <3>1
    <2>3. \A i \in 1..Len(ob) : i \in 1..n \/ i \in (n + 1)..Len(ob)
      OBVIOUS
    <2>4. \A i \in 1..Len(ob) : (a \o b)[i] = ob[i]
      BY <1>2, <2>1, <2>2, <2>3
    <2> QED
      BY <2>1, <2>4, SeqEqual
  <1> QED
    BY <1>2, <1>3

\* A part that moves from a queue to a stream leaves the two together as they are,
\* with what was queued last behind them.
LEMMA FlushMoves ==
  ASSUME NEW s \in Seq(Units22), NEW d \in Seq(Units22), NEW q \in Seq(Units22),
         NEW new \in Seq(Units22), NEW a \in Seq(Units22), NEW b \in Seq(Units22),
         Join(a, b) = Join(q, new)
  PROVE  Join(Join(s, Join(d, a)), b) = Join(Join(Join(s, d), q), new)
  <1>1. PICK sd \in Seq(Units22) : sd = Join(s, d)
    BY UnitsJoin
  <1>2. Join(Join(s, d), a) = Join(s, Join(d, a))
    BY UnitsJoin
  <1>3. Join(Join(sd, a), b) = Join(sd, Join(a, b))
    BY UnitsJoin
  <1>4. Join(Join(sd, q), new) = Join(sd, Join(q, new))
    BY UnitsJoin
  <1> QED
    BY <1>1, <1>2, <1>3, <1>4

\* A step that changes no stream and no queue, and ends no reset, keeps them.
LEMMA WholeStep ==
  ASSUME QueuesWhole, UNCHANGED <<engine, seen, down, outbuf>>, rst \subseteq rst',
         \A c \in Clients : Closed(c) => Closed(c)'
  PROVE  QueuesWhole'
  BY DEF QueuesWhole, Stream

\* A client that leaves keeps what it has read, the front of its stream.
LEMMA WholeLeaves ==
  ASSUME MemInv, QueuesWhole, NEW c \in Clients, NEW how \in {"done", "gaveup"}, Leave(c, how),
         UNCHANGED <<engine, seen, outbuf>>
  PROVE  QueuesWhole'
  <1> SUFFICES ASSUME engine = "epoll", NEW d \in Clients
               PROVE  /\ WholeUnits(Stream(d)')
                      /\ (~Closed(d)' /\ d \notin rst') => EvenUnits(Stream(d)' \o outbuf'[d])
    BY DEF QueuesWhole
  <1>1. /\ peer' = [peer EXCEPT ![c] = how] /\ rst \subseteq rst'
        /\ down' = [down EXCEPT ![c] = <<>>]
    BY DEF Leave
  <1>2. seen[d] \in Seq(Units22) /\ down[d] \in Seq(Units22)
    BY DEF MemInv, ScaleTypeOK
  <1>3. CASE d = c
    <2>1. Closed(d)'
      BY <1>1, <1>3 DEF MemInv, ScaleTypeOK, Closed
    <2>2. WholeUnits(seen[d] \o down[d])
      BY DEF QueuesWhole, Stream
    <2>3. WholeUnits(seen[d])
      BY <1>2, <2>2, WholeFront
    <2>4. down'[d] = <<>>
      BY <1>1, <1>3 DEF MemInv, ScaleTypeOK
    <2>5. Stream(d)' = seen[d]
      BY <1>2, <2>4 DEF Stream
    <2> QED
      BY <2>1, <2>3, <2>5
  <1>4. CASE d # c
    <2>1. /\ Stream(d)' = Stream(d) /\ outbuf'[d] = outbuf[d]
          /\ (d \notin rst' => d \notin rst) /\ (Closed(d)' <=> Closed(d))
      BY <1>1, <1>4 DEF MemInv, ScaleTypeOK, Stream, Closed
    <2> QED
      BY <2>1 DEF QueuesWhole
  <1> QED
    BY <1>3, <1>4

\* Reading moves what has arrived to what was read.
LEMMA WholeReads ==
  ASSUME MemInv, QueuesWhole, NEW c \in Clients, ClientReads(c)
  PROVE  QueuesWhole'
  <1> SUFFICES ASSUME engine = "epoll", NEW d \in Clients
               PROVE  /\ WholeUnits(Stream(d)')
                      /\ (~Closed(d)' /\ d \notin rst') => EvenUnits(Stream(d)' \o outbuf'[d])
    BY DEF QueuesWhole, ClientReads
  <1>1. /\ seen' = [seen EXCEPT ![c] = @ \o down[c]] /\ down' = [down EXCEPT ![c] = <<>>]
        /\ UNCHANGED <<outbuf, rst>> /\ peer[c] \in {"welcome", "echo"}
    BY DEF ClientReads, epo
  <1>2. seen[d] \in Seq(Units22) /\ down[d] \in Seq(Units22)
    BY DEF MemInv, ScaleTypeOK
  <1>3. Closed(d) => Closed(d)'
    <2>1. ~Closed(c)
      BY <1>1 DEF Closed
    <2>2. d # c => peer'[d] = peer[d]
      BY DEF ClientReads, MemInv, ScaleTypeOK
    <2> QED
      BY <2>1, <2>2 DEF Closed
  <1>4. Stream(d)' = Stream(d)
    <2>1. CASE d = c
      <3>1. seen'[d] = seen[d] \o down[d] /\ down'[d] = <<>>
        BY <1>1, <2>1 DEF MemInv, ScaleTypeOK
      <3>2. (seen[d] \o down[d]) \o <<>> = seen[d] \o down[d]
        BY <1>2
      <3> QED
        BY <3>1, <3>2 DEF Stream
    <2>2. CASE d # c
      BY <1>1, <2>2 DEF MemInv, ScaleTypeOK, Stream
    <2> QED
      BY <2>1, <2>2
  <1>5. outbuf'[d] = outbuf[d] /\ rst' = rst
    BY <1>1
  <1> QED
    BY <1>3, <1>4, <1>5 DEF QueuesWhole

\* Queueing a frame on connections, or nothing, and flushing them.
LEMMA WholeQueues ==
  ASSUME MemInv, QueuesWhole, NEW cs \in SUBSET Clients, NEW t \in {"welcome", "deliver"},
         NEW u \in Clients \cup {NoOne}, NEW new \in {Encode(t, u), <<>>},
         QueueOn(cs, new), UNCHANGED <<engine, peer, seen>>
  PROVE  QueuesWhole'
  <1> SUFFICES ASSUME engine = "epoll", NEW d \in Clients
               PROVE  /\ WholeUnits(Stream(d)')
                      /\ (~Closed(d)' /\ d \notin rst') => EvenUnits(Stream(d)' \o outbuf'[d])
    BY DEF QueuesWhole
  <1>1. PICK nu \in Seq(Units22) : nu = new
    <2>1. Encode(t, u) \in Seq(Units22) /\ <<>> \in Seq(Units22)
      BY FrameUnits
    <2> QED
      BY <2>1
  <1>2. /\ rst \subseteq rst' /\ \A e \in cs : Flushed(e, outbuf[e] \o nu)
        /\ \A e \in Clients \ cs : down'[e] = down[e] /\ outbuf'[e] = outbuf[e]
    <2>1. QueueOn(cs, nu)
      BY <1>1
    <2> QED
      BY <2>1, QueueFlushes
  <1>3. PICK s, dn, ob \in Seq(Units22) : s = seen[d] /\ dn = down[d] /\ ob = outbuf[d]
    BY DEF MemInv, ScaleTypeOK
  <1>4. WholeUnits(s \o dn) /\ ((~Closed(d) /\ d \notin rst) => EvenUnits((s \o dn) \o ob))
    BY <1>3 DEF QueuesWhole, Stream
  <1>5. seen'[d] = s /\ (Closed(d)' <=> Closed(d)) /\ (d \notin rst' => d \notin rst)
    BY <1>2, <1>3 DEF Closed
  <1>6. CASE down'[d] = down[d] /\ (outbuf'[d] = outbuf[d] \/ d \in rst \/ Closed(d))
    <2>1. Stream(d)' = s \o dn
      BY <1>3, <1>5, <1>6 DEF Stream
    <2>2. (~Closed(d)' /\ d \notin rst') => outbuf'[d] = ob
      BY <1>3, <1>5, <1>6
    <2> QED
      BY <1>4, <1>5, <2>1, <2>2
  <1>7. CASE d \in cs /\ d \notin rst /\ ~Closed(d)
    <2>1. PICK n \in Nat : /\ n <= Len(ob \o nu)
                           /\ down'[d] = dn \o SubSeq(ob \o nu, 1, n)
                           /\ outbuf'[d] = SubSeq(ob \o nu, n + 1, Len(ob \o nu))
      BY <1>2, <1>3, <1>7 DEF Flushed
    <2>2. PICK a, b \in Seq(Units22) : /\ a = SubSeq(ob \o nu, 1, n)
                                      /\ b = SubSeq(ob \o nu, n + 1, Len(ob \o nu))
                                      /\ a \o b = ob \o nu
      <3>1. PICK q \in Seq(Units22) : q = ob \o nu
        <4>1. ob \o nu \in Seq(Units22)
          OBVIOUS
        <4> QED
          BY <4>1
      <3>2. n <= Len(q)
        BY <2>1, <3>1
      <3>3. \E x, y \in Seq(Units22) : /\ x = SubSeq(q, 1, n) /\ y = SubSeq(q, n + 1, Len(q))
                                       /\ x \o y = q
        BY <3>2, UnitsSplit
      <3> QED
        BY <3>1, <3>3
    <2>3. PICK d1 \in Seq(Units22) : d1 = down'[d] /\ d1 = dn \o a
      <3>1. dn \o a \in Seq(Units22)
        OBVIOUS
      <3> QED
        BY <2>1, <2>2, <3>1
    <2>4. /\ s \o d1 \in Seq(Units22)
          /\ (s \o d1) \o b = ((s \o dn) \o ob) \o nu
      <3>1. Join(a, b) = Join(ob, nu) /\ d1 = Join(dn, a)
        BY <2>2, <2>3 DEF Join
      <3>2. Join(Join(s, Join(dn, a)), b) = Join(Join(Join(s, dn), ob), nu)
        BY <3>1, FlushMoves
      <3>3. Join(s, d1) \in Seq(Units22)
        BY UnitsJoin
      <3>4. Join(Join(s, d1), b) = Join(Join(Join(s, dn), ob), nu)
        BY <3>1, <3>2
      <3> QED
        BY <3>3, <3>4, Zenon DEF Join
    <2>5. PICK w \in Seq(Units22) : w = (s \o dn) \o ob
      <3>1. (s \o dn) \o ob \in Seq(Units22)
        OBVIOUS
      <3> QED
        BY <3>1
    <2>6. EvenUnits(w)
      BY <1>4, <1>7, <2>5
    <2>7. EvenUnits(w \o nu)
      BY <1>1, <2>6, WholeMore
    <2>8. EvenUnits((s \o d1) \o b)
      BY <2>4, <2>5, <2>7
    <2>9. WholeUnits(s \o d1)
      <3>1. PICK sd \in Seq(Units22) : sd = s \o d1
        BY <2>4
      <3>2. WholeUnits(sd \o b)
        BY <2>8, <3>1 DEF EvenUnits
      <3> QED
        BY <2>4, <3>1, <3>2, WholeFront
    <2>10. Stream(d)' = s \o d1 /\ outbuf'[d] = b
      BY <1>5, <2>1, <2>2, <2>3 DEF Stream
    <2> QED
      BY <2>8, <2>9, <2>10
  <1> QED
    BY <1>2, <1>6, <1>7 DEF Flushed

\* Every stream is empty in the first state.
LEMMA WholeInit == ScaleInit => QueuesWhole
  <1> SUFFICES ASSUME ScaleInit, NEW c \in Clients
               PROVE  WholeUnits(Stream(c)) /\ EvenUnits(Stream(c) \o outbuf[c])
    BY DEF QueuesWhole
  <1>1. seen[c] = <<>> /\ down[c] = <<>> /\ outbuf[c] = <<>>
    BY DEF ScaleInit
  <1>2. <<>> \o <<>> = <<>> /\ Len(<<>>) % 2 = 0 /\ DOMAIN <<>> = {}
    OBVIOUS
  <1>3. Stream(c) = <<>> /\ Stream(c) \o outbuf[c] = <<>>
    BY <1>1, <1>2 DEF Stream
  <1> QED
    BY <1>2, <1>3 DEF WholeUnits, EvenUnits

\* The steps of the clients.
LEMMA WholeClients ==
  ASSUME MemInv, QueuesWhole, NEW c \in Clients, ClientSteps(c) \/ ClientTimesOut(c)
  PROVE  QueuesWhole'
  <1>1. CASE ClientReads(c)
    BY <1>1, WholeReads
  <1>2. CASE ConnectTo(c) \/ FloodGo(c)
    <2>1. UNCHANGED <<engine, seen, down, outbuf, rst>>
      BY <1>2 DEF ConnectTo, FloodGo, wire, epo
    <2>2. \A d \in Clients : Closed(d) => Closed(d)'
      BY <1>2 DEF ConnectTo, FloodGo, Closed, MemInv, ScaleTypeOK
    <2> QED
      BY <2>1, <2>2, WholeStep
  <1>3. CASE ClientWrites(c) \/ ClientSeesEnd(c) \/ ClientTimesOut(c)
    <2>1. UNCHANGED <<engine, seen, outbuf>>
      BY <1>3 DEF ClientWrites, ClientSeesEnd, ClientTimesOut, epo
    <2>2. CASE Leave(c, "gaveup")
      BY <2>1, <2>2, WholeLeaves
    <2>3. CASE UNCHANGED <<peer, down, rst>>
      BY <2>1, <2>3, WholeStep DEF Closed
    <2> QED
      BY <1>3, <2>2, <2>3 DEF ClientWrites, ClientSeesEnd, ClientTimesOut
  <1> QED
    BY <1>1, <1>2, <1>3 DEF ClientSteps

\* The steps of the epoll loop.
LEMMA WholeEpoll ==
  ASSUME MemInv, QueuesWhole, EpollLoop PROVE QueuesWhole'
  <1>1. CASE AcceptReady
    <2>1. PICK c \in backlog : QueueOn({c}, Encode("welcome", c))
      BY <1>1 DEF AcceptReady
    <2>2. c \in Clients
      BY DEF MemInv, ScaleTypeOK
    <2>3. {c} \in SUBSET Clients /\ UNCHANGED <<engine, peer, seen>>
      BY <1>1, <2>2 DEF AcceptReady
    <2> QED
      BY <2>1, <2>2, <2>3, WholeQueues
  <1>2. ASSUME NEW c \in Clients, OnFrame(c), Head(todo[c])[1] # "join" PROVE QueuesWhole'
    <2>1. PICK u \in Clients \cup {NoOne} : u = IF c \in nick THEN c ELSE NoOne
      OBVIOUS
    <2>2. PICK cs \in SUBSET Clients : cs = conns
      BY DEF MemInv, ScaleTypeOK
    <2>3. QueueOn(cs, Encode("deliver", u)) /\ UNCHANGED <<engine, peer, seen>>
      BY <1>2, <2>1, <2>2 DEF OnFrame, client
    <2> QED
      BY <2>3, WholeQueues
  <1>3. CASE loop.tok \in Clients /\ OnWritable(loop)
    <2>1. PICK cs \in SUBSET Clients : cs = IF loop.out THEN {loop.tok} ELSE {}
      BY <1>3
    <2>2. QueueOn(cs, <<>>) /\ UNCHANGED <<engine, peer, seen>>
      BY <1>3, <2>1 DEF OnWritable, client
    <2>3. "deliver" \in {"welcome", "deliver"} /\ NoOne \in Clients \cup {NoOne}
          /\ <<>> \in {Encode("deliver", NoOne), <<>>}
      OBVIOUS
    <2> QED
      BY <2>2, <2>3, WholeQueues
  <1>4. CASE \/ EpollWait \/ ReapClosed \/ EpollStops \/ (\E e \in batch : OnReadable(e))
             \/ \E c \in Clients : OnFrame(c) /\ Head(todo[c])[1] = "join"
    <2>1. UNCHANGED <<engine, peer, seen, down, outbuf>> /\ rst \subseteq rst'
      BY <1>4 DEF EpollWait, ReapClosed, EpollStops, OnReadable, OnFrame, client, wire, epo
    <2> QED
      BY <2>1, WholeStep DEF Closed
  <1> QED
    BY <1>1, <1>2, <1>3, <1>4 DEF EpollLoop

\* Every step keeps frames whole; a step of the threaded engine is none of the
\* epoll engine.
LEMMA WholeNext ==
  ASSUME MemInv, QueuesWhole, [ScaleNext]_scaleVars PROVE QueuesWhole'
  <1>1. ASSUME NEW c \in Clients, ClientSteps(c) \/ ClientTimesOut(c) PROVE QueuesWhole'
    BY <1>1, WholeClients
  <1>2. CASE (\E c \in Clients : Worker(c)) \/ ScaleMain
    <2>1. engine = "threaded" /\ engine' = engine
      BY <1>2 DEF Worker, ScaleMain, WriteAll, RecvFrames, RecvEnds, HandleFrame, BroadcastTo,
                  AcceptThreaded, ShutdownAll, WorkersJoined, Threaded
    <2> QED
      BY <2>1 DEF QueuesWhole
  <1>3. CASE EpollLoop
    BY <1>3, WholeEpoll
  <1>4. CASE Signal22 \/ UNCHANGED scaleVars
    <2>1. UNCHANGED <<engine, peer, seen, down, outbuf, rst>>
      BY <1>4 DEF Signal22, scaleVars, client, wire, epo
    <2> QED
      BY <2>1, WholeStep DEF Closed
  <1> QED
    BY <1>1, <1>2, <1>3, <1>4 DEF ScaleNext, ScaleProgress

-----------------------------------------------------------------------------
(* The streams of the threaded engine.  The holder of a connection's wmu   *)
(* is the one worker that writes a DELIVER on it.  That the stream is      *)
(* whole is not inductive: what matters is that the last unit beside the   *)
(* WELCOME is a header exactly while the holder is in the middle of its    *)
(* frame, a header of the very message whose payload the holder has left.  *)

\* What is asked of unit i of a stream in WholeButWelcome.
UnitWhole(s, i) ==
  IF IsHeader(s[i]) THEN \A j \in DOMAIN s : ComesNext(s, j, i) => ~IsHeader(s[j])
  ELSE \E j \in DOMAIN s : ComesNext(s, j, i) /\ s[j] = <<s[i][1], s[i][2], 1>>

LastOf(s, j) == NotWelcome(s[j]) /\ \A k \in DOMAIN s : k > j => ~NotWelcome(s[k])

\* The last unit is the header of a message of u; no header is the last unit.
OpenFrame(s, u) == \E j \in DOMAIN s : LastOf(s, j) /\ s[j] = <<"deliver", u, 1>>
NoneOpen(s) == \A j \in DOMAIN s : LastOf(s, j) => ~IsHeader(s[j])

\* The units of the front of a stream are as whole as in the whole stream.
LEMMA FrontUnits ==
  ASSUME NEW s \in Seq(Units22), NEW w \in Seq(Units22), Len(s) <= Len(w),
         \A i \in 1..Len(s) : w[i] = s[i]
  PROVE  \A i \in DOMAIN s : UnitWhole(w, i) <=> UnitWhole(s, i)
  <1>1. /\ DOMAIN s = 1..Len(s) /\ DOMAIN w = 1..Len(w) /\ Len(s) \in Nat /\ Len(w) \in Nat
        /\ DOMAIN s \subseteq DOMAIN w
    OBVIOUS
  <1>2. ASSUME NEW i \in DOMAIN s, NEW j \in DOMAIN w PROVE ComesNext(w, j, i) <=> (j \in DOMAIN s /\ ComesNext(s, j, i))
    <2>1. j < i => j \in DOMAIN s
      BY <1>1
    <2>2. \A k \in DOMAIN w : j < k /\ k < i => k \in DOMAIN s
      BY <1>1
    <2> QED
      BY <1>1, <2>1, <2>2 DEF ComesNext
  <1>3. ASSUME NEW i \in DOMAIN s PROVE UnitWhole(w, i) <=> UnitWhole(s, i)
    <2>1. w[i] = s[i] /\ i \in DOMAIN w
      BY <1>1
    <2>2. \A j \in DOMAIN s : w[j] = s[j]
      BY <1>1
    <2> QED
      BY <1>1, <1>2, <2>1, <2>2 DEF UnitWhole
  <1> QED
    BY <1>3

\* A client that leaves unread units behind leaves a whole front.
LEMMA WholeButWelcomeFront ==
  ASSUME NEW a \in Seq(Units22), NEW b \in Seq(Units22), WholeButWelcome(a \o b)
  PROVE  WholeButWelcome(a)
  <1>0. a \o b \in Seq(Units22)
    OBVIOUS
  <1>1. PICK w \in Seq(Units22) : w = a \o b
    BY <1>0
  <1>2. Len(a) <= Len(w) /\ DOMAIN a \subseteq DOMAIN w /\ \A i \in 1..Len(a) : w[i] = a[i]
    BY <1>1
  <1>3. \A i \in DOMAIN a : UnitWhole(w, i) <=> UnitWhole(a, i)
    BY <1>2, FrontUnits
  <1>4. \A i \in DOMAIN a : NotWelcome(w[i]) => UnitWhole(w, i)
    BY <1>1, <1>2 DEF WholeButWelcome, UnitWhole
  <1>5. \A i \in DOMAIN a : w[i] = a[i]
    BY <1>2
  <1> QED
    BY <1>3, <1>4, <1>5 DEF WholeButWelcome, UnitWhole

\* A unit more.
Grows(s, u, w) ==
  /\ w \in Seq(Units22) /\ Len(s) \in Nat /\ Len(w) = Len(s) + 1
  /\ DOMAIN s = 1..Len(s) /\ DOMAIN w = 1..(Len(s) + 1)
  /\ w[Len(s) + 1] = u /\ \A i \in DOMAIN s : w[i] = s[i]

\* Append adds a unit.
LEMMA AppendGrows ==
  ASSUME NEW s \in Seq(Units22), NEW u \in Units22
  PROVE  Grows(s, u, Append(s, u))
  BY DEF Grows

\* A frame is appended as two units.
LEMMA AppendTwo ==
  ASSUME NEW s \in Seq(Units22), NEW h \in Units22, NEW p \in Units22
  PROVE  s \o <<h, p>> = Append(Append(s, h), p)
  <1>1. PICK x : x = s \o <<h, p>>
    OBVIOUS
  <1>2. PICK y : y = Append(Append(s, h), p)
    OBVIOUS
  <1>3. Len(s) \in Nat /\ <<h, p>> \in Seq(Units22) /\ Len(<<h, p>>) = 2
    OBVIOUS
  <1>4. /\ x \in Seq(Units22) /\ Len(x) = Len(s) + 2
        /\ \A i \in 1..(Len(s) + 2) : x[i] = IF i <= Len(s) THEN s[i] ELSE <<h, p>>[i - Len(s)]
    BY <1>1, <1>3, ConcatProperties
  <1>5. Append(s, h) \in Seq(Units22) /\ Len(Append(s, h)) = Len(s) + 1
        /\ Append(s, h)[Len(s) + 1] = h /\ \A i \in 1..Len(s) : Append(s, h)[i] = s[i]
    BY AppendProperties
  <1>6. /\ y \in Seq(Units22) /\ Len(y) = Len(s) + 2 /\ y[Len(s) + 2] = p /\ y[Len(s) + 1] = h
        /\ \A i \in 1..Len(s) : y[i] = s[i]
    BY <1>2, <1>3, <1>5, AppendProperties
  <1>7. \A i \in 1..Len(x) : x[i] = y[i]
    <2> SUFFICES ASSUME NEW i \in 1..Len(x) PROVE x[i] = y[i]
      OBVIOUS
    <2>1. CASE i \in 1..Len(s)
      BY <1>4, <1>6, <2>1
    <2>2. CASE i = Len(s) + 1
      BY <1>3, <1>4, <1>6, <2>2
    <2>3. CASE i = Len(s) + 2
      BY <1>3, <1>4, <1>6, <2>3
    <2> QED
      BY <1>3, <1>4, <2>1, <2>2, <2>3
  <1>8. x = y
    BY <1>4, <1>6, <1>7, SeqEqual
  <1> QED
    BY <1>1, <1>2, <1>8

\* Only the new unit has to be looked at.
LEMMA GrowsWhole ==
  ASSUME NEW s \in Seq(Units22), NEW u \in Units22, NEW w, Grows(s, u, w), WholeButWelcome(s),
         NotWelcome(u) => UnitWhole(w, Len(s) + 1)
  PROVE  WholeButWelcome(w)
  <1>1. \A i \in DOMAIN s : UnitWhole(w, i) <=> UnitWhole(s, i)
    BY FrontUnits DEF Grows
  <1>2. \A i \in DOMAIN s : NotWelcome(s[i]) => UnitWhole(s, i)
    BY DEF WholeButWelcome, UnitWhole
  <1>3. ASSUME NEW i \in DOMAIN w, NotWelcome(w[i]) PROVE UnitWhole(w, i)
    <2>1. CASE i \in DOMAIN s
      BY <1>1, <1>2, <1>3, <2>1 DEF Grows
    <2>2. CASE i = Len(s) + 1
      BY <1>3, <2>2 DEF Grows
    <2> QED
      BY <2>1, <2>2 DEF Grows
  <1> QED
    BY <1>3 DEF WholeButWelcome, UnitWhole

\* Part of a WELCOME in between changes nothing.
LEMMA GrowsWelcome ==
  ASSUME NEW s \in Seq(Units22), NEW u \in Units22, NEW w, Grows(s, u, w), WholeButWelcome(s),
         ~NotWelcome(u)
  PROVE  /\ WholeButWelcome(w) /\ (NoneOpen(s) => NoneOpen(w))
         /\ \A v : OpenFrame(s, v) => OpenFrame(w, v)
  <1>1. WholeButWelcome(w)
    BY GrowsWhole
  <1>2. \A j \in DOMAIN w : LastOf(w, j) => j \in DOMAIN s
    BY DEF Grows, LastOf
  <1>3. \A j \in DOMAIN s : j \in DOMAIN w /\ w[j] = s[j] /\ (LastOf(w, j) <=> LastOf(s, j))
    BY DEF Grows, LastOf
  <1> QED
    BY <1>1, <1>2, <1>3 DEF NoneOpen, OpenFrame

\* A header between frames opens one.
LEMMA GrowsHeader ==
  ASSUME NEW s \in Seq(Units22), NEW v, NEW u \in Units22, u = <<"deliver", v, 1>>,
         NEW w, Grows(s, u, w), WholeButWelcome(s), NoneOpen(s)
  PROVE  WholeButWelcome(w) /\ OpenFrame(w, v)
  <1>1. IsHeader(u) /\ NotWelcome(u)
    BY DEF IsHeader, NotWelcome
  <1>2. ASSUME NEW j \in DOMAIN w, ComesNext(w, j, Len(s) + 1) PROVE ~IsHeader(w[j])
    <2>1. j \in DOMAIN s /\ w[j] = s[j] /\ NotWelcome(s[j])
      BY <1>2 DEF Grows, ComesNext
    <2>2. ASSUME NEW k \in DOMAIN s, k > j PROVE ~NotWelcome(s[k])
      <3>1. k \in DOMAIN w /\ w[k] = s[k] /\ j < k /\ k < Len(s) + 1
        BY <2>1, <2>2 DEF Grows
      <3> QED
        BY <1>2, <3>1 DEF ComesNext
    <2> QED
      BY <2>1, <2>2 DEF NoneOpen, LastOf
  <1>3. UnitWhole(w, Len(s) + 1)
    BY <1>1, <1>2 DEF UnitWhole, Grows
  <1>4. OpenFrame(w, v)
    <2>1. Len(s) + 1 \in DOMAIN w /\ w[Len(s) + 1] = u /\ ~ \E k \in DOMAIN w : k > Len(s) + 1
      BY DEF Grows
    <2> QED
      BY <1>1, <2>1 DEF OpenFrame, LastOf
  <1> QED
    BY <1>3, <1>4, GrowsWhole

\* The payload of the open frame closes it.
LEMMA GrowsPayload ==
  ASSUME NEW s \in Seq(Units22), NEW v, NEW u \in Units22, u = <<"deliver", v, 2>>,
         NEW w, Grows(s, u, w), WholeButWelcome(s), OpenFrame(s, v)
  PROVE  WholeButWelcome(w) /\ NoneOpen(w)
  <1>1. ~IsHeader(u) /\ NotWelcome(u)
    BY DEF IsHeader, NotWelcome
  <1>2. PICK j \in DOMAIN s : LastOf(s, j) /\ s[j] = <<"deliver", v, 1>>
    BY DEF OpenFrame
  <1>3. j \in DOMAIN w /\ w[j] = s[j] /\ j < Len(s) + 1 /\ NotWelcome(w[j]) /\ w[Len(s) + 1] = u
    <2>1. NotWelcome(s[j])
      BY <1>2 DEF LastOf
    <2>2. j \in DOMAIN w /\ w[j] = s[j] /\ j < Len(s) + 1 /\ w[Len(s) + 1] = u
      BY DEF Grows
    <2> QED
      BY <2>1, <2>2
  <1>4. ASSUME NEW k \in DOMAIN w, j < k, k < Len(s) + 1 PROVE ~NotWelcome(w[k])
    <2>1. k \in DOMAIN s /\ w[k] = s[k] /\ k > j
      BY <1>4 DEF Grows
    <2> QED
      BY <1>2, <2>1 DEF LastOf
  <1>5. ComesNext(w, j, Len(s) + 1)
    BY <1>1, <1>3, <1>4 DEF ComesNext
  <1>6. UnitWhole(w, Len(s) + 1)
    BY <1>1, <1>2, <1>3, <1>5 DEF UnitWhole
  <1>7. NoneOpen(w)
    <2> SUFFICES ASSUME NEW i \in DOMAIN w, LastOf(w, i) PROVE ~IsHeader(w[i])
      BY DEF NoneOpen
    <2>1. i = Len(s) + 1
      <3>1. Len(s) + 1 \in DOMAIN w /\ NotWelcome(w[Len(s) + 1]) /\ (i = Len(s) + 1 \/ Len(s) + 1 > i)
        BY <1>1, <1>3 DEF Grows
      <3> QED
        BY <3>1 DEF LastOf
    <2> QED
      BY <1>1, <1>3, <2>1
  <1> QED
    BY <1>6, <1>7, GrowsWhole

\* A write of n units, part, of what is left of a frame, r.
TakenOf(k, u, r, n, part) ==
  \/ r = Encode(k, u) /\ n = 2 /\ part = <<<<k, u, 1>>, <<k, u, 2>>>>
  \/ r = Encode(k, u) /\ n = 1 /\ part = <<<<k, u, 1>>>>
  \/ r = <<<<k, u, 2>>>> /\ n = 1 /\ part = <<<<k, u, 2>>>>

\* What the stream s is, with part of the frame written.
StreamTook(k, u, r, n, s, w) ==
  /\ k = "welcome" => /\ WholeButWelcome(w) /\ (NoneOpen(s) => NoneOpen(w))
                      /\ \A v : OpenFrame(s, v) => OpenFrame(w, v)
  /\ k = "deliver" /\ Len(r) = 2 /\ NoneOpen(s) =>
       WholeButWelcome(w) /\ (n = 2 => NoneOpen(w)) /\ (n = 1 => OpenFrame(w, u))
  /\ k = "deliver" /\ Len(r) = 1 /\ OpenFrame(s, u) => WholeButWelcome(w) /\ NoneOpen(w)

\* What the write of a part of a frame does to a stream.
LEMMA PartSent ==
  ASSUME NEW s \in Seq(Units22), WholeButWelcome(s), NEW k \in {"welcome", "deliver"},
         NEW u \in Clients \cup {NoOne}, NEW r, NEW part, NEW n, TakenOf(k, u, r, n, part),
         NEW w, w = s \o part
  PROVE  StreamTook(k, u, r, n, s, w)
  <1> USE DEF StreamTook
  <1>1. PICK h \in Units22 : h = <<k, u, 1>>
    BY DEF Units22
  <1>2. PICK p \in Units22 : p = <<k, u, 2>>
    BY DEF Units22
  <1>3. /\ k = "welcome" => ~NotWelcome(h) /\ ~NotWelcome(p)
        /\ k = "deliver" => h = <<"deliver", u, 1>> /\ p = <<"deliver", u, 2>>
    BY <1>1, <1>2 DEF NotWelcome
  <1>4. CASE r = Encode(k, u) /\ n = 2 /\ part = <<<<k, u, 1>>, <<k, u, 2>>>>
    <2>0. Append(s, h) \in Seq(Units22)
      OBVIOUS
    <2>1. PICK m \in Seq(Units22) : m = Append(s, h)
      BY <2>0
    <2>2. Grows(s, h, m)
      BY <2>1, AppendGrows
    <2>3. PICK z : z = Append(m, p)
      OBVIOUS
    <2>4. Grows(m, p, z)
      BY <2>1, <2>3, AppendGrows
    <2>5. w = z
      BY <1>1, <1>2, <1>4, <2>1, <2>3, AppendTwo
    <2>6. Len(r) = 2
      BY <1>4 DEF Encode
    <2>7. CASE k = "welcome"
      <3>1. /\ WholeButWelcome(m) /\ (NoneOpen(s) => NoneOpen(m))
            /\ \A v : OpenFrame(s, v) => OpenFrame(m, v)
        BY <1>3, <2>2, <2>7, GrowsWelcome
      <3>2. /\ WholeButWelcome(z) /\ (NoneOpen(m) => NoneOpen(z))
            /\ \A v : OpenFrame(m, v) => OpenFrame(z, v)
        BY <1>3, <2>1, <2>4, <2>7, <3>1, GrowsWelcome
      <3> QED
        BY <2>5, <2>7, <3>1, <3>2
    <2>8. CASE k = "deliver"
      <3>1. NoneOpen(s) => WholeButWelcome(m) /\ OpenFrame(m, u)
        BY <1>3, <2>2, <2>8, GrowsHeader
      <3>2. WholeButWelcome(m) /\ OpenFrame(m, u) => WholeButWelcome(z) /\ NoneOpen(z)
        BY <1>3, <2>1, <2>4, <2>8, GrowsPayload
      <3> QED
        <4>1. n = 2 /\ Len(r) # 1
          BY <1>4, <2>6
        <4> QED
          BY <2>5, <2>8, <3>1, <3>2, <4>1
    <2> QED
      BY <2>7, <2>8
  <1>5. CASE r = Encode(k, u) /\ n = 1 /\ part = <<<<k, u, 1>>>>
    <2>0. Append(s, h) \in Seq(Units22)
      OBVIOUS
    <2>1. PICK m \in Seq(Units22) : m = Append(s, h)
      BY <2>0
    <2>2. Grows(s, h, m)
      BY <2>1, AppendGrows
    <2>3. w = m
      BY <1>1, <1>5, <2>1
    <2>4. Len(r) = 2
      BY <1>5 DEF Encode
    <2>5. CASE k = "welcome"
      <3>1. /\ WholeButWelcome(m) /\ (NoneOpen(s) => NoneOpen(m))
            /\ \A v : OpenFrame(s, v) => OpenFrame(m, v)
        BY <1>3, <2>2, <2>5, GrowsWelcome
      <3> QED
        BY <2>3, <2>5, <3>1
    <2>6. CASE k = "deliver"
      <3>1. NoneOpen(s) => WholeButWelcome(m) /\ OpenFrame(m, u)
        BY <1>3, <2>2, <2>6, GrowsHeader
      <3> QED
        <4>1. n = 1 /\ Len(r) # 1
          BY <1>5, <2>4
        <4> QED
          BY <2>3, <2>6, <3>1, <4>1
    <2> QED
      BY <2>5, <2>6
  <1>6. CASE r = <<<<k, u, 2>>>> /\ n = 1 /\ part = <<<<k, u, 2>>>>
    <2>0. Append(s, p) \in Seq(Units22)
      OBVIOUS
    <2>1. PICK m \in Seq(Units22) : m = Append(s, p)
      BY <2>0
    <2>2. Grows(s, p, m)
      BY <2>1, AppendGrows
    <2>3. w = m
      BY <1>2, <1>6, <2>1
    <2>4. Len(r) = 1
      BY <1>6
    <2>5. CASE k = "welcome"
      <3>1. /\ WholeButWelcome(m) /\ (NoneOpen(s) => NoneOpen(m))
            /\ \A v : OpenFrame(s, v) => OpenFrame(m, v)
        BY <1>3, <2>2, <2>5, GrowsWelcome
      <3> QED
        BY <2>3, <2>5, <3>1
    <2>6. CASE k = "deliver"
      <3>1. OpenFrame(s, u) => WholeButWelcome(m) /\ NoneOpen(m)
        BY <1>3, <2>2, <2>6, GrowsPayload
      <3> QED
        BY <2>3, <2>4, <2>6, <3>1
    <2> QED
      BY <2>5, <2>6
  <1> QED
    BY <1>4, <1>5, <1>6 DEF TakenOf
  -----------------------------------------------------------------------------
\* A worker with a write in progress: what is left of its frame, and that a
\* DELIVER is written by the holder of the target's wmu.
  Kind22(c) == IF wpc[c] = "welcome" THEN "welcome" ELSE "deliver"
  LeftOf(r, k, u) == r = Encode(k, u) \/ r = <<<<k, u, 2>>>>
  WorkerAt(c) ==
    /\ c \in backlog => peer[c] # "out"
    /\ wpc[c] # "none" => peer[c] # "out" /\ c \notin backlog
    /\ writing[c] # NoOne =>
         /\ wpc[c] \in {"welcome", "bcast"}
         /\ \E u \in Clients \cup {NoOne} : LeftOf(wr[c], Kind22(c), u)
         /\ wpc[c] = "bcast" => wmuOf[writing[c]] = c
  LockOf(t) ==
    wmuOf[t] # NoOne => writing[wmuOf[t]] = t /\ wpc[wmuOf[t]] = "bcast"

Live22(t) == t \notin rst \cup shut /\ ~Closed(t)
\* The holder of wmu is in the middle of its frame, or everybody is between frames.
Between(t) ==
  IF wmuOf[t] # NoOne /\ Len(wr[wmuOf[t]]) = 1
  THEN OpenFrame(Stream(t), wr[wmuOf[t]][1][2]) ELSE NoneOpen(Stream(t))
StreamAt(t) == WholeButWelcome(Stream(t)) /\ (Live22(t) => Between(t))

ThrTypeOK ==
  /\ wpc \in [Clients -> {"none", "welcome", "recv", "frames", "bcast", "gone"}]
  /\ wmuOf \in [Clients -> Clients \cup {NoOne}]

ThrInv ==
  engine = "threaded" =>
    /\ ThrTypeOK
    /\ \A c \in Clients : WorkerAt(c) /\ LockOf(c) /\ StreamAt(c)

\* Nothing is written and no lock is held in the first state.
LEMMA ThrInitInv == ScaleInit => ThrInv
  <1> SUFFICES ASSUME ScaleInit, NEW c \in Clients PROVE ThrTypeOK /\ WorkerAt(c) /\ LockOf(c) /\ StreamAt(c)
    BY DEF ThrInv, ScaleInit, ThrTypeOK
  <1>1. ThrTypeOK
    BY DEF ScaleInit, ThrTypeOK
  <1>2. WorkerAt(c) /\ LockOf(c)
    BY DEF ScaleInit, WorkerAt, LockOf
  <1>3. Stream(c) = <<>>
    BY DEF ScaleInit, Stream
  <1>4. StreamAt(c)
    <2>1. wmuOf[c] = NoOne
      BY DEF ScaleInit
    <2> QED
      BY <1>3, <2>1 DEF StreamAt, WholeButWelcome, Between, NoneOpen
  <1> QED
    BY <1>1, <1>2, <1>4

\* Streams are sequences of units.
LEMMA StreamUnits ==
  ASSUME MemInv, NEW t \in Clients
  PROVE  Stream(t) \in Seq(Units22) /\ seen[t] \in Seq(Units22) /\ down[t] \in Seq(Units22)
  <1>1. seen[t] \in Seq(Units22) /\ down[t] \in Seq(Units22)
    BY DEF MemInv, ScaleTypeOK
  <1> QED
    BY <1>1, ConcatProperties DEF Stream

\* A step that writes nothing and takes no lock.
LEMMA ThrQuiet ==
  ASSUME ThrInv, engine = "threaded", UNCHANGED <<wmuOf, writing, wr>>,
         wpc' \in [Clients -> {"none", "welcome", "recv", "frames", "bcast", "gone"}],
         \A c \in Clients : writing[c] # NoOne => wpc'[c] = wpc[c],
         \A c \in Clients : c \in backlog' => peer'[c] # "out",
         \A c \in Clients : wpc'[c] # "none" => peer'[c] # "out" /\ c \notin backlog',
         \A t \in Clients : WholeButWelcome(Stream(t)'),
         \A t \in Clients : Live22(t)' => Live22(t) /\ Stream(t)' = Stream(t)
  PROVE  ThrInv'
  <1>1. ThrTypeOK' /\ wmuOf \in [Clients -> Clients \cup {NoOne}]
    BY DEF ThrInv, ThrTypeOK
  <1>2. ASSUME NEW c \in Clients PROVE WorkerAt(c)' /\ LockOf(c)' /\ StreamAt(c)'
    <2>1. WorkerAt(c) /\ LockOf(c) /\ StreamAt(c)
      BY DEF ThrInv
    <2>2. WorkerAt(c)'
      BY <2>1 DEF WorkerAt, Kind22
    <2>3. LockOf(c)'
      <3>1. ASSUME wmuOf[c] # NoOne
            PROVE  writing[wmuOf[c]] = c /\ wpc[wmuOf[c]] = "bcast" /\ wmuOf[c] \in Clients
        BY <1>1, <2>1, <3>1 DEF LockOf
      <3>2. c # NoOne
        BY ScaleAssumption DEF Clients
      <3> QED
        BY <3>1, <3>2 DEF LockOf
    <2>4. StreamAt(c)'
      BY <2>1 DEF StreamAt, Between
    <2> QED
      BY <2>2, <2>3, <2>4
  <1> QED
    BY <1>1, <1>2 DEF ThrInv

\* A client's step: a stream stays, or the client leaves it and what it has read stays.
LEMMA ThrClients ==
  ASSUME MemInv, ThrInv, engine = "threaded", NEW c \in Clients,
         ClientSteps(c) \/ ClientTimesOut(c)
  PROVE  ThrInv'
  <1>1. UNCHANGED <<wpc, wmuOf, writing, wr, shut>> /\ rst \subseteq rst'
    BY DEF ClientSteps, ConnectTo, ClientWrites, ClientReads, FloodGo, ClientSeesEnd, ClientTimesOut,
           thr, wire, Leave
  <1>2. wpc \in [Clients -> {"none", "welcome", "recv", "frames", "bcast", "gone"}]
    BY DEF ThrInv, ThrTypeOK
  <1>3. peer \in [Clients -> {"out", "welcome", "ready", "echo", "done", "gaveup"}]
    BY DEF MemInv, ScaleTypeOK
  <1>4. \A d \in Clients : WorkerAt(d) /\ StreamAt(d)
    BY DEF ThrInv
  <1>5. /\ \A d \in Clients : d \in backlog' => peer'[d] # "out"
        /\ \A d \in Clients : wpc'[d] # "none" => peer'[d] # "out" /\ d \notin backlog'
    <2>1. CASE ConnectTo(c)
      BY <1>1, <1>3, <1>4, <2>1 DEF ConnectTo, WorkerAt
    <2>2. CASE ~ConnectTo(c)
      <3>1. backlog' = backlog /\ \A d \in Clients : peer[d] # "out" => peer'[d] # "out"
        BY <1>3, <2>2 DEF ClientSteps, ClientWrites, ClientReads, FloodGo, ClientSeesEnd, ClientTimesOut, Leave
      <3> QED
        BY <1>1, <1>4, <3>1 DEF WorkerAt
    <2> QED
      BY <2>1, <2>2
  <1>6. \A d \in Clients : Closed(d) => Closed(d)'
    BY <1>3 DEF ClientSteps, ConnectTo, ClientWrites, ClientReads, FloodGo, ClientSeesEnd,
       ClientTimesOut, Leave, Closed
  <1>7. ASSUME NEW d \in Clients
        PROVE  /\ WholeButWelcome(Stream(d)')
               /\ Live22(d)' => Live22(d) /\ Stream(d)' = Stream(d)
    <2>1. Live22(d)' => Live22(d)
      BY <1>1, <1>6 DEF Live22
    <2>2. Stream(d) \in Seq(Units22) /\ seen[d] \in Seq(Units22) /\ down[d] \in Seq(Units22)
      BY StreamUnits
    <2>3. WholeButWelcome(Stream(d))
      BY <1>4 DEF StreamAt
    <2>4. CASE UNCHANGED <<seen, down>>
      BY <2>1, <2>3, <2>4 DEF Stream
    <2>5. CASE ClientReads(c)
      <3>1. seen' = [seen EXCEPT ![c] = @ \o down[c]] /\ down' = [down EXCEPT ![c] = <<>>]
        BY <2>5 DEF ClientReads
      <3>2. Stream(d)' = Stream(d)
        <4>1. CASE d = c
          <5>1. seen'[d] = seen[d] \o down[d] /\ down'[d] = <<>>
            BY <3>1, <4>1 DEF MemInv, ScaleTypeOK
          <5>2. (seen[d] \o down[d]) \o <<>> = seen[d] \o down[d]
            BY <2>2, ConcatEmptySeq DEF Stream
          <5> QED
            BY <5>1, <5>2 DEF Stream
        <4>2. CASE d # c
          BY <3>1, <4>2 DEF MemInv, ScaleTypeOK, Stream
        <4> QED
          BY <4>1, <4>2
      <3> QED
        BY <2>1, <2>3, <3>2
    <2>6. CASE (Leave(c, "gaveup") /\ UNCHANGED seen)
      <3>1. CASE d = c
        <4>1. Closed(d)' /\ seen'[d] = seen[d] /\ down'[d] = <<>>
          BY <1>3, <2>6, <3>1 DEF Leave, Closed, MemInv, ScaleTypeOK
        <4>2. seen[d] \o <<>> = seen[d]
          BY <2>2, ConcatEmptySeq
        <4>3. Stream(d)' = seen[d]
          BY <4>1, <4>2 DEF Stream
        <4>4. WholeButWelcome(seen[d])
          BY <2>2, <2>3, WholeButWelcomeFront DEF Stream
        <4> QED
          BY <4>1, <4>3, <4>4 DEF Live22
      <3>2. CASE d # c
        BY <2>1, <2>3, <2>6, <3>2 DEF Leave, Stream, MemInv, ScaleTypeOK
      <3> QED
        BY <3>1, <3>2
    <2> QED
      BY <2>4, <2>5, <2>6
         DEF ClientSteps, ConnectTo, ClientWrites, FloodGo, ClientSeesEnd, ClientTimesOut, wire
  <1> QED
    BY <1>1, <1>2, <1>5, <1>7, ThrQuiet

\* A new connection: nobody holds a lock through its worker, which was not there.
LEMMA ThrAccepts ==
  ASSUME MemInv, ThrInv, NEW c \in Clients, AcceptThreaded(c)
  PROVE  ThrInv'
  <1>1. /\ engine = "threaded" /\ c \in backlog /\ backlog' = backlog \ {c}
        /\ wpc' = [wpc EXCEPT ![c] = "welcome"] /\ wr' = [wr EXCEPT ![c] = Encode("welcome", c)]
        /\ writing' = [writing EXCEPT ![c] = c]
        /\ UNCHANGED <<engine, peer, seen, down, rst, shut, wmuOf>>
    BY DEF AcceptThreaded, Threaded, Goes, wire
  <1>2. ThrTypeOK /\ \A d \in Clients : WorkerAt(d) /\ LockOf(d) /\ StreamAt(d)
    BY <1>1 DEF ThrInv
  <1>3. wpc[c] = "none"
    BY <1>1, <1>2 DEF WorkerAt
  <1>4. /\ wpc'[c] = "welcome" /\ wr'[c] = Encode("welcome", c) /\ writing'[c] = c
        /\ \A d \in Clients : d # c => wpc'[d] = wpc[d] /\ wr'[d] = wr[d] /\ writing'[d] = writing[d]
    BY <1>1, <1>2 DEF ThrTypeOK, MemInv, ScaleTypeOK
  <1>5. \A d \in Clients : wmuOf[d] # c
    BY <1>2, <1>3, ScaleAssumption DEF LockOf, Clients
  <1>6. ThrTypeOK'
    BY <1>1, <1>2 DEF ThrTypeOK
  <1>7. ASSUME NEW d \in Clients PROVE WorkerAt(d)' /\ LockOf(d)' /\ StreamAt(d)'
    <2>1. WorkerAt(d)'
      <3>1. CASE d = c
        BY <1>1, <1>2, <1>4, <3>1 DEF WorkerAt, Kind22, LeftOf
      <3>2. CASE d # c
        BY <1>1, <1>2, <1>4, <3>2 DEF WorkerAt, Kind22
      <3> QED
        BY <3>1, <3>2
    <2>2. wmuOf[d] # NoOne => wmuOf[d] \in Clients /\ wmuOf[d] # c
      BY <1>2, <1>5 DEF ThrTypeOK
    <2>3. LockOf(d)'
      BY <1>1, <1>2, <1>4, <2>2 DEF LockOf
    <2>4. StreamAt(d)'
      <3>1. Stream(d)' = Stream(d) /\ (Live22(d)' <=> Live22(d))
        BY <1>1 DEF Stream, Live22, Closed
      <3>2. Between(d)' <=> Between(d)
        BY <1>1, <1>4, <2>2, <3>1 DEF Between
      <3> QED
        BY <1>2, <3>1, <3>2 DEF StreamAt
    <2> QED
      BY <2>1, <2>3, <2>4
  <1> QED
    BY <1>6, <1>7 DEF ThrInv

\* A broadcast takes the lock of its next target, between frames.
LEMMA ThrTargets ==
  ASSUME MemInv, ThrInv, NEW c \in Clients, NEW t \in Clients, BroadcastTo(c, t)
  PROVE  ThrInv'
  <1>1. PICK u \in Clients \cup {NoOne} : u = IF c \in nick THEN c ELSE NoOne
    OBVIOUS
  <1>2. /\ engine = "threaded" /\ wpc[c] = "bcast" /\ writing[c] = NoOne
        /\ wmuOf[t] = NoOne /\ wmuOf' = [wmuOf EXCEPT ![t] = c]
        /\ writing' = [writing EXCEPT ![c] = t] /\ wr' = [wr EXCEPT ![c] = Encode("deliver", u)]
        /\ UNCHANGED <<engine, peer, backlog, seen, down, rst, shut, wpc>>
    BY <1>1 DEF BroadcastTo, Threaded, wire, client
  <1>3. ThrTypeOK /\ \A d \in Clients : WorkerAt(d) /\ LockOf(d) /\ StreamAt(d)
    BY <1>2 DEF ThrInv
  <1>4. /\ wr'[c] = Encode("deliver", u) /\ writing'[c] = t /\ wmuOf'[t] = c
        /\ \A d \in Clients : d # c => wr'[d] = wr[d] /\ writing'[d] = writing[d]
        /\ \A d \in Clients : d # t => wmuOf'[d] = wmuOf[d]
    BY <1>2, <1>3 DEF ThrTypeOK, MemInv, ScaleTypeOK
  <1>5. c # NoOne /\ t # NoOne
    BY ScaleAssumption DEF Clients
  <1>6. \A d \in Clients : wmuOf[d] # c
    BY <1>2, <1>3, <1>5, ScaleAssumption DEF LockOf, Clients
  <1>7. ThrTypeOK'
    BY <1>2, <1>3 DEF ThrTypeOK
  <1>8. ASSUME NEW d \in Clients PROVE WorkerAt(d)' /\ LockOf(d)' /\ StreamAt(d)'
    <2>0. WorkerAt(d) /\ LockOf(d) /\ StreamAt(d)
      BY <1>3
    <2>1. WorkerAt(d)'
      <3>1. CASE d = c
        BY <1>1, <1>2, <1>4, <2>0, <3>1 DEF WorkerAt, Kind22, LeftOf
      <3>2. CASE d # c
        <4>1. writing[d] # NoOne /\ wpc[d] = "bcast" =>
                wmuOf[writing[d]] = d /\ writing[d] # t /\ writing[d] \in Clients /\ d # NoOne
          BY <1>2, <2>0, ScaleAssumption DEF WorkerAt, MemInv, ScaleTypeOK, Clients
        <4> QED
          BY <1>2, <1>4, <2>0, <3>2, <4>1 DEF WorkerAt, Kind22
      <3> QED
        BY <3>1, <3>2
    <2>2. wmuOf[d] # NoOne => wmuOf[d] \in Clients /\ wmuOf[d] # c /\ d # t
      BY <1>2, <1>3, <1>6 DEF ThrTypeOK
    <2>3. LockOf(d)'
      BY <1>2, <1>4, <2>0, <2>2 DEF LockOf
    <2>4. StreamAt(d)'
      <3>1. Stream(d)' = Stream(d) /\ (Live22(d)' <=> Live22(d))
        BY <1>2 DEF Stream, Live22, Closed
      <3>2. Between(d)' <=> Between(d)
        <4>1. CASE d = t
          <5>1. Len(Encode("deliver", u)) # 1
            BY DEF Encode
          <5> QED
            BY <1>2, <1>4, <1>5, <3>1, <4>1, <5>1 DEF Between
        <4>2. CASE d # t
          BY <1>4, <2>2, <3>1, <4>2 DEF Between
        <4> QED
          BY <4>1, <4>2
      <3> QED
        BY <2>0, <3>1, <3>2 DEF StreamAt
    <2> QED
      BY <2>1, <2>3, <2>4
  <1> QED
    BY <1>7, <1>8 DEF ThrInv

\* The end of a write: the lock of the target is free again, if it was held.
LEMMA ThrEndsWrite ==
  ASSUME MemInv, ThrInv, engine = "threaded", NEW c \in Clients, NEW t \in Clients,
         writing[c] = t, AfterWrite(c, t), rst \subseteq rst',
         UNCHANGED <<engine, peer, backlog, seen, shut>>,
         \A d \in Clients : d # t => down'[d] = down[d],
         WholeButWelcome(Stream(t)'),
         Live22(t)' =>
           IF Kind22(c) = "welcome"
           THEN /\ NoneOpen(Stream(t)) => NoneOpen(Stream(t)')
                /\ \A v : OpenFrame(Stream(t), v) => OpenFrame(Stream(t)', v)
           ELSE NoneOpen(Stream(t)')
  PROVE  ThrInv'
  <1>1. PICK to \in {"bcast", "frames", "recv"} : wpc' = [wpc EXCEPT ![c] = to]
    <2>1. PICK to : to = CASE snap'[c] # {} -> "bcast" [] todo[c] # <<>> -> "frames"
                          [] OTHER -> "recv"
      OBVIOUS
    <2>2. to \in {"bcast", "frames", "recv"}
      <3>1. CASE snap'[c] # {} \/ todo[c] # <<>>
        BY <2>1, <3>1
      <3>2. CASE ~(snap'[c] # {} \/ todo[c] # <<>>)
        BY <2>1, <3>2
      <3> QED
        BY <3>1, <3>2
    <2>3. wpc' = [wpc EXCEPT ![c] = to]
      BY <2>1 DEF AfterWrite, Goes
    <2> QED
      BY <2>2, <2>3
  <1>2. /\ wr' = [wr EXCEPT ![c] = <<>>] /\ writing' = [writing EXCEPT ![c] = NoOne]
        /\ wmuOf' = [wmuOf EXCEPT ![t] = IF wmuOf[t] = c THEN NoOne ELSE wmuOf[t]]
    BY DEF AfterWrite
  <1>3. ThrTypeOK /\ \A d \in Clients : WorkerAt(d) /\ LockOf(d) /\ StreamAt(d)
    BY DEF ThrInv
  <1>4. /\ wpc'[c] = to /\ writing'[c] = NoOne
        /\ \A d \in Clients : d # c => wpc'[d] = wpc[d] /\ wr'[d] = wr[d] /\ writing'[d] = writing[d]
        /\ wmuOf'[t] = IF wmuOf[t] = c THEN NoOne ELSE wmuOf[t]
        /\ \A d \in Clients : d # t => wmuOf'[d] = wmuOf[d]
    BY <1>1, <1>2, <1>3 DEF ThrTypeOK, MemInv, ScaleTypeOK
  <1>5. c # NoOne /\ t # NoOne
    BY ScaleAssumption DEF Clients
  <1>6. wpc[c] \in {"welcome", "bcast"}
    BY <1>3, <1>5 DEF WorkerAt
  <1>7. ThrTypeOK'
    BY <1>1, <1>2, <1>3 DEF ThrTypeOK
  <1>8. \A d \in Clients : wmuOf[d] = c => d = t /\ wpc[c] = "bcast"
    BY <1>3, <1>5 DEF LockOf
  <1>9. wpc[c] = "bcast" => wmuOf[t] = c
    BY <1>3, <1>5 DEF WorkerAt
  <1>10. ASSUME NEW d \in Clients PROVE WorkerAt(d)' /\ LockOf(d)' /\ StreamAt(d)'
    <2>0. WorkerAt(d) /\ LockOf(d) /\ StreamAt(d)
      BY <1>3
    <2>1. WorkerAt(d)'
      <3>1. CASE d = c
        BY <1>4, <1>6, <2>0, <3>1 DEF WorkerAt
      <3>2. CASE d # c
        <4>1. writing[d] # NoOne /\ wpc[d] = "bcast" =>
                wmuOf[writing[d]] = d /\ writing[d] \in Clients
          BY <2>0 DEF WorkerAt, MemInv, ScaleTypeOK
        <4>2. writing[d] # NoOne /\ wpc[d] = "bcast" => wmuOf'[writing[d]] = d
          BY <1>4, <3>2, <4>1
        <4> QED
          BY <1>4, <2>0, <3>2, <4>2 DEF WorkerAt, Kind22
      <3> QED
        BY <3>1, <3>2
    <2>2. wmuOf'[d] # NoOne =>
            wmuOf'[d] = wmuOf[d] /\ wmuOf[d] \in Clients /\ wmuOf[d] # c
      BY <1>3, <1>4, <1>8 DEF ThrTypeOK
    <2>3. LockOf(d)'
      BY <1>4, <2>0, <2>2 DEF LockOf
    <2>4. StreamAt(d)'
      <3>1. CASE d # t
        <4>1. Stream(d)' = Stream(d) /\ (Live22(d)' => Live22(d)) /\ wmuOf'[d] = wmuOf[d]
          BY <1>4, <3>1 DEF Stream, Live22, Closed
        <4>2. Between(d) => Between(d)'
          BY <1>4, <2>2, <4>1 DEF Between
        <4> QED
          BY <2>0, <4>1, <4>2 DEF StreamAt
      <3>2. CASE d = t
        <4> SUFFICES ASSUME Live22(t)' PROVE Between(t)'
          BY <3>2 DEF StreamAt
        <4>1. Between(t)
          BY <2>0, <3>2 DEF StreamAt, Live22, Closed
        <4>2. CASE wpc[c] = "bcast"
          <5>1. wmuOf'[t] = NoOne /\ NoneOpen(Stream(t)')
            BY <1>4, <1>9, <4>2 DEF Kind22
          <5> QED
            BY <5>1 DEF Between
        <4>3. CASE wpc[c] = "welcome"
          <5>1. wmuOf'[t] = wmuOf[t] /\ (wmuOf[t] # NoOne => wr'[wmuOf[t]] = wr[wmuOf[t]])
            BY <1>4, <1>8, <2>2, <3>2, <4>3
          <5>2. /\ NoneOpen(Stream(t)) => NoneOpen(Stream(t)')
                /\ \A v : OpenFrame(Stream(t), v) => OpenFrame(Stream(t)', v)
            BY <4>3 DEF Kind22
          <5> QED
            BY <4>1, <5>1, <5>2 DEF Between
        <4> QED
          BY <1>6, <4>2, <4>3
      <3> QED
        BY <3>1, <3>2
    <2> QED
      BY <2>1, <2>3, <2>4
  <1> QED
    BY <1>7, <1>10 DEF ThrInv

\* A part of what is left of a frame, and what is left after it.
\* A frame cut in two by a partial send.
SplitAt(k, u, r, n, part, after) ==
  /\ LeftOf(r, k, u) /\ n \in Nat /\ n > 0 /\ n <= Len(r)
  /\ part = SubSeq(r, 1, n) /\ after = SubSeq(r, n + 1, Len(r))
PartsOf(k, u, r, n, part, after) ==
  /\ TakenOf(k, u, r, n, part)
  /\ n < Len(r) => n = 1 /\ r = Encode(k, u) /\ after = <<<<k, u, 2>>>>
  /\ n = 1 \/ n = 2
  /\ Len(r) = 1 => n = 1 /\ r[1][2] = u
  /\ Len(r) = 1 \/ Len(r) = 2

LEMMA PartsLeft ==
  ASSUME NEW k \in {"welcome", "deliver"}, NEW u \in Clients \cup {NoOne}, NEW r, NEW n,
         NEW part, NEW after, SplitAt(k, u, r, n, part, after)
  PROVE  PartsOf(k, u, r, n, part, after)
  <1> USE DEF SplitAt, PartsOf
  <1>1. PICK h \in Units22 : h = <<k, u, 1>>
    BY DEF Units22
  <1>2. PICK p \in Units22 : p = <<k, u, 2>>
    BY DEF Units22
  <1>3. ASSUME NEW x \in Units22, NEW s \in Seq(Units22), Len(s) = 1, s[1] = x PROVE s = <<x>>
    BY <1>3, SeqEqual
  <1>4. ASSUME NEW x \in Units22, NEW y \in Units22, NEW s \in Seq(Units22), Len(s) = 2,
               s[1] = x, s[2] = y
        PROVE  s = <<x, y>>
    <2>1. \A i \in 1..2 : s[i] = <<x, y>>[i]
      BY <1>4
    <2>2. <<x, y>> \in Seq(Units22) /\ Len(<<x, y>>) = 2
      OBVIOUS
    <2> QED
      BY <1>4, <2>1, <2>2, SeqEqual
  <1>5. CASE r = Encode(k, u)
    <2>1. r = <<h, p>>
      BY <1>1, <1>2, <1>5 DEF Encode
    <2>2. r \in Seq(Units22) /\ Len(r) = 2 /\ r[1] = h /\ r[2] = p
      BY <2>1
    <2>3. /\ part \in Seq(Units22) /\ after \in Seq(Units22) /\ Len(part) = n /\ Len(after) = Len(r) - n
          /\ \A i \in 1..n : part[i] = r[i]
          /\ \A i \in 1..(Len(r) - n) : after[i] = r[n + i]
      BY <2>2, UnitParts
    <2>4. CASE n = 2
      <3>1. part[1] = h /\ part[2] = p
        BY <2>2, <2>3, <2>4
      <3>2. part = <<h, p>>
        BY <1>4, <2>3, <2>4, <3>1
      <3>3. part = <<<<k, u, 1>>, <<k, u, 2>>>>
        BY <1>1, <1>2, <3>2
      <3>4. TakenOf(k, u, r, n, part)
        BY <1>5, <2>4, <3>3 DEF TakenOf
      <3>5. ~(n < Len(r)) /\ Len(r) = 2 /\ Len(r) # 1
        BY <2>2, <2>4
      <3> QED
        BY <2>4, <3>4, <3>5
    <2>5. CASE n = 1
      <3>1. part[1] = h /\ after[1] = p /\ Len(after) = 1
        BY <2>2, <2>3, <2>5
      <3>2. part = <<h>> /\ after = <<p>>
        BY <1>3, <2>3, <2>5, <3>1
      <3>3. part = <<<<k, u, 1>>>> /\ after = <<<<k, u, 2>>>>
        BY <1>1, <1>2, <3>2
      <3>4. TakenOf(k, u, r, n, part)
        BY <1>5, <2>5, <3>3 DEF TakenOf
      <3>5. Len(r) = 2 /\ Len(r) # 1
        BY <2>2
      <3> QED
        BY <1>5, <2>5, <3>3, <3>4, <3>5
    <2>6. n = 1 \/ n = 2
      BY <2>2
    <2> QED
      BY <2>4, <2>5, <2>6
  <1>6. CASE r = <<<<k, u, 2>>>>
    <2>1. r = <<p>>
      BY <1>2, <1>6
    <2>2. r \in Seq(Units22) /\ Len(r) = 1 /\ r[1] = p
      BY <2>1
    <2>3. n = 1
      BY <2>2
    <2>4. part \in Seq(Units22) /\ Len(part) = 1 /\ part[1] = p
      BY <2>2, <2>3, UnitParts
    <2>5. part = <<p>>
      BY <1>3, <2>4
    <2>6. part = <<<<k, u, 2>>>>
      BY <1>2, <2>5
    <2>7. r[1][2] = u
      <3>1. p[2] = u
        BY <1>2
      <3> QED
        BY <2>2, <3>1
    <2>8. TakenOf(k, u, r, n, part)
      BY <1>6, <2>3, <2>6 DEF TakenOf
    <2>9. Len(r) = 1 /\ ~(n < Len(r))
      BY <2>2, <2>3
    <2> QED
      BY <2>3, <2>7, <2>8, <2>9
  <1> QED
    BY <1>5, <1>6 DEF LeftOf

\* Stated for units alone, as the steps need it.
LEMMA UnitsThree ==
  \A a, b, d \in Seq(Units22) : a \o (b \o d) = (a \o b) \o d
  BY ConcatAssociative

\* Every way a worker's write can go.
LEMMA ThrWrites ==
  ASSUME MemInv, ThrInv, NEW c \in Clients, WriteAll(c)
  PROVE  ThrInv'
  <1>1. PICK t \in Clients : t = writing[c]
    BY DEF WriteAll, MemInv, ScaleTypeOK
  <1>2. /\ engine = "threaded" /\ UNCHANGED <<engine, peer, backlog, seen, shut>>
        /\ rst \subseteq rst' /\ \A d \in Clients : d # t => down'[d] = down[d]
    BY <1>1 DEF WriteAll, Threaded, client, MemInv, ScaleTypeOK
  <1>3. ThrTypeOK /\ \A d \in Clients : WorkerAt(d) /\ LockOf(d) /\ StreamAt(d)
    BY <1>2 DEF ThrInv
  <1>4. c # NoOne /\ t # NoOne
    BY ScaleAssumption DEF Clients
  <1>5. CASE ~Live22(t) \/ Closed(t)
    <2>1. AfterWrite(c, t) /\ UNCHANGED down /\ ~Live22(t)'
      BY <1>1, <1>5 DEF WriteAll, Live22, Closed
    <2>2. WholeButWelcome(Stream(t)')
      BY <1>2, <1>3, <2>1 DEF StreamAt, Stream
    <2> QED
      BY <1>1, <1>2, <2>1, <2>2, ThrEndsWrite
  <1>6. CASE Live22(t) /\ ~Closed(t)
    <2>1. PICK k \in {"welcome", "deliver"}, u \in Clients \cup {NoOne} :
            k = Kind22(c) /\ LeftOf(wr[c], k, u)
      BY <1>1, <1>3, <1>4 DEF WorkerAt, Kind22
    <2>2. PICK n : n = IF Space(t) < Len(wr[c]) THEN Space(t) ELSE Len(wr[c])
      OBVIOUS
    <2>3. Stream(t) \in Seq(Units22) /\ seen[t] \in Seq(Units22) /\ down[t] \in Seq(Units22)
      BY StreamUnits
    <2>4. wr[c] \in Seq(Units22)
      BY DEF MemInv, ScaleTypeOK
    <2>5. n \in Nat /\ n <= Len(wr[c])
      BY <2>2, <2>3, <2>4, ScaleAssumption DEF Space
    <2>6. PICK part, after \in Seq(Units22) :
            part = SubSeq(wr[c], 1, n) /\ after = SubSeq(wr[c], n + 1, Len(wr[c]))
      BY <2>4, <2>5, UnitParts
    <2>7. /\ n > 0 /\ down' = [down EXCEPT ![t] = down[t] \o part] /\ rst' = rst
          /\ IF n = Len(wr[c]) THEN AfterWrite(c, t)
             ELSE wr' = [wr EXCEPT ![c] = after] /\ UNCHANGED <<wpc, snap, writing, wmuOf>>
      BY <1>1, <1>6, <2>2, <2>6 DEF WriteAll, Live22
    <2>8. PICK r : r = wr[c]
      OBVIOUS
    <2>9. PartsOf(k, u, r, n, part, after)
      <3>1. SplitAt(k, u, r, n, part, after)
        BY <2>1, <2>5, <2>6, <2>7, <2>8 DEF SplitAt
      <3> QED
        BY <3>1, PartsLeft
    <2>10. PICK s \in Seq(Units22) : s = Stream(t)
      BY <2>3
    <2>11. PICK w : w = s \o part
      OBVIOUS
    <2>12. Stream(t)' = w
      <3>1. down'[t] = down[t] \o part /\ seen'[t] = seen[t]
        BY <1>2, <2>7 DEF MemInv, ScaleTypeOK
      <3>2. PICK a \in Seq(Units22) : a = seen[t]
        BY <2>3
      <3>3. PICK b \in Seq(Units22) : b = down[t]
        BY <2>3
      <3>4. a \o (b \o part) = (a \o b) \o part
        BY UnitsThree
      <3> QED
        BY <2>10, <2>11, <3>1, <3>2, <3>3, <3>4 DEF Stream
    <2>13. StreamTook(k, u, r, n, s, w)
      <3>1. WholeButWelcome(s)
        BY <1>3, <2>10 DEF StreamAt
      <3> QED
        BY <2>9, <2>11, <3>1, PartSent DEF PartsOf
    <2>14. k = "deliver" => wmuOf[t] = c /\ wpc[c] = "bcast"
      BY <1>1, <1>3, <1>4, <2>1 DEF WorkerAt, Kind22
    <2>15. k = "deliver" => IF Len(r) = 1 THEN OpenFrame(s, u) ELSE NoneOpen(s)
      <3>1. Between(t)
        BY <1>3, <1>6 DEF StreamAt
      <3> QED
        BY <1>4, <2>8, <2>9, <2>10, <2>14, <3>1 DEF Between, PartsOf
    <2>16. WholeButWelcome(w) /\ (k = "deliver" => IF n = Len(r) THEN NoneOpen(w) ELSE OpenFrame(w, u))
      BY <2>1, <2>5, <2>8, <2>9, <2>13, <2>15 DEF StreamTook, PartsOf
    <2>17. CASE n = Len(r)
      <3>1. AfterWrite(c, t)
        BY <2>7, <2>8, <2>17
      <3>2. IF Kind22(c) = "welcome"
            THEN /\ NoneOpen(Stream(t)) => NoneOpen(Stream(t)')
                 /\ \A v : OpenFrame(Stream(t), v) => OpenFrame(Stream(t)', v)
            ELSE NoneOpen(Stream(t)')
        BY <2>1, <2>10, <2>12, <2>13, <2>16, <2>17 DEF StreamTook
      <3>3. WholeButWelcome(Stream(t)')
        BY <2>12, <2>16
      <3> QED
        BY <1>1, <1>2, <3>1, <3>2, <3>3, ThrEndsWrite
    <2>18. CASE n # Len(r)
      <3>1. /\ UNCHANGED <<wpc, writing, wmuOf>> /\ n < Len(r) /\ r = Encode(k, u)
            /\ after = <<<<k, u, 2>>>> /\ wr' = [wr EXCEPT ![c] = after]
        BY <2>5, <2>7, <2>8, <2>9, <2>18 DEF PartsOf
      <3>2. wr'[c] = <<<<k, u, 2>>>> /\ \A d \in Clients : d # c => wr'[d] = wr[d]
        BY <3>1 DEF MemInv, ScaleTypeOK
      <3>3. ASSUME NEW d \in Clients PROVE WorkerAt(d)' /\ LockOf(d)' /\ StreamAt(d)'
        <4>0. WorkerAt(d) /\ LockOf(d) /\ StreamAt(d)
          BY <1>3
        <4>1. WorkerAt(d)'
          <5>1. CASE d = c
            <6>1. LeftOf(wr'[c], k, u) /\ Kind22(c)' = k
              BY <2>1, <3>1, <3>2 DEF LeftOf, Kind22
            <6> QED
              BY <1>2, <3>1, <4>0, <5>1, <6>1 DEF WorkerAt
          <5>2. CASE d # c
            BY <1>2, <3>1, <3>2, <4>0, <5>2 DEF WorkerAt, Kind22
          <5> QED
            BY <5>1, <5>2
        <4>2. LockOf(d)'
          BY <3>1, <4>0 DEF LockOf
        <4>3. CASE d # t
          <5>1. Stream(d)' = Stream(d) /\ (Live22(d)' <=> Live22(d))
            BY <1>2, <2>7, <4>3 DEF Stream, Live22, Closed
          <5>2. wmuOf[d] # NoOne => wmuOf[d] \in Clients /\ wmuOf[d] # c
            BY <1>1, <1>3, <4>0, <4>3 DEF LockOf, ThrTypeOK
          <5>3. Between(d)' <=> Between(d)
            BY <3>1, <3>2, <5>1, <5>2 DEF Between
          <5> QED
            BY <4>0, <4>1, <4>2, <5>1, <5>3 DEF StreamAt
        <4>4. CASE d = t
          <5>1. WholeButWelcome(Stream(t)')
            BY <2>12, <2>16
          <5>2. CASE k = "deliver"
            <6>1. Len(wr'[c]) = 1 /\ wr'[c][1][2] = u
              BY <3>2
            <6>2. OpenFrame(Stream(t)', u) /\ wmuOf'[t] = c
              BY <2>12, <2>14, <2>16, <2>18, <3>1, <5>2
            <6>3. Between(t)'
              BY <1>4, <6>1, <6>2 DEF Between
            <6> QED
              BY <4>1, <4>2, <4>4, <5>1, <6>3 DEF StreamAt
          <5>3. CASE k = "welcome"
            <6>1. wpc[c] = "welcome"
              BY <2>1, <5>3 DEF Kind22
            <6>2. wmuOf[t] # NoOne => wmuOf[t] \in Clients /\ wmuOf[t] # c
              BY <1>3, <6>1 DEF LockOf, ThrTypeOK
            <6>3. wmuOf'[t] = wmuOf[t] /\ (wmuOf[t] # NoOne => wr'[wmuOf[t]] = wr[wmuOf[t]])
              BY <3>1, <3>2, <6>2
            <6>4. Between(t)
              BY <1>3, <1>6 DEF StreamAt
            <6>5. /\ NoneOpen(Stream(t)) => NoneOpen(Stream(t)')
                  /\ \A v : OpenFrame(Stream(t), v) => OpenFrame(Stream(t)', v)
              BY <2>10, <2>12, <2>13, <5>3 DEF StreamTook
            <6>6. Between(t)'
              BY <6>3, <6>4, <6>5 DEF Between
            <6> QED
              BY <4>1, <4>2, <4>4, <5>1, <6>6 DEF StreamAt
          <5> QED
            BY <5>2, <5>3
        <4> QED
          BY <4>3, <4>4
      <3>4. ThrTypeOK'
        BY <1>3, <3>1 DEF ThrTypeOK
      <3> QED
        BY <3>3, <3>4 DEF ThrInv
    <2> QED
      BY <2>17, <2>18
  <1> QED
    BY <1>5, <1>6 DEF Live22

\* The other steps of the server's threads, and the steps of nobody.
LEMMA ThrOthers ==
  ASSUME MemInv, ThrInv, engine = "threaded", NEW c \in Clients,
         \/ RecvFrames(c) \/ RecvEnds(c) \/ HandleFrame(c) \/ ShutdownAll \/ WorkersJoined
         \/ Signal22 \/ UNCHANGED scaleVars
  PROVE  ThrInv'
  <1>1. /\ UNCHANGED <<wmuOf, writing, wr, peer, backlog, seen, down, rst>>
        /\ shut' = shut \/ (ShutdownAll /\ srv = "up")
    BY DEF RecvFrames, RecvEnds, HandleFrame, ShutdownAll, WorkersJoined, Signal22, scaleVars,
           client, wire, thr
  <1>2. ThrTypeOK /\ \A d \in Clients : WorkerAt(d) /\ LockOf(d) /\ StreamAt(d)
    BY DEF ThrInv
  <1>3. wpc' = wpc \/ (wpc[c] \in {"recv", "frames"} /\
          \E to \in {"recv", "frames", "bcast", "gone"} : wpc' = [wpc EXCEPT ![c] = to])
    <2>1. CASE RecvFrames(c)
      <3>1. PICK to : to = IF todo'[c] = <<>> THEN "recv" ELSE "frames"
        OBVIOUS
      <3>2. wpc' = [wpc EXCEPT ![c] = to]
        BY <2>1, <3>1 DEF RecvFrames, Goes
      <3> QED
        BY <2>1, <3>1, <3>2 DEF RecvFrames
    <2>2. CASE RecvEnds(c)
      BY <2>2 DEF RecvEnds, Goes
    <2>3. CASE HandleFrame(c)
      <3>1. PICK to : to = IF todo'[c] = <<>> THEN "recv" ELSE "frames"
        OBVIOUS
      <3>2. wpc' = [wpc EXCEPT ![c] = to] \/ wpc' = [wpc EXCEPT ![c] = "bcast"]
        BY <2>3, <3>1 DEF HandleFrame, Goes
      <3> QED
        BY <2>3, <3>1, <3>2 DEF HandleFrame
    <2>4. CASE ShutdownAll \/ WorkersJoined \/ Signal22 \/ UNCHANGED scaleVars
      BY <2>4 DEF ShutdownAll, WorkersJoined, Signal22, scaleVars, thr
    <2> QED
      BY <2>1, <2>2, <2>3, <2>4
  <1>4. wpc' \in [Clients -> {"none", "welcome", "recv", "frames", "bcast", "gone"}]
    BY <1>2, <1>3 DEF ThrTypeOK
  <1>5. ASSUME NEW d \in Clients
        PROVE  /\ writing[d] # NoOne => wpc'[d] = wpc[d]
               /\ d \in backlog' => peer'[d] # "out"
               /\ wpc'[d] # "none" => peer'[d] # "out" /\ d \notin backlog'
               /\ WholeButWelcome(Stream(d)')
               /\ Live22(d)' => Live22(d) /\ Stream(d)' = Stream(d)
    <2>1. WorkerAt(d) /\ StreamAt(d)
      BY <1>2
    <2>2. wpc'[d] = wpc[d] \/ wpc[d] \in {"recv", "frames"}
      BY <1>2, <1>3 DEF ThrTypeOK
    <2>3. Stream(d)' = Stream(d)
      BY <1>1 DEF Stream
    <2>4. Live22(d)' => Live22(d)
      BY <1>1 DEF Live22, Closed, MemInv, Reached
    <2> QED
      BY <1>1, <2>1, <2>2, <2>3, <2>4 DEF WorkerAt, StreamAt
  <1> QED
    BY <1>1, <1>4, <1>5, ThrQuiet

\* A behaviour runs one of the two engines.
EngineOK == engine \in {"threaded", "epoll"}

\* Every step keeps the invariant; a step of the epoll loop is none of this engine.
LEMMA ThrNext ==
  ASSUME MemInv, ThrInv, [ScaleNext]_scaleVars PROVE ThrInv'
  <1>1. engine' = engine
    BY DEF ScaleNext, ScaleProgress, ScaleMain, Worker, ClientSteps, EpollLoop, ConnectTo,
           ClientWrites, ClientReads, FloodGo, ClientSeesEnd, ClientTimesOut, Signal22,
           AcceptThreaded, WriteAll, RecvFrames, RecvEnds, HandleFrame, BroadcastTo, ShutdownAll,
           WorkersJoined, EpollWait, AcceptReady, OnReadable, OnFrame, OnWritable, ReapClosed,
           EpollStops, scaleVars
  <1>2. CASE engine # "threaded"
    BY <1>1, <1>2 DEF ThrInv
  <1>3. CASE engine = "threaded"
    <2>1. ~EpollLoop
      BY <1>3 DEF EpollLoop, EpollWait, AcceptReady, OnReadable, OnFrame, OnWritable, ReapClosed,
                  EpollStops, Epoll
    <2>2. ASSUME NEW c \in Clients, ClientSteps(c) \/ ClientTimesOut(c) PROVE ThrInv'
      BY <1>3, <2>2, ThrClients
    <2>3. ASSUME NEW c \in Clients, Worker(c) PROVE ThrInv'
      BY <1>3, <2>3, ThrWrites, ThrOthers, ThrTargets DEF Worker
    <2>4. ASSUME NEW c \in Clients, AcceptThreaded(c) PROVE ThrInv'
      BY <2>4, ThrAccepts
    <2>5. CASE ShutdownAll \/ WorkersJoined \/ Signal22 \/ UNCHANGED scaleVars
      <3>1. FloodFirst \in Clients
        BY ScaleAssumption DEF Clients
      <3> QED
        BY <1>3, <2>5, <3>1, ThrOthers
    <2> QED
      BY <2>1, <2>2, <2>3, <2>4, <2>5 DEF ScaleNext, ScaleProgress, ScaleMain
  <1> QED
    BY <1>2, <1>3

\* No step changes the engine.
LEMMA EngineStays == EngineOK /\ [ScaleNext]_scaleVars => EngineOK'
  BY DEF EngineOK, ScaleNext, ScaleProgress, ScaleMain, Worker, ClientSteps, EpollLoop, ConnectTo,
         ClientWrites, ClientReads, FloodGo, ClientSeesEnd, ClientTimesOut, Signal22,
         AcceptThreaded, WriteAll, RecvFrames, RecvEnds, HandleFrame, BroadcastTo, ShutdownAll,
         WorkersJoined, EpollWait, AcceptReady, OnReadable, OnFrame, OnWritable, ReapClosed,
         EpollStops, scaleVars

\* What any client has read and will read next is whole frames, one after the
\* other, wherever partial sends, full buffers and the broadcasts of several
\* workers cut or delay them: in the epoll engine the whole stream, in the
\* threaded engine the stream without the WELCOME, which is written without wmu.
THEOREM ScaleStreamsWhole == ScaleSpec => []StreamsWhole
  <1>1. ScaleInit => MemInv /\ QueuesWhole /\ ThrInv /\ EngineOK
    BY MemInitInv, WholeInit, ThrInitInv, ScaleAssumption DEF EngineOK, ScaleInit, CommandLine22
  <1>2. MemInv /\ QueuesWhole /\ ThrInv /\ EngineOK /\ [ScaleNext]_scaleVars
          => MemInv' /\ QueuesWhole' /\ ThrInv' /\ EngineOK'
    BY MemNextInv, WholeNext, ThrNext, EngineStays
  <1>3. QueuesWhole /\ ThrInv /\ EngineOK => StreamsWhole
    BY DEF QueuesWhole, ThrInv, StreamAt, EngineOK, StreamsWhole
  <1> QED
    BY <1>1, <1>2, <1>3, PTL DEF ScaleSpec
=============================================================================
