------------------------------ MODULE NetProofs ------------------------------
(***************************************************************************)
(* The servers that MCNet runs side by side: example 21 (ChatV0), for any  *)
(* clients and whatever they send; example 23 (Discovery), for any peers   *)
(* and faults; example 40 (FastPath), for any clients and round trips; and *)
(* the properties of MCNet that rest on them.                              *)
(***************************************************************************)
EXTENDS MCNet, SequenceTheorems, TLAPS

-----------------------------------------------------------------------------
(* chatterd v0.  Frames reach everybody in the order of their broadcasts,  *)
(* because a broadcast owns the hub's mutex until its last write: whoever  *)
(* it still goes to has nothing newer than what came before it.            *)

Frames21 == {"joined", "said", "left"} \X Clients21 \X Nat

V0TypeOK ==
  /\ th21 \in [Clients21 -> {"none", "add", "read", "write", "remove", "gone"}]
  /\ then21 \in [Clients21 -> {"read", "gone"}]
  /\ hub21 \in Seq(Clients21) /\ lock21 \subseteq Clients21 /\ casts21 \in Nat
  /\ frame21 \in [Clients21 -> Frames21 \cup {<<>>}]
  /\ todo21 \in [Clients21 -> Seq(Clients21)]
  /\ inbox \in [Clients21 -> Seq(Frames21)]

\* A connection is in the hub once, from add to remove.
HubOnce ==
  /\ IsInjective(hub21)
  /\ \A i \in DOMAIN hub21 : th21[hub21[i]] \notin {"none", "add"}

\* The mutex is held by the thread that writes, and by one at most.
OneWriter ==
  /\ \A c \in Clients21 : th21[c] = "write" <=> c \in lock21
  /\ \A c, d \in lock21 : c = d

\* An inbox is ordered by broadcasts.
InCastOrder ==
  \A d \in Clients21 :
    /\ \A i \in DOMAIN inbox[d] : inbox[d][i][3] <= casts21
    /\ \A i, j \in DOMAIN inbox[d] : i < j => inbox[d][i][3] < inbox[d][j][3]

\* Whom the broadcast has not reached has only older frames.
NewToTheRest ==
  \A c \in lock21 :
    /\ frame21[c] \in Frames21 /\ frame21[c][3] = casts21 /\ IsInjective(todo21[c])
    /\ \A n \in DOMAIN todo21[c] : \A i \in DOMAIN inbox[todo21[c][n]] :
         inbox[todo21[c][n]][i][3] < casts21

V0Inv == V0TypeOK /\ HubOnce /\ OneWriter /\ InCastOrder /\ NewToTheRest

\* clients_.erase leaves the others in the list, each once.
LEMMA EraseOne ==
  ASSUME NEW S, NEW s \in Seq(S), NEW e, IsInjective(s)
  PROVE  /\ RemoveFirst(s, e) \in Seq(S) /\ IsInjective(RemoveFirst(s, e))
         /\ \A i \in DOMAIN RemoveFirst(s, e) : \E j \in DOMAIN s : RemoveFirst(s, e)[i] = s[j]
<1>1. CASE ~ \E i \in 1..Len(s) : s[i] = e
  BY <1>1 DEF RemoveFirst
<1>2. CASE \E i \in 1..Len(s) : s[i] = e
  <2>1. PICK k \in 1..Len(s) : s[k] = e
    BY <1>2
  <2> DEFINE I == {i \in 1..Len(s) : s[i] = e}
  <2>2. I = {k}
    BY <2>1 DEF IsInjective
  <2>3. Min(I) = k
    BY <2>2 DEF Min
  <2>4. SelectInSeq(s, LAMBDA v : v = e) = k
    BY <2>2, <2>3 DEF SelectInSeq
  <2> DEFINE r == SubSeq(s, 1, k - 1) \o SubSeq(s, k + 1, Len(s))
  <2>5. RemoveFirst(s, e) = r
    BY <1>2, <2>4 DEF RemoveFirst, RemoveAt
  <2> HIDE DEF r, I
  <2>6. /\ r \in Seq(S) /\ Len(r) = Len(s) - 1
        /\ \A i \in 1..Len(r) : r[i] = s[IF i < k THEN i ELSE i + 1]
    <3>1. /\ SubSeq(s, 1, k - 1) \in Seq(S) /\ Len(SubSeq(s, 1, k - 1)) = k - 1
          /\ \A i \in 1..(k - 1) : SubSeq(s, 1, k - 1)[i] = s[i]
      OBVIOUS
    <3>2. /\ SubSeq(s, k + 1, Len(s)) \in Seq(S) /\ Len(SubSeq(s, k + 1, Len(s))) = Len(s) - k
          /\ \A i \in 1..(Len(s) - k) : SubSeq(s, k + 1, Len(s))[i] = s[k + i]
      OBVIOUS
    <3>a. PICK a \in Seq(S) : a = SubSeq(s, 1, k - 1)
      BY <3>1
    <3>b. PICK b \in Seq(S) : b = SubSeq(s, k + 1, Len(s))
      BY <3>2
    <3>3. /\ a \o b \in Seq(S) /\ Len(a \o b) = Len(a) + Len(b)
          /\ \A i \in 1..(Len(a) + Len(b)) :
               (a \o b)[i] = IF i <= Len(a) THEN a[i] ELSE b[i - Len(a)]
      BY ConcatProperties
    <3>4. Len(a) = k - 1 /\ Len(b) = Len(s) - k /\ r = a \o b
      BY <3>1, <3>2, <3>a, <3>b DEF r
    <3>c. r \in Seq(S) /\ Len(r) = Len(s) - 1
      BY <3>3, <3>4
    <3>5. ASSUME NEW i \in 1..Len(r) PROVE r[i] = s[IF i < k THEN i ELSE i + 1]
      <4>1. CASE i < k
        BY <4>1, <3>1, <3>a, <3>3, <3>4
      <4>2. CASE i >= k
        <5>1. PICK j \in 1..(Len(s) - k) : j = i - (k - 1) /\ k + j = i + 1
          BY <4>2, <3>c
        <5>2. r[i] = b[j]
          BY <4>2, <5>1, <3>3, <3>4, <3>c
        <5>3. b[j] = s[k + j]
          BY <3>2, <3>b
        <5>4. r[i] = s[i + 1]
          BY <5>1, <5>2, <5>3
        <5>5. (IF i < k THEN i ELSE i + 1) = i + 1
          BY <4>2, SMT
        <5> QED
          BY <5>4, <5>5
      <4> QED
        BY <4>1, <4>2
    <3> QED
      BY <3>c, <3>5
  <2>7. ASSUME NEW i \in DOMAIN r, NEW j \in DOMAIN r, r[i] = r[j]
        PROVE  i = j
    <3> DEFINE at(n) == IF n < k THEN n ELSE n + 1
    <3>1. at(i) \in DOMAIN s /\ at(j) \in DOMAIN s /\ s[at(i)] = s[at(j)]
      BY <2>6, <2>7
    <3>2. at(i) = at(j)
      BY <3>1 DEF IsInjective
    <3> QED
      BY <3>2, <2>6
  <2> QED
    BY <2>5, <2>6, <2>7 DEF IsInjective
<1> QED
  BY <1>1, <1>2

LEMMA V0InitInv == V0Init => V0Inv
<1> SUFFICES ASSUME V0Init PROVE V0Inv
  OBVIOUS
<1>1. V0TypeOK
  BY DEF V0Init, V0TypeOK
<1>2. HubOnce /\ OneWriter /\ InCastOrder /\ NewToTheRest
  BY DEF V0Init, HubOnce, OneWriter, InCastOrder, NewToTheRest, IsInjective
<1> QED
  BY <1>1, <1>2 DEF V0Inv

\* Steps that move one thread, not to or from its writing, and no frame.
LEMMA V0Moves ==
  ASSUME V0Inv, NEW c \in Clients21, NEW at \in {"add", "read", "remove", "gone"},
         th21[c] # "write", at = "add" => th21[c] = "none",
         th21' = [th21 EXCEPT ![c] = at] \/ th21' = th21,
         UNCHANGED <<hub21, lock21, frame21, todo21, then21, inbox, casts21>>
  PROVE  V0Inv'
<1>1. V0TypeOK'
  BY DEF V0Inv, V0TypeOK
<1>2. HubOnce'
  BY DEF V0Inv, V0TypeOK, HubOnce
<1>3. OneWriter'
  BY DEF V0Inv, V0TypeOK, OneWriter
<1>4. InCastOrder' /\ NewToTheRest'
  BY DEF V0Inv, InCastOrder, NewToTheRest
<1> QED
  BY <1>1, <1>2, <1>3, <1>4 DEF V0Inv

\* A broadcast starts when nobody writes; everything delivered is older.
LEMMA V0Broadcasts ==
  ASSUME V0Inv, NEW c \in Clients21, NEW kind \in {"joined", "said", "left"},
         NEW to \in Seq(Clients21), IsInjective(to),
         th21[c] \notin {"none", "add"}, Broadcast21(c, kind, to),
         then21' \in [Clients21 -> {"read", "gone"}],
         hub21' \in Seq(Clients21), IsInjective(hub21'),
         \A i \in DOMAIN hub21' : \E j \in DOMAIN hub21 : hub21'[i] = hub21[j],
         UNCHANGED inbox
  PROVE  V0Inv'
<1> USE DEF V0Inv, V0TypeOK, Broadcast21
<1>1. casts21' \in Nat /\ casts21' = casts21 + 1 /\ lock21' = {c} /\ inbox' = inbox
  OBVIOUS
<1>2. <<kind, c, casts21'>> \in Frames21
  BY <1>1 DEF Frames21
<1>3. frame21'[c] = <<kind, c, casts21'>> /\ todo21'[c] = to
  OBVIOUS
<1>4. V0TypeOK'
  BY <1>1, <1>2
<1>5. HubOnce'
  BY DEF HubOnce
<1>6. OneWriter'
  BY DEF OneWriter, Free21
<1>7. \A d \in Clients21 : \A i \in DOMAIN inbox[d] : inbox[d][i][3] \in Nat
  BY DEF Frames21
<1>8. InCastOrder'
  <2>1. \A d \in Clients21 : \A i \in DOMAIN inbox[d] : inbox[d][i][3] <= casts21'
    BY <1>1, <1>7 DEF InCastOrder
  <2> QED
    BY <1>1, <2>1 DEF InCastOrder
<1>9. NewToTheRest'
  <2>1. \A d \in Clients21 : \A i \in DOMAIN inbox[d] : inbox[d][i][3] < casts21'
    BY <1>1, <1>7 DEF InCastOrder
  <2> QED
    BY <1>1, <1>2, <1>3, <2>1 DEF NewToTheRest
<1> QED
  BY <1>4, <1>5, <1>6, <1>8, <1>9

LEMMA V0Reads ==
  ASSUME V0Inv, NEW c \in Clients21, OnFrame21(c)
  PROVE  V0Inv'
<1> USE DEF V0Inv, V0TypeOK
<1>1. th21[c] = "read" /\ UNCHANGED <<hub21, inbox>>
  BY DEF OnFrame21
<1>2. IsInjective(hub21) /\ \A i \in DOMAIN hub21 : \E j \in DOMAIN hub21 : hub21[i] = hub21[j]
  BY DEF HubOnce
<1>3. CASE then21' = [then21 EXCEPT ![c] = "read"] /\ Broadcast21(c, "joined", hub21)
  BY <1>1, <1>2, <1>3, V0Broadcasts
<1>4. CASE then21' = [then21 EXCEPT ![c] = "read"] /\ Broadcast21(c, "said", RemoveFirst(hub21, c))
  <2>1. RemoveFirst(hub21, c) \in Seq(Clients21) /\ IsInjective(RemoveFirst(hub21, c))
    BY <1>2, EraseOne
  <2> QED
    BY <1>1, <1>2, <1>4, <2>1, V0Broadcasts
<1>5. CASE UNCHANGED <<th21, lock21, frame21, todo21, then21, casts21>>
  BY <1>1, <1>5, V0Moves
<1>6. CASE Stop21(c) /\ UNCHANGED lock21
  BY <1>1, <1>6, V0Moves DEF Stop21
<1> QED
  BY <1>3, <1>4, <1>5, <1>6 DEF OnFrame21

\* A write takes the frame to one more client, for which it is the newest.
LEMMA V0Writes ==
  ASSUME V0Inv, NEW c \in Clients21, WriteNext(c)
  PROVE  V0Inv'
<1> DEFINE d == Head(todo21[c])
<1>0. /\ c \in lock21 /\ todo21[c] # <<>> /\ todo21[c] \in Seq(Clients21) /\ d \in Clients21
      /\ todo21' = [todo21 EXCEPT ![c] = Tail(@)]
      /\ UNCHANGED <<th21, hub21, lock21, frame21, then21, casts21>>
      /\ \/ inbox' = inbox
         \/ inbox' = [inbox EXCEPT ![d] = Append(@, frame21[c])]
  BY DEF WriteNext, V0Inv, V0TypeOK, OneWriter
<1>d. d = todo21[c][1] /\ 1 \in DOMAIN todo21[c]
  BY <1>0
<1> HIDE DEF d
<1>1. frame21[c] \in Frames21 /\ frame21[c][3] = casts21 /\ casts21 \in Nat
  BY <1>0 DEF V0Inv, V0TypeOK, NewToTheRest
<1>2. /\ Tail(todo21[c]) \in Seq(Clients21) /\ IsInjective(Tail(todo21[c]))
      /\ \A n \in DOMAIN Tail(todo21[c]) :
           n + 1 \in DOMAIN todo21[c] /\ Tail(todo21[c])[n] = todo21[c][n + 1]
           /\ todo21[c][n + 1] # d
  <2>1. Len(Tail(todo21[c])) = Len(todo21[c]) - 1
    BY <1>0
  <2>2. \A n \in DOMAIN Tail(todo21[c]) :
          n + 1 \in DOMAIN todo21[c] /\ Tail(todo21[c])[n] = todo21[c][n + 1]
    BY <1>0
  <2> QED
    BY <1>0, <1>d, <2>1, <2>2 DEF V0Inv, NewToTheRest, IsInjective
<1>3. V0TypeOK'
  <2>1. inbox[d] \in Seq(Frames21)
    BY <1>0 DEF V0Inv, V0TypeOK
  <2>2. Append(inbox[d], frame21[c]) \in Seq(Frames21)
    BY <1>1, <2>1, AppendProperties
  <2>3. inbox' \in [Clients21 -> Seq(Frames21)]
    BY <1>0, <2>2 DEF V0Inv, V0TypeOK
  <2>4. todo21' \in [Clients21 -> Seq(Clients21)]
    BY <1>0, <1>2 DEF V0Inv, V0TypeOK
  <2> QED
    BY <1>0, <2>3, <2>4 DEF V0Inv, V0TypeOK
<1>4. HubOnce' /\ OneWriter'
  BY <1>0 DEF V0Inv, HubOnce, OneWriter
<1>5. ASSUME NEW x \in lock21 PROVE x = c
  BY <1>0 DEF V0Inv, OneWriter
<1>6. \A i \in DOMAIN inbox[d] : inbox[d][i][3] < casts21
  BY <1>0, <1>d DEF V0Inv, NewToTheRest
<1>7. CASE inbox' = inbox
  <2>1. InCastOrder'
    BY <1>0, <1>7 DEF V0Inv, InCastOrder
  <2>2. todo21'[c] = Tail(todo21[c])
    BY <1>0 DEF V0Inv, V0TypeOK
  <2>3. \A n \in DOMAIN Tail(todo21[c]) : \A i \in DOMAIN inbox[Tail(todo21[c])[n]] :
          inbox[Tail(todo21[c])[n]][i][3] < casts21
    BY <1>0, <1>2 DEF V0Inv, NewToTheRest
  <2>4. NewToTheRest'
    <3>1. /\ frame21'[c] \in Frames21 /\ frame21'[c][3] = casts21'
          /\ IsInjective(todo21'[c])
      BY <1>0, <1>1, <1>2, <2>2
    <3>2. \A n \in DOMAIN todo21'[c] : \A i \in DOMAIN inbox'[todo21'[c][n]] :
            inbox'[todo21'[c][n]][i][3] < casts21'
      <4>1. casts21' = casts21
        BY <1>0
      <4> QED
        BY <1>7, <2>2, <2>3, <4>1
    <3>3. \A x \in lock21' : x = c
      BY <1>0, <1>5
    <3> QED
      BY <3>1, <3>2, <3>3 DEF NewToTheRest
  <2> QED
    BY <1>3, <1>4, <2>1, <2>4 DEF V0Inv
<1>8. CASE inbox' = [inbox EXCEPT ![d] = Append(@, frame21[c])]
  <2>1. /\ \A x \in Clients21 : x # d => inbox'[x] = inbox[x]
        /\ inbox'[d] = Append(inbox[d], frame21[c]) /\ inbox[d] \in Seq(Frames21)
    BY <1>0, <1>8 DEF V0Inv, V0TypeOK
  <2>2. /\ DOMAIN inbox'[d] = 1..(Len(inbox[d]) + 1)
        /\ \A i \in DOMAIN inbox[d] : inbox'[d][i] = inbox[d][i]
        /\ inbox'[d][Len(inbox[d]) + 1] = frame21[c]
    BY <1>1, <2>1
  <2>3. InCastOrder'
    <3> SUFFICES ASSUME NEW x \in Clients21
                 PROVE  /\ \A i \in DOMAIN inbox'[x] : inbox'[x][i][3] <= casts21
                        /\ \A i, j \in DOMAIN inbox'[x] : i < j => inbox'[x][i][3] < inbox'[x][j][3]
      BY <1>0 DEF InCastOrder
    <3>1. CASE x # d
      BY <3>1, <2>1 DEF V0Inv, InCastOrder
    <3>2. CASE x = d
      BY <3>2, <1>1, <1>6, <2>1, <2>2 DEF V0Inv, InCastOrder
    <3> QED
      BY <3>1, <3>2
  <2>4. todo21'[c] = Tail(todo21[c])
    BY <1>0 DEF V0Inv, V0TypeOK
  <2>5. NewToTheRest'
    <3>1. \A n \in DOMAIN Tail(todo21[c]) : \A i \in DOMAIN inbox'[Tail(todo21[c])[n]] :
            inbox'[Tail(todo21[c])[n]][i][3] < casts21
      <4> TAKE n \in DOMAIN Tail(todo21[c])
      <4>1. PICK x \in Clients21 : x = Tail(todo21[c])[n]
        BY <1>2
      <4>2. x # d /\ n + 1 \in DOMAIN todo21[c] /\ x = todo21[c][n + 1]
        BY <1>2, <4>1
      <4>3. \A i \in DOMAIN inbox[x] : inbox[x][i][3] < casts21
        BY <1>0, <4>2 DEF V0Inv, NewToTheRest
      <4> QED
        BY <2>1, <4>1, <4>2, <4>3
    <3> QED
      <4>1. /\ frame21'[c] \in Frames21 /\ frame21'[c][3] = casts21'
            /\ IsInjective(todo21'[c])
        BY <1>0, <1>1, <1>2, <2>4
      <4>2. \A n \in DOMAIN todo21'[c] : \A i \in DOMAIN inbox'[todo21'[c][n]] :
              inbox'[todo21'[c][n]][i][3] < casts21'
        <5>1. casts21' = casts21
          BY <1>0
        <5> QED
          BY <2>4, <3>1, <5>1
      <4>3. \A x \in lock21' : x = c
        BY <1>0, <1>5
      <4> QED
        BY <4>1, <4>2, <4>3 DEF NewToTheRest
  <2> QED
    BY <1>3, <1>4, <2>3, <2>5 DEF V0Inv
<1> QED
  BY <1>0, <1>7, <1>8

LEMMA V0Ends ==
  ASSUME V0Inv, NEW c \in Clients21, Written21(c) \/ HubRemove(c) \/ HubAdd(c)
  PROVE  V0Inv'
<1> USE DEF V0Inv, V0TypeOK
<1>1. CASE Written21(c)
  <2>0. /\ th21' = [th21 EXCEPT ![c] = then21[c]] /\ then21[c] \in {"read", "gone"}
        /\ lock21' = lock21 \ {c}
        /\ UNCHANGED <<hub21, frame21, todo21, then21, inbox, casts21>>
    BY <1>1 DEF Written21
  <2>a. V0TypeOK'
    BY <2>0
  <2>1. HubOnce'
    BY <2>0 DEF HubOnce
  <2>2. OneWriter'
    BY <1>1 DEF Written21, OneWriter
  <2>3. lock21' \subseteq lock21 /\ UNCHANGED <<frame21, todo21, inbox, casts21>>
    BY <1>1 DEF Written21
  <2>4. InCastOrder' /\ NewToTheRest'
    BY <2>3 DEF InCastOrder, NewToTheRest
  <2> QED
    BY <2>a, <2>1, <2>2, <2>4
<1>2. CASE HubRemove(c)
  <2>1. /\ hub21' \in Seq(Clients21) /\ IsInjective(hub21')
        /\ \A i \in DOMAIN hub21' : \E j \in DOMAIN hub21 : hub21'[i] = hub21[j]
    BY <1>2, EraseOne DEF HubRemove, HubOnce
  <2>2. th21[c] = "remove" /\ UNCHANGED inbox
    BY <1>2 DEF HubRemove
  <2>3. CASE c \in named
    BY <1>2, <2>1, <2>2, <2>3, V0Broadcasts DEF HubRemove
  <2>4. CASE c \notin named
    <3>1. /\ th21' = [th21 EXCEPT ![c] = "gone"]
          /\ UNCHANGED <<lock21, frame21, todo21, then21, inbox, casts21>>
      BY <1>2, <2>4 DEF HubRemove
    <3>2. V0TypeOK'
      BY <2>1, <3>1
    <3>3. HubOnce'
      BY <2>1, <3>1 DEF HubOnce
    <3>4. OneWriter' /\ InCastOrder' /\ NewToTheRest'
      BY <2>2, <3>1 DEF OneWriter, InCastOrder, NewToTheRest
    <3> QED
      BY <3>2, <3>3, <3>4
  <2> QED
    BY <2>3, <2>4
<1>3. CASE HubAdd(c)
  <2>1. /\ hub21' = Append(hub21, c) /\ th21[c] = "add" /\ th21' = [th21 EXCEPT ![c] = "read"]
        /\ UNCHANGED <<lock21, frame21, todo21, then21, inbox, casts21>>
    BY <1>3 DEF HubAdd
  <2>2. V0TypeOK'
    BY <2>1
  <2>3. \A i \in DOMAIN hub21 : hub21[i] # c
    BY <2>1 DEF HubOnce
  <2>4. /\ DOMAIN hub21' = 1..(Len(hub21) + 1) /\ hub21'[Len(hub21) + 1] = c
        /\ \A i \in DOMAIN hub21 : hub21'[i] = hub21[i]
    BY <2>1
  <2>a. IsInjective(hub21')
    <3> SUFFICES ASSUME NEW i \in DOMAIN hub21', NEW j \in DOMAIN hub21', hub21'[i] = hub21'[j]
                 PROVE  i = j
      BY DEF IsInjective
    <3>1. CASE i \in DOMAIN hub21 /\ j \in DOMAIN hub21
      BY <3>1, <2>4 DEF HubOnce, IsInjective
    <3>2. (i \in DOMAIN hub21 \/ i = Len(hub21) + 1) /\ (j \in DOMAIN hub21 \/ j = Len(hub21) + 1)
      BY <2>4
    <3> QED
      BY <3>1, <3>2, <2>3, <2>4
  <2>b. \A i \in DOMAIN hub21 : hub21[i] \in Clients21 /\ th21[hub21[i]] \notin {"none", "add"}
    BY DEF HubOnce
  <2>c. \A i \in DOMAIN hub21' : th21'[hub21'[i]] \notin {"none", "add"}
    <3> TAKE i \in DOMAIN hub21'
    <3>1. CASE i \in DOMAIN hub21
      BY <3>1, <2>1, <2>4, <2>b
    <3>2. CASE i = Len(hub21) + 1
      BY <3>2, <2>1, <2>4
    <3> QED
      BY <2>4, <3>1, <3>2
  <2>5. HubOnce'
    BY <2>a, <2>c DEF HubOnce
  <2>6. OneWriter' /\ InCastOrder' /\ NewToTheRest'
    BY <2>1 DEF OneWriter, InCastOrder, NewToTheRest
  <2> QED
    BY <2>2, <2>5, <2>6
<1> QED
  BY <1>1, <1>2, <1>3

LEMMA V0NextInv == V0Inv /\ [V0Next]_v0Vars => V0Inv'
<1> SUFFICES ASSUME V0Inv, [V0Next]_v0Vars PROVE V0Inv'
  OBVIOUS
<1>1. CASE UNCHANGED <<th21, hub21, lock21, frame21, todo21, then21, inbox, casts21>>
  BY <1>1 DEF V0Inv, V0TypeOK, HubOnce, OneWriter, InCastOrder, NewToTheRest
<1>2. ASSUME NEW c \in Clients21, Accept21(c) \/ OnEnd21(c)
      PROVE  V0Inv'
  BY <1>2, V0Moves DEF Accept21, OnEnd21, Stop21, v0Hub, v0Net
<1>3. CASE SeeStop \/ RequestStop \/ JoinThreads \/ OnSigint \/ UNCHANGED v0Vars
           \/ \E c \in Clients21 : Connect21(c) \/ SendFrame(c) \/ Leave21(c)
  BY <1>1, <1>3 DEF SeeStop, RequestStop, JoinThreads, OnSigint, v0Vars, v0Hub, v0Net, Connect21,
     SendFrame, Leave21
<1> QED
  BY <1>2, <1>3, V0Reads, V0Writes, V0Ends DEF V0Next, V0Progress

LEMMA V0Ordered == V0Inv => SameOrder
<1> SUFFICES ASSUME V0Inv, NEW c \in Clients21, NEW d \in Clients21,
                    NEW i \in DOMAIN inbox[c], NEW j \in DOMAIN inbox[c],
                    NEW k \in DOMAIN inbox[d], NEW l \in DOMAIN inbox[d],
                    inbox[c][i] = inbox[d][k], inbox[c][j] = inbox[d][l]
             PROVE  i < j <=> k < l
  BY DEF SameOrder
<1>1. ASSUME NEW x \in Clients21, NEW m \in DOMAIN inbox[x]
      PROVE  m \in Nat /\ inbox[x][m][3] \in Nat
  <2>1. inbox[x] \in Seq(Frames21)
    BY DEF V0Inv, V0TypeOK
  <2>2. m \in 1..Len(inbox[x]) /\ inbox[x][m] \in Frames21
    BY <2>1
  <2> QED
    BY <2>2 DEF Frames21
<1>2. ASSUME NEW x \in Clients21, NEW m \in DOMAIN inbox[x], NEW n \in DOMAIN inbox[x], m < n
      PROVE  inbox[x][m][3] < inbox[x][n][3]
  BY <1>2 DEF V0Inv, InCastOrder
<1>3. {i, j, k, l} \subseteq Nat /\ inbox[c][i][3] \in Nat /\ inbox[c][j][3] \in Nat
  BY <1>1
<1>4. CASE i < j
  <2>1. inbox[d][k][3] < inbox[d][l][3] /\ inbox[d][k][3] \in Nat /\ inbox[d][l][3] \in Nat
    BY <1>4, <1>2, <1>3
  <2>2. k # l /\ ~(l < k)
    BY <2>1, <1>2
  <2> QED
    BY <1>3, <1>4, <2>2
<1>5. CASE k < l
  <2>1. inbox[c][i][3] < inbox[c][j][3]
    BY <1>5, <1>2
  <2>2. i # j /\ ~(j < i)
    BY <2>1, <1>2, <1>3
  <2> QED
    BY <1>3, <1>5, <2>2
<1> QED
  BY <1>4, <1>5

\* Frames that reach two clients reach them in one order, and none twice,
\* because broadcast holds m_ until it is through with clients_.
THEOREM V0SameOrder == V0Spec => []SameOrder
<1>1. V0Inv => SameOrder
  BY V0Ordered
<1> QED
  BY <1>1, V0InitInv, V0NextInv, PTL DEF V0Spec

-----------------------------------------------------------------------------
(* chatterd v2.  Seen notes a name before anything is done about it, so    *)
(* whoever has said hello, or is being dialled, is in it; and a name that  *)
(* is in it is never dialled again.                                        *)

Dialling == {"dial", "reply", "hear"}

DiscTypeOK ==
  /\ rx \in [Peers23 -> [at : Dialling \cup {"recv", "gone"}, peer : Peers23 \cup {"none"},
                         tries : Nat]]
  /\ said \in [Peers23 -> Seq(Peers23)] /\ seen23 \in [Peers23 -> SUBSET Peers23]

\* What p has heard and whom it is dialling, by what it has noted.
NotedFirst ==
  \A p \in Peers23 :
    /\ IsInjective(said[p]) /\ \A i \in DOMAIN said[p] : said[p][i] \in seen23[p]
    /\ rx[p].at \in Dialling => /\ rx[p].peer \in seen23[p]
                                /\ \A i \in DOMAIN said[p] : said[p][i] # rx[p].peer

DiscInv == DiscTypeOK /\ NotedFirst

LEMMA DiscInitInv == DiscInit => DiscInv
<1> SUFFICES ASSUME DiscInit PROVE DiscInv
  OBVIOUS
<1>1. DiscTypeOK
  BY DEF DiscInit, DiscTypeOK, Receiving, Dialling
<1>2. NotedFirst
  BY DEF DiscInit, NotedFirst, Receiving, Dialling, IsInjective
<1> QED
  BY <1>1, <1>2 DEF DiscInv

\* A receiver goes on with the peer it is dialling, or back to its socket.
LEMMA DiscMoves ==
  ASSUME DiscInv, NEW p \in Peers23,
         NEW r \in [at : Dialling \cup {"recv", "gone"}, peer : Peers23 \cup {"none"}, tries : Nat],
         r.at \in Dialling => rx[p].at \in Dialling /\ r.peer = rx[p].peer,
         rx' = [rx EXCEPT ![p] = r] \/ rx' = rx, UNCHANGED <<seen23, said>>
  PROVE  DiscInv'
<1>1. CASE rx' = rx
  BY <1>1 DEF DiscInv, DiscTypeOK, NotedFirst
<1>2. CASE rx' = [rx EXCEPT ![p] = r]
  <2>1. rx'[p] = r /\ \A q \in Peers23 : q # p => rx'[q] = rx[q]
    BY <1>2 DEF DiscInv, DiscTypeOK
  <2>2. DiscTypeOK'
    BY <1>2 DEF DiscInv, DiscTypeOK
  <2>3. NotedFirst'
    BY <2>1 DEF DiscInv, NotedFirst
  <2> QED
    BY <2>2, <2>3 DEF DiscInv
<1> QED
  BY <1>1, <1>2

LEMMA DiscHears ==
  ASSUME DiscInv, NEW p \in Peers23, HearHello(p)
  PROVE  DiscInv'
<1> USE DEF DiscInv, DiscTypeOK
<1>1. /\ rx[p].at \in Dialling /\ said' = [said EXCEPT ![p] = Append(@, rx[p].peer)]
      /\ rx' = [rx EXCEPT ![p] = Receiving] /\ seen23' = seen23
  BY DEF HearHello, Dialling
<1>2. /\ rx[p].peer \in Peers23 /\ rx[p].peer \in seen23[p] /\ said[p] \in Seq(Peers23)
      /\ \A i \in DOMAIN said[p] : said[p][i] # rx[p].peer /\ said[p][i] \in seen23[p]
  BY <1>1 DEF NotedFirst
<1>3. /\ said'[p] = Append(said[p], rx[p].peer) /\ DOMAIN said'[p] = 1..(Len(said[p]) + 1)
      /\ \A i \in DOMAIN said[p] : said'[p][i] = said[p][i]
      /\ said'[p][Len(said[p]) + 1] = rx[p].peer /\ said'[p] \in Seq(Peers23)
  BY <1>1, <1>2
<1>4. DiscTypeOK'
  BY <1>1, <1>3 DEF Receiving, Dialling
<1>5. IsInjective(said'[p])
  <2> SUFFICES ASSUME NEW i \in DOMAIN said'[p], NEW j \in DOMAIN said'[p],
                      said'[p][i] = said'[p][j]
               PROVE  i = j
    BY DEF IsInjective
  <2>1. CASE i \in DOMAIN said[p] /\ j \in DOMAIN said[p]
    BY <2>1, <1>3 DEF NotedFirst, IsInjective
  <2>2. (i \in DOMAIN said[p] \/ i = Len(said[p]) + 1) /\ (j \in DOMAIN said[p] \/ j = Len(said[p]) + 1)
    BY <1>2, <1>3
  <2> QED
    BY <2>1, <2>2, <1>2, <1>3
<1>6. \A i \in DOMAIN said'[p] : said'[p][i] \in seen23[p]
  BY <1>2, <1>3
<1>7. rx'[p].at \notin Dialling
  BY <1>1 DEF Receiving, Dialling
<1>8. \A q \in Peers23 : q # p => rx'[q] = rx[q] /\ said'[q] = said[q]
  BY <1>1
<1>9. NotedFirst'
  BY <1>1, <1>5, <1>6, <1>7, <1>8 DEF NotedFirst
<1> QED
  BY <1>4, <1>9

LEMMA DiscNextInv == DiscInv /\ [DiscNext]_discVars => DiscInv'
<1> SUFFICES ASSUME DiscInv, [DiscNext]_discVars PROVE DiscInv'
  OBVIOUS
<1> USE DEF DiscInv
<1>1. CASE UNCHANGED <<rx, seen23, said>>
  BY <1>1 DEF DiscTypeOK, NotedFirst
<1>2. ASSUME NEW p \in Peers23, RecvBeacon(p)
      PROVE  DiscInv'
  <2>1. CASE UNCHANGED <<rx, seen23>>
    BY <1>1, <1>2, <2>1 DEF RecvBeacon
  <2>2. ASSUME NEW s \in Peers23, First(p, s),
               rx' = [rx EXCEPT ![p] = [at |-> "dial", peer |-> s, tries |-> 0]]
        PROVE  DiscInv'
    <3>1. said' = said
      BY <1>2 DEF RecvBeacon
    <3>2. DiscTypeOK'
      BY <2>2, <3>1 DEF DiscTypeOK, First, Dialling
    <3>3. NotedFirst'
      BY <2>2, <3>1 DEF DiscTypeOK, NotedFirst, First
    <3> QED
      BY <3>2, <3>3
  <2> QED
    BY <1>2, <2>1, <2>2 DEF RecvBeacon
<1>3. ASSUME NEW p \in Peers23, DialPeer(p)
      PROVE  DiscInv'
  <2>1. rx[p].at = "dial" /\ UNCHANGED <<seen23, said>>
    BY <1>3 DEF DialPeer
  <2>2. PICK r : rx' = [rx EXCEPT ![p] = r]
                 /\ (r = Receiving \/ r = [rx[p] EXCEPT !.tries = @ + 1] \/ r = [rx[p] EXCEPT !.at = "reply"])
    <3>1. CASE Reached(p, rx[p].peer)
      BY <3>1 DEF Reached, DiscTypeOK
    <3>2. CASE DialAgain(p, rx[p].peer)
      BY <3>2 DEF DialAgain, DiscTypeOK
    <3> QED
      BY <1>3, <3>1, <3>2 DEF DialPeer
  <2>3. /\ r \in [at : Dialling \cup {"recv", "gone"}, peer : Peers23 \cup {"none"}, tries : Nat]
        /\ r.at \in Dialling => r.peer = rx[p].peer
    BY <2>2 DEF DiscTypeOK, Receiving, Dialling
  <2> QED
    BY <2>1, <2>2, <2>3, DiscMoves DEF Dialling
<1>4. ASSUME NEW p \in Peers23, ReplyFails(p) \/ ReceiverStops(p)
      PROVE  DiscInv'
  <2>1. PICK r : rx' = [rx EXCEPT ![p] = r] /\ (r = Receiving \/ r = [rx[p] EXCEPT !.at = "gone"])
    BY <1>4 DEF ReplyFails, ReceiverStops, DiscTypeOK
  <2>2. /\ r \in [at : Dialling \cup {"recv", "gone"}, peer : Peers23 \cup {"none"}, tries : Nat]
        /\ r.at \notin Dialling
    <3>1. CASE r = Receiving
      BY <3>1 DEF Receiving, Dialling
    <3>2. CASE r = [rx[p] EXCEPT !.at = "gone"]
      BY <3>2 DEF DiscTypeOK, Dialling
    <3> QED
      BY <2>1, <3>1, <3>2
  <2>3. UNCHANGED <<seen23, said>>
    BY <1>4 DEF ReplyFails, ReceiverStops
  <2> QED
    BY <2>1, <2>2, <2>3, DiscMoves
<1>5. ASSUME NEW p \in Peers23, Greet(p)
      PROVE  DiscInv'
  <2>1. CASE UNCHANGED rx
    BY <1>1, <1>5, <2>1 DEF Greet
  <2>2. CASE acc[p][1] \in Peers23 /\ rx[acc[p][1]].at = "reply"
             /\ rx' = [rx EXCEPT ![acc[p][1]].at = "hear"]
    <3>1. PICK q \in Peers23 : q = acc[p][1]
      BY <2>2
    <3>2. PICK r : r = [rx[q] EXCEPT !.at = "hear"]
      OBVIOUS
    <3>3. /\ r \in [at : Dialling \cup {"recv", "gone"}, peer : Peers23 \cup {"none"}, tries : Nat]
          /\ r.peer = rx[q].peer /\ rx' = [rx EXCEPT ![q] = r]
      BY <2>2, <3>1, <3>2 DEF DiscTypeOK, Dialling
    <3>4. rx[q].at \in Dialling /\ UNCHANGED <<seen23, said>>
      BY <1>5, <2>2, <3>1 DEF Greet, Dialling
    <3> QED
      BY <3>3, <3>4, DiscMoves
  <2>3. CASE acc[p][1] \notin Peers23 /\ rx' = [rx EXCEPT ![acc[p][1]].at = "hear"]
    <3>1. rx' = rx
      BY <2>3 DEF DiscTypeOK
    <3> QED
      BY <2>1, <3>1
  <2> QED
    BY <1>5, <2>1, <2>2, <2>3 DEF Greet
<1>6. ASSUME NEW p \in Peers23, Kill23(p)
      PROVE  DiscInv'
  <2>1. /\ rx' = [rx EXCEPT ![p] = Receiving] /\ seen23' = [seen23 EXCEPT ![p] = {}]
        /\ said' = [said EXCEPT ![p] = <<>>]
    BY <1>6 DEF Kill23
  <2>2. DiscTypeOK'
    BY <2>1 DEF DiscTypeOK, Receiving, Dialling
  <2>3. NotedFirst'
    BY <2>1 DEF DiscTypeOK, NotedFirst, Receiving, Dialling, IsInjective
  <2> QED
    BY <2>2, <2>3
<1>7. ASSUME NEW p \in Peers23,
             \/ Announce(p) \/ AcceptDial(p) \/ AccepterStops(p) \/ ExitPeer(p) \/ StartPeer(p)
             \/ GraceEnds(p) \/ StrayDatagram(p) \/ \E s \in udp[p] : LoseBeacon(p, s)
      PROVE  DiscInv'
  BY <1>1, <1>7 DEF Announce, AcceptDial, AccepterStops, ExitPeer, StartPeer, GraceEnds,
     StrayDatagram, LoseBeacon
<1>8. CASE UNCHANGED discVars
  BY <1>1, <1>8 DEF discVars
<1> QED
  BY <1>2, <1>3, <1>4, <1>5, <1>6, <1>7, <1>8, DiscHears DEF DiscNext, DiscProgress

LEMMA DiscOnce == DiscInv => DialledOnce
BY DEF DiscInv, NotedFirst, DialledOnce, Dialling, ToSet

-----------------------------------------------------------------------------
(* The fast path.  One buffer serves everybody; that nobody gets a piece   *)
(* that is not its own is a matter of counting: of the frame a client has  *)
(* in flight every piece sent is on its way in, in the buffer or on its    *)
(* way back, and nothing older is left of it anywhere.                     *)

Ats40    == {"new", "send", "half", "wait", "done", "error"}
Pieces40 == (Clients40 \cup {"zero"}) \X Nat
Piece(c) == <<c, cl40[c].i>>
Alive40(c) == cl40[c].at \in {"send", "half", "wait"}
\* Pieces of its frame that a client has sent.
Sent40(c) == IF cl40[c].at = "send" THEN 0 ELSE IF cl40[c].at = "half" THEN 1 ELSE 2

FastTypeOK ==
  /\ srv40 \in {"check", "poll", "read", "asleep", "break", "write", "exit"}
  /\ served = <<>> \/ \E c \in Clients40 : served = <<c>>
  /\ srv40 \in {"read", "asleep", "break", "write"} <=> served # <<>>
  /\ queue40 \in Seq(Clients40) /\ off40 \in {0, 1}
  /\ buf40 \in Seq(Pieces40) /\ Len(buf40) = 2
  /\ cl40 \in [Clients40 -> [at : Ats40, i : Nat]]
  /\ in40 \in [Clients40 -> Seq(Pieces40)] /\ out40 \in [Clients40 -> Seq(Pieces40)]

\* A connection is queued once, and then served once.
QueueOnce ==
  /\ IsInjective(queue40)
  /\ \A n \in DOMAIN queue40 : cl40[queue40[n]].at # "new" /\ served # <<queue40[n]>>
  /\ \A c \in Clients40 : cl40[c].at = "new" =>
       served # <<c>> /\ in40[c] = <<>> /\ out40[c] = <<>>

\* What is on its way of c is its present frame, and that frame is counted.
InFlight(c) ==
  /\ \A n \in DOMAIN in40[c] : in40[c][n] = Piece(c)
  /\ \A n \in DOMAIN out40[c] : out40[c][n] = Piece(c)
  /\ Len(in40[c]) <= Sent40(c)
  /\ out40[c] = <<>> \/ (cl40[c].at = "wait" /\ Len(out40[c]) = 2 /\ in40[c] = <<>>)

Queued40(c) ==
  (\E n \in DOMAIN queue40 : queue40[n] = c) => out40[c] = <<>> /\ Len(in40[c]) = Sent40(c)

InBuffer(c) ==
  served = <<c>> =>
    IF srv40 = "write"
    THEN /\ cl40[c].at = "wait" /\ in40[c] = <<>> /\ out40[c] = <<>> /\ off40 = 0
         /\ buf40[1] = Piece(c) /\ buf40[2] = Piece(c)
    ELSE /\ Len(in40[c]) + off40 + Len(out40[c]) = Sent40(c)
         /\ off40 = 1 => buf40[1] = Piece(c)

Counted(c) == InFlight(c) /\ Queued40(c) /\ InBuffer(c)

FastInv ==
  /\ FastTypeOK /\ QueueOnce /\ mismatched = {}
  /\ \A c \in Clients40 : Alive40(c) => Counted(c)

LEMMA PairIsSeq ==
  ASSUME NEW S, NEW f \in [1..2 -> S]
  PROVE  f \in Seq(S)
<1>1. f \in UNION {[1..n -> S] : n \in Nat}
  OBVIOUS
<1>2. Seq(S) = UNION {[1..n -> S] : n \in Nat}
  BY SeqDef
<1> QED
  BY <1>1, <1>2, Zenon

LEMMA FastInitInv == FastInit => FastInv
<1> SUFFICES ASSUME FastInit PROVE FastInv
  OBVIOUS
<1> USE DEF FastInit, Listen40, CommandLine40
<1>1. FastTypeOK
  BY DEF FastTypeOK, Zero, Pieces40, Ats40
<1>2. QueueOnce
  BY DEF QueueOnce, IsInjective
<1> QED
  BY <1>1, <1>2 DEF FastInv, Alive40

\* A step of one client leaves what is counted of the others alone.
LEMMA OthersCounted ==
  ASSUME FastInv, NEW c \in Clients40,
         \A d \in Clients40 : d # c =>
           cl40'[d] = cl40[d] /\ in40'[d] = in40[d] /\ out40'[d] = out40[d],
         UNCHANGED <<srv40, served, buf40, off40, queue40>>
  PROVE  \A d \in Clients40 : d # c /\ Alive40(d)' => Counted(d)'
BY DEF FastInv, Alive40, Counted, InFlight, Queued40, InBuffer, Piece, Sent40

LEMMA FastConnects ==
  ASSUME FastInv, NEW c \in Clients40, Connect40(c)
  PROVE  FastInv'
<1>1. /\ cl40[c].at = "new" /\ cl40' = [cl40 EXCEPT ![c].at = "send"]
      /\ queue40' = Append(queue40, c)
      /\ UNCHANGED <<srv40, served, buf40, off40, in40, out40, mismatched>>
  BY DEF Connect40, Set40, server40
<1>2. queue40 \in Seq(Clients40) /\ \A n \in DOMAIN queue40 : queue40[n] # c
  BY <1>1 DEF FastInv, FastTypeOK, QueueOnce
<1>3. /\ queue40' \in Seq(Clients40) /\ DOMAIN queue40' = 1..(Len(queue40) + 1)
      /\ \A n \in DOMAIN queue40 : queue40'[n] = queue40[n]
      /\ queue40'[Len(queue40) + 1] = c
  BY <1>1, <1>2
<1>4. FastTypeOK'
  BY <1>1, <1>3 DEF FastInv, FastTypeOK, Ats40
<1>5. served # <<c>> /\ in40[c] = <<>> /\ out40[c] = <<>>
  BY <1>1 DEF FastInv, QueueOnce
<1>6. cl40'[c].at = "send" /\ \A d \in Clients40 : d # c => cl40'[d] = cl40[d]
  BY <1>1 DEF FastInv, FastTypeOK
<1>7. \A n \in DOMAIN queue40' : (n \in DOMAIN queue40 /\ queue40'[n] = queue40[n] /\ queue40[n] # c
                                  /\ queue40[n] \in Clients40)
                                 \/ (n = Len(queue40) + 1 /\ queue40'[n] = c)
  BY <1>2, <1>3
<1>8. QueueOnce'
  <2>1. IsInjective(queue40')
    <3> SUFFICES ASSUME NEW m \in DOMAIN queue40', NEW n \in DOMAIN queue40', queue40'[m] = queue40'[n]
                 PROVE  m = n
      BY DEF IsInjective
    <3>1. CASE m \in DOMAIN queue40 /\ n \in DOMAIN queue40
      BY <3>1, <1>3 DEF FastInv, QueueOnce, IsInjective
    <3> QED
      BY <3>1, <1>7
  <2>2. \A n \in DOMAIN queue40' : cl40'[queue40'[n]].at # "new" /\ served' # <<queue40'[n]>>
    BY <1>1, <1>5, <1>6, <1>7 DEF FastInv, QueueOnce
  <2> QED
    BY <1>1, <1>6, <2>1, <2>2 DEF FastInv, QueueOnce
<1>9. ASSUME NEW d \in Clients40, Alive40(d)' PROVE Counted(d)'
  <2>1. CASE d = c
    BY <2>1, <1>1, <1>5, <1>6 DEF Counted, InFlight, Queued40, InBuffer, Sent40
  <2>2. CASE d # c
    <3>1. Alive40(d) /\ Counted(d)
      BY <1>6, <1>9, <2>2 DEF FastInv, Alive40
    <3>2. InFlight(d)' /\ InBuffer(d)'
      BY <1>1, <1>6, <2>2, <3>1 DEF Counted, InFlight, InBuffer, Piece, Sent40
    <3>3. Queued40(d)'
      BY <1>1, <1>6, <1>7, <2>2, <3>1 DEF Counted, Queued40, Sent40
    <3> QED
      BY <3>2, <3>3 DEF Counted
  <2> QED
    BY <2>1, <2>2
<1> QED
  BY <1>1, <1>4, <1>8, <1>9 DEF FastInv

LEMMA FastSends ==
  ASSUME FastInv, NEW c \in Clients40, SendPiece(c)
  PROVE  FastInv'
<1> DEFINE to == IF cl40[c].at = "send" THEN "half" ELSE "wait"
<1>1. /\ cl40[c].at \in {"send", "half"} /\ cl40' = [cl40 EXCEPT ![c].at = to]
      /\ in40' = [in40 EXCEPT ![c] = Append(@, Piece(c))]
      /\ UNCHANGED <<srv40, served, buf40, off40, queue40, out40, mismatched>>
  BY DEF SendPiece, Set40, server40, Piece
<1>2. Alive40(c) /\ Counted(c) /\ in40[c] \in Seq(Pieces40) /\ Piece(c) \in Pieces40
  BY <1>1 DEF FastInv, FastTypeOK, Alive40, Piece, Pieces40
<1>3. /\ cl40'[c] = [cl40[c] EXCEPT !.at = to] /\ \A d \in Clients40 : d # c => cl40'[d] = cl40[d]
      /\ in40'[c] = Append(in40[c], Piece(c)) /\ \A d \in Clients40 : d # c => in40'[d] = in40[d]
  BY <1>1 DEF FastInv, FastTypeOK
<1>4. /\ in40'[c] \in Seq(Pieces40) /\ Len(in40'[c]) = Len(in40[c]) + 1
      /\ \A n \in DOMAIN in40'[c] : in40'[c][n] = Piece(c)
  <2>1. /\ DOMAIN in40'[c] = 1..(Len(in40[c]) + 1) /\ in40'[c][Len(in40[c]) + 1] = Piece(c)
        /\ \A n \in 1..Len(in40[c]) : in40'[c][n] = in40[c][n]
        /\ in40'[c] \in Seq(Pieces40) /\ Len(in40'[c]) = Len(in40[c]) + 1
    BY <1>2, <1>3
  <2> QED
    BY <1>2, <2>1 DEF Counted, InFlight
<1>5. FastTypeOK'
  <2>1. cl40' \in [Clients40 -> [at : Ats40, i : Nat]]
    BY <1>1 DEF FastInv, FastTypeOK, Ats40
  <2>2. in40' \in [Clients40 -> Seq(Pieces40)]
    BY <1>1, <1>3, <1>4 DEF FastInv, FastTypeOK
  <2> QED
    BY <1>1, <2>1, <2>2 DEF FastInv, FastTypeOK
<1>6. QueueOnce'
  BY <1>1, <1>3 DEF FastInv, FastTypeOK, QueueOnce
<1>7. Piece(c)' = Piece(c) /\ Sent40(c)' = Sent40(c) + 1 /\ cl40[c].at # "wait"
  BY <1>1, <1>3 DEF FastInv, FastTypeOK, Piece, Sent40
<1>8. out40[c] = <<>> /\ out40'[c] = <<>>
  BY <1>1, <1>2, <1>7 DEF Counted, InFlight
<1>9. Len(in40[c]) \in Nat /\ Len(in40'[c]) \in Nat /\ Sent40(c) \in Nat
  BY <1>2, <1>4 DEF Sent40
<1>10. InFlight(c)' /\ Queued40(c)'
  BY <1>1, <1>2, <1>4, <1>7, <1>8, <1>9 DEF Counted, InFlight, Queued40
<1>11. InBuffer(c)'
  BY <1>1, <1>2, <1>4, <1>7, <1>8, <1>9 DEF Counted, InBuffer, FastInv, FastTypeOK
<1>12. \A d \in Clients40 : d # c /\ Alive40(d)' => Counted(d)'
  BY <1>1, <1>3, OthersCounted
<1> QED
  BY <1>1, <1>5, <1>6, <1>10, <1>11, <1>12 DEF FastInv, Counted

\* A whole frame that came back is the one that was sent, and nothing is left of it.
LEMMA FastChecks ==
  ASSUME FastInv, NEW c \in Clients40, CheckEcho(c)
  PROVE  FastInv'
<1>1. /\ cl40[c].at = "wait" /\ Len(out40[c]) >= 2
      /\ out40' = [out40 EXCEPT ![c] = SubSeq(@, 3, Len(@))]
      /\ UNCHANGED <<srv40, served, buf40, off40, queue40, in40>>
  BY DEF CheckEcho, server40
<1>2. Alive40(c) /\ Counted(c) /\ out40[c] \in Seq(Pieces40) /\ in40[c] \in Seq(Pieces40)
  BY <1>1 DEF FastInv, FastTypeOK, Alive40
<1>3. Len(out40[c]) = 2 /\ in40[c] = <<>> /\ out40[c][1] = Piece(c) /\ out40[c][2] = Piece(c)
  <2>1. Len(out40[c]) = 2 /\ in40[c] = <<>>
    BY <1>1, <1>2 DEF Counted, InFlight
  <2> QED
    BY <1>2, <2>1 DEF Counted, InFlight
<1>4. ToSet(SubSeq(out40[c], 1, 2)) = {Piece(c)}
  <2>1. SubSeq(out40[c], 1, 2) = out40[c]
    BY <1>2, <1>3
  <2> QED
    BY <1>2, <1>3, <2>1 DEF ToSet
<1>5. /\ mismatched' = mismatched
      /\ cl40' = [cl40 EXCEPT ![c] = [i |-> cl40[c].i + 1,
                                      at |-> IF cl40[c].i + 1 = Trips THEN "done" ELSE "send"]]
  BY <1>4 DEF CheckEcho, Piece
<1>6. /\ cl40'[c] = [i |-> cl40[c].i + 1, at |-> IF cl40[c].i + 1 = Trips THEN "done" ELSE "send"]
      /\ \A d \in Clients40 : d # c => cl40'[d] = cl40[d] /\ out40'[d] = out40[d]
      /\ out40'[c] = <<>>
  <2>1. SubSeq(out40[c], 3, Len(out40[c])) = <<>>
    BY <1>2, <1>3
  <2> QED
    BY <1>1, <1>5, <2>1 DEF FastInv, FastTypeOK
<1>7. FastTypeOK'
  <2>1. out40' \in [Clients40 -> Seq(Pieces40)]
    BY <1>1, <1>6 DEF FastInv, FastTypeOK
  <2>2. cl40' \in [Clients40 -> [at : Ats40, i : Nat]]
    BY <1>5 DEF FastInv, FastTypeOK, Ats40
  <2> QED
    BY <1>1, <2>1, <2>2 DEF FastInv, FastTypeOK
<1>8. QueueOnce'
  <2>1. \A d \in Clients40 : cl40'[d].at = "new" => d # c /\ cl40[d].at = "new"
    BY <1>6
  <2>2. \A n \in DOMAIN queue40 : queue40[n] \in Clients40 /\ cl40'[queue40[n]].at # "new"
    BY <2>1 DEF FastInv, FastTypeOK, QueueOnce
  <2> QED
    BY <1>1, <1>6, <2>1, <2>2 DEF FastInv, QueueOnce
<1>9. ~ \E n \in DOMAIN queue40 : queue40[n] = c
  BY <1>2, <1>3 DEF Counted, Queued40
<1>10. served = <<c>> => srv40 # "write" /\ off40 = 0
  <2> SUFFICES ASSUME served = <<c>> PROVE srv40 # "write" /\ off40 = 0
    OBVIOUS
  <2>1. srv40 # "write"
    BY <1>2, <1>3 DEF Counted, InBuffer
  <2>2. Len(in40[c]) + off40 + Len(out40[c]) = Sent40(c)
    BY <1>2, <2>1 DEF Counted, InBuffer
  <2>3. Len(in40[c]) = 0 /\ Len(out40[c]) = 2 /\ Sent40(c) = 2 /\ off40 \in {0, 1}
    BY <1>1, <1>3 DEF Sent40, FastInv, FastTypeOK
  <2> QED
    BY <2>1, <2>2, <2>3
<1>11. Alive40(c)' => Counted(c)'
  BY <1>1, <1>3, <1>6, <1>9, <1>10
     DEF Alive40, Counted, InFlight, Queued40, InBuffer, Sent40
<1>12. \A d \in Clients40 : d # c /\ Alive40(d)' => Counted(d)'
  BY <1>1, <1>6, OthersCounted
<1> QED
  BY <1>5, <1>7, <1>8, <1>11, <1>12 DEF FastInv

LEMMA FastLeaves ==
  ASSUME FastInv, NEW c \in Clients40, ClientDies40(c) \/ ServerGone(c)
  PROVE  FastInv'
<1>1. PICK at \in {"done", "error"} : cl40' = [cl40 EXCEPT ![c].at = at]
  BY DEF ClientDies40, ServerGone, Set40
<1>2. UNCHANGED <<srv40, served, buf40, off40, queue40, in40, out40, mismatched>>
  BY DEF ClientDies40, ServerGone, server40
<1>3. cl40'[c].at = at /\ \A d \in Clients40 : d # c => cl40'[d] = cl40[d]
  BY <1>1 DEF FastInv, FastTypeOK
<1>7. cl40'[c].at # "new" /\ ~ Alive40(c)'
  BY <1>3 DEF Alive40
<1>4. FastTypeOK'
  BY <1>1, <1>2 DEF FastInv, FastTypeOK, Ats40
<1>5. QueueOnce'
  <2>1. \A d \in Clients40 : cl40'[d].at = "new" => d # c /\ cl40[d].at = "new"
    BY <1>3, <1>7
  <2>2. \A n \in DOMAIN queue40 : queue40[n] \in Clients40 /\ cl40'[queue40[n]].at # "new"
    BY <2>1 DEF FastInv, FastTypeOK, QueueOnce
  <2> QED
    BY <1>2, <2>1, <2>2 DEF FastInv, QueueOnce
<1>6. \A d \in Clients40 : d # c /\ Alive40(d)' => Counted(d)'
  BY <1>2, <1>3, OthersCounted
<1> QED
  BY <1>2, <1>4, <1>5, <1>6, <1>7 DEF FastInv, Alive40

\* Steps of the server that leave the clients alone.
LEMMA FastServerMoves ==
  ASSUME FastInv, OnSignal40 \/ CheckStop40 \/ WakeRead \/ CloseConn40
  PROVE  FastInv'
<1>1. UNCHANGED <<buf40, off40, cl40, in40, out40, mismatched>>
  BY DEF OnSignal40, CheckStop40, WakeRead, CloseConn40, client40
<1>2. /\ srv40' # "write" \/ (srv40 = "write" /\ served' = served)
      /\ served' = <<>> \/ (served' = served /\ (srv40' = "write" <=> srv40 = "write"))
      /\ queue40' = <<>> \/ queue40' = queue40
  BY DEF OnSignal40, CheckStop40, WakeRead, CloseConn40, FastInv, FastTypeOK
<1>3. /\ srv40' \in {"check", "poll", "read", "asleep", "break", "write", "exit"}
      /\ srv40' \in {"read", "asleep", "break", "write"} <=> served' # <<>>
  BY DEF OnSignal40, CheckStop40, WakeRead, CloseConn40, FastInv, FastTypeOK
<1>4. FastTypeOK'
  <2>1. queue40' \in Seq(Clients40)
    <3>1. queue40 \in Seq(Clients40)
      BY DEF FastInv, FastTypeOK
    <3> QED
      BY <1>2, <3>1, EmptySeq
  <2>2. served' = <<>> \/ \E c \in Clients40 : served' = <<c>>
    BY <1>2 DEF FastInv, FastTypeOK
  <2> QED
    BY <1>1, <1>3, <2>1, <2>2 DEF FastInv, FastTypeOK
<1>5. QueueOnce'
  <2>1. \A d : served' = <<d>> => served = <<d>>
    BY <1>2
  <2>2. IsInjective(queue40')
    BY <1>2 DEF FastInv, QueueOnce, IsInjective
  <2> QED
    BY <1>1, <1>2, <2>1, <2>2 DEF FastInv, QueueOnce
<1>6. ASSUME NEW d \in Clients40, Alive40(d)' PROVE Counted(d)'
  <2>1. Alive40(d) /\ Counted(d)
    BY <1>1, <1>6 DEF FastInv, Alive40
  <2>2. InFlight(d)' /\ Queued40(d)'
    BY <1>1, <1>2, <2>1 DEF Counted, InFlight, Queued40, Piece, Sent40
  <2>3. InBuffer(d)'
    <3>1. served' = <<d>> => served = <<d>> /\ (srv40' = "write" <=> srv40 = "write")
      BY <1>2
    <3> QED
      BY <1>1, <2>1, <3>1 DEF Counted, InBuffer, Piece, Sent40
  <2> QED
    BY <2>2, <2>3 DEF Counted
<1> QED
  BY <1>1, <1>4, <1>5, <1>6 DEF FastInv

\* The next connection is served from an empty buffer.
LEMMA FastAccepts ==
  ASSUME FastInv, PollAccept
  PROVE  FastInv'
<1>1. srv40 = "poll" /\ served = <<>> /\ UNCHANGED <<cl40, in40, out40, mismatched>>
  BY DEF PollAccept, client40, FastInv, FastTypeOK
<1>2. CASE queue40 = <<>>
  <2>1. srv40' = "check" /\ UNCHANGED <<queue40, served, buf40, off40>>
    BY <1>2 DEF PollAccept
  <2>2. FastTypeOK' /\ QueueOnce'
    BY <1>1, <2>1 DEF FastInv, FastTypeOK, QueueOnce
  <2>3. ASSUME NEW d \in Clients40, Alive40(d)' PROVE Counted(d)'
    BY <1>1, <2>1, <2>3 DEF FastInv, Alive40, Counted, InFlight, Queued40, InBuffer, Piece, Sent40
  <2> QED
    BY <1>1, <2>2, <2>3 DEF FastInv
<1>3. CASE queue40 # <<>>
  <2>0. queue40 \in Seq(Clients40)
    BY DEF FastInv, FastTypeOK
  <2>1. PICK h : h = queue40[1] /\ Head(queue40) = h
    <3>1. Head(queue40) = queue40[1]
      BY <1>3, <2>0
    <3> QED
      BY <3>1
  <2>2. PICK rest : rest = Tail(queue40)
    OBVIOUS
  <2>3. /\ srv40' = "read" /\ served' = <<h>> /\ queue40' = rest
        /\ buf40' = <<Zero, Zero>> /\ off40' = 0
    BY <1>3, <2>1, <2>2 DEF PollAccept
  <2>4. /\ h \in Clients40 /\ 1 \in DOMAIN queue40
        /\ rest \in Seq(Clients40) /\ DOMAIN rest = 1..(Len(queue40) - 1)
        /\ \A n \in DOMAIN rest : n + 1 \in DOMAIN queue40 /\ rest[n] = queue40[n + 1]
                                /\ n + 1 # 1 /\ n \in Nat
    <3>1. /\ rest \in Seq(Clients40) /\ Len(rest) = Len(queue40) - 1
          /\ \A n \in 1..Len(rest) : rest[n] = queue40[n + 1]
      BY <1>3, <2>0, <2>2
    <3>2. Len(queue40) \in Nat /\ Len(queue40) # 0 /\ DOMAIN queue40 = 1..Len(queue40)
      BY <1>3, <2>0
    <3>3. h \in Clients40
      BY <2>0, <2>1, <3>2
    <3> QED
      BY <3>1, <3>2, <3>3
  <2>5. \A n \in DOMAIN rest : rest[n] # h /\ cl40[rest[n]].at # "new"
    BY <2>1, <2>4 DEF FastInv, QueueOnce, IsInjective
  <2>6. cl40[h].at # "new"
    BY <2>1, <2>4 DEF FastInv, QueueOnce
  <2>7. FastTypeOK'
    <3>1. buf40' \in Seq(Pieces40) /\ Len(buf40') = 2
      BY <2>3 DEF Zero, Pieces40
    <3>2. /\ queue40' \in Seq(Clients40) /\ off40' = 0 /\ srv40' = "read" /\ served' # <<>>
          /\ \E c \in Clients40 : served' = <<c>>
      BY <2>3, <2>4
    <3> QED
      BY <1>1, <3>1, <3>2 DEF FastInv, FastTypeOK
  <2>8. QueueOnce'
    <3>1. IsInjective(rest)
      <4> SUFFICES ASSUME NEW m \in DOMAIN rest, NEW n \in DOMAIN rest, rest[m] = rest[n]
                   PROVE  m = n
        BY DEF IsInjective
      <4>1. m + 1 = n + 1
        BY <2>4 DEF FastInv, QueueOnce, IsInjective
      <4> QED
        BY <2>4, <4>1
    <3> QED
      BY <1>1, <2>3, <2>5, <2>6, <3>1 DEF FastInv, QueueOnce
  <2>9. ASSUME NEW d \in Clients40, Alive40(d)' PROVE Counted(d)'
    <3>1. Alive40(d) /\ Counted(d)
      BY <1>1, <2>9 DEF FastInv, Alive40
    <3>2. InFlight(d)'
      BY <1>1, <3>1 DEF Counted, InFlight, Piece, Sent40
    <3>3. Queued40(d)'
      BY <1>1, <2>3, <2>4, <3>1 DEF Counted, Queued40, Sent40
    <3>4. InBuffer(d)'
      <4>1. CASE d = h
        <5>1. out40[d] = <<>> /\ Len(in40[d]) = Sent40(d)
          BY <2>1, <2>4, <3>1, <4>1 DEF Counted, Queued40
        <5>2. Len(in40[d]) \in Nat
          BY DEF FastInv, FastTypeOK
        <5>3. out40'[d] = <<>> /\ Len(in40'[d]) = Sent40(d)' /\ off40' = 0 /\ srv40' = "read"
          BY <1>1, <2>3, <5>1 DEF Sent40
        <5> QED
          BY <1>1, <5>2, <5>3 DEF InBuffer
      <4>2. CASE d # h
        BY <2>3, <4>2 DEF InBuffer
      <4> QED
        BY <4>1, <4>2
    <3> QED
      BY <3>2, <3>3, <3>4 DEF Counted
  <2> QED
    BY <1>1, <2>7, <2>8, <2>9 DEF FastInv
<1> QED
  BY <1>2, <1>3

\* A read continues the frame in the buffer: after the second piece both are of one
\* frame, and nothing else of it is on its way.
LEMMA FastReads ==
  ASSUME FastInv, ReadFull
  PROVE  FastInv'
<1>1. PICK c \in Clients40 : served = <<c>>
  BY DEF FastInv, FastTypeOK, ReadFull
<1>2. /\ srv40 = "read" /\ served[1] = c
      /\ UNCHANGED <<queue40, served, cl40, mismatched, out40>>
  BY <1>1 DEF ReadFull
<1>3. CASE in40[c] = <<>> /\ NothingToRead(c) /\ UNCHANGED <<buf40, off40, in40>>
  <2>1. srv40' \in {"break", "asleep"}
    BY <1>3 DEF NothingToRead
  <2>2. FastTypeOK' /\ QueueOnce'
    BY <1>1, <1>2, <1>3, <2>1 DEF FastInv, FastTypeOK, QueueOnce
  <2>3. ASSUME NEW d \in Clients40, Alive40(d)' PROVE Counted(d)'
    BY <1>2, <1>3, <2>1, <2>3
       DEF FastInv, Alive40, Counted, InFlight, Queued40, InBuffer, Piece, Sent40
  <2> QED
    BY <1>2, <2>2, <2>3 DEF FastInv
<1>4. ASSUME NEW n \in 1..Len(in40[c]), n <= 2 - off40, TakePieces(c, n), in40[c] # <<>>
      PROVE  FastInv'
  <2>1. PICK leftover : leftover = SubSeq(in40[c], n + 1, Len(in40[c]))
    OBVIOUS
  <2>2. PICK new : new = SubSeq(in40[c], 1, n)
    OBVIOUS
  <2>3. /\ buf40' = Filled(buf40, off40, new) /\ in40' = [in40 EXCEPT ![c] = leftover]
        /\ \/ off40 + n = 2 /\ off40' = 0 /\ srv40' = "write"
           \/ off40 + n # 2 /\ off40' = off40 + n /\ srv40' = "read"
    BY <1>4, <2>1, <2>2 DEF TakePieces
  <2>4. off40 \in {0, 1} /\ n \in {1, 2} /\ in40[c] \in Seq(Pieces40)
    BY <1>4 DEF FastInv, FastTypeOK
  <2>5. /\ new \in Seq(Pieces40) /\ Len(new) = n
        /\ \A j \in 1..n : new[j] = in40[c][j] /\ j \in DOMAIN in40[c]
    BY <1>4, <2>2, <2>4
  <2>6. /\ leftover \in Seq(Pieces40) /\ Len(leftover) = Len(in40[c]) - n
        /\ \A j \in DOMAIN leftover : leftover[j] = in40[c][j + n] /\ j + n \in DOMAIN in40[c]
    BY <1>4, <2>1, <2>4
  <2>7. /\ in40'[c] = leftover /\ \A d \in Clients40 : d # c => in40'[d] = in40[d]
    BY <2>3 DEF FastInv, FastTypeOK
  <2>8. /\ DOMAIN buf40' = 1..2
        /\ off40 = 1 => n = 1 /\ buf40'[1] = buf40[1] /\ buf40'[2] = new[1]
        /\ off40 = 0 => buf40'[1] = new[1]
        /\ off40 = 0 /\ n = 2 => buf40'[2] = new[2]
        /\ off40 = 0 /\ n = 1 => buf40'[2] = buf40[2]
    BY <1>4, <2>3, <2>4, <2>5 DEF Filled
  <2>9. FastTypeOK'
    <3>1. buf40' \in Seq(Pieces40) /\ Len(buf40') = 2
      <4>0. buf40 \in Seq(Pieces40) /\ Len(buf40) = 2
        BY DEF FastInv, FastTypeOK
      <4>1. buf40[1] \in Pieces40 /\ buf40[2] \in Pieces40
        BY <4>0
      <4>2. buf40'[1] \in Pieces40 /\ buf40'[2] \in Pieces40
        BY <2>4, <2>5, <2>8, <4>1
      <4>3. \A j \in 1..2 : buf40'[j] \in Pieces40
        BY <4>2
      <4>4. buf40' = [j \in 1..2 |-> buf40'[j]]
        BY <2>3, <2>8 DEF Filled
      <4>5. buf40' \in [1..2 -> Pieces40]
        BY <4>3, <4>4
      <4>6. buf40' \in Seq(Pieces40)
        BY <4>5, PairIsSeq
      <4> QED
        BY <4>6, <2>8, LenProperties
    <3>2. in40' \in [Clients40 -> Seq(Pieces40)]
      BY <2>3, <2>6 DEF FastInv, FastTypeOK
    <3>3. off40' \in {0, 1} /\ srv40' \in {"write", "read"}
      BY <2>3, <2>4, <1>4
    <3>4. served' # <<>> /\ (served' = <<>> \/ \E d \in Clients40 : served' = <<d>>)
      BY <1>1, <1>2
    <3> QED
      BY <1>2, <3>1, <3>2, <3>3, <3>4 DEF FastInv, FastTypeOK
  <2>10. QueueOnce'
    <3>1. cl40[c].at # "new"
      BY <1>1 DEF FastInv, QueueOnce
    <3> QED
      BY <1>2, <2>7, <3>1 DEF FastInv, QueueOnce
  <2>11. ASSUME NEW d \in Clients40, Alive40(d)', d # c PROVE Counted(d)'
    <3>1. Alive40(d) /\ Counted(d) /\ served' # <<d>>
      BY <1>1, <1>2, <2>11 DEF FastInv, Alive40
    <3> QED
      BY <1>2, <2>7, <2>11, <3>1 DEF Counted, InFlight, Queued40, InBuffer, Piece, Sent40
  <2>12. ASSUME Alive40(c)' PROVE Counted(c)'
    <3>1. /\ Counted(c) /\ Piece(c)' = Piece(c) /\ Sent40(c)' = Sent40(c)
          /\ out40[c] = <<>> /\ out40'[c] = <<>>
      <4>1. Counted(c)
        BY <1>2, <2>12 DEF FastInv, Alive40
      <4> QED
        BY <1>2, <1>4, <4>1 DEF Counted, InFlight, Piece, Sent40
    <3>2. Len(in40[c]) + off40 = Sent40(c) /\ (off40 = 1 => buf40[1] = Piece(c))
      <4>1. Len(in40[c]) + off40 + Len(out40[c]) = Sent40(c) /\ (off40 = 1 => buf40[1] = Piece(c))
        BY <1>1, <1>2, <3>1 DEF Counted, InBuffer
      <4>2. Len(out40[c]) = 0 /\ Len(in40[c]) \in Nat
        BY <2>4, <3>1
      <4> QED
        BY <2>4, <4>1, <4>2
    <3>3. \A j \in 1..n : new[j] = Piece(c)
      BY <2>5, <3>1 DEF Counted, InFlight
    <3>4. \A j \in DOMAIN leftover : leftover[j] = Piece(c)
      BY <2>6, <3>1 DEF Counted, InFlight
    <3>5. /\ Sent40(c) \in {0, 1, 2} /\ (Sent40(c) = 2 => cl40[c].at = "wait")
          /\ Len(in40[c]) \in Nat /\ n <= Len(in40[c]) /\ n \in 1..n /\ 1 \in 1..n
      BY <1>2, <1>4, <2>4, <2>12 DEF Sent40, Alive40
    <3>6. InFlight(c)'
      <4>1. Len(leftover) <= Sent40(c)
        BY <2>4, <2>6, <3>2, <3>5
      <4> QED
        BY <2>7, <3>1, <3>4, <4>1 DEF InFlight
    <3>7. ~ \E m \in DOMAIN queue40 : queue40[m] = c
      BY <1>1 DEF FastInv, QueueOnce
    <3>8. InBuffer(c)'
      <4>1. CASE off40 + n = 2
        <5>1. Len(in40[c]) = n /\ cl40[c].at = "wait" /\ off40' = 0 /\ srv40' = "write"
          BY <2>3, <2>4, <3>2, <3>5, <4>1
        <5>2. leftover = <<>>
          BY <2>6, <3>5, <5>1
        <5>3. buf40'[1] = Piece(c) /\ buf40'[2] = Piece(c)
          BY <2>4, <2>8, <3>2, <3>3, <4>1
        <5> QED
          BY <1>2, <2>7, <3>1, <5>1, <5>2, <5>3 DEF InBuffer
      <4>2. CASE off40 + n # 2
        <5>1. off40 = 0 /\ n = 1 /\ off40' = 1 /\ srv40' = "read"
          BY <1>4, <2>3, <2>4, <4>2
        <5>2. Len(leftover) + 1 = Sent40(c) /\ Len(leftover) \in Nat /\ buf40'[1] = Piece(c)
          BY <2>6, <2>8, <3>2, <3>3, <3>5, <5>1
        <5>3. Len(in40'[c]) + off40' + Len(out40'[c]) = Sent40(c)'
          BY <2>7, <3>1, <5>1, <5>2
        <5> QED
          BY <3>1, <5>1, <5>2, <5>3 DEF InBuffer
      <4> QED
        BY <4>1, <4>2
    <3> QED
      BY <1>2, <3>6, <3>7, <3>8 DEF Counted, Queued40
  <2> QED
    BY <1>2, <2>9, <2>10, <2>11, <2>12 DEF FastInv
<1> QED
  BY <1>2, <1>3, <1>4 DEF ReadFull

\* The frame goes back to the client that sent it.
LEMMA FastEchoes ==
  ASSUME FastInv, EchoFrame
  PROVE  FastInv'
<1>1. PICK c \in Clients40 : served = <<c>>
  BY DEF FastInv, FastTypeOK, EchoFrame
<1>2. /\ srv40 = "write" /\ srv40' = "read" /\ served[1] = c
      /\ UNCHANGED <<queue40, served, cl40, in40, mismatched, buf40, off40>>
  BY <1>1 DEF EchoFrame, client40
<1>3. CASE Closed40(c)
  <2>1. out40' = out40 /\ ~ Alive40(c)'
    BY <1>1, <1>2, <1>3 DEF EchoFrame, Closed40, Alive40
  <2>2. FastTypeOK' /\ QueueOnce'
    BY <1>1, <1>2, <2>1 DEF FastInv, FastTypeOK, QueueOnce
  <2>3. ASSUME NEW d \in Clients40, Alive40(d)' PROVE Counted(d)'
    <3>1. d # c /\ Alive40(d) /\ Counted(d)
      BY <1>2, <2>1, <2>3 DEF FastInv, Alive40
    <3> QED
      BY <1>1, <1>2, <2>1, <3>1 DEF Counted, InFlight, Queued40, InBuffer, Piece, Sent40
  <2> QED
    BY <1>2, <2>2, <2>3 DEF FastInv
<1>4. CASE ~ Closed40(c)
  <2>1. cl40[c].at # "new" /\ cl40[c].at \in Ats40
    BY <1>1 DEF FastInv, FastTypeOK, QueueOnce
  <2>2. Alive40(c) /\ Counted(c)
    BY <1>4, <2>1 DEF FastInv, Alive40, Ats40, Closed40
  <2>3. /\ cl40[c].at = "wait" /\ in40[c] = <<>> /\ out40[c] = <<>> /\ off40 = 0
        /\ buf40[1] = Piece(c) /\ buf40[2] = Piece(c)
    BY <1>1, <1>2, <2>2 DEF Counted, InBuffer
  <2>4. buf40 \in Seq(Pieces40) /\ Len(buf40) = 2 /\ \A n \in DOMAIN buf40 : buf40[n] = Piece(c)
    BY <2>3 DEF FastInv, FastTypeOK
  <2>5. out40' = [out40 EXCEPT ![c] = buf40]
    <3>1. out40[c] \o buf40 = buf40
      BY <2>3, <2>4
    <3> QED
      BY <1>1, <1>2, <1>4, <3>1 DEF EchoFrame
  <2>6. out40'[c] = buf40 /\ \A d \in Clients40 : d # c => out40'[d] = out40[d]
    BY <2>5 DEF FastInv, FastTypeOK
  <2>7. FastTypeOK'
    BY <1>1, <1>2, <2>4, <2>5 DEF FastInv, FastTypeOK
  <2>8. QueueOnce'
    BY <1>2, <2>1, <2>6 DEF FastInv, QueueOnce
  <2>9. Counted(c)'
    <3>1. Len(in40[c]) = 0 /\ Sent40(c) = 2 /\ Sent40(c)' = 2 /\ Piece(c)' = Piece(c)
      BY <1>2, <2>3 DEF Sent40, Piece
    <3>2. InFlight(c)'
      BY <1>2, <2>3, <2>4, <2>6, <3>1 DEF InFlight
    <3>3. Queued40(c)'
      BY <1>1, <1>2 DEF FastInv, QueueOnce, Queued40
    <3>4. InBuffer(c)'
      BY <1>2, <2>3, <2>4, <2>6, <3>1 DEF InBuffer
    <3> QED
      BY <3>2, <3>3, <3>4 DEF Counted
  <2>10. ASSUME NEW d \in Clients40, Alive40(d)', d # c PROVE Counted(d)'
    <3>1. Alive40(d) /\ Counted(d) /\ served' # <<d>>
      BY <1>1, <1>2, <2>10 DEF FastInv, Alive40
    <3> QED
      BY <1>2, <2>6, <2>10, <3>1 DEF Counted, InFlight, Queued40, InBuffer, Piece, Sent40
  <2> QED
    BY <1>2, <2>7, <2>8, <2>9, <2>10 DEF FastInv
<1> QED
  BY <1>3, <1>4

LEMMA FastNextInv == FastInv /\ [FastNext]_fastVars => FastInv'
<1> SUFFICES ASSUME FastInv, [FastNext]_fastVars PROVE FastInv'
  OBVIOUS
<1>1. CASE FastServer \/ OnSignal40
  BY <1>1, FastServerMoves, FastAccepts, FastReads, FastEchoes DEF FastServer
<1>2. ASSUME NEW c \in Clients40,
             Connect40(c) \/ SendPiece(c) \/ CheckEcho(c) \/ ClientDies40(c) \/ ServerGone(c)
      PROVE  FastInv'
  BY <1>2, FastConnects, FastSends, FastChecks, FastLeaves
<1>3. CASE UNCHANGED fastVars
  BY <1>3 DEF fastVars, FastInv, FastTypeOK, QueueOnce, Alive40, Counted, InFlight, Queued40,
     InBuffer, Piece, Sent40
<1> QED
  BY <1>1, <1>2, <1>3 DEF FastNext

-----------------------------------------------------------------------------
(* The programs side by side, as the run has them.                         *)

LEMMA NetInitInv == NetInit => DiscInv /\ FastInv
BY DiscInitInv, FastInitInv DEF NetInit

LEMMA NetNextInv == DiscInv /\ FastInv /\ [NetNext]_netVars => DiscInv' /\ FastInv'
<1> SUFFICES ASSUME DiscInv, FastInv, [NetNext]_netVars PROVE DiscInv' /\ FastInv'
  OBVIOUS
<1>1. [DiscNext]_discVars /\ [FastNext]_fastVars
  BY DEF NetNext, netVars, OnlyV0, OnlyV2, OnlyV3, OnlyV4, OnlyFast
<1> QED
  BY <1>1, DiscNextInv, FastNextInv

\* Nothing is answered twice or with something else: a peer of v2 is dialled once
\* whatever its beacons do (hear, Discovery), and a client of the fast path gets its
\* own frame back although all frames pass through one buffer (serve, FastPath).
THEOREM NetExchangesMatch == NetSpec => []ExchangesMatch
<1>1. NetSpec => NetInit /\ [][NetNext]_netVars
  BY PTL DEF NetSpec
<1>2. DiscInv /\ FastInv => ExchangesMatch
  BY DiscOnce DEF ExchangesMatch, OwnEcho, FastInv
<1> QED
  BY <1>1, <1>2, NetInitInv, NetNextInv, PTL

=============================================================================
