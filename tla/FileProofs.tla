----------------------------- MODULE FileProofs -----------------------------
(***************************************************************************)
(* fwatch: the watcher of examples 09, 10 and 41, for any names, any       *)
(* number of changes and any debounce window, and the copy of example 10,  *)
(* for any chunk, any number of pairs in a batch and any files.            *)
(***************************************************************************)
EXTENDS FwatchLoop, UringSync, FiniteSetTheorems, TLAPS

-----------------------------------------------------------------------------
(* The watcher.                                                            *)

Events09 == {"created", "modified", "deleted"}

FwTypeOK ==
  /\ dir09 \in [Names -> Nat] /\ start09 \in [Names -> Nat] /\ chg09 \in Nat
  /\ queue09 \in Seq(Events09 \X Names)
  /\ DOMAIN pend09 = Names
  /\ \A n \in Names : pend09[n] # <<>> => pend09[n][1] \in Events09
  /\ last09 \in [Names -> Events09 \cup {"none"}] /\ DOMAIN untold09 = Names

\* Only the loop of example 09 holds events back.
Loops09 ==
  /\ pc09 \in {"arm", "wait", "batch"} => kind09 = "epoll"
  /\ pc09 \in {"check", "poll"} => kind09 # "epoll"
  /\ kind09 # "epoll" => \A n \in Names : pend09[n] = <<>>

\* What an event k says of a file that was version s and is version v now.
Says(k, s, v) ==
  /\ k = "none" => v = s
  /\ k = "deleted" => v = 0
  /\ k \in {"created", "modified"} => v # 0

Queued(q, n) == \E i \in 1..Len(q) : q[i][2] = n

\* Names whose last change is in no event.
Untold09 == {n \in Names : untold09[n] # "told"}

\* The last event of a name in the queue is true of the directory d, but for the
\* names in u.
QueueTrue(q, s, d, u) ==
  \A i \in 1..Len(q) :
    (q[i][2] \notin u /\ \A j \in 1..Len(q) : i < j => q[j][2] # q[i][2])
      => Says(q[i][1], s[q[i][2]], d[q[i][2]])

\* The newest word on a name that was told is in the queue, else in its window,
\* else it is what was reported.
NewestTrue ==
  /\ QueueTrue(queue09, start09, dir09, Untold09)
  /\ \A n \in Names : ~Queued(queue09, n) /\ n \notin Untold09 =>
       Says(IF pend09[n] # <<>> THEN pend09[n][1] ELSE last09[n], start09[n], dir09[n])

FwInv == FwTypeOK /\ Loops09 /\ NewestTrue

\* File n changes, and what is in the queue of the others stays true.
Changes(n, d, e, u, v) ==
  \A m \in Names \ {n} : e[m] = d[m] /\ (m \in v <=> m \in u)

\* The event k about n comes to the end of the queue, as Notify puts it there,
\* and is true, or n is not told of.
LEMMA QueueGrows ==
  ASSUME NEW q \in Seq(Events09 \X Names), NEW s, NEW d, NEW e, NEW u, NEW v,
         NEW k \in Events09, NEW n \in Names, QueueTrue(q, s, d, u), Changes(n, d, e, u, v),
         n \notin v => Says(k, s[n], e[n]),
         NEW r, Len(r) = Len(q) + 1, r[Len(q) + 1] = <<k, n>>,
         \A i \in 1..Len(q) : r[i] = q[i]
  PROVE  /\ QueueTrue(r, s, e, v) /\ Queued(r, n)
         /\ \A m \in Names \ {n} : Queued(q, m) => Queued(r, m)
<1>1. /\ Len(r) = Len(q) + 1 /\ Len(q) \in Nat /\ r[Len(q) + 1] = <<k, n>>
      /\ \A i \in 1..Len(q) : r[i] = q[i] /\ q[i] \in Events09 \X Names
  OBVIOUS
<1>2. \A m \in Names : Queued(q, m) => Queued(r, m)  BY <1>1 DEF Queued
<1>3. Queued(r, n)  BY <1>1 DEF Queued
<1>4. QueueTrue(r, s, e, v)
  <2> SUFFICES ASSUME NEW i \in 1..Len(r), \A j \in 1..Len(r) : i < j => r[j][2] # r[i][2],
                      r[i][2] \notin v
               PROVE  Says(r[i][1], s[r[i][2]], e[r[i][2]])
    BY DEF QueueTrue
  <2>1. CASE i = Len(q) + 1
    <3>1. r[i][1] = k /\ r[i][2] = n  BY <2>1, <1>1
    <3> QED  BY <3>1
  <2>2. CASE i \in 1..Len(q)
    <3>1. r[i] = q[i] /\ q[i][2] \in Names  BY <2>2, <1>1
    <3>2. r[i][2] # n
      <4>1. Len(q) + 1 \in 1..Len(r) /\ i < Len(q) + 1 /\ r[Len(q) + 1][2] = n  BY <2>2, <1>1
      <4> QED  BY <4>1
    <3>3. \A j \in 1..Len(q) : i < j => q[j][2] # q[i][2]  BY <2>2, <3>1, <1>1
    <3>4. q[i][2] \notin u /\ e[q[i][2]] = d[q[i][2]]  BY <3>1, <3>2 DEF Changes
    <3>5. Says(q[i][1], s[q[i][2]], d[q[i][2]])  BY <2>2, <3>3, <3>4 DEF QueueTrue
    <3> QED  BY <3>1, <3>4, <3>5
  <2> QED  BY <2>1, <2>2, <1>1
<1> QED  BY <1>1, <1>2, <1>3, <1>4

\* The same when the queue stays: the event repeats the last one, or n is not told
\* of.
LEMMA QueueStays ==
  ASSUME NEW q \in Seq(Events09 \X Names), NEW s, NEW d, NEW e, NEW u, NEW v,
         NEW k \in Events09, NEW n \in Names, QueueTrue(q, s, d, u), Changes(n, d, e, u, v),
         n \notin v => Says(k, s[n], e[n]) /\ q # <<>> /\ q[Len(q)] = <<k, n>>
  PROVE  QueueTrue(q, s, e, v) /\ (n \notin v => Queued(q, n))
<1>1. ASSUME n \notin v
      PROVE  Len(q) \in 1..Len(q) /\ q[Len(q)][1] = k /\ q[Len(q)][2] = n
  BY <1>1
<1>2. n \notin v => Queued(q, n)  BY <1>1 DEF Queued
<1>3. ASSUME NEW i \in 1..Len(q), \A j \in 1..Len(q) : i < j => q[j][2] # q[i][2],
             q[i][2] \notin v
      PROVE  Says(q[i][1], s[q[i][2]], e[q[i][2]])
  <2>1. q[i] \in Events09 \X Names  OBVIOUS
  <2>2. CASE q[i][2] = n
    <3>1. i = Len(q)
      <4>1. Len(q) \in 1..Len(q) /\ q[Len(q)][2] = n  BY <2>2, <1>1, <1>3
      <4> QED  BY <4>1, <2>2, <1>3
    <3> QED  BY <3>1, <2>2, <1>1, <1>3
  <2>3. CASE q[i][2] # n
    <3>1. q[i][2] \in Names \ {n}  BY <2>1, <2>3
    <3>2. q[i][2] \notin u /\ e[q[i][2]] = d[q[i][2]]  BY <3>1, <1>3 DEF Changes
    <3>3. Says(q[i][1], s[q[i][2]], d[q[i][2]])  BY <1>3, <3>2 DEF QueueTrue
    <3> QED  BY <3>2, <3>3
  <2> QED  BY <2>2, <2>3
<1> QED  BY <1>2, <1>3 DEF QueueTrue

\* The first event of the queue is read: it is true of its file if no other
\* event of that file follows.
LEMMA QueueRead ==
  ASSUME NEW q \in Seq(Events09 \X Names), NEW s, NEW d, NEW u, QueueTrue(q, s, d, u),
         q # <<>>
  PROVE  /\ QueueTrue(Tail(q), s, d, u) /\ Tail(q) \in Seq(Events09 \X Names)
         /\ q[1][1] \in Events09 /\ q[1][2] \in Names
         /\ ~Queued(Tail(q), q[1][2]) /\ q[1][2] \notin u => Says(q[1][1], s[q[1][2]], d[q[1][2]])
         /\ \A m \in Names \ {q[1][2]} : Queued(q, m) => Queued(Tail(q), m)
<1> DEFINE r == Tail(q)
<1>1. /\ r \in Seq(Events09 \X Names) /\ Len(q) \in Nat \ {0} /\ Len(r) = Len(q) - 1
      /\ \A i \in 1..Len(r) : r[i] = q[i + 1]
      /\ q[1] \in Events09 \X Names
  OBVIOUS
<1> HIDE DEF r
<1>2. QueueTrue(r, s, d, u)
  <2> SUFFICES ASSUME NEW i \in 1..Len(r), \A j \in 1..Len(r) : i < j => r[j][2] # r[i][2],
                      r[i][2] \notin u
               PROVE  Says(r[i][1], s[r[i][2]], d[r[i][2]])
    BY DEF QueueTrue
  <2>1. r[i] = q[i + 1] /\ i + 1 \in 1..Len(q)  BY <1>1
  <2>2. ASSUME NEW j \in 1..Len(q), i + 1 < j  PROVE q[j][2] # q[i + 1][2]
    <3>1. j - 1 \in 1..Len(r) /\ i < j - 1 /\ r[j - 1] = q[j]  BY <1>1, <2>2
    <3> QED  BY <3>1, <2>1
  <2> QED  BY <2>1, <2>2 DEF QueueTrue
<1>3. ~Queued(r, q[1][2]) /\ q[1][2] \notin u => Says(q[1][1], s[q[1][2]], d[q[1][2]])
  <2> SUFFICES ASSUME ~Queued(r, q[1][2]), q[1][2] \notin u
               PROVE  Says(q[1][1], s[q[1][2]], d[q[1][2]])
    OBVIOUS
  <2>1. ASSUME NEW j \in 1..Len(q), 1 < j  PROVE q[j][2] # q[1][2]
    <3>1. j - 1 \in 1..Len(r) /\ r[j - 1] = q[j]  BY <1>1, <2>1
    <3> QED  BY <3>1 DEF Queued
  <2> QED  BY <2>1, <1>1 DEF QueueTrue
<1>4. ASSUME NEW m \in Names \ {q[1][2]}, Queued(q, m)  PROVE Queued(r, m)
  <2>1. PICK i \in 1..Len(q) : q[i][2] = m  BY <1>4 DEF Queued
  <2>2. i - 1 \in 1..Len(r) /\ r[i - 1] = q[i]  BY <1>1, <2>1, <1>4
  <2> QED  BY <2>1, <2>2 DEF Queued
<1> QED  BY <1>1, <1>2, <1>3, <1>4 DEF r

\* The invariant of the watcher holds when it starts.
LEMMA FwInitInv == FwInit => FwInv
<1> SUFFICES ASSUME FwInit PROVE FwInv  OBVIOUS
<1> USE DEF FwInit
<1>1. FwTypeOK  BY DEF FwTypeOK, Events09
<1>2. Loops09  BY DEF Loops09, CommandLine09
<1>3. NewestTrue
  <2>1. QueueTrue(queue09, start09, dir09, Untold09)  BY DEF QueueTrue
  <2>2. ASSUME NEW n \in Names
        PROVE Says(IF pend09[n] # <<>> THEN pend09[n][1] ELSE last09[n], start09[n], dir09[n])
    BY DEF Says
  <2> QED  BY <2>1, <2>2 DEF NewestTrue
<1> QED  BY <1>1, <1>2, <1>3 DEF FwInv

\* Notify: the event is queued, or repeated, or lost.
LEMMA NotifyKeeps ==
  ASSUME FwInv, NEW n \in Names, NEW k \in Events09, Notify(k, n),
         NEW e, e = dir09', k = "deleted" => e[n] = 0,
         \A m \in Names \ {n} : e[m] = dir09[m]
  PROVE  /\ DOMAIN untold09' = Names /\ queue09' \in Seq(Events09 \X Names)
         /\ Changes(n, dir09, e, Untold09, Untold09')
         /\ QueueTrue(queue09', start09, e, Untold09') /\ (n \notin Untold09' => Queued(queue09', n))
         /\ \A m \in Names \ {n} : Queued(queue09, m) => Queued(queue09', m)
<1>1. FwTypeOK /\ queue09 \in Seq(Events09 \X Names)
      /\ QueueTrue(queue09, start09, dir09, Untold09)
  BY DEF FwInv, FwTypeOK, NewestTrue
<1>2. PICK w : untold09' = [untold09 EXCEPT ![n] = w]
               /\ (w = "told" => e[n] # 0 \/ k = "deleted")
               /\ (w = "told" => queue09' = IF queue09 # <<>> /\ queue09[Len(queue09)] = <<k, n>>
                                       THEN queue09 ELSE Append(queue09, <<k, n>>))
               /\ (w # "told" => queue09' \in {queue09, Append(queue09, <<k, n>>)})
  <2>1. CASE untold09' = [untold09 EXCEPT ![n] = "full"] /\ UNCHANGED queue09  BY <2>1
  <2>2. CASE /\ queue09' = IF queue09 # <<>> /\ queue09[Len(queue09)] = <<k, n>>
                           THEN queue09 ELSE Append(queue09, <<k, n>>)
             /\ untold09' = [untold09 EXCEPT ![n] = IF dir09'[n] = 0 /\ k # "deleted"
                                                    THEN "gone" ELSE "told"]
    BY <2>2
  <2> QED  BY <2>1, <2>2 DEF Notify
<1>3. /\ DOMAIN untold09' = Names /\ untold09'[n] = w
      /\ \A m \in Names \ {n} : untold09'[m] = untold09[m]
  BY <1>1, <1>2 DEF FwTypeOK
<1>4. PICK v : v = Untold09'  OBVIOUS
<1>5. (n \in v <=> w # "told") /\ \A m \in Names \ {n} : m \in v <=> m \in Untold09
  BY <1>3, <1>4 DEF Untold09
<1>6. Changes(n, dir09, e, Untold09, v)  BY <1>5 DEF Changes
<1>7. n \notin v => Says(k, start09[n], e[n])  BY <1>2, <1>5 DEF Says, Events09
<1>8. PICK r : r = queue09'  OBVIOUS
<1>9. CASE r = Append(queue09, <<k, n>>)
  <2>1. /\ r \in Seq(Events09 \X Names) /\ Len(r) = Len(queue09) + 1
        /\ r[Len(queue09) + 1] = <<k, n>> /\ \A i \in 1..Len(queue09) : r[i] = queue09[i]
    BY <1>1, <1>9
  <2>2. /\ QueueTrue(r, start09, e, v) /\ Queued(r, n)
        /\ \A m \in Names \ {n} : Queued(queue09, m) => Queued(r, m)
    BY ONLY <2>1, <1>1, <1>6, <1>7, QueueGrows, n \in Names, k \in Events09
  <2> QED  BY <2>1, <2>2, <1>3, <1>4, <1>6, <1>8
<1>10. CASE r = queue09 /\ r # Append(queue09, <<k, n>>)
  <2>1. n \notin v => queue09 # <<>> /\ queue09[Len(queue09)] = <<k, n>>
    BY <1>2, <1>5, <1>8, <1>10
  <2>2. QueueTrue(queue09, start09, e, v) /\ (n \notin v => Queued(queue09, n))
    BY ONLY <2>1, <1>1, <1>6, <1>7, QueueStays, n \in Names, k \in Events09
  <2> QED  BY <2>2, <1>1, <1>3, <1>4, <1>6, <1>8, <1>10
<1> QED  BY <1>2, <1>8, <1>9, <1>10

\* A change of file n, told, mistold or not.
LEMMA ChangeKeeps ==
  ASSUME FwInv, NEW n \in Names, dir09' \in [Names -> Nat], chg09' \in Nat,
         UNCHANGED <<kind09, pc09, start09, pend09, last09>>,
         DOMAIN untold09' = Names, queue09' \in Seq(Events09 \X Names),
         Changes(n, dir09, dir09', Untold09, Untold09'),
         QueueTrue(queue09', start09, dir09', Untold09'),
         n \notin Untold09' => Queued(queue09', n),
         \A m \in Names \ {n} : Queued(queue09, m) => Queued(queue09', m)
  PROVE  FwInv'
<1>1. FwTypeOK /\ Loops09 /\ NewestTrue  BY DEF FwInv
<1>2. FwTypeOK'  BY <1>1 DEF FwTypeOK
<1>3. Loops09'  BY <1>1 DEF Loops09
<1>4. ASSUME NEW m \in Names, ~Queued(queue09', m), m \notin Untold09'
      PROVE  Says(IF pend09[m] # <<>> THEN pend09[m][1] ELSE last09[m], start09[m], dir09'[m])
  <2>1. m # n  BY <1>4
  <2>2. m \notin Untold09 /\ dir09'[m] = dir09[m] /\ ~Queued(queue09, m)
    BY <1>4, <2>1 DEF Changes
  <2> QED  BY <1>1, <2>2 DEF NewestTrue
<1>5. \A m \in Names : ~Queued(queue09', m) /\ m \notin Untold09' =>
        Says(IF pend09'[m] # <<>> THEN pend09'[m][1] ELSE last09'[m], start09'[m], dir09'[m])
  BY <1>4
<1>6. QueueTrue(queue09', start09', dir09', Untold09')  OBVIOUS
<1>7. NewestTrue'  BY <1>5, <1>6 DEF NewestTrue
<1> QED  BY <1>2, <1>3, <1>7 DEF FwInv

\* A file changes, and the kernel says so if the watch has asked for that.
LEMMA ChangeInv ==
  ASSUME FwInv, NEW n \in Names, NEW how, ChangeFile(n, how)
  PROVE  FwInv'
<1>1. FwTypeOK  BY DEF FwInv
<1> DEFINE k == Classify(how)
<1>2. k \in Events09  BY DEF Classify, Events09
<1>3. /\ dir09' = [dir09 EXCEPT ![n] = IF k = "deleted" THEN 0 ELSE chg09 + 2]
      /\ chg09' = chg09 + 1 /\ UNCHANGED <<kind09, pc09, start09, pend09, last09>>
      /\ \/ Notify(k, n)
         \/ untold09' = [untold09 EXCEPT ![n] = "mask"] /\ UNCHANGED queue09
  BY DEF ChangeFile, Watched09
<1> HIDE DEF k
<1>4. /\ dir09' \in [Names -> Nat] /\ chg09' \in Nat /\ (k = "deleted" => dir09'[n] = 0)
      /\ \A m \in Names \ {n} : dir09'[m] = dir09[m]
  BY <1>1, <1>3 DEF FwTypeOK
<1>5. CASE Notify(k, n)
  <2>1. PICK e : e = dir09'  OBVIOUS
  <2>2. (k = "deleted" => e[n] = 0) /\ \A m \in Names \ {n} : e[m] = dir09[m]
    BY <1>4, <2>1
  <2>3. /\ DOMAIN untold09' = Names /\ queue09' \in Seq(Events09 \X Names)
        /\ Changes(n, dir09, e, Untold09, Untold09')
        /\ QueueTrue(queue09', start09, e, Untold09')
        /\ (n \notin Untold09' => Queued(queue09', n))
        /\ \A m \in Names \ {n} : Queued(queue09, m) => Queued(queue09', m)
    BY <1>2, <1>5, <2>1, <2>2, NotifyKeeps
  <2> QED  BY <1>3, <1>4, <2>1, <2>3, ChangeKeeps
<1>6. CASE untold09' = [untold09 EXCEPT ![n] = "mask"] /\ UNCHANGED queue09
  <2>1. DOMAIN untold09' = Names /\ n \in Untold09'
        /\ \A m \in Names \ {n} : m \in Untold09' <=> m \in Untold09
    BY <1>1, <1>6 DEF FwTypeOK, Untold09
  <2>2. PICK e, v : e = dir09' /\ v = Untold09'  OBVIOUS
  <2>3. Changes(n, dir09, e, Untold09, v)  BY <1>4, <2>1, <2>2 DEF Changes
  <2>4. queue09 \in Seq(Events09 \X Names) /\ QueueTrue(queue09, start09, dir09, Untold09)
    BY DEF FwInv, FwTypeOK, NewestTrue
  <2>5. n \in v  BY <2>1, <2>2
  <2>6. QueueTrue(queue09, start09, e, v)
    BY ONLY <1>2, <2>3, <2>4, <2>5, QueueStays, n \in Names
  <2> QED  BY <1>3, <1>4, <1>6, <2>1, <2>2, <2>3, <2>4, <2>6, ChangeKeeps
<1> QED  BY <1>3, <1>5, <1>6

\* A file that was deleted is written to.
LEMMA UnlinkedInv == ASSUME FwInv, NEW n \in Names, WriteUnlinked(n) PROVE FwInv'
<1>1. FwTypeOK  BY DEF FwInv
<1>2. /\ dir09' = dir09 /\ chg09' = chg09 + 1 /\ Notify("modified", n)
      /\ UNCHANGED <<kind09, pc09, start09, pend09, last09>>
  BY DEF WriteUnlinked, Watched09
<1>3. dir09' \in [Names -> Nat] /\ chg09' \in Nat  BY <1>1, <1>2 DEF FwTypeOK
<1>4. PICK e : e = dir09'  OBVIOUS
<1>5. /\ "modified" \in Events09 /\ "modified" # "deleted"
      /\ \A m \in Names \ {n} : e[m] = dir09[m]
  BY <1>2, <1>4 DEF Events09
<1>6. /\ DOMAIN untold09' = Names /\ queue09' \in Seq(Events09 \X Names)
      /\ Changes(n, dir09, e, Untold09, Untold09')
      /\ QueueTrue(queue09', start09, e, Untold09')
      /\ (n \notin Untold09' => Queued(queue09', n))
      /\ \A m \in Names \ {n} : Queued(queue09, m) => Queued(queue09', m)
  BY <1>2, <1>4, <1>5, NotifyKeeps
<1> QED  BY <1>2, <1>3, <1>4, <1>6, ChangeKeeps

\* merge keeps what the newer event says of the file.
LEMMA MergeSays ==
  ASSUME NEW old, old # <<>> => old[1] \in Events09, NEW k \in Events09, NEW s, NEW v
  PROVE  /\ Merge(old, k) \in Events09
         /\ Says(k, s, v) => Says(Merge(old, k), s, v)
BY DEF Merge, Says, Events09

\* tok_inotify: an event moves from the queue to its window.
LEMMA ReadInv == ASSUME FwInv, ReadInotify PROVE FwInv'
<1>1. FwTypeOK /\ Loops09 /\ NewestTrue  BY DEF FwInv
<1>2. /\ start09' = start09 /\ dir09' = dir09 /\ last09' = last09 /\ kind09' = kind09
      /\ pc09' = pc09 /\ pc09 = "batch" /\ chg09' = chg09 /\ untold09' = untold09
  BY DEF ReadInotify, fwEnv
<1>3. kind09 = "epoll"  BY <1>1, <1>2 DEF Loops09
<1>4. CASE queue09 = <<>>
  <2>1. queue09' = queue09 /\ pend09' = pend09  BY <1>4 DEF ReadInotify
  <2> QED  BY <1>1, <1>2, <2>1 DEF FwInv, FwTypeOK, Loops09, NewestTrue, Untold09
<1>5. CASE queue09 # <<>>
  <2> DEFINE k == queue09[1][1]
             n == queue09[1][2]
             w == <<Merge(pend09[n], k), now09 + Debounce>>
  <2>1. queue09' = Tail(queue09) /\ pend09' = [pend09 EXCEPT ![n] = w]
    BY <1>5 DEF ReadInotify
  <2>2. queue09 \in Seq(Events09 \X Names) /\ QueueTrue(queue09, start09, dir09, Untold09)
    BY <1>1 DEF FwTypeOK, NewestTrue
  <2>3. /\ QueueTrue(queue09', start09, dir09, Untold09) /\ queue09' \in Seq(Events09 \X Names)
        /\ k \in Events09 /\ n \in Names
        /\ ~Queued(queue09', n) /\ n \notin Untold09 => Says(k, start09[n], dir09[n])
        /\ \A m \in Names \ {n} : Queued(queue09, m) => Queued(queue09', m)
    BY <1>5, <2>1, <2>2, QueueRead
  <2>4. DOMAIN pend09 = Names /\ (pend09[n] # <<>> => pend09[n][1] \in Events09)
    BY <1>1, <2>3 DEF FwTypeOK
  <2> HIDE DEF k, n
  <2>5. /\ Merge(pend09[n], k) \in Events09
        /\ Says(k, start09[n], dir09[n]) => Says(Merge(pend09[n], k), start09[n], dir09[n])
    BY <2>3, <2>4, MergeSays
  <2>6. w # <<>> /\ w[1] = Merge(pend09[n], k)  OBVIOUS
  <2> HIDE DEF w
  <2>7. /\ DOMAIN pend09' = Names /\ pend09'[n] = w
        /\ \A m \in Names \ {n} : pend09'[m] = pend09[m]
    BY <2>1, <2>3, <2>4
  <2>8. FwTypeOK'  BY <1>1, <1>2, <2>3, <2>5, <2>6, <2>7 DEF FwTypeOK
  <2>9. Loops09'  BY <1>2, <1>3 DEF Loops09
  <2>10. ASSUME NEW m \in Names, ~Queued(queue09', m), m \notin Untold09
         PROVE Says(IF pend09'[m] # <<>> THEN pend09'[m][1] ELSE last09[m], start09[m], dir09[m])
    <3>1. CASE m = n  BY <3>1, <2>3, <2>5, <2>6, <2>7, <2>10
    <3>2. CASE m # n  BY <3>2, <2>3, <2>7, <2>10, <1>1 DEF NewestTrue
    <3> QED  BY <3>1, <3>2
  <2>11. Untold09' = Untold09  BY <1>2 DEF Untold09
  <2>12. NewestTrue'  BY <2>10, <2>3, <1>2, <2>11 DEF NewestTrue
  <2> QED  BY <2>8, <2>9, <2>12 DEF FwInv
<1> QED  BY <1>4, <1>5

\* flush, of any windows that hold an event.
LEMMA FlushInv ==
  ASSUME FwInv, NEW ns \in SUBSET Waiting, FlushOf(ns), kind09 = "epoll",
         pc09' \in {"batch", "exit"}, UNCHANGED <<queue09, fwEnv>>
  PROVE  FwInv'
<1>1. FwTypeOK /\ Loops09 /\ NewestTrue  BY DEF FwInv
<1>2. /\ start09' = start09 /\ dir09' = dir09 /\ queue09' = queue09 /\ kind09' = kind09
      /\ chg09' = chg09 /\ untold09' = untold09
  BY DEF fwEnv
<1>3. /\ DOMAIN pend09' = Names /\ DOMAIN last09' = Names
      /\ \A m \in ns : pend09'[m] = <<>> /\ last09'[m] = pend09[m][1] /\ pend09[m] # <<>>
      /\ \A m \in Names \ ns : pend09'[m] = pend09[m] /\ last09'[m] = last09[m]
  BY DEF FlushOf, Waiting
<1>4. last09' \in [Names -> Events09 \cup {"none"}]
  BY <1>1 DEF FwTypeOK, FlushOf, Waiting
<1>5. FwTypeOK'  BY <1>1, <1>2, <1>3, <1>4 DEF FwTypeOK
<1>6. Loops09'  BY <1>2 DEF Loops09
<1>7. ASSUME NEW m \in Names, ~Queued(queue09, m), m \notin Untold09
      PROVE Says(IF pend09'[m] # <<>> THEN pend09'[m][1] ELSE last09'[m], start09[m], dir09[m])
  <2>1. Says(IF pend09[m] # <<>> THEN pend09[m][1] ELSE last09[m], start09[m], dir09[m])
    BY <1>1, <1>7 DEF NewestTrue
  <2> QED  BY <2>1, <1>3
<1>8. NewestTrue'  BY <1>1, <1>2, <1>7 DEF NewestTrue, Untold09
<1> QED  BY <1>5, <1>6, <1>8 DEF FwInv

\* poll of the fleet and of v2: an event goes from the queue to the output.
LEMMA PollInv == ASSUME FwInv, PollEvents PROVE FwInv'
<1>1. FwTypeOK /\ Loops09 /\ NewestTrue  BY DEF FwInv
<1>2. /\ start09' = start09 /\ dir09' = dir09 /\ pend09' = pend09 /\ kind09' = kind09
      /\ pc09' \in {"check", "poll"} /\ pc09 = "poll" /\ chg09' = chg09
      /\ untold09' = untold09
  BY DEF PollEvents, fwEnv
<1>3. kind09 # "epoll" /\ \A m \in Names : pend09[m] = <<>>  BY <1>1, <1>2 DEF Loops09
<1>4. Loops09'  BY <1>2, <1>3 DEF Loops09
<1>5. CASE queue09 = <<>>
  <2>1. queue09' = queue09 /\ last09' = last09  BY <1>5 DEF PollEvents
  <2> QED  BY <1>1, <1>2, <1>4, <2>1 DEF FwInv, FwTypeOK, NewestTrue, Untold09
<1>6. CASE queue09 # <<>>
  <2> DEFINE k == queue09[1][1]
             n == queue09[1][2]
  <2>1. queue09' = Tail(queue09) /\ last09' = [last09 EXCEPT ![n] = k]
    BY <1>6 DEF PollEvents
  <2>2. queue09 \in Seq(Events09 \X Names) /\ QueueTrue(queue09, start09, dir09, Untold09)
    BY <1>1 DEF FwTypeOK, NewestTrue
  <2>3. /\ QueueTrue(queue09', start09, dir09, Untold09) /\ queue09' \in Seq(Events09 \X Names)
        /\ k \in Events09 /\ n \in Names
        /\ ~Queued(queue09', n) /\ n \notin Untold09 => Says(k, start09[n], dir09[n])
        /\ \A m \in Names \ {n} : Queued(queue09, m) => Queued(queue09', m)
    BY <1>6, <2>1, <2>2, QueueRead
  <2> HIDE DEF k, n
  <2>4. /\ last09' \in [Names -> Events09 \cup {"none"}] /\ last09'[n] = k
        /\ \A m \in Names \ {n} : last09'[m] = last09[m]
    BY <1>1, <2>1, <2>3 DEF FwTypeOK
  <2>5. FwTypeOK'  BY <1>1, <1>2, <2>3, <2>4 DEF FwTypeOK
  <2>6. ASSUME NEW m \in Names, ~Queued(queue09', m), m \notin Untold09
        PROVE Says(last09'[m], start09[m], dir09[m])
    <3>1. CASE m = n  BY <3>1, <2>3, <2>4, <2>6
    <3>2. CASE m # n  BY <3>2, <2>3, <2>4, <2>6, <1>1, <1>3 DEF NewestTrue
    <3> QED  BY <3>1, <3>2
  <2>7. NewestTrue'  BY <2>6, <2>3, <1>2, <1>3 DEF NewestTrue, Untold09
  <2> QED  BY <2>5, <2>7, <1>4 DEF FwInv
<1> QED  BY <1>5, <1>6

\* Every step of the watcher keeps the invariant.
LEMMA FwNextInv == FwInv /\ [FwNext]_fwVars => FwInv'
<1> SUFFICES ASSUME FwInv, [FwNext]_fwVars PROVE FwInv'  OBVIOUS
<1>1. ASSUME UNCHANGED <<start09, dir09, pend09, queue09, last09, kind09, chg09, untold09>>,
             pc09' # pc09 =>
               \/ pc09' \in {"exit", "failed"}
               \/ pc09' \in {"arm", "wait", "batch"} /\ kind09 = "epoll"
               \/ pc09' \in {"check", "poll"} /\ kind09 # "epoll"
      PROVE  FwInv'
  <2>1. FwTypeOK'  BY <1>1 DEF FwInv, FwTypeOK
  <2>2. Loops09'  BY <1>1 DEF FwInv, Loops09
  <2>3. NewestTrue'  BY <1>1 DEF FwInv, NewestTrue, Untold09
  <2> QED  BY <2>1, <2>2, <2>3 DEF FwInv
<1>2. /\ pc09 \in {"arm", "wait", "batch"} => kind09 = "epoll"
      /\ pc09 \in {"check", "poll"} => kind09 # "epoll"
  BY DEF FwInv, Loops09
<1>3. CASE OpenWatch  BY <1>1, <1>3 DEF OpenWatch, fwEnv
<1>4. CASE ArmTimer  BY <1>1, <1>2, <1>4 DEF ArmTimer, fwEnv
<1>5. CASE EpollWait09  BY <1>1, <1>2, <1>5 DEF EpollWait09, fwEnv
<1>6. CASE ReadInotify  BY <1>6, ReadInv
<1>7. CASE OnTimer
  <2>1. PICK ns \in SUBSET Waiting : FlushOf(ns)  BY <1>7 DEF OnTimer
  <2>2. pc09' \in {"batch", "exit"} /\ kind09 = "epoll"  BY <1>2, <1>7 DEF OnTimer
  <2>3. UNCHANGED <<queue09, fwEnv>>  BY <1>7 DEF OnTimer
  <2> QED  BY <2>1, <2>2, <2>3, FlushInv
<1>8. CASE OnSignal09
  <2>1. FlushOf(Waiting) /\ pc09' \in {"batch", "exit"} /\ UNCHANGED <<queue09, fwEnv>>
    BY <1>8 DEF OnSignal09
  <2>2. kind09 = "epoll"  BY <1>2, <1>8 DEF OnSignal09
  <2> QED  BY <2>1, <2>2, FlushInv
<1>9. CASE Handled09  BY <1>1, <1>2, <1>9 DEF Handled09, fwEnv
<1>10. CASE CheckFlag  BY <1>1, <1>2, <1>10 DEF CheckFlag, fwEnv
<1>11. CASE PollEvents  BY <1>11, PollInv
<1>12. CASE Tick09  BY <1>1, <1>12 DEF Tick09, fsVars09
<1>13. CASE RaiseTerm09  BY <1>1, <1>13 DEF RaiseTerm09, fsVars09
<1>14. ASSUME NEW n \in Names, NEW how, ChangeFile(n, how) PROVE FwInv'  BY <1>14, ChangeInv
<1>15. ASSUME NEW n \in Names, WriteUnlinked(n) PROVE FwInv'  BY <1>15, UnlinkedInv
<1>16. CASE UNCHANGED fwVars  BY <1>1, <1>16 DEF fwVars, fsVars09
<1> QED
  BY <1>3, <1>4, <1>5, <1>6, <1>7, <1>8, <1>9, <1>10, <1>11, <1>12, <1>13, <1>14, <1>15, <1>16
  DEF FwNext, FwProgress

\* What fwatch has printed tells what became of a name, as soon as nothing of it
\* is queued or held back, unless its last change came in no event: for every
\* number of names and changes, wherever events are lost, every debounce window
\* and deadline, and in the loops of examples 09, 10 and 41 with their masks.
THEOREM FwReportTracksDir == FwSpec => []ReportTracksDir
<1>1. FwInv => ReportTracksDir
  <2> SUFFICES ASSUME FwInv, NEW n \in Names, untold09[n] = "told", Quiet09(n)
               PROVE  Tells(n)
    BY DEF ReportTracksDir
  <2>1. Says(last09[n], start09[n], dir09[n])
    BY DEF FwInv, NewestTrue, Queued, Quiet09, Untold09
  <2>2. last09[n] \in Events09 \cup {"none"}  BY DEF FwInv, FwTypeOK
  <2>3. ASSUME dir09[n] = start09[n], NEW d \in Diff(start09, dir09)  PROVE d[2] # n
    BY <2>3 DEF Diff
  <2> QED  BY <2>1, <2>2, <2>3 DEF Says, Events09, Tells
<1> QED  BY <1>1, FwInitInv, FwNextInv, PTL DEF FwSpec

-----------------------------------------------------------------------------
(* The copy.                                                               *)

\* What the kernel may hold of a pair: the read alone if its write was not taken.
Ops10 == {{}, {"r", "lw"}, {"w"}, {"r"}}

UringTypeOK ==
  /\ {src10, size10, off10, need10} \subseteq Nat /\ pairs10 \in 0..KPairs
  /\ dst10 \in Seq(Nat) /\ buf10 \in [Slots -> Seq(Nat)]
  /\ lens10 \in [Slots -> Nat] /\ at10 \in [Slots -> Nat]
  /\ op10 \in [Slots -> Ops10] /\ cq10 \in Seq(Slots \X Int)

\* The operations the kernel holds, with their slots.
InFlight(op) == {x \in Slots \X {"r", "lw", "w"} : x[2] \in op[x[1]]}

\* The kernel works on a batch.  It has taken the whole of it, or what the copy
\* awaits will never come.
Draining == pc10 \in {"drain", "abandoned"}
Whole10 == head10 = tail10

\* Each operation of a batch is in flight, or completed and not taken, or taken,
\* or was left in the ring.
Counted ==
  Draining =>
    /\ Whole10 => need10 = Len(cq10) + Cardinality(InFlight(op10))
    /\ ~Whole10 => need10 > Len(cq10) + Cardinality(InFlight(op10))

Batching == pc10 = "fill" \/ Draining

\* The chunks of a batch lie in the file, and a write has the whole chunk.
Chunks ==
  Batching =>
    /\ off10 <= size10 /\ (hurt10 \/ size10 = src10)
    /\ \A s \in 1..pairs10 : lens10[s] >= 1 /\ at10[s] + lens10[s] <= off10
    /\ \A s \in Slots : op10[s] # {} => s <= pairs10
    /\ \A s \in Slots : op10[s] = {"w"} => buf10[s] = Units(at10[s], lens10[s])
    /\ \A s \in Slots : op10[s] = {"r"} => ~Whole10

\* Unit i of the destination d has been copied.
Has(d, i) == i <= Len(d) /\ d[i] = i
\* Unit i is of a chunk of the batch, one that is still being copied or whose
\* completion will tell that it was not.
Unsure(s) ==
  \/ pc10 = "fill" \/ op10[s] # {}
  \/ \E j \in 1..Len(cq10) : cq10[j][1] = s /\ cq10[j][2] # lens10[s]
Expected(i) ==
  \E s \in 1..pairs10 : at10[s] < i /\ i <= at10[s] + lens10[s] /\ Unsure(s)

\* Every unit up to the offset is in its place, or the batch is known to have
\* failed, or will be found to have.
Copied ==
  Batching =>
    /\ Len(dst10) <= off10 /\ \A i \in 1..Len(dst10) : dst10[i] \in {0, i}
    /\ \/ Draining /\ (short10 \/ ~Whole10)
       \/ \A i \in 1..off10 : Has(dst10, i) \/ Expected(i)

\* copy_file_rw has copied all units up to the offset, and holds the next ones.
CopiedRw ==
  pc10 \in {"read", "write"} =>
    /\ dst10 = Units(0, off10) /\ (hurt10 \/ off10 <= src10)
    /\ pc10 = "write" => /\ buf10[1] = Units(off10, Len(buf10[1])) /\ Len(buf10[1]) >= 1
                         /\ hurt10 \/ off10 + Len(buf10[1]) <= src10

\* The submission ring holds the pairs of a batch that is being filled; no other
\* begins before the kernel has taken them.
Ring10 ==
  /\ head10 \in 0..(Wrap - 1)
  /\ pc10 = "fill" => tail10 = (head10 + 2 * pairs10) % Wrap
  /\ pc10 \notin {"fill", "failed"} /\ ~Draining => tail10 = head10

\* While nothing is wrong outside, every completion is whole.
Sound10 ==
  ~hurt10 =>
    /\ pc10 \notin {"failed", "abandoned"}
    /\ pc10 = "drain" => ~short10 /\ Whole10 /\ \A j \in 1..Len(cq10) : cq10[j][2] = lens10[cq10[j][1]]

UringInv ==
  /\ UringTypeOK /\ BuffersIdle /\ Counted /\ Chunks /\ Copied /\ CopiedRw /\ Ring10
  /\ Sound10 /\ CopyExact

\* A pair of a batch has a slot.
LEMMA PairSlots ==
  ASSUME UringTypeOK, NEW t \in 1..pairs10 PROVE t \in Slots
<1>1. PICK n \in Nat : n = pairs10 /\ n <= KPairs
  BY UringAssumption DEF UringTypeOK
<1>2. t \in Nat /\ 1 <= t /\ t <= n  BY <1>1
<1> QED  BY <1>1, <1>2, UringAssumption DEF Slots

\* A slot that is in use is one of the batch.
LEMMA SlotPairs ==
  ASSUME UringTypeOK, NEW t \in Slots, t <= pairs10 PROVE t \in 1..pairs10
<1>1. PICK n \in Nat : n = pairs10  BY UringAssumption DEF UringTypeOK
<1>2. t \in Nat /\ 1 <= t  BY UringAssumption DEF Slots
<1> QED  BY <1>1, <1>2

\* std::min and std::max of two numbers.
LEMMA MinMax ==
  ASSUME NEW a \in Int, NEW b \in Int
  PROVE  /\ Min({a, b}) = IF a <= b THEN a ELSE b
         /\ Max({a, b}) = IF a >= b THEN a ELSE b
<1>1. Min({a, b}) \in {a, b} /\ \A y \in {a, b} : Min({a, b}) <= y
  <2>1. \E x \in {a, b} : \A y \in {a, b} : x <= y  OBVIOUS
  <2> QED  BY <2>1 DEF Min
<1>2. Max({a, b}) \in {a, b} /\ \A y \in {a, b} : Max({a, b}) >= y
  <2>1. \E x \in {a, b} : \A y \in {a, b} : x >= y  OBVIOUS
  <2> QED  BY <2>1 DEF Max
<1> QED  BY <1>1, <1>2

\* The units of a chunk, and a sequence that is one.
LEMMA UnitsSeq ==
  ASSUME NEW from \in Nat, NEW n \in Nat
  PROVE  /\ Units(from, n) \in Seq(Nat) /\ Len(Units(from, n)) = n
         /\ \A i \in 1..n : Units(from, n)[i] = from + i
BY DEF Units

\* A sequence that counts up from from + 1 is Units.
LEMMA UnitsIs ==
  ASSUME NEW from \in Nat, NEW d \in Seq(Nat), \A i \in 1..Len(d) : d[i] = from + i
  PROVE  d = Units(from, Len(d))
BY DEF Units

\* What WriteAt makes of the destination d.
Patched(d, from, u) ==
  [i \in 1..Max({Len(d), from + Len(u)}) |->
     IF i > from /\ i <= from + Len(u) THEN u[i - from]
     ELSE IF i <= Len(d) THEN d[i] ELSE 0]

\* write(2) at an offset: the units go there, and a gap before them is zero.
LEMMA Written ==
  ASSUME NEW d \in Seq(Nat), NEW from \in Nat, NEW u \in Seq(Nat), NEW e,
         e = Patched(d, from, u)
  PROVE  /\ e \in Seq(Nat)
         /\ Len(e) = IF Len(d) >= from + Len(u) THEN Len(d) ELSE from + Len(u)
         /\ \A i \in 1..Len(e) :
              e[i] = IF i > from /\ i <= from + Len(u) THEN u[i - from]
                     ELSE IF i <= Len(d) THEN d[i] ELSE 0
<1> DEFINE m == IF Len(d) >= from + Len(u) THEN Len(d) ELSE from + Len(u)
<1>1. Len(d) \in Nat /\ Len(u) \in Nat /\ m \in Nat  OBVIOUS
<1>2. Max({Len(d), from + Len(u)}) = m
  <2>1. Len(d) \in Int /\ from + Len(u) \in Int  BY <1>1
  <2> QED  BY <2>1, MinMax, Zenon
<1>3. e = [i \in 1..m |-> IF i > from /\ i <= from + Len(u) THEN u[i - from]
                          ELSE IF i <= Len(d) THEN d[i] ELSE 0]
  BY <1>2 DEF Patched
<1> HIDE DEF m
<1>4. \A i \in 1..m : (IF i > from /\ i <= from + Len(u) THEN u[i - from]
                        ELSE IF i <= Len(d) THEN d[i] ELSE 0) \in Nat
  BY <1>1
<1>5. e \in [1..m -> Nat]  BY <1>3, <1>4
<1>6. e \in Seq(Nat) /\ Len(e) = m
  <2>1. PICK n \in Nat : n = m  BY <1>1
  <2>2. e \in [1..n -> Nat]  BY <1>5, <2>1
  <2>3. e \in Seq(Nat) /\ Len(e) = n  BY ONLY n \in Nat, <2>2
  <2> QED  BY <2>1, <2>3
<1> QED  BY <1>3, <1>6 DEF m

\* Counting the operations in flight: those of a batch, and what a completed
\* read or write leaves.
LEMMA FlightFinite ==
  ASSUME NEW op  PROVE IsFiniteSet(InFlight(op)) /\ Cardinality(InFlight(op)) \in Nat
<1>1. IsFiniteSet(Slots)  BY UringAssumption, FS_Interval DEF Slots
<1>2. IsFiniteSet({"r", "lw", "w"})
  <2>1. IsFiniteSet({"r"})  BY FS_Singleton
  <2>2. IsFiniteSet({"r"} \cup {"lw"})  BY <2>1, FS_AddElement
  <2>3. IsFiniteSet(({"r"} \cup {"lw"}) \cup {"w"})  BY <2>2, FS_AddElement
  <2>4. {"r", "lw", "w"} = ({"r"} \cup {"lw"}) \cup {"w"}  OBVIOUS
  <2> QED  BY <2>3, <2>4
<1>3. IsFiniteSet(Slots \X {"r", "lw", "w"})  BY <1>1, <1>2, FS_Product
<1>4. InFlight(op) \subseteq Slots \X {"r", "lw", "w"}  BY DEF InFlight
<1>5. IsFiniteSet(InFlight(op))  BY <1>3, <1>4, FS_Subset
<1> QED  BY <1>5, FS_CardinalityType

\* With nothing in flight every pair is free.
LEMMA FlightNone ==
  ASSUME NEW op \in [Slots -> Ops10], Cardinality(InFlight(op)) = 0
  PROVE  \A s \in Slots : op[s] = {}
<1>1. InFlight(op) = {}  BY FlightFinite, FS_EmptySet
<1>2. ASSUME NEW s \in Slots, op[s] # {}  PROVE FALSE
  <2>1. op[s] \in {{}, {"r", "lw"}, {"w"}, {"r"}}  BY DEF Ops10
  <2>2. PICK o \in {"r", "lw", "w"} : o \in op[s]  BY <1>2, <2>1
  <2>3. <<s, o>> \in InFlight(op)  BY <2>2 DEF InFlight
  <2> QED  BY <2>3, <1>1
<1> QED  BY <1>2

\* A read that completes leaves its write in flight, or frees the pair.
LEMMA FlightRead ==
  ASSUME NEW op \in [Slots -> Ops10], NEW s \in Slots,
         op[s] = {"r", "lw"}
  PROVE  /\ Cardinality(InFlight([op EXCEPT ![s] = {"w"}])) = Cardinality(InFlight(op)) - 1
         /\ Cardinality(InFlight([op EXCEPT ![s] = {}])) = Cardinality(InFlight(op)) - 2
<1> DEFINE P == InFlight(op)
           Q == (P \ {<<s, "r">>}) \ {<<s, "lw">>}
<1>1. IsFiniteSet(P) /\ Cardinality(P) \in Nat  BY FlightFinite
<1>2. <<s, "r">> \in P /\ <<s, "lw">> \in P /\ <<s, "w">> \notin P  BY DEF InFlight
<1>3. IsFiniteSet(P \ {<<s, "r">>}) /\ Cardinality(P \ {<<s, "r">>}) = Cardinality(P) - 1
  BY <1>1, <1>2, FS_RemoveElement
<1>4. PICK R : R = P \ {<<s, "r">>}  OBVIOUS
<1>5. IsFiniteSet(Q) /\ Cardinality(Q) = Cardinality(P) - 2
  <2>1. <<s, "lw">> \in R /\ IsFiniteSet(R) /\ Cardinality(R) = Cardinality(P) - 1
    BY <1>2, <1>3, <1>4
  <2>2. IsFiniteSet(R \ {<<s, "lw">>}) /\ Cardinality(R \ {<<s, "lw">>}) = Cardinality(R) - 1
    BY <2>1, FS_RemoveElement
  <2>3. Q = R \ {<<s, "lw">>}  BY <1>4
  <2> HIDE DEF P, Q
  <2> QED  BY <1>1, <2>1, <2>2, <2>3
<1>6. IsFiniteSet(Q \cup {<<s, "w">>}) /\ Cardinality(Q \cup {<<s, "w">>}) = Cardinality(P) - 1
  <2>1. PICK Z : Z = Q  OBVIOUS
  <2>2. <<s, "w">> \notin Z /\ IsFiniteSet(Z) /\ Cardinality(Z) = Cardinality(P) - 2
    BY <1>2, <1>5, <2>1
  <2>3. IsFiniteSet(Z \cup {<<s, "w">>}) /\ Cardinality(Z \cup {<<s, "w">>}) = Cardinality(Z) + 1
    BY <2>2, FS_AddElement
  <2> QED  BY <1>1, <2>1, <2>2, <2>3
<1>7. InFlight([op EXCEPT ![s] = {}]) = Q
  <2>1. \A x \in Slots \X {"r", "lw", "w"} :
          x[2] \in [op EXCEPT ![s] = {}][x[1]] <=> (x[1] # s /\ x[2] \in op[x[1]])
    OBVIOUS
  <2>2. \A x \in Slots \X {"r", "lw", "w"} :
          x \in Q <=> (x[1] # s /\ x[2] \in op[x[1]])
    BY DEF InFlight
  <2> QED  BY <2>1, <2>2 DEF InFlight
<1>8. InFlight([op EXCEPT ![s] = {"w"}]) = Q \cup {<<s, "w">>}
  <2>1. \A x \in Slots \X {"r", "lw", "w"} :
          x[2] \in [op EXCEPT ![s] = {"w"}][x[1]]
            <=> ((x[1] # s /\ x[2] \in op[x[1]]) \/ x = <<s, "w">>)
    OBVIOUS
  <2>2. \A x \in Slots \X {"r", "lw", "w"} :
          x \in Q <=> (x[1] # s /\ x[2] \in op[x[1]])
    BY DEF InFlight
  <2> QED  BY <2>1, <2>2 DEF InFlight
<1> QED  BY <1>5, <1>6, <1>7, <1>8

\* A write, or a read that is alone, frees its pair when it completes.
LEMMA FlightLone ==
  ASSUME NEW op \in [Slots -> Ops10], NEW s \in Slots, NEW o \in {"r", "w"}, op[s] = {o}
  PROVE  Cardinality(InFlight([op EXCEPT ![s] = {}])) = Cardinality(InFlight(op)) - 1
<1> DEFINE P == InFlight(op)
<1>1. IsFiniteSet(P) /\ Cardinality(P) \in Nat  BY FlightFinite
<1>2. <<s, o>> \in P  BY DEF InFlight
<1>3. Cardinality(P \ {<<s, o>>}) = Cardinality(P) - 1  BY <1>1, <1>2, FS_RemoveElement
<1>4. InFlight([op EXCEPT ![s] = {}]) = P \ {<<s, o>>}
  <2>1. \A x \in Slots \X {"r", "lw", "w"} :
          x[2] \in [op EXCEPT ![s] = {}][x[1]] <=> (x[1] # s /\ x[2] \in op[x[1]])
    OBVIOUS
  <2>2. \A x \in Slots \X {"r", "lw", "w"} :
          x \in P \ {<<s, o>>} <=> (x[1] # s /\ x[2] \in op[x[1]])
    BY DEF InFlight
  <2> QED  BY <2>1, <2>2 DEF InFlight
<1> QED  BY <1>3, <1>4

\* A batch of p pairs puts two operations of each in flight.
LEMMA FlightBatch ==
  ASSUME NEW p \in 0..KPairs, NEW op, op = Taken(2 * p)
  PROVE  Cardinality(InFlight(op)) = 2 * p
<1>1. InFlight(op) = (1..p) \X {"r", "lw"}
  <2>1. \A x \in Slots \X {"r", "lw", "w"} :
          x[2] \in op[x[1]] <=> (x[1] \in 1..p /\ x[2] \in {"r", "lw"})
    <3>1. op = [s \in Slots |-> IF s <= p THEN {"r", "lw"} ELSE {}]
      <4>1. \A s \in Slots : (2 * s <= 2 * p <=> s <= p) /\ 2 * s - 1 # 2 * p
        BY UringAssumption DEF Slots
      <4> QED  BY <4>1, Zenon DEF Taken
    <3> QED  BY <3>1, UringAssumption DEF Slots
  <2>2. (1..p) \X {"r", "lw"} \subseteq Slots \X {"r", "lw", "w"}
    BY UringAssumption DEF Slots
  <2> QED  BY <2>1, <2>2 DEF InFlight
<1>2. IsFiniteSet(1..p) /\ Cardinality(1..p) = p  BY UringAssumption, FS_Interval
<1>3. IsFiniteSet({"r", "lw"}) /\ Cardinality({"r", "lw"}) = 2
  <2>1. IsFiniteSet({"r"}) /\ Cardinality({"r"}) = 1  BY FS_Singleton
  <2>2. IsFiniteSet({"r"} \cup {"lw"}) /\ Cardinality({"r"} \cup {"lw"}) = 2
    BY <2>1, FS_AddElement
  <2>3. {"r", "lw"} = {"r"} \cup {"lw"}  OBVIOUS
  <2> QED  BY <2>2, <2>3
<1>4. Cardinality((1..p) \X {"r", "lw"}) = Cardinality(1..p) * Cardinality({"r", "lw"})
  BY <1>2, <1>3, FS_Product, Zenon
<1>5. p * 2 = 2 * p  BY UringAssumption
<1> QED  BY <1>1, <1>2, <1>3, <1>4, <1>5, Zenon

\* Of fewer entries there is less in flight.
LEMMA FlightPart ==
  ASSUME NEW p \in 0..KPairs, NEW k \in 1..(2 * p), k < 2 * p
  PROVE  Cardinality(InFlight(Taken(k))) < 2 * p
<1> DEFINE P == InFlight(Taken(2 * p))
           K == InFlight(Taken(k))
<1>1. p \in Nat /\ p \in Slots /\ KPairs \in Nat /\ Slots \subseteq Nat \ {0} /\ k \in Nat
  BY UringAssumption DEF Slots
<1>2. IsFiniteSet(P) /\ Cardinality(P) = 2 * p
  <2>1. PICK op : op = Taken(2 * p)  OBVIOUS
  <2>2. IsFiniteSet(InFlight(op)) /\ Cardinality(InFlight(op)) = 2 * p
    BY <2>1, FlightFinite, FlightBatch
  <2> QED  BY <2>1, <2>2
<1>3. K \subseteq P
  <2>1. \A s \in Slots : Taken(k)[s] \subseteq Taken(2 * p)[s]
    <3> SUFFICES ASSUME NEW s \in Slots  PROVE Taken(k)[s] \subseteq Taken(2 * p)[s]
      OBVIOUS
    <3>1. CASE 2 * s <= 2 * p
      <4>1. Taken(2 * p)[s] = {"r", "lw"}  BY <3>1 DEF Taken
      <4>2. Taken(k)[s] \in {{"r", "lw"}, {"r"}, {}}  BY DEF Taken
      <4> QED  BY <4>1, <4>2
    <3>2. CASE 2 * s > 2 * p
      <4>1. s \in Nat  BY <1>1
      <4>2. ~(2 * s <= k) /\ 2 * s - 1 # k  BY <4>1, <3>2, <1>1
      <4> QED  BY <4>2 DEF Taken
    <3>3. s \in Nat  BY <1>1
    <3> QED  BY <3>1, <3>2, <3>3, <1>1
  <2> QED  BY <2>1 DEF InFlight
<1>4. <<p, "lw">> \in P /\ <<p, "lw">> \notin K
  <2>1. Taken(2 * p)[p] = {"r", "lw"} /\ ~(2 * p <= k)  BY <1>1 DEF Taken
  <2>2. "lw" \notin Taken(k)[p]  BY <1>1, <2>1 DEF Taken
  <2> QED  BY <2>1, <2>2, <1>1 DEF InFlight
<1> HIDE DEF P, K
<1>5. Cardinality(K) <= Cardinality(P) /\ (Cardinality(K) = Cardinality(P) => K = P)
  BY <1>2, <1>3, FS_Subset
<1>6. IsFiniteSet(K) /\ Cardinality(K) \in Nat  BY FlightFinite DEF K
<1>7. Cardinality(K) < 2 * p  BY <1>1, <1>2, <1>4, <1>5, <1>6
<1> QED  BY <1>7 DEF K

\* The counters of the ring when k of the 2 * p entries of a batch are taken.
LEMMA HeadMoves ==
  ASSUME NEW h \in 0..(Wrap - 1), NEW p \in 0..KPairs, NEW k \in 1..(2 * p), NEW t,
         t = (h + 2 * p) % Wrap
  PROVE  /\ (h + k) % Wrap \in 0..(Wrap - 1)
         /\ (h + k) % Wrap = t <=> k = 2 * p
<1>1. /\ Wrap \in Nat \ {0} /\ h \in Nat /\ p \in Nat /\ k \in Nat /\ 1 <= k /\ k <= 2 * p
      /\ h < Wrap /\ 2 * p <= Wrap
  BY UringAssumption
<1>2. PICK a \in Nat, b \in Nat : a = h + k /\ b = h + 2 * p  BY <1>1
<1>3. a < 2 * Wrap /\ b < 2 * Wrap /\ a <= b /\ b - a < Wrap  BY <1>1, <1>2
<1>4. \A x \in Int : /\ 0 <= x /\ x < Wrap => x % Wrap = x
                     /\ Wrap <= x /\ x < 2 * Wrap => x % Wrap = x - Wrap
  BY <1>1
<1>5. a % Wrap = (IF a < Wrap THEN a ELSE a - Wrap) /\ b % Wrap = (IF b < Wrap THEN b ELSE b - Wrap)
  BY <1>1, <1>3, <1>4
<1>6. a % Wrap \in 0..(Wrap - 1) /\ (a % Wrap = b % Wrap <=> a = b)  BY <1>1, <1>3, <1>5
<1>7. a = b <=> k = 2 * p  BY <1>1, <1>2
<1> QED  BY <1>2, <1>6, <1>7

\* try_get_sqe: with p pairs queued since the kernel took everything, there is
\* room for another, also when the counters have wrapped between.
LEMMA RoomForPair ==
  ASSUME NEW h \in 0..(Wrap - 1), NEW p \in Nat, p < KPairs, NEW t, t = (h + 2 * p) % Wrap
  PROVE  /\ (t - h + 2 - 1) % Wrap < RingSize
         /\ (t + 2) % Wrap = (h + 2 * (p + 1)) % Wrap
<1>1. /\ Wrap \in Nat \ {0} /\ RingSize \in Nat /\ h + 2 * p \in Nat /\ h + 2 * p < 2 * Wrap
      /\ 2 * p + 1 < RingSize /\ RingSize <= Wrap
  BY UringAssumption
<1>2. \A x \in Int : /\ 0 <= x /\ x < Wrap => x % Wrap = x
                     /\ Wrap <= x /\ x < 2 * Wrap => x % Wrap = x - Wrap
                     /\ x < 0 /\ -Wrap <= x => x % Wrap = x + Wrap
  BY <1>1
<1>3. CASE h + 2 * p < Wrap
  <2>1. t = h + 2 * p  BY <1>1, <1>2, <1>3
  <2>2. t - h + 2 - 1 = 2 * p + 1  BY <2>1, <1>1
  <2> QED  BY <1>1, <1>2, <2>1, <2>2
<1>4. CASE h + 2 * p >= Wrap
  <2>1. t = h + 2 * p - Wrap  BY <1>1, <1>2, <1>4
  <2>2. t - h + 2 - 1 = 2 * p + 1 - Wrap  BY <2>1, <1>1
  <2>3. (t - h + 2 - 1) % Wrap = 2 * p + 1  BY <2>2, <1>1, <1>2
  <2>4. h + 2 * (p + 1) < 2 * Wrap /\ h + 2 * (p + 1) >= Wrap  BY <1>1, <1>4
  <2>5. (h + 2 * (p + 1)) % Wrap = h + 2 * (p + 1) - Wrap  BY <2>4, <1>1, <1>2
  <2>6. t + 2 = h + 2 * (p + 1) - Wrap /\ 0 <= t + 2 /\ t + 2 < Wrap  BY <2>1, <2>4, <1>1, <1>4
  <2> QED  BY <1>1, <1>2, <2>3, <2>5, <2>6
<1> QED  BY <1>1, <1>3, <1>4

\* The ring is idle unless a batch is being drained.
LEMMA IdleOf ==
  ASSUME UringInv, ~Draining
  PROVE  cq10 = <<>> /\ \A s \in Slots : op10[s] = {}
BY DEF UringInv, BuffersIdle, Draining

\* The invariant of the copy holds before the first file.
LEMMA UringInitInv == UringInit => UringInv
<1> SUFFICES ASSUME UringInit PROVE UringInv  OBVIOUS
<1> USE DEF UringInit, Draining
<1>1. UringTypeOK
  <2>1. src10 \in Nat /\ KPairs \in Nat  BY UringAssumption DEF CommandLine10
  <2>2. lens10 \in [Slots -> Nat] /\ at10 \in [Slots -> Nat]  BY DEF Ints
  <2>3. op10 \in [Slots -> Ops10] /\ buf10 \in [Slots -> Seq(Nat)]
    BY DEF Ops10
  <2> QED  BY <2>1, <2>2, <2>3 DEF UringTypeOK
<1>2. BuffersIdle /\ Counted /\ Chunks /\ Copied /\ CopiedRw /\ Sound10 /\ CopyExact
  BY DEF BuffersIdle, Counted, Chunks, Batching, Copied, CopiedRw, Sound10, CopyExact
<1>3. Ring10  BY UringAssumption DEF Ring10
<1> QED  BY <1>1, <1>2, <1>3 DEF UringInv

\* The files are opened.
LEMMA OpenInv == ASSUME UringInv, OpenFiles PROVE UringInv'
<1> USE DEF Draining
<1>1. UringTypeOK /\ Ring10 /\ Sound10  BY DEF UringInv
<1>2. /\ pc10 = "open" /\ dst10' = <<>> /\ size10' = src10 /\ off10' = 0 /\ src10' = src10
      /\ buf10' = [s \in Slots |-> <<>>] /\ pairs10' = 0 /\ lens10' = lens10 /\ at10' = at10
      /\ op10' = op10 /\ head10' = head10 /\ tail10' = tail10 /\ cq10' = cq10
      /\ need10' = need10 /\ short10' = short10
      /\ pc10' \in {"read", "closed", "fill", "failed"}
      /\ pc10' = "closed" => src10 = 0
      /\ pc10' = "failed" => hurt10' = TRUE
      /\ hurt10' \in {hurt10, TRUE}
  BY DEF OpenFiles
<1>3. cq10 = <<>> /\ \A s \in Slots : op10[s] = {}  BY <1>2, IdleOf
<1>4. UringTypeOK'
  <2>1. KPairs \in Nat /\ buf10' \in [Slots -> Seq(Nat)] /\ dst10' \in Seq(Nat)
    BY <1>2, UringAssumption
  <2>2. {src10', size10', off10', need10'} \subseteq Nat /\ pairs10' \in 0..KPairs
    BY <1>1, <1>2, <2>1 DEF UringTypeOK
  <2>3. /\ lens10' \in [Slots -> Nat] /\ at10' \in [Slots -> Nat]
        /\ op10' \in [Slots -> Ops10] /\ cq10' \in Seq(Slots \X Int)
    BY <1>1, <1>2 DEF UringTypeOK
  <2> QED  BY <2>1, <2>2, <2>3 DEF UringTypeOK
<1>5. BuffersIdle' /\ Counted'  BY <1>2, <1>3 DEF BuffersIdle, Counted
<1>6. src10 \in Nat  BY <1>1 DEF UringTypeOK
<1>7. Chunks' /\ Copied'
  <2>1. {} # {"w"} /\ {} # {"r"}  OBVIOUS
  <2>2. \A s \in Slots : op10'[s] # {"w"} /\ op10'[s] # {"r"}  BY <1>2, <1>3, <2>1
  <2>3. Chunks'  BY <1>2, <1>3, <1>6, <2>2 DEF Chunks
  <2>4. Copied'  BY <1>2, <1>6 DEF Copied, Batching
  <2> QED  BY <2>3, <2>4
<1>8. <<>> = Units(0, 0)  BY DEF Units
<1>9. CopiedRw' /\ CopyExact'  BY <1>2, <1>6, <1>8 DEF CopiedRw, CopyExact
<1>10. Ring10'
  <2>1. head10 \in 0..(Wrap - 1) /\ tail10 = head10  BY <1>1, <1>2 DEF Ring10
  <2>2. Wrap \in Nat \ {0} /\ head10 \in Nat /\ head10 < Wrap  BY <2>1, UringAssumption
  <2>3. head10 + 2 * 0 = head10 /\ head10 % Wrap = head10  BY <2>2
  <2> QED  BY <1>2, <2>1, <2>3 DEF Ring10
<1>11. Sound10'  BY <1>2 DEF Sound10
<1> QED  BY <1>4, <1>5, <1>7, <1>9, <1>10, <1>11 DEF UringInv

\* read(2): the next units of the source, or its end.
LEMMA ReadChunkInv == ASSUME UringInv, ReadChunk PROVE UringInv'
<1> USE DEF Draining
<1>1. UringTypeOK /\ Ring10 /\ Sound10 /\ CopiedRw  BY DEF UringInv
<1> DEFINE m == IF KChunk <= src10 - off10 THEN KChunk ELSE src10 - off10
           n == IF 0 >= m THEN 0 ELSE m
<1>2. /\ {src10, size10, off10} \subseteq Nat /\ KChunk \in Nat \ {0} /\ 1 \in Slots
      /\ buf10 \in [Slots -> Seq(Nat)]
  BY <1>1, UringAssumption DEF UringTypeOK, Slots
<1>3. Max({0, Min({KChunk, src10 - off10})}) = n
  <2>1. KChunk \in Int /\ src10 - off10 \in Int  BY <1>2
  <2>2. Min({KChunk, src10 - off10}) = m  BY <2>1, MinMax, Zenon
  <2>3. m \in Int /\ 0 \in Int  BY <2>1
  <2>4. Max({0, m}) = n  BY <2>3, MinMax, Zenon
  <2> QED  BY <2>2, <2>4
<1>4. n \in Nat /\ (n > 0 => off10 + n <= src10) /\ (n = 0 => src10 <= off10)  BY <1>2
<1> HIDE DEF n, m
<1>5. /\ pc10 = "read" /\ buf10' = [buf10 EXCEPT ![1] = Units(off10, n)]
      /\ pc10' = (IF n = 0 THEN "closed" ELSE "write")
      /\ size10' = (IF n = 0 THEN off10 ELSE size10)
      /\ src10' = src10 /\ dst10' = dst10 /\ off10' = off10 /\ hurt10' = hurt10
      /\ UNCHANGED copyVars
  BY <1>3 DEF ReadChunk
<1>6. /\ pairs10' = pairs10 /\ lens10' = lens10 /\ at10' = at10 /\ op10' = op10
      /\ head10' = head10 /\ tail10' = tail10 /\ cq10' = cq10 /\ need10' = need10
      /\ short10' = short10
  BY <1>5 DEF copyVars
<1>7. Units(off10, n) \in Seq(Nat) /\ Len(Units(off10, n)) = n  BY <1>2, <1>4, UnitsSeq
<1>8. buf10' \in [Slots -> Seq(Nat)] /\ buf10'[1] = Units(off10, n)  BY <1>2, <1>5, <1>7
<1>9. UringTypeOK'  BY <1>1, <1>2, <1>5, <1>6, <1>8 DEF UringTypeOK
<1>10. BuffersIdle' /\ Counted'
  <2>1. cq10 = <<>> /\ \A s \in Slots : op10[s] = {}  BY <1>5, IdleOf
  <2> QED  BY <1>5, <1>6, <2>1 DEF BuffersIdle, Counted
<1>11. Chunks' /\ Copied'  BY <1>5 DEF Chunks, Copied, Batching
<1>12. dst10 = Units(0, off10) /\ (hurt10 \/ off10 <= src10)  BY <1>1, <1>5 DEF CopiedRw
<1>13. CopiedRw'
  <2>1. pc10' = "write" => n >= 1  BY <1>4, <1>5
  <2> QED  BY <1>4, <1>5, <1>7, <1>8, <1>12, <2>1 DEF CopiedRw
<1>14. CopyExact'
  <2> SUFFICES ASSUME pc10' = "closed"
               PROVE  dst10' = Units(0, size10') /\ (hurt10' \/ size10' = src10')
    BY DEF CopyExact
  <2>1. n = 0  BY <1>5
  <2> QED  BY <1>2, <1>4, <1>5, <1>12, <2>1
<1>15. Ring10'  BY <1>1, <1>5, <1>6 DEF Ring10
<1>16. Sound10'  BY <1>1, <1>5, <1>6 DEF Sound10
<1> QED  BY <1>9, <1>10, <1>11, <1>13, <1>14, <1>15, <1>16 DEF UringInv

\* write(2) of what was read, or of a part of it.
LEMMA WriteChunkInv == ASSUME UringInv, WriteChunk PROVE UringInv'
<1> USE DEF Draining
<1>1. UringTypeOK /\ Ring10 /\ Sound10 /\ CopiedRw  BY DEF UringInv
<1>2. /\ {src10, size10, off10} \subseteq Nat /\ 1 \in Slots /\ dst10 \in Seq(Nat)
      /\ buf10 \in [Slots -> Seq(Nat)]
  BY <1>1, UringAssumption DEF UringTypeOK, Slots
<1>3. PICK b \in Seq(Nat) : b = buf10[1]  BY <1>2
<1>4. PICK w \in 1..Len(b) :
        /\ WriteAt(off10, SubSeq(b, 1, w)) /\ off10' = off10 + w
        /\ buf10' = [buf10 EXCEPT ![1] = SubSeq(@, w + 1, Len(@))]
        /\ pc10' = IF w = Len(b) THEN "read" ELSE "write"
  BY <1>3 DEF WriteChunk
<1>5. /\ pc10 = "write" /\ src10' = src10 /\ size10' = size10 /\ hurt10' = hurt10
      /\ pairs10' = pairs10 /\ lens10' = lens10 /\ at10' = at10 /\ op10' = op10
      /\ head10' = head10 /\ tail10' = tail10 /\ cq10' = cq10 /\ need10' = need10
      /\ short10' = short10
  BY DEF WriteChunk, copyVars
<1>6. /\ dst10 = Units(0, off10) /\ b = Units(off10, Len(b)) /\ Len(b) \in Nat
      /\ hurt10 \/ off10 + Len(b) <= src10
  BY <1>1, <1>3, <1>5 DEF CopiedRw
<1>7. /\ Len(dst10) = off10 /\ \A i \in 1..off10 : dst10[i] = i
      /\ \A i \in 1..Len(b) : b[i] = off10 + i
  <2>1. Len(Units(0, off10)) = off10 /\ \A i \in 1..off10 : Units(0, off10)[i] = 0 + i
    BY <1>2, UnitsSeq
  <2>2. \A i \in 1..Len(b) : Units(off10, Len(b))[i] = off10 + i  BY <1>2, <1>6, UnitsSeq
  <2> QED  BY <2>1, <2>2, <1>6
<1>8. PICK u \in Seq(Nat) : u = SubSeq(b, 1, w)
  <2>1. SubSeq(b, 1, w) \in Seq(Nat)  OBVIOUS
  <2> QED  BY <2>1
<1>9. dst10' = Units(0, off10 + w) /\ dst10' \in Seq(Nat)
  <2>1. Len(u) = w /\ \A i \in 1..w : u[i] = off10 + i
    <3>1. Len(SubSeq(b, 1, w)) = w /\ \A i \in 1..w : SubSeq(b, 1, w)[i] = b[i]  OBVIOUS
    <3> QED  BY <3>1, <1>7, <1>8
  <2>2. PICK e : e = dst10'  OBVIOUS
  <2>3. e = Patched(dst10, off10, u)  BY <1>4, <1>8, <2>2 DEF WriteAt, Patched
  <2>4. PICK d \in Seq(Nat), o \in Nat : d = dst10 /\ o = off10  BY <1>2
  <2>5. /\ e \in Seq(Nat)
        /\ Len(e) = IF Len(d) >= o + Len(u) THEN Len(d) ELSE o + Len(u)
        /\ \A i \in 1..Len(e) :
             e[i] = IF i > o /\ i <= o + Len(u) THEN u[i - o]
                    ELSE IF i <= Len(d) THEN d[i] ELSE 0
    <3>1. e = Patched(d, o, u)  BY <2>3, <2>4
    <3> QED  BY <3>1, Written, SMTT(30)
  <2>6. w \in Nat /\ w >= 1 /\ Len(d) = o /\ \A i \in 1..o : d[i] = i  BY <2>4, <1>6, <1>7
  <2>7. Len(e) = o + w  BY <2>1, <2>5, <2>6
  <2>8. ASSUME NEW i \in 1..Len(e)  PROVE e[i] = 0 + i
    <3>1. CASE i <= o
      <4>1. i \in 1..o /\ ~(i > o) /\ i <= Len(d)  BY <3>1, <2>6
      <4>2. e[i] = d[i]  BY <4>1, <2>5
      <4> QED  BY <4>1, <4>2, <2>6
    <3>2. CASE i > o
      <4>1. i - o \in 1..w /\ i <= o + w  BY <3>2, <2>6, <2>7
      <4>2. e[i] = u[i - o]  BY <3>2, <4>1, <2>1, <2>5
      <4> QED  BY <4>1, <4>2, <2>1, <2>4
    <3> QED  BY <3>1, <3>2
  <2>9. e = Units(0, Len(e))  BY <2>5, <2>8, UnitsIs
  <2> QED  BY <2>2, <2>4, <2>5, <2>7, <2>9
<1>10. PICK v \in Seq(Nat) : v = buf10'[1] /\ Len(v) = Len(b) - w /\ v = Units(off10 + w, Len(v))
  <2>1. buf10'[1] = SubSeq(b, w + 1, Len(b))  BY <1>2, <1>3, <1>4
  <2>2. w \in Nat /\ w >= 1 /\ w <= Len(b) /\ Len(b) \in Nat  BY <1>6
  <2>3. SubSeq(b, w + 1, Len(b)) \in Seq(Nat) /\ Len(SubSeq(b, w + 1, Len(b))) = Len(b) - w
    BY <2>2
  <2>4. PICK v \in Seq(Nat) : v = SubSeq(b, w + 1, Len(b))  BY <2>3
  <2>5. Len(v) = Len(b) - w  BY <2>3, <2>4
  <2>6. \A i \in 1..(Len(b) - w) : SubSeq(b, w + 1, Len(b))[i] = b[i + w]  BY <2>2
  <2>7. \A i \in 1..Len(v) : v[i] = b[i + w]  BY <2>4, <2>5, <2>6
  <2>8. \A i \in 1..Len(v) : v[i] = (off10 + w) + i
    BY <2>2, <2>5, <2>7, <1>2, <1>6, <1>7
  <2>9. off10 + w \in Nat  BY <1>2
  <2>10. v = Units(off10 + w, Len(v))  BY <2>8, <2>9, UnitsIs
  <2> QED  BY <2>1, <2>4, <2>5, <2>10
<1>11. buf10' \in [Slots -> Seq(Nat)]  BY <1>2, <1>3, <1>4, <1>10
<1>12. off10' \in Nat /\ pc10' \in {"read", "write"}  BY <1>2, <1>4
<1>13. UringTypeOK'  BY <1>1, <1>5, <1>9, <1>11, <1>12 DEF UringTypeOK
<1>14. BuffersIdle' /\ Counted'
  <2>1. cq10 = <<>> /\ \A s \in Slots : op10[s] = {}  BY <1>5, IdleOf
  <2> QED  BY <1>5, <1>12, <2>1 DEF BuffersIdle, Counted
<1>15. Chunks' /\ Copied' /\ CopyExact'  BY <1>12 DEF Chunks, Copied, Batching, CopyExact
<1>16. CopiedRw'
  <2>1. hurt10 \/ off10' + Len(v) <= src10  BY <1>2, <1>4, <1>6, <1>10
  <2>2. hurt10 \/ off10' <= src10  BY <1>2, <1>4, <1>6
  <2>3. pc10' = "write" => Len(v) >= 1  BY <1>4, <1>6, <1>10
  <2> QED  BY <1>4, <1>5, <1>9, <1>10, <2>1, <2>2, <2>3 DEF CopiedRw
<1>17. Ring10'  BY <1>1, <1>5, <1>12 DEF Ring10
<1>18. Sound10'  BY <1>5, <1>12 DEF Sound10
<1> QED  BY <1>13, <1>14, <1>15, <1>16, <1>17, <1>18 DEF UringInv

\* A pair of entries is queued; there is room for it.
LEMMA QueuePairInv == ASSUME UringInv, QueuePair PROVE UringInv'
<1> USE DEF Draining
<1>1. UringTypeOK /\ Ring10 /\ Chunks /\ Copied  BY DEF UringInv
<1>2. /\ pc10 = "fill" /\ pairs10 < KPairs /\ off10 < size10
      /\ src10' = src10 /\ dst10' = dst10 /\ size10' = size10 /\ buf10' = buf10
      /\ op10' = op10 /\ head10' = head10 /\ cq10' = cq10 /\ need10' = need10
      /\ short10' = short10 /\ hurt10' = hurt10
  BY DEF QueuePair
<1>3. /\ {src10, size10, off10, pairs10} \subseteq Nat /\ pairs10 + 1 \in Slots
      /\ KChunk \in Nat \ {0} /\ KPairs \in Nat
  BY <1>1, <1>2, UringAssumption DEF UringTypeOK, Slots
<1>4. head10 \in 0..(Wrap - 1) /\ tail10 = (head10 + 2 * pairs10) % Wrap
  BY <1>1, <1>2 DEF Ring10
<1>5. /\ (tail10 - head10 + 2 - 1) % Wrap < RingSize
      /\ (tail10 + 2) % Wrap = (head10 + 2 * (pairs10 + 1)) % Wrap
  BY <1>2, <1>3, <1>4, RoomForPair
<1>6. RoomFor(2)  BY <1>5 DEF RoomFor
<1> DEFINE len == IF KChunk <= size10 - off10 THEN KChunk ELSE size10 - off10
           s == pairs10 + 1
<1>7. Min({KChunk, size10 - off10}) = len
  <2>1. KChunk \in Int /\ size10 - off10 \in Int  BY <1>3
  <2> QED  BY <2>1, MinMax, Zenon
<1>8. len \in Nat /\ len >= 1 /\ off10 + len <= size10  BY <1>2, <1>3
<1> HIDE DEF len
<1>9. /\ pairs10' = s /\ lens10' = [lens10 EXCEPT ![s] = len]
      /\ at10' = [at10 EXCEPT ![s] = off10] /\ off10' = off10 + len
      /\ tail10' = (tail10 + 2) % Wrap /\ pc10' = "fill"
  BY <1>2, <1>6, <1>7 DEF QueuePair
<1>10. cq10 = <<>> /\ \A t \in Slots : op10[t] = {}  BY <1>2, IdleOf
<1>11. /\ lens10' \in [Slots -> Nat] /\ at10' \in [Slots -> Nat]
       /\ lens10'[s] = len /\ at10'[s] = off10
       /\ \A t \in 1..pairs10 : lens10'[t] = lens10[t] /\ at10'[t] = at10[t]
  <2>1. lens10 \in [Slots -> Nat] /\ at10 \in [Slots -> Nat]  BY <1>1 DEF UringTypeOK
  <2>2. s \in Slots /\ off10 \in Nat /\ \A t \in 1..pairs10 : t \in Slots /\ t # s
    BY <1>2, <1>3 DEF Slots
  <2> HIDE DEF s
  <2> QED  BY <2>1, <2>2, <1>8, <1>9
<1>12. UringTypeOK'
  <2>1. off10' \in Nat /\ pairs10' \in 0..KPairs  BY <1>2, <1>3, <1>8, <1>9
  <2> QED  BY <1>1, <1>2, <1>11, <2>1 DEF UringTypeOK
<1>13. BuffersIdle' /\ Counted' /\ CopiedRw' /\ CopyExact'
  BY <1>2, <1>9, <1>10 DEF BuffersIdle, Counted, CopiedRw, CopyExact
<1>14. /\ hurt10 \/ size10 = src10
       /\ \A t \in 1..pairs10 : lens10[t] >= 1 /\ at10[t] + lens10[t] <= off10
  BY <1>1, <1>2 DEF Chunks, Batching
<1>15. \A t \in 1..pairs10 : t \in Slots /\ lens10[t] \in Nat /\ at10[t] \in Nat
  BY <1>1, <1>2, <1>3 DEF UringTypeOK, Slots
<1>16. ASSUME NEW t \in 1..s
       PROVE  lens10'[t] >= 1 /\ at10'[t] + lens10'[t] <= off10'
  <2>1. CASE t = s  BY <2>1, <1>3, <1>8, <1>9, <1>11
  <2>2. CASE t \in 1..pairs10  BY <2>2, <1>3, <1>8, <1>9, <1>11, <1>14, <1>15
  <2> QED  BY <2>1, <2>2, <1>3
<1>17. Chunks'
  <2>1. off10' <= size10'  BY <1>2, <1>8, <1>9
  <2> QED  BY <2>1, <1>2, <1>9, <1>10, <1>14, <1>16 DEF Chunks
<1>18. Copied'
  <2>1. /\ Len(dst10) <= off10 /\ \A i \in 1..Len(dst10) : dst10[i] \in {0, i}
        /\ \A i \in 1..off10 : Has(dst10, i) \/ Expected(i)
    BY <1>1, <1>2 DEF Copied, Batching
  <2>2. Len(dst10) \in Nat  BY <1>1 DEF UringTypeOK
  <2>3. Len(dst10') <= off10'  BY <2>1, <2>2, <1>2, <1>3, <1>8, <1>9
  <2>4. ASSUME NEW i \in 1..off10'  PROVE Has(dst10', i) \/ Expected(i)'
    <3>1. CASE i <= off10
      <4>1. Has(dst10, i) \/ Expected(i)  BY <2>1, <3>1, <1>3
      <4>2. CASE Has(dst10, i)  BY <4>2, <1>2
      <4>3. CASE Expected(i)
        <5>1. PICK t \in 1..pairs10 : at10[t] < i /\ i <= at10[t] + lens10[t]
          BY <4>3 DEF Expected
        <5>2. t \in 1..pairs10' /\ at10'[t] < i /\ i <= at10'[t] + lens10'[t]
          BY <5>1, <1>3, <1>9, <1>11
        <5> QED  BY <5>2, <1>9 DEF Expected, Unsure
      <4> QED  BY <4>1, <4>2, <4>3
    <3>2. CASE i > off10
      <4>1. s \in 1..pairs10' /\ at10'[s] < i /\ i <= at10'[s] + lens10'[s]
        BY <3>2, <1>3, <1>8, <1>9, <1>11
      <4> QED  BY <4>1, <1>9 DEF Expected, Unsure
    <3> QED  BY <3>1, <3>2, <1>3
  <2> QED  BY <2>1, <2>3, <2>4, <1>2 DEF Copied
<1>19. Ring10'  BY <1>2, <1>4, <1>5, <1>9 DEF Ring10
<1>20. Sound10'  BY <1>9 DEF Sound10
<1> QED  BY <1>12, <1>13, <1>17, <1>18, <1>19, <1>20 DEF UringInv

\* submit_and_wait: the batch goes to the kernel.
LEMMA SubmitInv == ASSUME UringInv, Submit PROVE UringInv'
<1> USE DEF Draining
<1>1. UringTypeOK /\ Ring10 /\ Chunks /\ Copied  BY DEF UringInv
<1>2. PICK k \in 1..(2 * pairs10) :
        /\ head10' = (head10 + k) % Wrap /\ op10' = Taken(k)
        /\ hurt10' = (hurt10 \/ k < 2 * pairs10)
  BY DEF Submit, Batch
<1>3. /\ pc10 = "fill" /\ pc10' = "drain" /\ need10' = 2 * pairs10 /\ ~short10'
      /\ src10' = src10 /\ dst10' = dst10 /\ size10' = size10 /\ off10' = off10
      /\ pairs10' = pairs10 /\ lens10' = lens10 /\ at10' = at10 /\ buf10' = buf10
      /\ cq10' = cq10 /\ tail10' = tail10
  BY DEF Submit, Batch, BatchReady
<1>4. cq10 = <<>>  BY <1>3, IdleOf
<1>5. pairs10 \in 0..KPairs /\ KPairs \in Nat /\ k \in Nat /\ k <= 2 * pairs10
  BY <1>1, UringAssumption DEF UringTypeOK
<1>6. head10' \in 0..(Wrap - 1) /\ (Whole10' <=> k = 2 * pairs10)
  <2>1. head10 \in 0..(Wrap - 1) /\ tail10 = (head10 + 2 * pairs10) % Wrap
    BY <1>1, <1>3 DEF Ring10
  <2> QED  BY <2>1, <1>2, <1>3, <1>5, HeadMoves DEF Whole10
<1>7. \A s \in Slots : /\ op10'[s] \in {{}, {"r", "lw"}, {"r"}}
                       /\ op10'[s] # {} => s <= pairs10
                       /\ op10'[s] = {"r"} => k # 2 * pairs10
                       /\ k = 2 * pairs10 /\ s <= pairs10 => op10'[s] # {}
  <2> SUFFICES ASSUME NEW s \in Slots
               PROVE  /\ op10'[s] \in {{}, {"r", "lw"}, {"r"}}
                      /\ op10'[s] # {} => s <= pairs10
                      /\ op10'[s] = {"r"} => k # 2 * pairs10
                      /\ k = 2 * pairs10 /\ s <= pairs10 => op10'[s] # {}
    OBVIOUS
  <2>1. op10'[s] = IF 2 * s <= k THEN {"r", "lw"} ELSE IF 2 * s - 1 = k THEN {"r"} ELSE {}
    BY <1>2 DEF Taken
  <2>2. s \in Nat  BY UringAssumption DEF Slots
  <2>3. /\ 2 * s <= k \/ 2 * s - 1 = k => s <= pairs10
        /\ 2 * s - 1 = k => k # 2 * pairs10
        /\ k = 2 * pairs10 /\ s <= pairs10 => 2 * s <= k
    BY <2>2, <1>5
  <2>4. {"r", "lw"} # {"r"} /\ {"r", "lw"} # {}  OBVIOUS
  <2> QED  BY <2>1, <2>3, <2>4
<1>8. UringTypeOK'
  <2>1. need10' \in Nat  BY <1>3, <1>5
  <2>2. op10' \in [Slots -> Ops10]
    <3>1. op10' = [s \in Slots |-> op10'[s]]  BY <1>2 DEF Taken
    <3>2. \A s \in Slots : op10'[s] \in Ops10  BY <1>7 DEF Ops10
    <3> QED  BY <3>1, <3>2
  <2> QED  BY <1>1, <1>3, <2>1, <2>2 DEF UringTypeOK
<1>9. Counted'
  <2>1. PICK o : o = op10'  OBVIOUS
  <2>2. k = 2 * pairs10 => Cardinality(InFlight(o)) = 2 * pairs10
    BY <2>1, <1>2, <1>5, FlightBatch
  <2>3. k # 2 * pairs10 => Cardinality(InFlight(o)) < 2 * pairs10
    <3> SUFFICES ASSUME k # 2 * pairs10  PROVE Cardinality(InFlight(Taken(k))) < 2 * pairs10
      BY <2>1, <1>2
    <3>1. k < 2 * pairs10  BY <1>5
    <3> QED  BY <3>1, <1>5, FlightPart
  <2>4. Len(cq10') = 0  BY <1>3, <1>4
  <2>5. Cardinality(InFlight(o)) \in Nat  BY FlightFinite
  <2>6. /\ Whole10' => need10' = Len(cq10') + Cardinality(InFlight(o))
        /\ ~Whole10' => need10' > Len(cq10') + Cardinality(InFlight(o))
    BY <2>2, <2>3, <2>4, <2>5, <1>3, <1>5, <1>6
  <2> QED  BY <2>1, <2>6 DEF Counted
<1>10. BuffersIdle' /\ CopiedRw' /\ CopyExact'  BY <1>3 DEF BuffersIdle, CopiedRw, CopyExact
<1>11. Chunks'
  <2>1. \A s \in Slots : op10'[s] # {} => s <= pairs10  BY <1>7
  <2>2. \A s \in Slots : op10'[s] # {"w"}
    <3>1. {"w"} \notin {{}, {"r", "lw"}, {"r"}}  OBVIOUS
    <3> QED  BY <3>1, <1>7
  <2>3. \A s \in Slots : op10'[s] = {"r"} => ~Whole10'  BY <1>6, <1>7
  <2>4. hurt10 => hurt10'  BY <1>2
  <2> QED  BY <1>1, <1>3, <2>1, <2>2, <2>3, <2>4 DEF Chunks, Batching
<1>12. Copied'
  <2>1. /\ Len(dst10) <= off10 /\ \A i \in 1..Len(dst10) : dst10[i] \in {0, i}
        /\ \A i \in 1..off10 : Has(dst10, i) \/ Expected(i)
    BY <1>1, <1>3 DEF Copied, Batching
  <2>2. ASSUME Whole10', NEW i \in 1..off10, Expected(i)  PROVE Expected(i)'
    <3>1. PICK t \in 1..pairs10 : at10[t] < i /\ i <= at10[t] + lens10[t]
      BY <2>2 DEF Expected
    <3>2. t \in Slots /\ t <= pairs10  BY <3>1, <1>5 DEF Slots
    <3>3. op10'[t] # {}  BY <2>2, <3>2, <1>6, <1>7
    <3> QED  BY <3>1, <3>3, <1>3 DEF Expected, Unsure
  <2> QED  BY <2>1, <2>2, <1>3 DEF Copied
<1>13. Ring10'  BY <1>3, <1>6 DEF Ring10
<1>14. Sound10'
  <2>1. hurt10 \/ Whole10' \/ hurt10'
    <3>1. k = 2 * pairs10 \/ k < 2 * pairs10  BY <1>5
    <3> QED  BY <3>1, <1>2, <1>6, Zenon
  <2>2. hurt10 => hurt10'  BY <1>2
  <2> QED  BY <2>1, <2>2, <1>3, <1>4 DEF Sound10
<1> QED  BY <1>8, <1>9, <1>10, <1>11, <1>12, <1>13, <1>14 DEF UringInv

\* A call fails, and with it the copy; a failing wait leaves its batch in flight.
LEMMA FailsInv == ASSUME UringInv, CallFails PROVE UringInv'
<1> USE DEF Draining
<1>1. /\ UringTypeOK /\ BuffersIdle /\ Counted /\ Chunks /\ Copied /\ CopiedRw /\ Ring10
  BY DEF UringInv
<1>2. /\ hurt10' = TRUE /\ src10' = src10 /\ size10' = size10 /\ off10' = off10
      /\ dst10' = dst10 /\ buf10' = buf10 /\ pairs10' = pairs10 /\ lens10' = lens10
      /\ at10' = at10 /\ op10' = op10 /\ head10' = head10 /\ tail10' = tail10
      /\ cq10' = cq10 /\ need10' = need10 /\ short10' = short10
  BY DEF CallFails, copyVars
<1>3. \/ pc10 \in {"read", "write", "fill"} /\ pc10' = "failed"
      \/ pc10 = "drain" /\ pc10' = "abandoned"
  BY DEF CallFails, BatchReady
<1>4. UringTypeOK'  BY <1>1, <1>2 DEF UringTypeOK
<1>5. BuffersIdle' /\ Counted'  BY <1>1, <1>2, <1>3 DEF BuffersIdle, Counted, Whole10
<1>6. Chunks'  BY <1>1, <1>2, <1>3 DEF Chunks, Batching, Whole10
<1>7. pc10' = "abandoned" => \A i : Expected(i)' <=> Expected(i)
  BY <1>2, <1>3 DEF Expected, Unsure
<1>8. Copied'  BY <1>1, <1>2, <1>3, <1>7 DEF Copied, Batching, Whole10
<1>9. CopiedRw' /\ Ring10' /\ Sound10' /\ CopyExact'
  BY <1>1, <1>2, <1>3 DEF CopiedRw, Ring10, Sound10, CopyExact
<1> QED  BY <1>4, <1>5, <1>6, <1>8, <1>9 DEF UringInv

\* Completions that are added leave what was unsure unsure.
LEMMA UnsureStays ==
  ASSUME NEW q \in Seq(Slots \X Int), pc10 # "fill", pc10' = pc10, lens10' = lens10,
         cq10' = q, cq10 \in Seq(Slots \X Int), Len(q) >= Len(cq10),
         \A j \in 1..Len(cq10) : q[j] = cq10[j],
         NEW t, Unsure(t), op10'[t] = op10[t]
  PROVE  Unsure(t)'
<1>1. CASE op10[t] # {}  BY <1>1 DEF Unsure
<1>2. CASE op10[t] = {}
  <2>1. PICK j \in 1..Len(cq10) : cq10[j][1] = t /\ cq10[j][2] # lens10[t]  BY <1>2 DEF Unsure
  <2>2. j \in 1..Len(q) /\ q[j][1] = t /\ q[j][2] # lens10[t]  BY <2>1
  <2> QED  BY <2>2 DEF Unsure
<1> QED  BY <1>1, <1>2

\* The kernel completes a read, and with it the write it cancels.
LEMMA KernelReadsInv == ASSUME UringInv, NEW s \in Slots, KernelReads(s) PROVE UringInv'
<1> USE DEF Draining
<1>1. UringTypeOK /\ Ring10 /\ Chunks /\ Copied /\ Counted /\ Sound10  BY DEF UringInv
<1>2. /\ pc10' = pc10 /\ src10' = src10 /\ dst10' = dst10 /\ size10' = size10 /\ off10' = off10
      /\ pairs10' = pairs10 /\ lens10' = lens10 /\ at10' = at10 /\ head10' = head10
      /\ tail10' = tail10 /\ need10' = need10 /\ short10' = short10 /\ hurt10' = hurt10
  BY DEF KernelReads
<1>3. op10[s] = {"r", "lw"} \/ op10[s] = {"r"}
  BY <1>1 DEF KernelReads, UringTypeOK, Ops10
<1>4. Draining
  <2>1. op10[s] # {}  BY <1>3
  <2> QED  BY <2>1, IdleOf
<1>0. op10 \in [Slots -> Ops10] /\ need10 \in Nat  BY <1>1 DEF UringTypeOK
<1>5. /\ {src10, size10, off10} \subseteq Nat /\ lens10[s] \in Nat /\ at10[s] \in Nat
      /\ cq10 \in Seq(Slots \X Int)
      /\ buf10 \in [Slots -> Seq(Nat)]
  BY <1>1 DEF UringTypeOK
<1> DEFINE m == IF lens10[s] <= src10 - at10[s] THEN lens10[s] ELSE src10 - at10[s]
           n == IF 0 >= m THEN 0 ELSE m
<1>6. Max({0, Min({lens10[s], src10 - at10[s]})}) = n
  <2>1. lens10[s] \in Int /\ src10 - at10[s] \in Int  BY <1>5
  <2>2. Min({lens10[s], src10 - at10[s]}) = m  BY <2>1, MinMax, Zenon
  <2>3. m \in Int /\ 0 \in Int  BY <2>1
  <2>4. Max({0, m}) = n  BY <2>3, MinMax, Zenon
  <2> QED  BY <2>2, <2>4
<1>7. n \in Nat /\ (at10[s] + lens10[s] <= src10 => n = lens10[s])
  <2>1. PICK c \in Nat, a \in Nat, l \in Nat : c = src10 /\ a = at10[s] /\ l = lens10[s]
    BY <1>5
  <2> QED  BY <2>1
<1> HIDE DEF n, m
<1> DEFINE linked == op10[s] = {"r", "lw"}
           last == ~(linked /\ n # lens10[s])
<1>8. /\ buf10' = [buf10 EXCEPT ![s] = Units(at10[s], n)]
      /\ op10' = [op10 EXCEPT ![s] = IF linked /\ n = lens10[s] THEN {"w"} ELSE {}]
      /\ cq10' = cq10 \o <<<<s, n>>>> \o IF last THEN <<>> ELSE <<<<s, -1>>>>
  <2>1. /\ ("lw" \in op10[s]) <=> linked
        /\ ~linked => op10[s] \ {"r"} = {}
    BY <1>3
  <2>2. op10' = [op10 EXCEPT ![s] = IF linked /\ n = lens10[s] THEN {"w"} ELSE {}]
    BY <2>1, <1>0, <1>5, <1>6 DEF KernelReads
  <2>3. cq10' = cq10 \o <<<<s, n>>>> \o IF last THEN <<>> ELSE <<<<s, -1>>>>
    BY <2>1, <1>5, <1>6 DEF KernelReads
  <2>4. buf10' = [buf10 EXCEPT ![s] = Units(at10[s], n)]  BY <1>6 DEF KernelReads
  <2> QED  BY <2>2, <2>3, <2>4
<1>9. PICK q \in Seq(Slots \X Int) :
        /\ q = cq10' /\ Len(q) = Len(cq10) + (IF last THEN 1 ELSE 2)
        /\ q[Len(cq10) + 1] = <<s, n>> /\ \A j \in 1..Len(cq10) : q[j] = cq10[j]
  <2>1. <<s, n>> \in Slots \X Int /\ <<s, -1>> \in Slots \X Int  BY <1>7
  <2>2. PICK x \in Slots \X Int, y \in Slots \X Int : x = <<s, n>> /\ y = <<s, -1>>  BY <2>1
  <2>3. PICK c \in Seq(Slots \X Int) : c = cq10  BY <1>5
  <2>4. CASE last
    <3>1. cq10' = c \o <<x>> \o <<>>  BY <2>2, <2>3, <2>4, <1>8
    <3>2. /\ c \o <<x>> \o <<>> \in Seq(Slots \X Int) /\ Len(c \o <<x>> \o <<>>) = Len(c) + 1
          /\ (c \o <<x>> \o <<>>)[Len(c) + 1] = x
          /\ \A j \in 1..Len(c) : (c \o <<x>> \o <<>>)[j] = c[j]
      BY ONLY c \in Seq(Slots \X Int), x \in Slots \X Int
    <3> QED  BY <3>1, <3>2, <2>2, <2>3, <2>4
  <2>5. CASE ~last
    <3>1. cq10' = c \o <<x>> \o <<y>>  BY <2>2, <2>3, <2>5, <1>8
    <3>2. /\ c \o <<x>> \o <<y>> \in Seq(Slots \X Int) /\ Len(c \o <<x>> \o <<y>>) = Len(c) + 2
          /\ (c \o <<x>> \o <<y>>)[Len(c) + 1] = x
          /\ \A j \in 1..Len(c) : (c \o <<x>> \o <<y>>)[j] = c[j]
      BY ONLY c \in Seq(Slots \X Int), x \in Slots \X Int, y \in Slots \X Int
    <3> QED  BY <3>1, <3>2, <2>2, <2>3, <2>5
  <2> QED  BY <2>4, <2>5
<1>10. Len(cq10) \in Nat  BY <1>5
<1>11. /\ op10' \in [Slots -> Ops10]
       /\ op10'[s] = (IF linked /\ n = lens10[s] THEN {"w"} ELSE {})
       /\ \A t \in Slots \ {s} : op10'[t] = op10[t]
  BY <1>0, <1>8 DEF Ops10
<1>12. /\ buf10' \in [Slots -> Seq(Nat)] /\ buf10'[s] = Units(at10[s], n)
       /\ \A t \in Slots \ {s} : buf10'[t] = buf10[t]
  <2>1. Units(at10[s], n) \in Seq(Nat)  BY <1>5, <1>7, UnitsSeq
  <2> QED  BY <1>5, <1>8, <2>1
<1>13. UringTypeOK'  BY <1>1, <1>2, <1>9, <1>11, <1>12 DEF UringTypeOK
<1>14. BuffersIdle' /\ CopiedRw' /\ CopyExact'
  BY <1>2, <1>4 DEF BuffersIdle, CopiedRw, CopyExact
<1>15. Counted'
  <2>1. /\ Whole10 => need10 = Len(cq10) + Cardinality(InFlight(op10))
        /\ ~Whole10 => need10 > Len(cq10) + Cardinality(InFlight(op10))
        /\ Cardinality(InFlight(op10)) \in Nat
    BY <1>1, <1>4, FlightFinite DEF Counted
  <2>2. Cardinality(InFlight(op10')) = Cardinality(InFlight(op10)) - (IF last THEN 1 ELSE 2)
    <3>1. CASE linked
      <4>1. /\ Cardinality(InFlight([op10 EXCEPT ![s] = {"w"}])) = Cardinality(InFlight(op10)) - 1
            /\ Cardinality(InFlight([op10 EXCEPT ![s] = {}])) = Cardinality(InFlight(op10)) - 2
        BY <3>1, <1>0, FlightRead
      <4>2. CASE n = lens10[s]
        <5>1. op10' = [op10 EXCEPT ![s] = {"w"}]  BY <3>1, <4>2, <1>8
        <5> QED  BY <5>1, <4>1, <4>2
      <4>3. CASE n # lens10[s]
        <5>1. op10' = [op10 EXCEPT ![s] = {}]  BY <4>3, <1>8
        <5> QED  BY <5>1, <3>1, <4>1, <4>3
      <4> QED  BY <4>2, <4>3
    <3>2. CASE ~linked
      <4>1. op10[s] = {"r"}  BY <3>2, <1>3
      <4>2. Cardinality(InFlight([op10 EXCEPT ![s] = {}])) = Cardinality(InFlight(op10)) - 1
        BY <4>1, <1>0, FlightLone
      <4>3. op10' = [op10 EXCEPT ![s] = {}]  BY <3>2, <1>8
      <4> QED  BY <3>2, <4>2, <4>3
    <3> QED  BY <3>1, <3>2
  <2>3. /\ Whole10 => need10' = Len(cq10') + Cardinality(InFlight(op10'))
        /\ ~Whole10 => need10' > Len(cq10') + Cardinality(InFlight(op10'))
    <3>1. PICK f \in Nat, c \in Nat, d \in Nat :
            /\ f = Cardinality(InFlight(op10)) /\ c = Len(cq10) /\ d = need10
      BY <2>1, <1>0, <1>10
    <3>2. PICK x \in {1, 2} : x = IF last THEN 1 ELSE 2  OBVIOUS
    <3>3. Len(cq10') = c + x  BY <3>1, <3>2, <1>9
    <3>4. Cardinality(InFlight(op10')) = f - x  BY <3>1, <3>2, <2>2
    <3>5. (Whole10 => d = c + f) /\ (~Whole10 => d > c + f)  BY <2>1, <3>1
    <3>6. (c + x) + (f - x) = c + f  BY <3>1, <3>2
    <3> QED  BY <3>1, <3>3, <3>4, <3>5, <3>6, <1>2
  <2> QED  BY <2>3, <1>2 DEF Counted, Whole10
<1>16. /\ off10 <= size10 /\ (hurt10 \/ size10 = src10) /\ s \in 1..pairs10
       /\ \A t \in 1..pairs10 : lens10[t] >= 1 /\ at10[t] + lens10[t] <= off10
       /\ \A t \in Slots : op10[t] # {} => t <= pairs10
       /\ \A t \in Slots : op10[t] = {"w"} => buf10[t] = Units(at10[t], lens10[t])
       /\ \A t \in Slots : op10[t] = {"r"} => ~Whole10
  <2>1. op10[s] # {}  BY <1>3
  <2>2. Batching  BY <1>4 DEF Batching
  <2>3. s <= pairs10  BY <1>1, <2>1, <2>2 DEF Chunks
  <2>4. s \in 1..pairs10  BY <1>1, <2>3, SlotPairs
  <2> QED  BY <1>1, <2>2, <2>4 DEF Chunks
<1>17. Chunks'
  <2>1. \A t \in Slots : op10'[t] # {} => t <= pairs10
    <3>1. s <= pairs10  BY <1>16
    <3>2. \A t \in Slots : op10[t] # {} => t <= pairs10  BY <1>16
    <3>3. \A t \in Slots : t # s => op10'[t] = op10[t]  BY <1>11
    <3> QED  BY <3>1, <3>2, <3>3
  <2>2. \A t \in Slots : op10'[t] = {"w"} => buf10'[t] = Units(at10[t], lens10[t])
    <3> SUFFICES ASSUME NEW t \in Slots, op10'[t] = {"w"}
                 PROVE  buf10'[t] = Units(at10[t], lens10[t])
      OBVIOUS
    <3>1. CASE t = s
      <4>1. linked /\ n = lens10[s]  BY <3>1, <1>11
      <4> QED  BY <3>1, <4>1, <1>12
    <3>2. CASE t # s  BY <3>2, <1>11, <1>12, <1>16
    <3> QED  BY <3>1, <3>2
  <2>3. \A t \in Slots : op10'[t] = {"r"} => ~Whole10
    <3> SUFFICES ASSUME NEW t \in Slots, op10'[t] = {"r"}  PROVE ~Whole10
      OBVIOUS
    <3>1. {"w"} # {"r"} /\ {} # {"r"}  OBVIOUS
    <3>2. t # s  BY <3>1, <1>11
    <3> QED  BY <3>2, <1>11, <1>16
  <2> QED  BY <2>1, <2>2, <2>3, <1>2, <1>16 DEF Chunks, Whole10
<1>18. ASSUME Whole10, NEW t \in Slots, Unsure(t)  PROVE Unsure(t)'
  <2>0. linked  BY <1>18, <1>3, <1>16
  <2>1. CASE t = s
    <3>1. CASE n = lens10[s]
      <4>1. op10'[t] # {}  BY <2>0, <2>1, <3>1, <1>11
      <4> QED  BY <4>1 DEF Unsure
    <3>2. CASE n # lens10[s]
      <4>1. Len(cq10) + 1 \in 1..Len(q) /\ q[Len(cq10) + 1][1] = t /\ q[Len(cq10) + 1][2] # lens10[t]
        BY <2>1, <3>2, <1>9, <1>10
      <4> QED  BY <4>1, <1>2, <1>9 DEF Unsure
    <3> QED  BY <3>1, <3>2
  <2>2. CASE t # s
    <3>1. op10'[t] = op10[t] /\ Len(q) >= Len(cq10)  BY <2>2, <1>9, <1>10, <1>11
    <3> QED  BY <3>1, <1>2, <1>4, <1>5, <1>9, <1>18, UnsureStays
  <2> QED  BY <2>1, <2>2
<1>19. Copied'
  <2>1. ASSUME Whole10, NEW i \in 1..off10, Expected(i)  PROVE Expected(i)'
    <3>1. PICK t \in 1..pairs10 : at10[t] < i /\ i <= at10[t] + lens10[t] /\ Unsure(t)
      BY <2>1 DEF Expected
    <3>2. t \in Slots  BY <1>1, PairSlots
    <3>3. Unsure(t)'  BY <2>1, <3>1, <3>2, <1>18
    <3> QED  BY <3>1, <3>3, <1>2 DEF Expected
  <2> QED  BY <2>1, <1>1, <1>2, <1>4 DEF Copied, Batching, Whole10
<1>20. Ring10'  BY <1>1, <1>2 DEF Ring10
<1>21. Sound10'
  <2> SUFFICES ASSUME ~hurt10  PROVE ~short10 /\ \A j \in 1..Len(q) : q[j][2] = lens10[q[j][1]]
    BY <1>1, <1>2, <1>4, <1>9 DEF Sound10, Whole10
  <2>1. ~short10 /\ \A j \in 1..Len(cq10) : cq10[j][2] = lens10[cq10[j][1]]
    BY <1>1, <1>4 DEF Sound10
  <2>2. at10[s] + lens10[s] <= off10 /\ off10 <= src10  BY <1>16
  <2>3. n = lens10[s]  BY <2>2, <1>5, <1>7
  <2>4. Len(q) = Len(cq10) + 1 /\ q[Len(cq10) + 1][1] = s /\ q[Len(cq10) + 1][2] = lens10[s]
    BY <2>3, <1>9
  <2>5. ASSUME NEW j \in 1..Len(q)  PROVE q[j][2] = lens10[q[j][1]]
    <3>1. CASE j = Len(cq10) + 1  BY <3>1, <2>4
    <3>2. CASE j \in 1..Len(cq10)  BY <3>2, <2>1, <1>9
    <3> QED  BY <3>1, <3>2, <2>4, <1>10
  <2> QED  BY <2>1, <2>5
<1> QED  BY <1>13, <1>14, <1>15, <1>17, <1>19, <1>20, <1>21 DEF UringInv

\* The kernel writes a chunk, or all but a unit of it.
LEMMA KernelWritesInv == ASSUME UringInv, NEW s \in Slots, KernelWrites(s) PROVE UringInv'
<1> USE DEF Draining
<1>1. UringTypeOK /\ Ring10 /\ Chunks /\ Copied /\ Counted /\ Sound10  BY DEF UringInv
<1>2. /\ pc10' = pc10 /\ src10' = src10 /\ size10' = size10 /\ off10' = off10
      /\ pairs10' = pairs10 /\ lens10' = lens10 /\ at10' = at10 /\ buf10' = buf10
      /\ head10' = head10 /\ tail10' = tail10 /\ need10' = need10 /\ short10' = short10
  BY DEF KernelWrites
<1>3. op10[s] = {"w"}
  <2>1. "w" \in op10[s] /\ op10[s] \in Ops10  BY <1>1 DEF KernelWrites, UringTypeOK
  <2>2. op10[s] \in {{}, {"r", "lw"}, {"w"}, {"r"}}  BY <2>1 DEF Ops10
  <2> QED  BY <2>1, <2>2
<1>4. Draining
  <2>1. op10[s] # {}  BY <1>3
  <2> QED  BY <2>1, IdleOf
<1>0. op10 \in [Slots -> Ops10] /\ need10 \in Nat  BY <1>1 DEF UringTypeOK
<1>5. /\ {src10, size10, off10} \subseteq Nat /\ lens10[s] \in Nat /\ at10[s] \in Nat
      /\ cq10 \in Seq(Slots \X Int)
      /\ dst10 \in Seq(Nat) /\ buf10[s] \in Seq(Nat)
  BY <1>1 DEF UringTypeOK
<1>6. /\ off10 <= size10 /\ (hurt10 \/ size10 = src10) /\ s \in 1..pairs10
      /\ \A t \in 1..pairs10 : lens10[t] >= 1 /\ at10[t] + lens10[t] <= off10
      /\ \A t \in Slots : op10[t] # {} => t <= pairs10
      /\ \A t \in Slots : op10[t] = {"w"} => buf10[t] = Units(at10[t], lens10[t])
      /\ \A t \in Slots : op10[t] = {"r"} => ~Whole10
  <2>1. op10[s] # {}  BY <1>3
  <2>2. Batching  BY <1>4 DEF Batching
  <2>3. s <= pairs10  BY <1>1, <2>1, <2>2 DEF Chunks
  <2>4. s \in 1..pairs10  BY <1>1, <2>3, SlotPairs
  <2> QED  BY <1>1, <2>2, <2>4 DEF Chunks
<1>7. PICK a \in Nat, l \in Nat : a = at10[s] /\ l = lens10[s] /\ l >= 1 /\ a + l <= off10
  BY <1>5, <1>6
<1> DEFINE b == [i \in 1..l |-> IF i <= Len(buf10[s]) THEN buf10[s][i] ELSE 0]
<1>8. b = Units(a, l)
  <2>1. buf10[s] = Units(a, l)  BY <1>3, <1>6, <1>7
  <2>2. Len(Units(a, l)) = l /\ \A i \in 1..l : Units(a, l)[i] = a + i  BY UnitsSeq
  <2>3. Len(buf10[s]) = l /\ \A i \in 1..l : buf10[s][i] = a + i  BY <2>1, <2>2
  <2>4. b = [i \in 1..l |-> a + i]  BY <2>3
  <2> QED  BY <2>4 DEF Units
<1>9. /\ op10' = [op10 EXCEPT ![s] = {}]
      /\ \E w \in {l, l - 1} :
           /\ WriteAt(a, SubSeq(Units(a, l), 1, w)) /\ cq10' = Append(cq10, <<s, w>>)
           /\ hurt10' = (hurt10 \/ w # l)
  <2>1. {"w"} \ {"w"} = {}  OBVIOUS
  <2>2. op10' = [op10 EXCEPT ![s] = {}]  BY <2>1, <1>0, <1>3 DEF KernelWrites
  <2>3. \E w \in {l, l - 1} :
          /\ WriteAt(a, SubSeq(b, 1, w)) /\ cq10' = Append(cq10, <<s, w>>)
          /\ hurt10' = (hurt10 \/ w # l)
    BY <1>7 DEF KernelWrites
  <2> QED  BY <2>2, <2>3, <1>8
<1>10. PICK w \in Nat : /\ w \in {l, l - 1} /\ WriteAt(a, SubSeq(Units(a, l), 1, w))
                        /\ cq10' = Append(cq10, <<s, w>>) /\ hurt10' = (hurt10 \/ w # l)
  <2>1. l - 1 \in Nat  BY <1>7
  <2> QED  BY <1>9, <2>1
<1>11. PICK u \in Seq(Nat) :
         u = SubSeq(Units(a, l), 1, w) /\ Len(u) = w /\ \A i \in 1..w : u[i] = a + i
  <2>1. PICK c \in Seq(Nat) : c = Units(a, l) /\ Len(c) = l /\ \A i \in 1..l : c[i] = a + i
    BY UnitsSeq
  <2>2. w <= l  BY <1>7, <1>10
  <2>3. SubSeq(c, 1, w) \in Seq(Nat) /\ Len(SubSeq(c, 1, w)) = w
        /\ \A i \in 1..w : SubSeq(c, 1, w)[i] = c[i]
    BY <2>1, <2>2
  <2>4. PICK u \in Seq(Nat) : u = SubSeq(c, 1, w)  BY <2>3
  <2>5. Len(u) = w /\ \A i \in 1..w : u[i] = a + i  BY <2>1, <2>2, <2>3, <2>4
  <2> QED  BY <2>1, <2>4, <2>5
<1>12. PICK e \in Seq(Nat) :
         /\ e = dst10' /\ Len(e) = IF Len(dst10) >= a + w THEN Len(dst10) ELSE a + w
         /\ \A i \in 1..Len(e) :
              e[i] = IF i > a /\ i <= a + w THEN i ELSE IF i <= Len(dst10) THEN dst10[i] ELSE 0
  <2>1. dst10' = Patched(dst10, a, u)  BY <1>10, <1>11 DEF WriteAt, Patched
  <2>2. PICK e : e = Patched(dst10, a, u)  OBVIOUS
  <2>3. /\ e \in Seq(Nat) /\ Len(e) = IF Len(dst10) >= a + Len(u) THEN Len(dst10) ELSE a + Len(u)
        /\ \A i \in 1..Len(e) :
             e[i] = IF i > a /\ i <= a + Len(u) THEN u[i - a]
                    ELSE IF i <= Len(dst10) THEN dst10[i] ELSE 0
    <3>1. PICK d \in Seq(Nat) : d = dst10  BY <1>5
    <3> QED  BY <3>1, <2>2, Written
  <2>4. ASSUME NEW i \in 1..Len(e), i > a, i <= a + w  PROVE u[i - a] = i
    <3>1. i - a \in 1..w  BY <2>4
    <3> QED  BY <3>1, <1>11
  <2>5. \A i \in 1..Len(e) :
          e[i] = IF i > a /\ i <= a + w THEN i ELSE IF i <= Len(dst10) THEN dst10[i] ELSE 0
    BY <2>3, <2>4, <1>11
  <2> QED  BY <2>1, <2>2, <2>3, <2>5, <1>11
<1>13. PICK q \in Seq(Slots \X Int) :
         /\ q = cq10' /\ Len(q) = Len(cq10) + 1 /\ q[Len(cq10) + 1] = <<s, w>>
         /\ \A j \in 1..Len(cq10) : q[j] = cq10[j]
  <2>1. PICK x \in Slots \X Int : x = <<s, w>>
    <3>1. <<s, w>> \in Slots \X Int  OBVIOUS
    <3> QED  BY <3>1
  <2>2. PICK c \in Seq(Slots \X Int) : c = cq10  BY <1>5
  <2>3. /\ Append(c, x) \in Seq(Slots \X Int) /\ Len(Append(c, x)) = Len(c) + 1
        /\ Append(c, x)[Len(c) + 1] = x /\ \A j \in 1..Len(c) : Append(c, x)[j] = c[j]
    BY ONLY c \in Seq(Slots \X Int), x \in Slots \X Int
  <2> QED  BY <1>10, <2>1, <2>2, <2>3
<1>14. Len(cq10) \in Nat /\ Len(dst10) \in Nat
  <2>1. PICK c \in Seq(Slots \X Int), d \in Seq(Nat) : c = cq10 /\ d = dst10  BY <1>5
  <2> QED  BY <2>1
<1>15. /\ op10' \in [Slots -> Ops10] /\ op10'[s] = {}
       /\ \A t \in Slots \ {s} : op10'[t] = op10[t]
  BY <1>0, <1>9 DEF Ops10
<1>16. UringTypeOK'  BY <1>1, <1>2, <1>12, <1>13, <1>15 DEF UringTypeOK
<1>17. BuffersIdle' /\ CopiedRw' /\ CopyExact'
  BY <1>2, <1>4 DEF BuffersIdle, CopiedRw, CopyExact
<1>18. Counted'
  <2>1. /\ Whole10 => need10 = Len(cq10) + Cardinality(InFlight(op10))
        /\ ~Whole10 => need10 > Len(cq10) + Cardinality(InFlight(op10))
        /\ Cardinality(InFlight(op10)) \in Nat
    BY <1>1, <1>4, FlightFinite DEF Counted
  <2>2. Cardinality(InFlight([op10 EXCEPT ![s] = {}])) = Cardinality(InFlight(op10)) - 1
    BY <1>3, <1>0, FlightLone
  <2>3. Cardinality(InFlight(op10')) = Cardinality(InFlight(op10)) - 1  BY <2>2, <1>9
  <2>4. /\ Whole10 => need10' = Len(cq10') + Cardinality(InFlight(op10'))
        /\ ~Whole10 => need10' > Len(cq10') + Cardinality(InFlight(op10'))
    <3>1. PICK f \in Nat, c \in Nat, d \in Nat :
            /\ f = Cardinality(InFlight(op10)) /\ c = Len(cq10) /\ d = need10
      BY <2>1, <1>0, <1>14
    <3>2. Len(cq10') = c + 1  BY <3>1, <1>13
    <3>3. Cardinality(InFlight(op10')) = f - 1  BY <3>1, <2>3
    <3>4. (Whole10 => d = c + f) /\ (~Whole10 => d > c + f)  BY <2>1, <3>1
    <3>5. (c + 1) + (f - 1) = c + f  BY <3>1
    <3> QED  BY <3>1, <3>2, <3>3, <3>4, <3>5, <1>2
  <2> QED  BY <2>4, <1>2 DEF Counted, Whole10
<1>19. Chunks'
  <2>1. \A t \in Slots : op10'[t] # {} => t <= pairs10  BY <1>6, <1>15
  <2>2. \A t \in Slots : op10'[t] = {"w"} => buf10[t] = Units(at10[t], lens10[t])
    BY <1>6, <1>15
  <2>3. hurt10' \/ size10 = src10  BY <1>6, <1>10
  <2>4. \A t \in Slots : op10'[t] = {"r"} => ~Whole10  BY <1>6, <1>15
  <2> QED  BY <2>1, <2>2, <2>3, <2>4, <1>2, <1>6 DEF Chunks, Whole10
<1>20. Copied'
  <2>1. /\ Len(dst10) <= off10 /\ \A i \in 1..Len(dst10) : dst10[i] \in {0, i}
        /\ short10 \/ ~Whole10 \/ \A i \in 1..off10 : Has(dst10, i) \/ Expected(i)
    BY <1>1, <1>4 DEF Copied, Batching
  <2>2. Len(e) <= off10
    <3>1. w <= l  BY <1>7, <1>10
    <3>2. PICK o \in Nat : o = off10 /\ a + l <= o  BY <1>5, <1>7
    <3>3. Len(e) \in {Len(dst10), a + w}  BY <1>12
    <3> QED  BY <3>1, <3>2, <3>3, <2>1, <1>14
  <2>3. \A i \in 1..Len(e) : e[i] \in {0, i}  BY <2>1, <1>12, <1>14
  <2>4. ASSUME NEW i \in 1..off10, Has(dst10, i)  PROVE Has(e, i)
    <3>1. i <= Len(dst10) /\ dst10[i] = i  BY <2>4 DEF Has
    <3>2. i \in 1..Len(e)  BY <3>1, <1>5, <1>12, <1>14
    <3>3. e[i] = i  BY <3>1, <3>2, <1>12
    <3> QED  BY <3>2, <3>3 DEF Has
  <2>5. ASSUME NEW i \in 1..off10, Expected(i)  PROVE Has(e, i) \/ Expected(i)'
    <3>1. PICK t \in 1..pairs10 : at10[t] < i /\ i <= at10[t] + lens10[t] /\ Unsure(t)
      BY <2>5 DEF Expected
    <3>2. t \in Slots  BY <1>1, PairSlots
    <3>3. CASE t # s
      <4>1. op10'[t] = op10[t] /\ Len(q) >= Len(cq10)  BY <3>2, <3>3, <1>13, <1>14, <1>15
      <4>2. Unsure(t)'  BY <4>1, <3>1, <1>2, <1>4, <1>5, <1>13, UnsureStays
      <4> QED  BY <4>2, <3>1, <1>2 DEF Expected
    <3>4. CASE t = s /\ w = l
      <4>1. i > a /\ i <= a + w  BY <3>1, <3>4, <1>7
      <4>2. i \in 1..Len(e)  BY <4>1, <1>5, <1>12, <1>14
      <4>3. e[i] = i  BY <4>1, <4>2, <1>12
      <4> QED  BY <4>2, <4>3 DEF Has
    <3>5. CASE t = s /\ w # l
      <4>1. /\ Len(cq10) + 1 \in 1..Len(q) /\ q[Len(cq10) + 1][1] = t
            /\ q[Len(cq10) + 1][2] # lens10[t]
        BY <3>5, <1>7, <1>13, <1>14
      <4>2. Unsure(t)'  BY <4>1, <1>2, <1>13 DEF Unsure
      <4> QED  BY <4>2, <3>1, <1>2 DEF Expected
    <3> QED  BY <3>3, <3>4, <3>5
  <2>6. short10 \/ ~Whole10 \/ \A i \in 1..off10 : Has(e, i) \/ Expected(i)'
    BY <2>1, <2>4, <2>5
  <2> QED  BY <2>2, <2>3, <2>6, <1>2, <1>4, <1>12 DEF Copied, Whole10
<1>21. Ring10'  BY <1>1, <1>2 DEF Ring10
<1>22. Sound10'
  <2> SUFFICES ASSUME ~hurt10, w = l
               PROVE  ~short10 /\ \A j \in 1..Len(q) : q[j][2] = lens10[q[j][1]]
    BY <1>1, <1>2, <1>4, <1>10, <1>13 DEF Sound10, Whole10
  <2>1. ~short10 /\ \A j \in 1..Len(cq10) : cq10[j][2] = lens10[cq10[j][1]]
    BY <1>1, <1>4 DEF Sound10
  <2>2. q[Len(cq10) + 1][1] = s /\ q[Len(cq10) + 1][2] = lens10[s]  BY <1>7, <1>13
  <2>3. ASSUME NEW j \in 1..Len(q)  PROVE q[j][2] = lens10[q[j][1]]
    <3>1. CASE j = Len(cq10) + 1  BY <3>1, <2>2
    <3>2. CASE j \in 1..Len(cq10)
      <4>1. q[j] = cq10[j]  BY <3>2, <1>13
      <4> QED  BY <3>2, <4>1, <2>1
    <3> QED  BY <3>1, <3>2, <1>13, <1>14
  <2> QED  BY <2>1, <2>3
<1> QED  BY <1>16, <1>17, <1>18, <1>19, <1>20, <1>21, <1>22 DEF UringInv

\* A completion is taken.
LEMMA TakeCqeInv == ASSUME UringInv, TakeCqe PROVE UringInv'
<1> USE DEF Draining
<1>1. UringTypeOK /\ Ring10 /\ Chunks /\ Copied /\ Counted /\ Sound10  BY DEF UringInv
<1>2. /\ pc10 = "drain" /\ pc10' = pc10 /\ src10' = src10 /\ size10' = size10 /\ off10' = off10
      /\ dst10' = dst10 /\ pairs10' = pairs10 /\ lens10' = lens10 /\ at10' = at10
      /\ buf10' = buf10 /\ op10' = op10 /\ head10' = head10 /\ tail10' = tail10
      /\ hurt10' = hurt10 /\ need10 > 0 /\ need10' = need10 - 1 /\ cq10 # <<>>
      /\ cq10' = Tail(cq10) /\ short10' = (short10 \/ cq10[1][2] # lens10[cq10[1][1]])
  BY DEF TakeCqe
<1>3. need10 \in Nat /\ cq10 \in Seq(Slots \X Int)  BY <1>1 DEF UringTypeOK
<1>4. PICK q \in Seq(Slots \X Int) :
        /\ q = cq10' /\ Len(cq10) \in Nat \ {0} /\ Len(q) = Len(cq10) - 1
        /\ \A j \in 1..Len(q) : q[j] = cq10[j + 1]
  <2>1. PICK c \in Seq(Slots \X Int) : c = cq10 /\ c # <<>>  BY <1>2, <1>3
  <2>2. /\ Tail(c) \in Seq(Slots \X Int) /\ Len(c) \in Nat \ {0} /\ Len(Tail(c)) = Len(c) - 1
        /\ \A j \in 1..Len(Tail(c)) : Tail(c)[j] = c[j + 1]
    BY <2>1
  <2> QED  BY <1>2, <2>1, <2>2
<1>5. UringTypeOK'
  <2>1. need10' \in Nat  BY <1>2, <1>3
  <2> QED  BY <1>1, <1>2, <1>4, <2>1 DEF UringTypeOK
<1>6. Counted'
  <2>1. /\ Whole10 => need10 = Len(cq10) + Cardinality(InFlight(op10))
        /\ ~Whole10 => need10 > Len(cq10) + Cardinality(InFlight(op10))
        /\ Cardinality(InFlight(op10)) \in Nat
    BY <1>1, <1>2, FlightFinite DEF Counted
  <2>2. /\ Whole10 => need10' = Len(cq10') + Cardinality(InFlight(op10'))
        /\ ~Whole10 => need10' > Len(cq10') + Cardinality(InFlight(op10'))
    <3>1. PICK f \in Nat : f = Cardinality(InFlight(op10))  BY <2>1
    <3>2. PICK c \in Nat : c = Len(cq10)  BY <1>4
    <3>3. Len(cq10') = c - 1 /\ need10' = need10 - 1 /\ Cardinality(InFlight(op10')) = f
      BY <3>1, <3>2, <1>2, <1>4
    <3>4. (Whole10 => need10 = c + f) /\ (~Whole10 => need10 > c + f)  BY <2>1, <3>1, <3>2
    <3> QED  BY <3>3, <3>4, <1>3
  <2> QED  BY <2>2, <1>2 DEF Counted, Whole10
<1>7. BuffersIdle' /\ CopiedRw' /\ CopyExact'
  BY <1>2 DEF BuffersIdle, CopiedRw, CopyExact
<1>8. Chunks'  BY <1>1, <1>2 DEF Chunks, Batching, Whole10
<1>9. Copied'
  <2>1. /\ Len(dst10) <= off10 /\ \A i \in 1..Len(dst10) : dst10[i] \in {0, i}
        /\ short10 \/ ~Whole10 \/ \A i \in 1..off10 : Has(dst10, i) \/ Expected(i)
    BY <1>1, <1>2 DEF Copied, Batching
  <2>2. ASSUME NEW i \in 1..off10, Expected(i), ~short10'  PROVE Expected(i)'
    <3>1. PICK t \in 1..pairs10 : at10[t] < i /\ i <= at10[t] + lens10[t] /\ Unsure(t)
      BY <2>2 DEF Expected
    <3>2. CASE op10[t] # {}
      <4>1. Unsure(t)'  BY <3>2, <1>2 DEF Unsure
      <4> QED  BY <4>1, <3>1, <1>2 DEF Expected
    <3>3. CASE op10[t] = {}
      <4>1. PICK j \in 1..Len(cq10) : cq10[j][1] = t /\ cq10[j][2] # lens10[t]
        BY <3>1, <3>3, <1>2 DEF Unsure
      <4>2. j # 1  BY <4>1, <2>2, <1>2
      <4>3. j - 1 \in 1..Len(q) /\ q[j - 1] = cq10[j]  BY <4>2, <1>4
      <4>4. Unsure(t)'  BY <4>1, <4>3, <1>2, <1>4 DEF Unsure
      <4> QED  BY <4>4, <3>1, <1>2 DEF Expected
    <3> QED  BY <3>2, <3>3
  <2>3. short10 => short10'  BY <1>2
  <2>4. short10' \/ ~Whole10 \/ \A i \in 1..off10 : Has(dst10, i) \/ Expected(i)'
    BY <2>1, <2>2, <2>3
  <2> QED  BY <2>1, <2>4, <1>2 DEF Copied, Whole10
<1>10. Ring10'  BY <1>1, <1>2 DEF Ring10
<1>11. Sound10'
  <2> SUFFICES ASSUME ~hurt10
               PROVE  ~short10' /\ \A j \in 1..Len(q) : q[j][2] = lens10[q[j][1]]
    BY <1>1, <1>2, <1>4 DEF Sound10, Whole10
  <2>1. ~short10 /\ \A j \in 1..Len(cq10) : cq10[j][2] = lens10[cq10[j][1]]
    BY <1>1, <1>2 DEF Sound10
  <2>2. 1 \in 1..Len(cq10) /\ \A j \in 1..Len(q) : j + 1 \in 1..Len(cq10)  BY <1>4
  <2> QED  BY <2>1, <2>2, <1>2, <1>4
<1> QED  BY <1>5, <1>6, <1>7, <1>8, <1>9, <1>10, <1>11 DEF UringInv

\* The batch is drained: nothing of it is in flight, so a batch without a short
\* completion has copied all its units.
LEMMA DrainedInv == ASSUME UringInv, Drained10 PROVE UringInv'
<1> USE DEF Draining
<1>1. UringTypeOK /\ Ring10 /\ Chunks /\ Copied /\ Counted /\ Sound10  BY DEF UringInv
<1>2. /\ pc10 = "drain" /\ need10 = 0 /\ pairs10' = 0
      /\ pc10' = IF short10 THEN "failed" ELSE IF off10 < size10 THEN "fill" ELSE "closed"
      /\ src10' = src10 /\ size10' = size10 /\ off10' = off10 /\ dst10' = dst10
      /\ lens10' = lens10 /\ at10' = at10 /\ buf10' = buf10 /\ op10' = op10
      /\ head10' = head10 /\ tail10' = tail10 /\ cq10' = cq10 /\ need10' = need10
      /\ short10' = short10 /\ hurt10' = hurt10
  BY DEF Drained10
<1>3. /\ {size10, off10, src10} \subseteq Nat /\ cq10 \in Seq(Slots \X Int) /\ Len(cq10) \in Nat
      /\ op10 \in [Slots -> Ops10] /\ dst10 \in Seq(Nat) /\ Len(dst10) \in Nat
      /\ pairs10 \in 0..KPairs /\ KPairs \in Nat
  <2>1. /\ {size10, off10, src10} \subseteq Nat /\ cq10 \in Seq(Slots \X Int)
        /\ op10 \in [Slots -> Ops10] /\ dst10 \in Seq(Nat)
        /\ pairs10 \in 0..KPairs
    BY <1>1 DEF UringTypeOK
  <2>2. Len(cq10) \in Nat /\ Len(dst10) \in Nat  BY <2>1
  <2> QED  BY <2>1, <2>2, UringAssumption
<1>4. Len(cq10) = 0 /\ Cardinality(InFlight(op10)) = 0 /\ Whole10
  BY <1>1, <1>2, <1>3, FlightFinite DEF Counted
<1>5. cq10 = <<>> /\ \A s \in Slots : op10[s] = {}  BY <1>3, <1>4, FlightNone
<1>6. UringTypeOK'
  <2>1. pairs10' \in 0..KPairs  BY <1>2, <1>3
  <2> QED  BY <1>1, <1>2, <2>1 DEF UringTypeOK
<1>7. pc10' \in {"failed", "fill", "closed"}  BY <1>2
<1>8. BuffersIdle' /\ Counted' /\ CopiedRw'
  BY <1>2, <1>5, <1>7 DEF BuffersIdle, Counted, CopiedRw
<1>9. off10 <= size10 /\ (hurt10 \/ size10 = src10)  BY <1>1, <1>2 DEF Chunks, Batching
<1>10. Chunks'
  <2>1. {} # {"w"} /\ {} # {"r"}  OBVIOUS
  <2>2. \A s \in Slots : op10'[s] # {"w"} /\ op10'[s] # {"r"}  BY <1>2, <1>5, <2>1
  <2> QED  BY <1>2, <1>5, <1>9, <2>2 DEF Chunks
<1>11. \A s \in Slots : ~Unsure(s)  BY <1>2, <1>4, <1>5 DEF Unsure
<1>12. ASSUME NEW i  PROVE ~Expected(i)
  <2>1. \A s \in 1..pairs10 : s \in Slots  BY <1>3 DEF Slots
  <2> QED  BY <2>1, <1>11 DEF Expected
<1>13. /\ Len(dst10) <= off10 /\ \A i \in 1..Len(dst10) : dst10[i] \in {0, i}
       /\ short10 \/ \A i \in 1..off10 : Has(dst10, i)
  BY <1>1, <1>2, <1>4, <1>12 DEF Copied, Batching
<1>14. Copied'
  <2>1. pc10' = "fill" => ~short10  BY <1>2
  <2> QED  BY <2>1, <1>2, <1>7, <1>13 DEF Copied, Batching
<1>15. CopyExact'
  <2> SUFFICES ASSUME pc10' = "closed"
               PROVE  dst10 = Units(0, size10) /\ (hurt10 \/ size10 = src10)
    BY <1>2 DEF CopyExact
  <2>1. ~short10 /\ ~(off10 < size10)  BY <1>2
  <2>2. off10 = size10  BY <2>1, <1>3, <1>9
  <2>3. \A i \in 1..off10 : i <= Len(dst10) /\ dst10[i] = i  BY <2>1, <1>13 DEF Has
  <2>4. Len(dst10) = off10
    <3>1. CASE off10 = 0  BY <3>1, <1>3, <1>13
    <3>2. CASE off10 # 0
      <4>1. off10 \in 1..off10  BY <3>2, <1>3
      <4>2. off10 <= Len(dst10)  BY <4>1, <2>3
      <4> QED  BY <4>2, <1>3, <1>13
    <3> QED  BY <3>1, <3>2
  <2>5. \A i \in 1..Len(dst10) : dst10[i] = 0 + i  BY <2>3, <2>4
  <2>6. dst10 = Units(0, Len(dst10))  BY <2>5, <1>3, UnitsIs
  <2> QED  BY <2>2, <2>4, <2>6, <1>9
<1>16. Ring10'
  <2>1. head10 \in 0..(Wrap - 1) /\ tail10 = head10  BY <1>1, <1>4 DEF Ring10, Whole10
  <2>2. Wrap \in Nat \ {0} /\ head10 \in Nat /\ head10 < Wrap  BY <2>1, UringAssumption
  <2>3. head10 + 2 * 0 = head10 /\ head10 % Wrap = head10  BY <2>2
  <2> QED  BY <1>2, <1>7, <2>1, <2>3 DEF Ring10
<1>17. Sound10'  BY <1>1, <1>2, <1>7 DEF Sound10
<1> QED  BY <1>6, <1>8, <1>10, <1>14, <1>15, <1>16, <1>17 DEF UringInv

\* cmd_sync goes on with the next file, or ends.
LEMMA NextFileInv == ASSUME UringInv, NextFile PROVE UringInv'
<1> USE DEF Draining
<1>1. UringTypeOK /\ Ring10 /\ Sound10  BY DEF UringInv
<1>2. /\ pc10 = "closed" /\ pc10' \in {"done", "open"}
      /\ src10' = src10 \/ src10' \in Sizes10
      /\ size10' = size10 /\ off10' = off10 /\ dst10' = dst10 /\ buf10' = buf10
  BY DEF NextFile
<1>3. /\ pairs10' = pairs10 /\ lens10' = lens10 /\ at10' = at10 /\ op10' = op10
      /\ head10' = head10 /\ tail10' = tail10 /\ cq10' = cq10 /\ need10' = need10
      /\ short10' = short10
  BY DEF NextFile, copyVars
<1>4. cq10 = <<>> /\ \A s \in Slots : op10[s] = {}  BY <1>2, IdleOf
<1>5. UringTypeOK'
  <2>1. src10' \in Nat  BY <1>1, <1>2, UringAssumption DEF UringTypeOK
  <2> QED  BY <1>1, <1>2, <1>3, <2>1 DEF UringTypeOK
<1>6. BuffersIdle' /\ Counted'  BY <1>2, <1>3, <1>4 DEF BuffersIdle, Counted
<1>7. Chunks' /\ Copied' /\ CopiedRw' /\ CopyExact' /\ Sound10'
  BY <1>2 DEF Chunks, Copied, Batching, CopiedRw, CopyExact, Sound10
<1>8. Ring10'  BY <1>1, <1>2, <1>3 DEF Ring10
<1> QED  BY <1>5, <1>6, <1>7, <1>8 DEF UringInv

\* The source is cut short.
LEMMA CutInv == ASSUME UringInv, CutSource PROVE UringInv'
<1> USE DEF Draining
<1>1. /\ UringTypeOK /\ BuffersIdle /\ Counted /\ Chunks /\ Copied /\ CopiedRw /\ Ring10
  BY DEF UringInv
<1>2. /\ pc10 \notin {"closed", "failed", "abandoned", "done"} /\ src10 > 1 /\ src10' = src10 - 1 /\ hurt10'
      /\ pc10' = pc10 /\ size10' = size10 /\ off10' = off10 /\ dst10' = dst10 /\ buf10' = buf10
      /\ pairs10' = pairs10 /\ lens10' = lens10 /\ at10' = at10 /\ op10' = op10
      /\ head10' = head10 /\ tail10' = tail10 /\ cq10' = cq10 /\ need10' = need10
      /\ short10' = short10
  BY DEF CutSource, copyVars
<1>3. UringTypeOK'
  <2>1. src10' \in Nat  BY <1>1, <1>2 DEF UringTypeOK
  <2> QED  BY <1>1, <1>2, <2>1 DEF UringTypeOK
<1>4. BuffersIdle' /\ Counted'  BY <1>1, <1>2 DEF BuffersIdle, Counted, Whole10
<1>5. Chunks'  BY <1>1, <1>2 DEF Chunks, Batching, Whole10
<1>6. \A i : Expected(i)' <=> Expected(i)  BY <1>2 DEF Expected, Unsure
<1>7. Copied'  BY <1>1, <1>2, <1>6 DEF Copied, Batching, Whole10
<1>8. CopiedRw' /\ Ring10' /\ Sound10' /\ CopyExact'
  BY <1>1, <1>2 DEF CopiedRw, Ring10, Sound10, CopyExact
<1> QED  BY <1>3, <1>4, <1>5, <1>7, <1>8 DEF UringInv

\* Every step of the copy keeps the invariant.
LEMMA UringNextInv == UringInv /\ [UringNext]_uringVars => UringInv'
<1> USE DEF Draining
<1> SUFFICES ASSUME UringInv, [UringNext]_uringVars PROVE UringInv'  OBVIOUS
<1>1. CASE OpenFiles  BY <1>1, OpenInv
<1>2. CASE ReadChunk  BY <1>2, ReadChunkInv
<1>3. CASE WriteChunk  BY <1>3, WriteChunkInv
<1>4. CASE QueuePair  BY <1>4, QueuePairInv
<1>5. CASE Submit  BY <1>5, SubmitInv
<1>6. CASE TakeCqe  BY <1>6, TakeCqeInv
<1>7. CASE Drained10  BY <1>7, DrainedInv
<1>8. CASE NextFile  BY <1>8, NextFileInv
<1>9. ASSUME NEW s \in Slots, KernelReads(s)  PROVE UringInv'  BY <1>9, KernelReadsInv
<1>10. ASSUME NEW s \in Slots, KernelWrites(s)  PROVE UringInv'  BY <1>10, KernelWritesInv
<1>11. CASE CutSource  BY <1>11, CutInv
<1>12. CASE CallFails  BY <1>12, FailsInv
<1>13. CASE UNCHANGED uringVars
  <2>1. /\ UringTypeOK /\ BuffersIdle /\ Counted /\ Chunks /\ Copied /\ CopiedRw /\ Ring10
        /\ Sound10 /\ CopyExact
    BY DEF UringInv
  <2>2. UringTypeOK' /\ BuffersIdle' /\ Counted' /\ Chunks'
    BY <1>13, <2>1
    DEF uringVars, UringTypeOK, BuffersIdle, Counted, Chunks, Batching, Whole10
  <2>3. \A i : Expected(i)' <=> Expected(i)  BY <1>13 DEF uringVars, Expected, Unsure
  <2>4. Copied'  BY <1>13, <2>1, <2>3 DEF uringVars, Copied, Batching, Whole10
  <2>5. CopiedRw' /\ Ring10' /\ Sound10' /\ CopyExact'
    BY <1>13, <2>1 DEF uringVars, CopiedRw, Ring10, Sound10, CopyExact, Whole10
  <2> QED  BY <2>2, <2>4, <2>5 DEF UringInv
<1> QED
  BY <1>1, <1>2, <1>3, <1>4, <1>5, <1>6, <1>7, <1>8, <1>9, <1>10, <1>11, <1>12, <1>13
  DEF UringNext, UringProgress

\* A copy that fwatch reports is exact, by either engine: for any chunk, any
\* number of pairs, completions in any order, and a source that shrinks meanwhile.
THEOREM UringCopyExact == UringSpec => []CopyExact
<1>1. UringInv => CopyExact  BY DEF UringInv
<1> QED  BY <1>1, UringInitInv, UringNextInv, PTL DEF UringSpec

\* When a batch is over, failed or not, the kernel holds no buffer of it and no
\* completion is left: two per pair are awaited, and two come, also for a read
\* that cancels its write; of a batch that the kernel took a part of, more are
\* awaited than come.  The one exit without it is a failing wait in the drain.
THEOREM UringBuffersIdle == UringSpec => []BuffersIdle
<1>1. UringInv => BuffersIdle  BY DEF UringInv
<1> QED  BY <1>1, UringInitInv, UringNextInv, PTL DEF UringSpec

\* With nothing wrong outside no copy fails: try_get_sqe always finds room for a
\* batch, whatever its counters have come to, and no completion is short.
THEOREM UringNoSpuriousFailure == UringSpec => []NoSpuriousFailure
<1>1. UringInv => NoSpuriousFailure  BY DEF UringInv, Sound10, NoSpuriousFailure
<1> QED  BY <1>1, UringInitInv, UringNextInv, PTL DEF UringSpec
=============================================================================
