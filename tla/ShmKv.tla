------------------------------- MODULE ShmKv -------------------------------
(***************************************************************************)
(* shmkv v1, examples/20-shared-memory-coordination/cpp/src/main.cpp: one  *)
(* serve process publishes updates 1..Updates into a shared file under a   *)
(* seqlock and wakes a futex; one watch process copies snapshots and       *)
(* prints every update it has not printed yet.  A slot has a key cell and  *)
(* a value cell; a cell holds the update it was written for, 0 when blank. *)
(* The server may be killed at any point, inside the write section too.    *)
(* The word of the seqlock and of the futex are 32 bits wide and wrap;     *)
(* they are counted exactly here, up to Updates.                           *)
(***************************************************************************)
EXTENDS Naturals, Sequences

CONSTANTS
  SlotCount,  \* kSlotCount
  Updates,    \* serve --updates
  WatchEvents,\* watch --events
  Attempts    \* the attempts of seqlock_read, 1'000'000 in the code

ASSUME ShmAssumption ==
  /\ SlotCount \in Nat \ {0} /\ Attempts \in Nat \ {0}
  /\ Updates \in Nat /\ WatchEvents \in Nat \ {0}

VARIABLES
  seq,      \* the seqlock word
  word,     \* the futex word
  counter,  \* the update counter
  cells,    \* the slots
  server,   \* pc of cmd_serve: "sleep", "odd", "cleared", "key", "value",
            \* "counter", "even", "word", "complete", "dead"
  k,        \* the update being published
  watch,    \* pc of cmd_watch: "top", "attempt", "counter", "copy", "print",
            \* "load", "wait", "asleep", "complete", "livelocked", "timedout"
  late,     \* the 30 s deadline of cmd_watch is over
  attempt,  \* attempts made by the current seqlock_read
  s1,       \* the word it saw first
  snap,     \* its copy: the counter, the cells, and which were copied so far
  last,
  printed   \* the lines: id, the key and value shown, the snapshot's counter

kvVars == <<seq, word, counter, cells, server, k,
            watch, late, attempt, s1, snap, last, printed>>
shm    == <<seq, word, counter, cells, server, k>>
reader == <<watch, late, attempt, s1, snap, last, printed>>

Slots == 0..(SlotCount - 1)
Cells == Slots \X {"key", "value"}
SlotOf(id) == (id - 1) % SlotCount
Blank == [c \in Cells |-> 0]

KvInit ==
  /\ seq = 0 /\ word = 0 /\ counter = 0 /\ cells = Blank
  /\ server = "sleep" /\ k = 1
  /\ watch = "top" /\ late = FALSE /\ attempt = 0 /\ s1 = 0
  /\ snap = [counter |-> 0, cells |-> Blank, copied |-> {}]
  /\ last = 0 /\ printed = <<>>

-----------------------------------------------------------------------------
(* cmd_serve: seqlock_write around write_slot and the counter, then the    *)
(* futex word and FUTEX_WAKE.                                              *)

ServeStep(from, to) == server = from /\ server' = to

BeginWrite ==
  /\ ServeStep("sleep", "odd") /\ k <= Updates
  /\ seq' = seq + 1
  /\ UNCHANGED <<word, counter, cells, k, reader>>

\* write_slot: memset of the slot, then the key, then the value.
ClearSlot ==
  /\ ServeStep("odd", "cleared")
  /\ cells' = [c \in Cells |-> IF c[1] = SlotOf(k) THEN 0 ELSE cells[c]]
  /\ UNCHANGED <<seq, word, counter, k, reader>>

FillSlot(from, to) ==
  /\ ServeStep(from, to)
  /\ cells' = [cells EXCEPT ![<<SlotOf(k), to>>] = k]
  /\ UNCHANGED <<seq, word, counter, k, reader>>

StoreCounter ==
  /\ ServeStep("value", "counter")
  /\ counter' = k
  /\ UNCHANGED <<seq, word, cells, k, reader>>

EndWrite ==
  /\ ServeStep("counter", "even")
  /\ seq' = seq + 1
  /\ UNCHANGED <<word, counter, cells, k, reader>>

StoreWord ==
  /\ ServeStep("even", "word")
  /\ word' = k
  /\ UNCHANGED <<seq, counter, cells, k, reader>>

\* Faulty variant: no FUTEX_WAKE.
WakeForgotten ==
  /\ server = "word"
  /\ server' = IF k = Updates THEN "complete" ELSE "sleep"
  /\ k' = k + 1
  /\ UNCHANGED <<seq, word, counter, cells, reader>>

\* futex_wake_all; then the next turn of the loop, if there is one.
Wake ==
  /\ server = "word"
  /\ server' = IF k = Updates THEN "complete" ELSE "sleep"
  /\ k' = k + 1
  /\ watch' = IF watch = "asleep" THEN "top" ELSE watch
  /\ UNCHANGED <<seq, word, counter, cells, late, attempt, s1, snap, last, printed>>

\* The process is killed; the file stays as it is.
ServerDies ==
  /\ server \notin {"complete", "dead"} /\ server' = "dead"
  /\ UNCHANGED <<seq, word, counter, cells, k, reader>>

-----------------------------------------------------------------------------
(* cmd_watch.                                                              *)

WatchStep(from, to) == watch = from /\ watch' = to

\* The top of the loop: the deadline, then seqlock_read.
Top ==
  /\ watch = "top"
  /\ watch' = IF late THEN "timedout" ELSE "attempt"
  /\ attempt' = 0
  /\ UNCHANGED <<shm, late, s1, snap, last, printed>>

DeadlinePasses ==
  /\ ~late /\ late' = TRUE
  /\ UNCHANGED <<shm, watch, attempt, s1, snap, last, printed>>

\* A million attempts failed: "seqlock read livelocked".
GiveUp ==
  /\ WatchStep("attempt", "livelocked") /\ attempt = Attempts
  /\ UNCHANGED <<shm, late, attempt, s1, snap, last, printed>>

\* Faulty variant: retries on an odd word are not counted.
SeqOddForever ==
  /\ watch = "attempt" /\ attempt < Attempts
  /\ seq % 2 = 1
  /\ UNCHANGED <<attempt, shm, watch, late, s1, snap, last, printed>>

\* seqlock_read: an odd word is a writer at work.
SeqOdd ==
  /\ watch = "attempt" /\ attempt < Attempts
  /\ seq % 2 = 1
  /\ attempt' = attempt + 1
  /\ UNCHANGED <<shm, watch, late, s1, snap, last, printed>>

\* An even word: the copy begins with the counter.
SeqEven ==
  /\ watch = "attempt" /\ attempt < Attempts
  /\ seq % 2 = 0 /\ s1' = seq /\ watch' = "counter"
  /\ UNCHANGED <<shm, late, attempt, snap, last, printed>>

CopyCounter ==
  /\ WatchStep("counter", "copy")
  /\ snap' = [counter |-> counter, cells |-> Blank, copied |-> {}]
  /\ UNCHANGED <<shm, late, attempt, s1, last, printed>>

\* memcpy of the slots, in any order, raced against the writer.
CopyCell(c) ==
  /\ watch = "copy" /\ c \notin snap.copied
  /\ snap' = [snap EXCEPT !.cells[c] = cells[c], !.copied = @ \cup {c}]
  /\ UNCHANGED <<shm, watch, late, attempt, s1, last, printed>>

Accepted == watch' = IF snap.counter > last THEN "print" ELSE "load"

\* Faulty variant: the word is not looked at again after the copy.
CheckNothing ==
  /\ watch = "copy" /\ snap.copied = Cells
  /\ Accepted /\ UNCHANGED attempt
  /\ UNCHANGED <<shm, late, s1, snap, last, printed>>

\* The word again: a changed one throws the copy away.
CheckSeq ==
  /\ watch = "copy" /\ snap.copied = Cells
  /\ \/ seq = s1 /\ Accepted /\ UNCHANGED attempt
     \/ seq # s1 /\ watch' = "attempt" /\ attempt' = attempt + 1
  /\ UNCHANGED <<shm, late, s1, snap, last, printed>>

\* Faulty variant: the slot of an update is looked up without the - 1 of its
\* writer.
LineOffByOne(id) ==
  [id  |-> id,
   key |-> snap.cells[<<SlotOf(id + 1), "key">>],
   value |-> snap.cells[<<SlotOf(id + 1), "value">>],
   counter |-> snap.counter]

\* The line printed for id.
Line(id) ==
  [id  |-> id,
   key |-> snap.cells[<<SlotOf(id), "key">>], value |-> snap.cells[<<SlotOf(id), "value">>],
   counter |-> snap.counter]

\* Print the updates last+1..counter as far as --events allows, from the
\* snapshot, and start over.
PrintMissed ==
  /\ watch = "print"
  /\ LET room == WatchEvents - Len(printed)
         n    == IF snap.counter - last < room THEN snap.counter - last ELSE room
     IN  printed' = printed \o [i \in 1..n |-> Line(last + i)]
  /\ last' = snap.counter
  /\ watch' = IF Len(printed') >= WatchEvents THEN "complete" ELSE "top"
  /\ UNCHANGED <<shm, late, attempt, s1, snap>>

\* Load the futex word: if it moved on, read again at once.
LoadWord ==
  /\ watch = "load"
  /\ watch' = IF word # last THEN "top" ELSE "wait"
  /\ UNCHANGED <<shm, late, attempt, s1, snap, last, printed>>

\* FUTEX_WAIT sleeps only if the word still is the one that was loaded.
FutexWait ==
  /\ watch = "wait"
  /\ watch' = IF word # last THEN "top" ELSE "asleep"
  /\ UNCHANGED <<shm, late, attempt, s1, snap, last, printed>>

\* The 2000 ms of one wait are over, or a signal ends it (EINTR).
WaitTimesOut ==
  /\ WatchStep("asleep", "top")
  /\ UNCHANGED <<shm, late, attempt, s1, snap, last, printed>>

KvServe ==
  \/ BeginWrite \/ ClearSlot \/ FillSlot("cleared", "key") \/ FillSlot("key", "value")
  \/ StoreCounter \/ EndWrite \/ StoreWord \/ Wake

KvWatch ==
  \/ Top \/ GiveUp \/ SeqOdd \/ SeqEven \/ CopyCounter \/ (\E c \in Cells : CopyCell(c))
  \/ CheckSeq \/ PrintMissed \/ LoadWord \/ FutexWait \/ WaitTimesOut

KvNext == KvServe \/ ServerDies \/ KvWatch \/ DeadlinePasses
KvSpec == KvInit /\ [][KvNext]_kvVars

-----------------------------------------------------------------------------

\* The cells as they are when update n has been published and n + 1 has not
\* been begun.
Published(n) ==
  [c \in Cells |->
     LET ids == {i \in 1..n : SlotOf(i) = c[1]}
     IN  IF ids = {} THEN 0 ELSE CHOOSE i \in ids : \A j \in ids : j <= i]

\* A snapshot that passes the second look at the seqlock word is never torn,
\* although the copy races the writer and the writer may have died half way.
SnapshotWhole ==
  watch \in {"print", "load", "wait"} => snap.cells = Published(snap.counter)

\* The watcher never sleeps through a publication: while it is asleep the futex
\* word is the update it saw last, or the wake-up is still to come (or never
\* will, the server having died).
NoLostWake ==
  watch = "asleep" => word = last \/ server \in {"word", "dead"}

\* A line "observed update ID" shows update ID if it is among the last
\* kSlotCount updates of the snapshot it was printed from.
RecentLinesRight ==
  \A i \in DOMAIN printed :
    LET l == printed[i] IN l.id + SlotCount > l.counter => l.key = l.id /\ l.value = l.id

\* "a watcher that slept through a wake can still back-fill every missed id":
\* every line shows its update.
BackfillsEveryId ==
  \A i \in DOMAIN printed : printed[i].key = printed[i].id /\ printed[i].value = printed[i].id

\* "Bounded": the watcher ends, whatever the server does: with its events, at
\* its deadline, or with "seqlock read livelocked".
WatchEnds == <>(watch \in {"complete", "livelocked", "timedout"})
============================================================================
