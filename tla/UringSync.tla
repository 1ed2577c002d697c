----------------------------- MODULE UringSync ------------------------------
(***************************************************************************)
(* fwatch sync, examples/10-io-uring, cpp/src/main.cpp: each file is       *)
(* copied by read and write ("rw") or by batches of linked READ and WRITE  *)
(* entries in an io_uring.  The kernel works on what was submitted in any  *)
(* order that keeps the links, and the source may be cut short meanwhile.  *)
(* Unit i of a file has the contents i, so a file is as long as a number.  *)
(* The kernel's half of the ring is external.                              *)
(***************************************************************************)
EXTENDS Integers, Sequences, FiniteSetsExt

CONSTANTS
  KChunk, KPairs, \* kChunk in units, kPairs
  RingSize, Wrap, \* entries of the submission ring; its counters count modulo Wrap
  Sizes10,        \* lengths a source file may have
  FileCount       \* files in the tree

Slots == 1..KPairs

ASSUME UringAssumption ==
  /\ {KChunk, KPairs, RingSize, Wrap} \subseteq Nat \ {0} /\ Sizes10 \subseteq Nat
  /\ 2 * KPairs <= RingSize /\ RingSize <= Wrap

VARIABLES
  eng10,   \* "rw", "uring"
  pc10,    \* "open", "fill", "drain", "read", "write", "closed", "failed", "done", and
           \* "abandoned": the copy has returned an error in the midst of its drain
  nth10,   \* which file
  src10, dst10,   \* length of the source; units of the destination, 0 a hole
  size10, off10,  \* what fstat said, the offset of the next chunk
  pairs10, lens10, at10, \* pairs of the batch, and the length and offset of each
  buf10,   \* the buffers
  op10,    \* slot -> operations the kernel holds: "r", "w", "lw" waits for its read
  head10, tail10, \* of the submission ring
  cq10,    \* completions: <<slot, result>>
  need10, short10, \* completions still to take; one of them was short
  hurt10   \* something failed or changed outside
uringVars == <<eng10, pc10, nth10, src10, dst10, size10, off10, pairs10, lens10, at10, buf10,
               op10, head10, tail10, cq10, need10, short10, hurt10>>
copyVars == <<pairs10, lens10, at10, op10, head10, tail10, cq10, need10, short10>>

Ints(k) == [s \in Slots |-> k]
\* sync with or without the ring, and the sizes of the files.
CommandLine10 == eng10 \in {"rw", "uring"} /\ src10 \in Sizes10

UringInit ==
  /\ CommandLine10 /\ pc10 = "open" /\ nth10 = 1
  /\ dst10 = <<>> /\ size10 = 0 /\ off10 = 0 /\ pairs10 = 0 /\ lens10 = Ints(0)
  /\ at10 = Ints(0) /\ buf10 = [s \in Slots |-> <<>>] /\ op10 = [s \in Slots |-> {}]
  /\ head10 = 0 /\ tail10 = 0 /\ cq10 = <<>> /\ need10 = 0 /\ short10 = FALSE
  /\ hurt10 = FALSE

\* Another process truncates the source.
CutSource ==
  /\ pc10 \notin {"closed", "failed", "abandoned", "done"} /\ src10 > 1
  /\ src10' = src10 - 1 /\ hurt10' = TRUE
  /\ UNCHANGED <<eng10, pc10, nth10, dst10, size10, off10, buf10, copyVars>>

\* The files are opened, the destination emptied, the source measured.
OpenFiles ==
  /\ pc10 = "open" /\ dst10' = <<>> /\ size10' = src10 /\ off10' = 0
  /\ \/ /\ pc10' = IF eng10 = "rw" THEN "read" ELSE IF src10 = 0 THEN "closed" ELSE "fill"
        /\ UNCHANGED hurt10
     \/ pc10' = "failed" /\ hurt10' = TRUE
  /\ buf10' = [s \in Slots |-> <<>>] /\ pairs10' = 0
  /\ UNCHANGED <<eng10, nth10, src10, lens10, at10, op10, head10, tail10, cq10, need10,
                 short10>>

Units(from, n) == [i \in 1..n |-> from + i]
WriteAt(from, units) ==
  dst10' = [i \in 1..Max({Len(dst10), from + Len(units)}) |->
              IF i > from /\ i <= from + Len(units) THEN units[i - from]
              ELSE IF i <= Len(dst10) THEN dst10[i] ELSE 0]

(* ----------------------------- copy_file_rw ------------------------------ *)

ReadChunk ==
  /\ pc10 = "read"
  /\ LET n == Max({0, Min({KChunk, src10 - off10})})
     IN /\ buf10' = [buf10 EXCEPT ![1] = Units(off10, n)]
        /\ pc10' = IF n = 0 THEN "closed" ELSE "write"
        /\ size10' = IF n = 0 THEN off10 ELSE size10
  /\ UNCHANGED <<eng10, nth10, src10, dst10, off10, hurt10, copyVars>>

\* A write may take less than it was given: the loop goes on with the rest.
WriteChunk ==
  /\ pc10 = "write"
  /\ \E w \in 1..Len(buf10[1]) :
       /\ WriteAt(off10, SubSeq(buf10[1], 1, w)) /\ off10' = off10 + w
       /\ buf10' = [buf10 EXCEPT ![1] = SubSeq(@, w + 1, Len(@))]
       /\ pc10' = IF w = Len(buf10[1]) THEN "read" ELSE "write"
  /\ UNCHANGED <<eng10, nth10, src10, size10, hurt10, copyVars>>

(* ---------------------------- copy_file_uring ---------------------------- *)

\* try_get_sqe, twice: unsigned counters that wrap.
RoomFor(k) == (tail10 - head10 + k - 1) % Wrap < RingSize

QueuePair ==
  /\ pc10 = "fill" /\ pairs10 < KPairs /\ off10 < size10
  /\ IF ~RoomFor(2) THEN pc10' = "failed" /\ UNCHANGED <<pairs10, lens10, at10, off10, tail10>>
     ELSE LET len == Min({KChunk, size10 - off10})
          IN /\ pairs10' = pairs10 + 1 /\ lens10' = [lens10 EXCEPT ![pairs10 + 1] = len]
             /\ at10' = [at10 EXCEPT ![pairs10 + 1] = off10] /\ off10' = off10 + len
             /\ tail10' = (tail10 + 2) % Wrap /\ UNCHANGED pc10
  /\ UNCHANGED <<eng10, nth10, src10, dst10, size10, buf10, op10, head10, cq10, need10,
                 short10, hurt10>>

\* The first k entries of the batch, in the order they were queued: a read whose
\* write is left behind in the ring goes alone.
Taken(k) == [s \in Slots |-> IF 2 * s <= k THEN {"r", "lw"}
                            ELSE IF 2 * s - 1 = k THEN {"r"} ELSE {}]

BatchReady == pc10 = "fill" /\ (pairs10 = KPairs \/ off10 = size10)
Batch(k, ops, n) ==
  /\ BatchReady /\ pc10' = "drain" /\ op10' = ops
  /\ head10' = (head10 + k) % Wrap /\ need10' = n /\ short10' = FALSE
  /\ hurt10' = (hurt10 \/ k < 2 * pairs10)
  /\ UNCHANGED <<eng10, nth10, src10, dst10, size10, off10, pairs10, lens10, at10, buf10,
                 tail10, cq10>>

\* Faulty variants: the read is not linked; one completion per pair is awaited.
SubmitUnlinked ==
  Batch(2 * pairs10, [s \in Slots |-> IF s <= pairs10 THEN {"r", "w"} ELSE {}], 2 * pairs10)
SubmitHalf == Batch(2 * pairs10, Taken(2 * pairs10), pairs10)

\* submit_and_wait: two completions per pair are awaited, also when the kernel
\* has taken fewer entries than there are: what io_uring_enter returns is only
\* looked at for an error, and the drain then waits for ever.
Submit == \E k \in 1..(2 * pairs10) : Batch(k, Taken(k), 2 * pairs10)

\* read, write or io_uring_enter fails, and the copy returns the error.  The
\* first enter of a batch fails with nothing taken; one that waits for more of
\* its completions does while the kernel still has the buffers and the files.
CallFails ==
  /\ \/ (pc10 \in {"read", "write"} \/ BatchReady) /\ pc10' = "failed"
     \/ pc10 = "drain" /\ need10 > 0 /\ cq10 = <<>> /\ pc10' = "abandoned"
  /\ hurt10' = TRUE
  /\ UNCHANGED <<eng10, nth10, src10, dst10, size10, off10, buf10, copyVars>>

\* External: a read that falls short cancels the write that is linked to it.
KernelReads(s) ==
  /\ "r" \in op10[s]
  /\ LET n == Max({0, Min({lens10[s], src10 - at10[s]})})
         whole == n = lens10[s]
     IN /\ buf10' = [buf10 EXCEPT ![s] = Units(at10[s], n)]
        /\ op10' = [op10 EXCEPT ![s] = IF "lw" \in @ THEN IF whole THEN {"w"} ELSE {}
                                       ELSE @ \ {"r"}]
        /\ cq10' = cq10 \o <<<<s, n>>>>
                   \o IF "lw" \in op10[s] /\ ~whole THEN <<<<s, -1>>>> ELSE <<>>
  /\ UNCHANGED <<eng10, pc10, nth10, src10, dst10, size10, off10, pairs10, lens10, at10,
                 head10, tail10, need10, short10, hurt10>>

\* External: a write may fall short when the disk is full.
KernelWrites(s) ==
  /\ "w" \in op10[s] /\ op10' = [op10 EXCEPT ![s] = @ \ {"w"}]
  /\ \E w \in {lens10[s], lens10[s] - 1} :
       LET b == [i \in 1..lens10[s] |-> IF i <= Len(buf10[s]) THEN buf10[s][i] ELSE 0]
       IN /\ WriteAt(at10[s], SubSeq(b, 1, w)) /\ cq10' = Append(cq10, <<s, w>>)
          /\ hurt10' = (hurt10 \/ w # lens10[s])
  /\ UNCHANGED <<eng10, pc10, nth10, src10, size10, off10, pairs10, lens10, at10, buf10,
                 head10, tail10, need10, short10>>

\* drain: exactly the completions of the batch, in the order they come.
TakeCqe ==
  /\ pc10 = "drain" /\ need10 > 0 /\ cq10 # <<>>
  /\ need10' = need10 - 1 /\ cq10' = Tail(cq10)
  /\ short10' = (short10 \/ cq10[1][2] # lens10[cq10[1][1]])
  /\ UNCHANGED <<eng10, pc10, nth10, src10, dst10, size10, off10, pairs10, lens10, at10,
                 buf10, op10, head10, tail10, hurt10>>
Drained10 ==
  /\ pc10 = "drain" /\ need10 = 0
  /\ pc10' = IF short10 THEN "failed" ELSE IF off10 < size10 THEN "fill" ELSE "closed"
  /\ pairs10' = 0
  /\ UNCHANGED <<eng10, nth10, src10, dst10, size10, off10, lens10, at10, buf10, op10,
                 head10, tail10, cq10, need10, short10, hurt10>>

\* cmd_sync: the next file, with the same ring; the first that fails ends it.
NextFile ==
  /\ pc10 = "closed"
  /\ IF nth10 = FileCount THEN pc10' = "done" /\ UNCHANGED <<nth10, src10, hurt10>>
     ELSE pc10' = "open" /\ nth10' = nth10 + 1 /\ src10' \in Sizes10 /\ hurt10' = FALSE
  /\ UNCHANGED <<eng10, dst10, size10, off10, buf10, copyVars>>

UringProgress ==
  \/ OpenFiles \/ ReadChunk \/ WriteChunk \/ QueuePair \/ Submit \/ TakeCqe \/ Drained10
  \/ NextFile \/ \E s \in Slots : KernelReads(s) \/ KernelWrites(s)
UringNext == UringProgress \/ CallFails \/ CutSource
UringSpec == UringInit /\ [][UringNext]_uringVars

\* A copy that is reported has the length it reports, every unit in its place and
\* none from an earlier chunk of the buffer; it is the whole file unless the file
\* was cut meanwhile.
CopyExact ==
  pc10 = "closed" =>
    /\ dst10 = Units(0, size10)
    /\ hurt10 \/ size10 = src10

\* Outside a batch the kernel holds no buffer of the program and no completion is
\* left to be taken for one of the next batch, also after a copy that failed,
\* unless it failed because a wait in its drain did.
BuffersIdle ==
  pc10 \notin {"drain", "abandoned"} => cq10 = <<>> /\ \A s \in Slots : op10[s] = {}

\* Refuted: what chapter 10 calls the one contract the compiler cannot check
\* (_docs/10-io-uring.md:386-388), "the kernel holds raw pointers into `bufs`
\* until we have drained the completions".  drain returns the error of its wait,
\* and bufs and the two descriptors end with copy_file_uring.
BuffersOutlive == pc10 # "drain" => \A s \in Slots : op10[s] = {}

\* With nothing wrong outside no copy fails: the ring has room for every batch,
\* also when its counters have wrapped.
NoSpuriousFailure == pc10 \in {"failed", "abandoned"} => hurt10
=============================================================================
