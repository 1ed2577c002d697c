------------------------------ MODULE PmonPipes ------------------------------
(***************************************************************************)
(* pmon v4, examples/18-pipes-fifos-splice/cpp/src/main.cpp.               *)
(* supervise: the child's stdout and stderr come through two pipes into    *)
(* the log, line by line; one poll loop serves the pipes, the signalfd and,*)
(* with the pidfd engine, the pidfd.  tail: the log is relayed into a FIFO *)
(* whose readers come and go.                                              *)
(* Data: a unit is a piece of output that ends a line or does not (nl); a  *)
(* log record is a stream and the units of its line.  The log is kept for  *)
(* the present child; tail follows the log of some supervisor, byte by     *)
(* byte, as numbers.                                                       *)
(***************************************************************************)
EXTENDS Naturals, Sequences, SequencesExt

CONSTANTS
  MaxUnits,    \* units a child writes at most
  MaxKinUnits, \* the same of a "daemon" and its children together
  PipeCap,     \* units a pipe holds
  BufMax18,    \* kChunk, of a partial line, in units
  MaxRestarts18,
  Kinds18,     \* children: "plain"; "chatty" writes for ever; "trap" says farewell on SIGTERM;
               \* "daemon" may leave children of its own behind
  LogMax, FifoCap, MaxDetach \* bytes appended to the log, FIFO size, readers that leave
ASSUME CapAssumption == MaxRestarts18 \in Nat

Streams == {"out", "err"}

VARIABLES
  engine18, kind18,
  sup18,      \* cmd_supervise: "spawn", "poll", "handle", "term", "drain", "done"; "broken":
              \* it has returned 1 because a call failed
  ready18,    \* what the last poll reported and is not handled yet
  outcome18,  \* "none", "status", "signal", "timeout": what ended wait_child
  child18,    \* "none", "run", "zombie", "reaped"
  kin18,      \* streams whose write end a grandchild holds after the child's death
  status18,   \* "ok", "fail" or "killed"
  termed18,   \* SIGTERM has been sent
  wrote18, pipe18, open18, buf18, log18,
  pend18,     \* signals pending on the signalfd
  late18,     \* the deadline has passed
  restarts18,
  said18      \* how supervision ended
capVars == <<engine18, kind18, sup18, ready18, outcome18, child18, kin18, status18, termed18,
             wrote18, pipe18, open18, buf18, log18, pend18, late18, restarts18, said18>>

VARIABLES
  logLen, off,  \* the log's length and the offset of tail's descriptor
  use_splice, spliceWorks,
  tail18,       \* "open", "relay", "splice" (about to call it), "blocked" in splice,
                \* "write" (relay_rw between two writes), "done"
  chunkEnd,     \* relay_rw: last byte of the buffer it writes
  fifo18, reader18, writer18,
  got, lost,    \* bytes the readers have read; bytes the FIFO dropped when nobody had it open
  detaches, stop18
tailVars == <<logLen, off, use_splice, spliceWorks, tail18, chunkEnd, fifo18, reader18, writer18,
              got, lost, detaches, stop18>>

-----------------------------------------------------------------------------
(* supervise: the child.                                                   *)

\* supervise with an engine and a command, --max-restarts, --timeout-ms, --log.
CommandLine18 == engine18 \in {"pidfd", "sigchld"} /\ kind18 \in Kinds18

CapInit ==
  /\ CommandLine18
  /\ sup18 = "spawn" /\ ready18 = {} /\ outcome18 = "none"
  /\ child18 = "none" /\ kin18 = {} /\ status18 = "ok" /\ termed18 = FALSE
  /\ wrote18 = [s \in Streams |-> <<>>] /\ pipe18 = [s \in Streams |-> <<>>]
  /\ open18 = [s \in Streams |-> FALSE] /\ buf18 = [s \in Streams |-> <<>>] /\ log18 = <<>>
  /\ pend18 = {} /\ late18 = FALSE /\ restarts18 = 0 /\ said18 = "none"

Written == Len(wrote18["out"]) + Len(wrote18["err"])

\* A write of one of those who hold the write end of s.
Puts(s, nl) ==
  /\ sup18 # "broken" /\ Len(pipe18[s]) < PipeCap
  /\ Written < (IF kind18 = "daemon" THEN MaxKinUnits ELSE MaxUnits)
  /\ wrote18' = [wrote18 EXCEPT ![s] = Append(@, [id |-> Written, nl |-> nl])]
  /\ pipe18' = [pipe18 EXCEPT ![s] = Append(@, [id |-> Written, nl |-> nl])]

\* A child writes when the pipe has room; one that "trap"s keeps its last
\* unit for after SIGTERM.  The lines of a chatty one are not recorded.
ChildWrites(s, nl) ==
  /\ child18 = "run"
  /\ \/ kind18 \in {"plain", "daemon"} /\ ~termed18 /\ Puts(s, nl)
     \/ /\ kind18 = "trap" /\ s = "out" /\ nl
        /\ termed18 \/ Written < MaxUnits - 1
        /\ Puts(s, nl)
     \/ /\ kind18 = "chatty" /\ ~termed18 /\ s = "out" /\ nl
        /\ sup18 # "broken" /\ Len(pipe18[s]) < PipeCap
        /\ pipe18' = [pipe18 EXCEPT ![s] = Append(@, [id |-> MaxUnits, nl |-> TRUE])]
        /\ UNCHANGED wrote18
  /\ UNCHANGED <<engine18, kind18, sup18, ready18, outcome18, child18, kin18, status18, termed18,
                 open18, buf18, log18, pend18, late18, restarts18, said18>>

\* It exits, or a signal kills it, which is SIGPIPE if it writes when pmon is
\* gone; SIGCHLD is raised, and its write ends close unless a grandchild has
\* them too.
ChildDies(st) ==
  /\ child18 = "run" /\ child18' = "zombie" /\ status18' = st
  /\ \/ kind18 \in {"plain", "daemon"} /\ (termed18 => st = "killed")
     \/ kind18 = "trap" /\ termed18 /\ Written = MaxUnits /\ st = "ok"
     \/ kind18 = "chatty" /\ termed18 /\ st = "killed"
     \/ sup18 = "broken" /\ st = "killed"
  /\ kin18' \in SUBSET {s \in Streams : kind18 = "daemon"}
  /\ pend18' = IF engine18 = "sigchld" THEN pend18 \cup {"chld"} ELSE pend18
  /\ UNCHANGED <<engine18, kind18, sup18, ready18, outcome18, termed18, wrote18, pipe18, open18,
                 buf18, log18, late18, restarts18, said18>>

\* A grandchild writes, or closes what it holds; nobody waits for it.
KinWrites(s, nl) ==
  /\ s \in kin18 /\ Puts(s, nl)
  /\ UNCHANGED <<engine18, kind18, sup18, ready18, outcome18, child18, kin18, status18, termed18,
                 open18, buf18, log18, pend18, late18, restarts18, said18>>
KinLeaves(s) ==
  /\ s \in kin18 /\ kin18' = kin18 \ {s}
  /\ UNCHANGED <<engine18, kind18, sup18, ready18, outcome18, child18, status18, termed18, wrote18,
                 pipe18, open18, buf18, log18, pend18, late18, restarts18, said18>>

StopSignal ==
  /\ sup18 \notin {"done", "broken"} /\ "stop" \notin pend18 /\ pend18' = pend18 \cup {"stop"}
  /\ UNCHANGED <<engine18, kind18, sup18, ready18, outcome18, child18, kin18, status18, termed18,
                 wrote18, pipe18, open18, buf18, log18, late18, restarts18, said18>>

DeadlinePasses18 ==
  /\ ~late18 /\ late18' = TRUE
  /\ UNCHANGED <<engine18, kind18, sup18, ready18, outcome18, child18, kin18, status18, termed18,
                 wrote18, pipe18, open18, buf18, log18, pend18, restarts18, said18>>

-----------------------------------------------------------------------------
(* supervise: capture and the poll loop.                                   *)

\* A round of cmd_supervise's loop: new pipes, new relays, spawn_child; with the
\* pidfd engine, pidfd_open may fail after it.
SpawnChild ==
  /\ sup18 = "spawn" /\ sup18' \in {"poll"} \cup {x \in {"broken"} : engine18 = "pidfd"}
  /\ child18' = "run" /\ kin18' = {} /\ termed18' = FALSE
  /\ wrote18' = [s \in Streams |-> <<>>] /\ pipe18' = [s \in Streams |-> <<>>]
  /\ open18' = [s \in Streams |-> TRUE] /\ buf18' = [s \in Streams |-> <<>>] /\ log18' = <<>>
  /\ UNCHANGED <<engine18, kind18, ready18, outcome18, status18, pend18, late18, restarts18,
                 said18>>

\* pipe2 or posix_spawn fails: nobody is started.
SpawnFails18 ==
  /\ sup18 = "spawn" /\ sup18' = "broken" /\ child18' = "none"
  /\ UNCHANGED <<engine18, kind18, ready18, outcome18, kin18, status18, termed18, wrote18, pipe18,
                 open18, buf18, log18, pend18, late18, restarts18, said18>>

\* A poll, a read of a pipe, a write of the log or a wait fails, and
\* cmd_supervise returns 1, wherever the child is.
CallFails18 ==
  /\ sup18 \in {"poll", "handle", "term", "drain"} /\ sup18' = "broken"
  /\ (sup18 = "term" => termed18) /\ (sup18 = "drain" => open18["out"] \/ open18["err"])
  /\ UNCHANGED <<engine18, kind18, ready18, outcome18, child18, kin18, status18, termed18, wrote18,
                 pipe18, open18, buf18, log18, pend18, late18, restarts18, said18>>

\* The end of stream s: all have closed its write end.
WriterGone(s) == child18 \in {"zombie", "reaped"} /\ s \notin kin18

\* poll over the open pipes, the signalfd and the pidfd.
Poll ==
  LET ready == {s \in Streams : open18[s] /\ (pipe18[s] # <<>> \/ WriterGone(s))}
               \cup {x \in {"sig"} : pend18 # {}}
               \cup {x \in {"pid"} : engine18 = "pidfd" /\ child18 = "zombie"}
  IN /\ sup18 = "poll"
     /\ IF ready # {} THEN sup18' = "handle" /\ ready18' = ready /\ UNCHANGED outcome18
        ELSE late18 /\ sup18' = "term" /\ outcome18' = "timeout" /\ UNCHANGED ready18
     /\ UNCHANGED <<engine18, kind18, child18, kin18, status18, termed18, wrote18, pipe18, open18,
                    buf18, log18, pend18, late18, restarts18, said18>>

\* emit: a record of the log, the lines of a chatty child apart.
Emit(log, s, line) == IF kind18 = "chatty" THEN log ELSE Append(log, <<s, line>>)

\* Faulty variant: the partial line is forgotten at the end of the stream.
DrainOnceUnflushed(s) ==
  IF pipe18[s] # <<>>
  THEN LET b == Append(buf18[s], Head(pipe18[s])) IN
       /\ pipe18' = [pipe18 EXCEPT ![s] = Tail(@)]
       /\ IF Head(pipe18[s]).nl \/ Len(b) > BufMax18
          THEN log18' = Emit(log18, s, b) /\ buf18' = [buf18 EXCEPT ![s] = <<>>]
          ELSE buf18' = [buf18 EXCEPT ![s] = b] /\ UNCHANGED log18
       /\ UNCHANGED open18
  ELSE /\ WriterGone(s) /\ open18' = [open18 EXCEPT ![s] = FALSE]
       /\ UNCHANGED <<pipe18, buf18, log18>>

\* drain_once with LineRelay::feed and flush: a read (here of one unit: what
\* feed does with more is what it does with one after the other), which may
\* complete a line or overfill the buffer; or the end of the stream.  With the
\* pipe empty and a writer left, it waits.
DrainOnce(s) ==
  IF pipe18[s] # <<>>
  THEN LET b == Append(buf18[s], Head(pipe18[s])) IN
       /\ pipe18' = [pipe18 EXCEPT ![s] = Tail(@)]
       /\ IF Head(pipe18[s]).nl \/ Len(b) > BufMax18
          THEN log18' = Emit(log18, s, b) /\ buf18' = [buf18 EXCEPT ![s] = <<>>]
          ELSE buf18' = [buf18 EXCEPT ![s] = b] /\ UNCHANGED log18
       /\ UNCHANGED open18
  ELSE /\ WriterGone(s) /\ open18' = [open18 EXCEPT ![s] = FALSE]
       /\ log18' = IF buf18[s] = <<>> THEN log18 ELSE Emit(log18, s, buf18[s])
       /\ buf18' = [buf18 EXCEPT ![s] = <<>>] /\ UNCHANGED pipe18

\* The pipes are served first, stdout before stderr.
HandlePipe(s) ==
  /\ sup18 = "handle" /\ s \in ready18 /\ (s = "err" => "out" \notin ready18)
  /\ DrainOnce(s) /\ ready18' = ready18 \ {s}
  /\ UNCHANGED <<engine18, kind18, sup18, outcome18, child18, kin18, status18, termed18, wrote18,
                 pend18, late18, restarts18, said18>>

\* Then one signal: SIGINT and SIGTERM come before SIGCHLD, which is answered
\* by a non-blocking wait.
HandleSignal ==
  /\ sup18 = "handle" /\ ready18 \cap Streams = {} /\ "sig" \in ready18
  /\ IF "stop" \in pend18
     THEN /\ pend18' = pend18 \ {"stop"} /\ sup18' = "term" /\ outcome18' = "signal"
          /\ ready18' = {} /\ UNCHANGED child18
     ELSE /\ pend18' = {}
          /\ IF child18 = "zombie"
             THEN child18' = "reaped" /\ sup18' = "drain" /\ outcome18' = "status" /\ ready18' = {}
             ELSE ready18' = ready18 \ {"sig"} /\ UNCHANGED <<child18, sup18, outcome18>>
  /\ UNCHANGED <<engine18, kind18, kin18, status18, termed18, wrote18, pipe18, open18, buf18, log18,
                 late18, restarts18, said18>>

\* Then the pidfd; and round again.
HandlePidfd ==
  /\ sup18 = "handle" /\ ready18 \subseteq {"pid"}
  /\ IF ready18 = {} THEN sup18' = "poll" /\ UNCHANGED <<child18, outcome18>>
     ELSE sup18' = "drain" /\ child18' = "reaped" /\ outcome18' = "status"
  /\ ready18' = {}
  /\ UNCHANGED <<engine18, kind18, kin18, status18, termed18, wrote18, pipe18, open18, buf18, log18,
                 pend18, late18, restarts18, said18>>

\* term_and_reap: SIGTERM, and a blocking wait.
TermAndReap ==
  /\ sup18 = "term"
  /\ \/ ~termed18 /\ termed18' = TRUE /\ UNCHANGED <<child18, sup18>>
     \/ termed18 /\ child18 = "zombie" /\ child18' = "reaped" /\ sup18' = "drain"
        /\ UNCHANGED termed18
  /\ UNCHANGED <<engine18, kind18, ready18, outcome18, kin18, status18, wrote18, pipe18, open18,
                 buf18, log18, pend18, late18, restarts18, said18>>

\* drain_to_eof: stdout to its end, then stderr.
DrainToEof(s) ==
  /\ sup18 = "drain" /\ open18[s] /\ (s = "err" => ~open18["out"])
  /\ DrainOnce(s)
  /\ UNCHANGED <<engine18, kind18, sup18, ready18, outcome18, child18, kin18, status18, termed18,
                 wrote18, pend18, late18, restarts18, said18>>

\* Faulty variant: the exit is reported without the rest of the output.
DrainedAtOnce == TRUE
Drained == ~open18["out"] /\ ~open18["err"]

\* Faulty variant: a child that was stopped is restarted as one that crashed.
ReportExitAnyhow ==
  /\ sup18 = "drain" /\ Drained
  /\ IF status18 # "ok" /\ restarts18 < MaxRestarts18
     THEN sup18' = "spawn" /\ restarts18' = restarts18 + 1 /\ UNCHANGED said18
     ELSE /\ sup18' = "done" /\ UNCHANGED restarts18
          /\ said18' = IF outcome18 # "status" THEN outcome18
                       ELSE IF status18 = "ok" THEN "clean" ELSE "gave up"
  /\ UNCHANGED <<engine18, kind18, ready18, outcome18, child18, kin18, status18, termed18, wrote18,
                 pipe18, open18, buf18, log18, pend18, late18>>

\* report_exit and the restart policy.
ReportExit ==
  /\ sup18 = "drain" /\ Drained
  /\ IF outcome18 = "status" /\ status18 # "ok" /\ restarts18 < MaxRestarts18
     THEN sup18' = "spawn" /\ restarts18' = restarts18 + 1 /\ UNCHANGED said18
     ELSE /\ sup18' = "done" /\ UNCHANGED restarts18
          /\ said18' = IF outcome18 # "status" THEN outcome18
                       ELSE IF status18 = "ok" THEN "clean" ELSE "gave up"
  /\ UNCHANGED <<engine18, kind18, ready18, outcome18, child18, kin18, status18, termed18, wrote18,
                 pipe18, open18, buf18, log18, pend18, late18>>

CapProgress ==
  \/ \E s \in Streams : (\E nl \in BOOLEAN : ChildWrites(s, nl)) \/ HandlePipe(s) \/ DrainToEof(s)
  \/ \E st \in {"ok", "fail", "killed"} : ChildDies(st)
  \/ DeadlinePasses18 \/ SpawnChild \/ Poll \/ HandleSignal \/ HandlePidfd \/ TermAndReap
  \/ ReportExit

CapNext ==
  \/ CapProgress \/ StopSignal \/ SpawnFails18 \/ CallFails18
  \/ \E s \in Streams : (\E nl \in BOOLEAN : KinWrites(s, nl)) \/ KinLeaves(s)

CapSpec == CapInit /\ [][CapNext]_capVars

\* What the lines of stream s in a log are together.
StreamText(log, s) ==
  LET text[i \in 0..Len(log)] ==
        IF i = 0 THEN <<>>
        ELSE IF log[i][1] = s THEN text[i - 1] \o log[i][2] ELSE text[i - 1]
  IN text[Len(log)]

OneLine(line) == \A j \in DOMAIN line : line[j].nl => j = Len(line)
LineEnds(line) == line[Len(line)].nl \/ Len(line) > BufMax18

\* When an exit is reported the log holds exactly what that child wrote, and who
\* inherited its pipes, each stream in order, cut at its line ends (or at
\* kChunk), the last line without a newline included.
CapturedWhole ==
  (sup18 \in {"spawn", "done"} /\ child18 = "reaped" /\ kind18 # "chatty") =>
    \A s \in Streams :
      /\ StreamText(log18, s) = wrote18[s]
      /\ \A i \in DOMAIN log18 : log18[i][1] = s =>
           /\ OneLine(log18[i][2])
           /\ (\E k \in DOMAIN log18 : k > i /\ log18[k][1] = s) => LineEnds(log18[i][2])

\* Capturing the output changes nothing of the restarts and the verdicts: v4
\* still does what Supervisor says, whatever call fails and whoever else holds
\* the pipes.  A child that was waited for is answered for by report_exit, when
\* its pipes are drained.
Abs18 == INSTANCE Supervisor WITH
  budget <- MaxRestarts18, left <- MaxRestarts18 - restarts18,
  child <- IF child18 \in {"none", "run"} THEN child18
           ELSE IF child18 = "reaped" /\ sup18 \in {"spawn", "done"} THEN "none"
           ELSE IF status18 = "ok" THEN "ok" ELSE "failed",
  due <- sup18 = "spawn",
  told <- outcome18 \in {"signal", "timeout"},
  over <- IF sup18 = "done" THEN "left" ELSE IF sup18 = "broken" THEN "broken" ELSE "no"
Supervises18 == Abs18!Spec

\* The deadline has passed for a child that falls silent now and then and dies
\* of SIGTERM.
DeadlinePassed18 == late18 /\ kind18 = "plain"

\* Refuted: "nothing about the v1/v2 restart/timeout/stop behavior changes"
\* (examples/18-pipes-fifos-splice/README.md:13).  A chatty child is always
\* ready before the deadline is looked at, a trapping one cannot say its farewell into a full pipe that
\* nobody reads, and the pipes that a grandchild holds do not end.
DeadlineEnds18 == late18 ~> sup18 \in {"done", "broken"}

-----------------------------------------------------------------------------
(* tail.                                                                   *)

TailInit ==
  /\ logLen = 0 /\ off = 0 /\ use_splice = TRUE /\ spliceWorks \in BOOLEAN
  /\ tail18 = "open" /\ chunkEnd = 0 /\ fifo18 = <<>> /\ reader18 = FALSE /\ writer18 = FALSE
  /\ got = <<>> /\ lost = {} /\ detaches = 0 /\ stop18 = FALSE

LogGrows ==
  /\ logLen < LogMax /\ logLen' = logLen + 1
  /\ UNCHANGED <<off, use_splice, spliceWorks, tail18, chunkEnd, fifo18, reader18, writer18, got,
                 lost, detaches, stop18>>

\* The FIFO's buffer lives as long as somebody has it open.
CloseFifo(stillOpen) ==
  IF stillOpen THEN UNCHANGED <<fifo18, lost>>
  ELSE fifo18' = <<>> /\ lost' = lost \cup ToSet(fifo18)

ReaderOpens ==
  /\ ~reader18 /\ reader18' = TRUE
  /\ UNCHANGED <<logLen, off, use_splice, spliceWorks, tail18, chunkEnd, fifo18, writer18, got,
                 lost, detaches, stop18>>

ReaderReads ==
  /\ reader18 /\ fifo18 # <<>> /\ got' = Append(got, Head(fifo18)) /\ fifo18' = Tail(fifo18)
  /\ UNCHANGED <<logLen, off, use_splice, spliceWorks, tail18, chunkEnd, reader18, writer18, lost,
                 detaches, stop18>>

ReaderLeaves ==
  /\ reader18 /\ detaches < MaxDetach /\ reader18' = FALSE /\ detaches' = detaches + 1
  /\ CloseFifo(writer18)
  /\ UNCHANGED <<logLen, off, use_splice, spliceWorks, tail18, chunkEnd, writer18, got, stop18>>

\* on_stop sets the flag; a splice that waits returns EINTR, one that has not
\* begun to does not.
TailSignal ==
  /\ (~stop18 \/ tail18 = "blocked") /\ stop18' = TRUE
  /\ tail18' = IF tail18 = "blocked" THEN "relay" ELSE tail18
  /\ UNCHANGED <<logLen, off, use_splice, spliceWorks, chunkEnd, fifo18, reader18, writer18, got,
                 lost, detaches>>

\* open_writer: ENXIO until a reader is there.
OpenWriter ==
  /\ tail18 = "open" /\ reader18 /\ ~stop18 /\ writer18' = TRUE /\ tail18' = "relay"
  /\ UNCHANGED <<logLen, off, use_splice, spliceWorks, chunkEnd, fifo18, reader18, got, lost,
                 detaches, stop18>>

\* EPIPE: the writer closes and waits for the next reader.
Detached == tail18' = "open" /\ writer18' = FALSE /\ CloseFifo(reader18)

Room18 == FifoCap - Len(fifo18)

\* The next n bytes of the log go into the FIFO.
PutFifo(from, n) == fifo18' = fifo18 \o [i \in 1..n |-> from + i]

\* cmd_tail's loop finds g_stop clear.
CheckStop18 ==
  /\ tail18 = "relay" /\ use_splice /\ ~stop18 /\ tail18' = "splice"
  /\ UNCHANGED <<logLen, off, use_splice, spliceWorks, chunkEnd, fifo18, reader18, writer18, got,
                 lost, detaches, stop18>>

\* relay_splice: EPIPE without a reader; it waits while the FIFO is full; then it
\* is not supported (EINVAL), or the log is at its end, or bytes are moved.
RelaySplice ==
  /\ tail18 \in {"splice", "blocked"}
  /\ \/ ~reader18 /\ Detached /\ UNCHANGED <<off, use_splice>>
     \/ /\ reader18 /\ Room18 = 0 /\ tail18 = "splice" /\ tail18' = "blocked"
        /\ UNCHANGED <<off, use_splice, fifo18, writer18, lost>>
     \/ /\ reader18 /\ Room18 > 0 /\ tail18' = "relay" /\ UNCHANGED <<writer18, lost>>
        /\ \/ /\ ~spliceWorks \/ off = logLen
              /\ use_splice' = spliceWorks /\ UNCHANGED <<off, fifo18>>
           \/ /\ spliceWorks /\ UNCHANGED use_splice
              /\ \E n \in 1..(logLen - off) : n <= Room18 /\ PutFifo(off, n) /\ off' = off + n
  /\ UNCHANGED <<logLen, spliceWorks, chunkEnd, reader18, got, detaches, stop18>>

\* relay_rw: the read moves the descriptor's offset to the end of the chunk.
RelayRead ==
  /\ tail18 = "relay" /\ ~use_splice /\ ~stop18 /\ off < logLen
  /\ chunkEnd' = logLen /\ tail18' = "write"
  /\ UNCHANGED <<logLen, off, use_splice, spliceWorks, fifo18, reader18, writer18, got, lost,
                 detaches, stop18>>

\* Faulty variant: the offset stays at the end of the chunk.
RelayWriteUnrewound ==
  /\ tail18 = "write"
  /\ \/ /\ reader18
        /\ \E n \in 1..(chunkEnd - off) : n <= Room18 /\ PutFifo(off, n) /\ off' = off + n
        /\ tail18' = IF off' = chunkEnd THEN "relay" ELSE "write"
        /\ UNCHANGED <<writer18, lost>>
     \/ ~reader18 /\ Detached /\ off' = chunkEnd
  /\ UNCHANGED <<logLen, use_splice, spliceWorks, chunkEnd, reader18, got, detaches, stop18>>

\* One write of relay_rw's loop; here off counts the bytes written, which is
\* where lseek puts the descriptor on an error.  An interrupted write is
\* repeated, stop or no stop.
RelayWrite ==
  /\ tail18 = "write"
  /\ \/ /\ reader18
        /\ \E n \in 1..(chunkEnd - off) : n <= Room18 /\ PutFifo(off, n) /\ off' = off + n
        /\ tail18' = IF off' = chunkEnd THEN "relay" ELSE "write"
        /\ UNCHANGED <<writer18, lost>>
     \/ ~reader18 /\ Detached /\ UNCHANGED off
  /\ UNCHANGED <<logLen, use_splice, spliceWorks, chunkEnd, reader18, got, detaches, stop18>>

TailStops18 ==
  /\ stop18 /\ tail18 \in {"open", "relay"} /\ tail18' = "done" /\ writer18' = FALSE
  /\ CloseFifo(reader18)
  /\ UNCHANGED <<logLen, off, use_splice, spliceWorks, chunkEnd, reader18, got, detaches, stop18>>

TailProgress ==
  \/ OpenWriter \/ CheckStop18 \/ RelaySplice \/ RelayRead \/ RelayWrite \/ TailStops18 \/ LogGrows
  \/ ReaderOpens
TailNext == TailProgress \/ ReaderReads \/ ReaderLeaves \/ TailSignal
TailSpec == TailInit /\ [][TailNext]_tailVars

\* Bytes reach the readers in the log's order, none twice, and tail skips none
\* of them: the offset passes only over bytes that went into the FIFO.
RelayedInOrder ==
  /\ LET sent == got \o fifo18
     IN \A i, j \in DOMAIN sent : i < j => sent[i] < sent[j]
  /\ 1..off = ToSet(got) \cup ToSet(fifo18) \cup lost

\* "a reader that detaches ... nothing lost": main.cpp's header and
\* "cat pmon.fifo  # reattach: nothing was lost".
NothingLost == lost = {}

\* A stop signal for a tail that splices, also to a reader that does not read;
\* and one that came when g_stop had been read and the splice that waits had not
\* begun: "blocking calls return EINTR" (main.cpp:627) is no help then.
SpliceAsked == stop18 /\ use_splice /\ spliceWorks
Missed18 == stop18 /\ tail18 = "blocked"
=============================================================================
