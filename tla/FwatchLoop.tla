----------------------------- MODULE FwatchLoop -----------------------------
(***************************************************************************)
(* fwatch, the file watcher.  "epoll" is examples/09-event-loops-epoll-    *)
(* inotify, cpp/src/main.cpp: one loop over inotify, one timer for all     *)
(* debounce windows and the deadline, and a signalfd.  "fleet" is          *)
(* examples/41-capstone-fleet, cpp/src/fwatch.cpp: a poll loop over        *)
(* inotify, a flag set by a signal handler, every event printed as it      *)
(* comes.  "v2" is the watch of examples/10-io-uring, cpp/src/main.cpp: a  *)
(* poll until the deadline, and no signal handling.  The masks of their    *)
(* watches differ.  The kernel's event queue is external: what finds no    *)
(* room in it is lost but for one record without a name (IN_Q_OVERFLOW),   *)
(* which all three loops skip.                                             *)
(***************************************************************************)
EXTENDS Naturals, Sequences, FiniteSetsExt

CONSTANTS Names, MaxChanges, Debounce, Deadline09
          \* names, changes of a behaviour, kDebounce, --timeout-ms in ticks

VARIABLES
  kind09,  \* "epoll", "fleet", "v2"
  pc09,    \* "start", "arm", "wait", "batch"; "check", "poll"; "exit", "failed"
  now09,   \* the clock
  dir09,   \* name -> 0 when there is no such file, else the change that made it
  start09, \* the directory when the watch began
  queue09, \* inotify events not yet read: <<kind, name>>
  pend09,  \* name -> <<>> or <<kind, due>>
  timer09, \* when the timerfd fires
  batch09, \* tokens epoll_wait returned and the loop has not handled
  sig09,   \* SIGTERM is pending, or its flag is set
  last09,  \* name -> the last event reported, or "none"
  lim09,   \* the watch has a deadline
  chg09,   \* changes so far
  open09,  \* names of deleted files that somebody may still write to
  untold09 \* history: name -> why its last change is not in an event: "mask" when the
           \* watch does not ask for it, "full" when the queue was, "gone" when the
           \* event is of a deleted file; "told" when it is
fsVars09 == <<dir09, queue09, chg09, open09, untold09>>
fwVars == <<kind09, pc09, now09, start09, pend09, timer09, batch09, sig09, last09, lim09,
            fsVars09>>
fwEnv == <<kind09, now09, dir09, sig09, start09, lim09, chg09, open09, untold09>>

\* watch, of fwatch v1, of the fleet's fwatch or of fwatch v2.
CommandLine09 == kind09 \in {"epoll", "fleet", "v2"}

FwInit ==
  /\ CommandLine09 /\ pc09 = "start" /\ now09 = 0
  /\ dir09 \in [Names -> {0, 1}] /\ start09 = dir09
  /\ lim09 \in (IF kind09 = "fleet" THEN BOOLEAN ELSE {TRUE})
  /\ queue09 = <<>> /\ pend09 = [n \in Names |-> <<>>] /\ timer09 = 0 /\ batch09 = {}
  /\ sig09 = FALSE /\ last09 = [n \in Names |-> "none"]
  /\ chg09 = 0 /\ open09 = {} /\ untold09 = [n \in Names |-> "told"]

\* cmd_diff of two snapshots.
Diff(old, new) ==
  {<<IF old[n] = 0 THEN "created" ELSE IF new[n] = 0 THEN "deleted" ELSE "modified", n>> :
     n \in {x \in Names : old[x] # new[x]}}

Ended09 == pc09 \in {"exit", "failed"}
Tick09 ==
  /\ ~Ended09 /\ now09 <= Deadline09 /\ now09' = now09 + 1
  /\ UNCHANGED <<kind09, pc09, start09, pend09, timer09, batch09, sig09, last09, lim09,
                 fsVars09>>

\* What the masks ask for: all three creations, writes and deletions, only v1
\* also renames (IN_MOVED_TO, IN_MOVED_FROM) and new times (IN_ATTRIB).
InMask(how) == kind09 = "epoll" \/ how \in {"create", "write", "delete"}

\* classify; the close of a written file (IN_CLOSE_WRITE) is of the same kind as
\* the write.
Classify(how) == CASE how \in {"create", "movein"}  -> "created"
                   [] how \in {"delete", "moveout"} -> "deleted"
                   [] OTHER                         -> "modified"

\* External: the kernel queues an event, but for a repetition of the last one; or
\* the queue is full, or there is no memory, and the event is lost.
Notify(k, n) ==
  \/ /\ queue09' = IF queue09 # <<>> /\ queue09[Len(queue09)] = <<k, n>>
                   THEN queue09 ELSE Append(queue09, <<k, n>>)
     /\ untold09' = [untold09 EXCEPT ![n] = IF dir09'[n] = 0 /\ k # "deleted"
                                            THEN "gone" ELSE "told"]
  \/ untold09' = [untold09 EXCEPT ![n] = "full"] /\ UNCHANGED queue09

Watched09 == ~Ended09 /\ pc09 # "start" /\ chg09 < MaxChanges /\ chg09' = chg09 + 1

\* A file is made, written, touched, deleted, renamed into the directory, also
\* over another one, or out of it.  A write sets the version of a file, as size
\* and mtime do.
ChangeFile(n, how) ==
  /\ Watched09
  /\ IF dir09[n] = 0 THEN how \in {"create", "movein"} ELSE how # "create"
  /\ dir09' = [dir09 EXCEPT ![n] = IF Classify(how) = "deleted" THEN 0 ELSE chg09 + 2]
  /\ open09' = IF how = "delete" \/ (how = "movein" /\ dir09[n] # 0)
               THEN open09 \cup {n} ELSE open09
  /\ IF InMask(how) THEN Notify(Classify(how), n)
     ELSE untold09' = [untold09 EXCEPT ![n] = "mask"] /\ UNCHANGED queue09
  /\ UNCHANGED <<kind09, pc09, now09, start09, pend09, timer09, batch09, sig09, last09, lim09>>

\* A deleted file is written to by who still has it open: without IN_EXCL_UNLINK
\* the watch reports that under the old name.
WriteUnlinked(n) ==
  /\ Watched09 /\ n \in open09 /\ UNCHANGED <<dir09, open09>> /\ Notify("modified", n)
  /\ UNCHANGED <<kind09, pc09, now09, start09, pend09, timer09, batch09, sig09, last09, lim09>>

RaiseTerm09 ==
  /\ ~Ended09 /\ pc09 # "start" /\ ~sig09 /\ sig09' = TRUE
  /\ pc09' = IF kind09 = "v2" THEN "exit" ELSE pc09
  /\ UNCHANGED <<kind09, now09, start09, pend09, timer09, batch09, last09, lim09, fsVars09>>

\* The descriptors and the watch; in the fleet the Landlock rules come first and
\* may be refused.
OpenWatch ==
  /\ pc09 = "start"
  /\ \/ pc09' = IF kind09 = "epoll" THEN "arm" ELSE "check"
     \/ kind09 = "fleet" /\ pc09' = "failed"
  /\ UNCHANGED <<queue09, pend09, timer09, batch09, last09, fwEnv>>

(* ----------------------- the epoll loop of example 09 -------------------- *)

Waiting == {n \in Names : pend09[n] # <<>>}
Due(n) == pend09[n][2]
NextDue == Min({Deadline09} \cup {Due(n) : n \in Waiting})

\* Faulty variant: a deadline that has passed disarms the timer.
ArmTimerZero ==
  /\ pc09 = "arm" /\ pc09' = "wait" /\ batch09' = {}
  /\ timer09' = IF NextDue <= now09 THEN 2 * Deadline09 ELSE NextDue
  /\ UNCHANGED <<queue09, pend09, last09, fwEnv>>

\* One timer for everything, set to what comes first; what is past fires at once.
ArmTimer ==
  /\ pc09 = "arm" /\ pc09' = "wait" /\ batch09' = {}
  /\ timer09' = Max({NextDue, now09})
  /\ UNCHANGED <<queue09, pend09, last09, fwEnv>>

EpollWait09 ==
  LET ready == {t \in {"inotify", "timer", "signal"} :
                  \/ t = "inotify" /\ queue09 # <<>>
                  \/ t = "timer" /\ now09 >= timer09
                  \/ t = "signal" /\ sig09}
  IN /\ pc09 = "wait" /\ ready # {} /\ batch09' = ready /\ pc09' = "batch"
     /\ UNCHANGED <<queue09, pend09, timer09, last09, fwEnv>>

\* Faulty variant: the first kind of a window stays.
MergeFirst(old, new) == IF old = <<>> THEN new ELSE old[1]

\* merge: deleting wins, a creation stays one, deleted and made again is modified.
Merge(old, new) ==
  IF old = <<>> \/ new = "deleted" THEN new
  ELSE IF old[1] = "created" THEN "created" ELSE "modified"

\* tok_inotify: events are read until the queue is empty; each renews its window.
ReadInotify ==
  /\ pc09 = "batch" /\ "inotify" \in batch09
  /\ IF queue09 = <<>>
     THEN batch09' = batch09 \ {"inotify"} /\ UNCHANGED <<queue09, pend09>>
     ELSE LET k == queue09[1][1]  n == queue09[1][2]
          IN /\ queue09' = Tail(queue09)
             /\ pend09' = [pend09 EXCEPT ![n] = <<Merge(pend09[n], k), now09 + Debounce>>]
             /\ UNCHANGED batch09
  /\ UNCHANGED <<pc09, timer09, last09, fwEnv>>

\* flush, of the windows that are over or of all of them.
FlushOf(ns) ==
  /\ last09' = [n \in Names |-> IF n \in ns THEN pend09[n][1] ELSE last09[n]]
  /\ pend09' = [n \in Names |-> IF n \in ns THEN <<>> ELSE pend09[n]]
OnTimer ==
  /\ pc09 = "batch" /\ "timer" \in batch09
  /\ IF now09 >= Deadline09
     THEN FlushOf(Waiting) /\ pc09' = "exit" /\ UNCHANGED batch09
     ELSE /\ FlushOf({n \in Waiting : Due(n) <= now09})
          /\ batch09' = batch09 \ {"timer"} /\ UNCHANGED pc09
  /\ UNCHANGED <<queue09, timer09, fwEnv>>
OnSignal09 ==
  /\ pc09 = "batch" /\ "signal" \in batch09
  /\ FlushOf(Waiting) /\ pc09' = "exit"
  /\ UNCHANGED <<queue09, timer09, batch09, fwEnv>>
Handled09 ==
  /\ pc09 = "batch" /\ batch09 = {} /\ pc09' = "arm"
  /\ UNCHANGED <<queue09, pend09, timer09, batch09, last09, fwEnv>>

(* ------------------ the poll loops of the fleet and of v2 ----------------- *)

CheckFlag ==
  /\ pc09 = "check"
  /\ pc09' = IF sig09 \/ (lim09 /\ now09 > Deadline09) \/ (kind09 = "v2" /\ now09 >= Deadline09)
             THEN "exit" ELSE "poll"
  /\ UNCHANGED <<queue09, pend09, timer09, batch09, last09, fwEnv>>

\* Faulty variant: a poll without a timeout, which the signal does not interrupt
\* if it comes between the check and the call.
PollEventsForever ==
  /\ pc09 = "poll" /\ queue09 # <<>> /\ pc09' = "check"
  /\ last09' = [last09 EXCEPT ![queue09[1][2]] = queue09[1][1]] /\ queue09' = Tail(queue09)
  /\ UNCHANGED <<pend09, timer09, batch09, fwEnv>>

\* poll: a timeout (200 ms, in v2 the deadline) or an interruption, or one read
\* of what is queued, printed as it is.
PollEvents ==
  /\ pc09 = "poll"
  /\ \/ /\ queue09 = <<>> /\ (kind09 = "v2" => now09 >= Deadline09)
        /\ pc09' = "check" /\ UNCHANGED <<queue09, last09>>
     \/ /\ queue09 # <<>> /\ queue09' = Tail(queue09)
        /\ last09' = [last09 EXCEPT ![queue09[1][2]] = queue09[1][1]]
        /\ pc09' = IF Len(queue09) = 1 THEN "check" ELSE "poll"
  /\ UNCHANGED <<pend09, timer09, batch09, fwEnv>>

FwProgress ==
  \/ OpenWatch \/ ArmTimer \/ EpollWait09 \/ ReadInotify \/ OnTimer \/ OnSignal09
  \/ Handled09 \/ CheckFlag \/ PollEvents
FwNext ==
  \/ FwProgress \/ Tick09 \/ RaiseTerm09
  \/ \E n \in Names :
       \/ \E how \in {"create", "write", "touch", "delete", "movein", "moveout"} :
            ChangeFile(n, how)
       \/ WriteUnlinked(n)
FwSpec == FwInit /\ [][FwNext]_fwVars

\* Nothing of the name is queued or held back.
Quiet09(n) == pend09[n] = <<>> /\ ~(\E i \in 1..Len(queue09) : queue09[i][2] = n)

\* A reader of the output that has a snapshot of the start knows what became of
\* the name: no report means that a diff does not name it, "deleted" that it is
\* gone, the others that it is there.
Tells(n) == CASE last09[n] = "none" -> \A d \in Diff(start09, dir09) : d[2] # n
              [] last09[n] = "deleted" -> dir09[n] = 0
              [] OTHER -> dir09[n] # 0

\* The output tells the directory again whenever nothing is queued or held back:
\* merging, windows and the order of a batch never break that.  It is not claimed
\* of a name whose last change no event told: a rename in the fleet and in v2,
\* what came when the queue was full, a write to a deleted file.  The next
\* event of the name sets it right again.
ReportTracksDir == \A n \in Names : untold09[n] = "told" /\ Quiet09(n) => Tells(n)

\* _docs/09-event-loops-epoll-inotify.md:141: "A correct watcher treats
\* IN_Q_OVERFLOW as "my view is stale, re-scan"": what it prints is right again
\* when the queue has been read.  The loop skips the record as one "on the
\* directory itself".
OverflowRescans ==
  kind09 = "epoll" =>
    \A n \in Names : untold09[n] \in {"told", "full"} /\ queue09 = <<>> /\ Quiet09(n) => Tells(n)

\* All kinds of change are reported by all three; false of renames in the fleet's
\* fwatch and in v2.
RenamesTold == \A n \in Names : untold09[n] \in {"told", "mask"} /\ Quiet09(n) => Tells(n)
=============================================================================
