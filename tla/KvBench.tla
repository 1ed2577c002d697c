------------------------------- MODULE KvBench -------------------------------
(***************************************************************************)
(* shmkv bench, examples/20-shared-memory-coordination/cpp/src/main.cpp:   *)
(* one thread sends a round, the other waits for it and acknowledges it;   *)
(* the rounds travel through the futex word, through the counter that is   *)
(* looked at every millisecond, or through a message queue.  The bench     *)
(* ends with its report, or with the exit of a thread that gave up.        *)
(***************************************************************************)
EXTENDS Naturals

CONSTANT Rounds20  \* --rounds

VARIABLES
  chan20,    \* "futex", "poll", "mq"
  word20, counter20,
  queue20,   \* messages in the queue
  ack20,
  sender20,  \* main: [i; at: "spin", "counter", "word", "wake", "join", "report"]
  taker20,   \* consumer: [i; at: "look", "wait", "asleep", "took", "done"; w]
  late20,    \* 30 s have passed since the consumer was started: spin_deadline
  gaveUp20   \* a thread called std::exit(1): neither takes another step
benchVars == <<chan20, word20, counter20, queue20, ack20, sender20, taker20, late20, gaveUp20>>

CommandLine20 == chan20 \in {"futex", "poll", "mq"}

BenchInit ==
  /\ CommandLine20 /\ word20 = 0 /\ counter20 = 0 /\ queue20 = 0 /\ ack20 = 0
  /\ sender20 = [i |-> 1, at |-> "spin"] /\ taker20 = [i |-> 1, at |-> "look", w |-> 0]
  /\ late20 = FALSE /\ gaveUp20 = FALSE

Sender(from, to) == sender20.at = from /\ sender20' = [sender20 EXCEPT !.at = to]
Taker(from, to) == taker20.at = from /\ taker20' = [taker20 EXCEPT !.at = to]

-----------------------------------------------------------------------------
(* main.                                                                   *)

\* std::exit(1), from main or from the consumer, ends both.
BenchExits ==
  /\ gaveUp20' = TRUE
  /\ UNCHANGED <<chan20, word20, counter20, queue20, ack20, sender20, taker20, late20>>

\* "consumer stalled": the deadline is one for all rounds, and it is looked at
\* only while the acknowledgement is not there.
Stalled ==
  /\ sender20.at = "spin" /\ sender20.i <= Rounds20 /\ ack20 # sender20.i - 1 /\ late20
  /\ BenchExits

\* The round before is acknowledged: send_ns, and the way to the channel.
AwaitAck ==
  /\ ack20 = sender20.i - 1 /\ sender20.i <= Rounds20 /\ Sender("spin", "counter")
  /\ UNCHANGED <<chan20, word20, counter20, queue20, ack20, taker20, late20, gaveUp20>>

NextRound == sender20' = [i |-> sender20.i + 1, at |-> "spin"]

SendMq ==
  /\ chan20 = "mq" /\ sender20.at = "counter" /\ queue20' = queue20 + 1 /\ NextRound
  /\ UNCHANGED <<chan20, word20, counter20, ack20, taker20, late20, gaveUp20>>

\* mq_timedsend failed, a signal or its 10 s included.
SendMqFails == chan20 = "mq" /\ sender20.at = "counter" /\ BenchExits

\* seqlock_write of the counter.
SendCounter ==
  /\ chan20 # "mq" /\ counter20' = sender20.i /\ Sender("counter", "word")
  /\ UNCHANGED <<chan20, word20, queue20, ack20, taker20, late20, gaveUp20>>

SendWord ==
  /\ Sender("word", "wake") /\ word20' = sender20.i
  /\ UNCHANGED <<chan20, counter20, queue20, ack20, taker20, late20, gaveUp20>>

\* FUTEX_WAKE, on the futex channel.
WakeTaker ==
  /\ sender20.at = "wake" /\ NextRound
  /\ IF chan20 = "futex" /\ taker20.at = "asleep" THEN Taker("asleep", "look")
     ELSE UNCHANGED taker20
  /\ UNCHANGED <<chan20, word20, counter20, queue20, ack20, late20, gaveUp20>>

\* The loop ends, the consumer is joined, the percentiles are printed.
JoinTaker ==
  /\ \/ sender20.i > Rounds20 /\ Sender("spin", "join")
     \/ taker20.at = "done" /\ Sender("join", "report")
  /\ UNCHANGED <<chan20, word20, counter20, queue20, ack20, taker20, late20, gaveUp20>>

-----------------------------------------------------------------------------
(* The consumer.                                                           *)

\* The word is loaded: the round is there, or the futex is next.
LookAtWord ==
  /\ chan20 = "futex" /\ taker20.at = "look"
  /\ taker20' = [taker20 EXCEPT !.w = word20,
                                !.at = IF word20 >= taker20.i THEN "took" ELSE "wait"]
  /\ UNCHANGED <<chan20, word20, counter20, queue20, ack20, sender20, late20, gaveUp20>>

\* Faulty variant: the word is loaded again for the futex.
WaitForWordReloaded ==
  /\ Taker("wait", "asleep")
  /\ UNCHANGED <<chan20, word20, counter20, queue20, ack20, sender20, late20, gaveUp20>>

\* FUTEX_WAIT sleeps only while the word is the one that was loaded.
WaitForWord ==
  /\ Taker("wait", IF word20 = taker20.w THEN "asleep" ELSE "look")
  /\ UNCHANGED <<chan20, word20, counter20, queue20, ack20, sender20, late20, gaveUp20>>

\* The 200 ms are over, or a signal came.
FutexReturns ==
  /\ Taker("asleep", "look")
  /\ UNCHANGED <<chan20, word20, counter20, queue20, ack20, sender20, late20, gaveUp20>>

\* One millisecond, then a look at the counter.
LookAtCounter ==
  /\ chan20 = "poll" /\ counter20 >= taker20.i /\ Taker("look", "took")
  /\ UNCHANGED <<chan20, word20, counter20, queue20, ack20, sender20, late20, gaveUp20>>

ReceiveMq ==
  /\ chan20 = "mq" /\ queue20 > 0 /\ queue20' = queue20 - 1 /\ Taker("look", "took")
  /\ UNCHANGED <<chan20, word20, counter20, ack20, sender20, late20, gaveUp20>>

\* mq_timedreceive failed, its 10 s included, but not with EINTR.
ReceiveMqFails == chan20 = "mq" /\ taker20.at = "look" /\ BenchExits

\* recv_ns, and the acknowledgement.
Acknowledge ==
  /\ taker20.at = "took" /\ ack20' = taker20.i
  /\ taker20' = [taker20 EXCEPT !.i = @ + 1, !.at = IF taker20.i = Rounds20 THEN "done" ELSE "look"]
  /\ UNCHANGED <<chan20, word20, counter20, queue20, sender20, late20, gaveUp20>>

-----------------------------------------------------------------------------
\* Thirty seconds are over.
SpinDeadlinePasses ==
  /\ ~late20 /\ late20' = TRUE
  /\ UNCHANGED <<chan20, word20, counter20, queue20, ack20, sender20, taker20, gaveUp20>>

BenchMain ==
  ~gaveUp20 /\ (Stalled \/ AwaitAck \/ SendMq \/ SendCounter \/ SendWord \/ WakeTaker \/ JoinTaker)
BenchTaker ==
  ~gaveUp20 /\ (LookAtWord \/ WaitForWord \/ LookAtCounter \/ ReceiveMq \/ Acknowledge)
BenchFault == ~gaveUp20 /\ (SendMqFails \/ ReceiveMqFails \/ FutexReturns \/ SpinDeadlinePasses)
BenchNext == BenchMain \/ BenchTaker \/ BenchFault

\* The rounds come to their end, without the help of FutexReturns: with the
\* report, or with a thread that gave up, for which a deadline must have passed
\* or the message queue failed (BenchFault, of which nothing is assumed).
BenchReports == <>(sender20.at = "report" \/ gaveUp20)
=============================================================================
