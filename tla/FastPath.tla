------------------------------ MODULE FastPath ------------------------------
(***************************************************************************)
(* The echo server of examples/40-low-latency-fastpath, cpp/src/main.cpp:  *)
(* one thread that serves one connection after the other, with a read that *)
(* blocks (fastpath, naive) or spins (fastpath --busy-poll), and a signal  *)
(* handler that only sets g_stop.  Measuring clients keep one frame in     *)
(* flight.  A frame is two pieces, each marked with its client and number: *)
(* a read returns one piece or more.                                       *)
(***************************************************************************)
EXTENDS Naturals, Sequences, FiniteSets, SequencesExt

CONSTANTS
  Clients40,
  Trips      \* round trips of a client, warmup included

VARIABLES
  read40,   \* "blocking" or "busy"
  srv40,    \* "check", "poll", "read", "asleep" (in read), "break", "write", "exit"
  stop40,   \* g_stop
  queue40,  \* clients in the queue of the listener
  served,   \* the client of conn, <<>> if there is none
  buf40,    \* the server's buffer: two pieces
  off40,    \* pieces of it that were read
  cl40,     \* client -> [at: "new", "send", "half", "wait", "done", "error"; i]
  in40,     \* client -> pieces on the way to the server
  out40,    \* client -> pieces on the way back
  mismatched
fastVars == <<read40, srv40, stop40, queue40, served, buf40, off40, cl40, in40, out40,
              mismatched>>
server40 == <<read40, srv40, stop40, served, buf40, off40>>
client40 == <<cl40, in40, mismatched>>

Zero == <<"zero", 0>>

\* fastpath with or without --busy-poll, or naive.
CommandLine40 == read40 \in {"blocking", "busy"}
Listen40 == queue40 = <<>> /\ served = <<>>

FastInit ==
  /\ CommandLine40 /\ Listen40 /\ srv40 = "check" /\ stop40 = FALSE
  /\ buf40 = <<Zero, Zero>> /\ off40 = 0
  /\ cl40 = [c \in Clients40 |-> [at |-> "new", i |-> 0]]
  /\ in40 = [c \in Clients40 |-> <<>>] /\ out40 = [c \in Clients40 |-> <<>>]
  /\ mismatched = {}

(* -------------------------------- measure -------------------------------- *)

Set40(c, at) == cl40' = [cl40 EXCEPT ![c].at = at]

Connect40(c) ==
  /\ srv40 # "exit" /\ cl40[c].at = "new" /\ Set40(c, "send") /\ queue40' = Append(queue40, c)
  /\ UNCHANGED <<server40, in40, out40, mismatched>>

\* write_all of a frame: its pieces may leave one by one.
SendPiece(c) ==
  /\ cl40[c].at \in {"send", "half"}
  /\ in40' = [in40 EXCEPT ![c] = Append(@, <<c, cl40[c].i>>)]
  /\ Set40(c, IF cl40[c].at = "send" THEN "half" ELSE "wait")
  /\ UNCHANGED <<server40, queue40, out40, mismatched>>

\* A whole frame came back: it must be the one that was sent.  After the last one
\* the client ends and closes.
CheckEcho(c) ==
  /\ cl40[c].at = "wait" /\ Len(out40[c]) >= 2
  /\ out40' = [out40 EXCEPT ![c] = SubSeq(@, 3, Len(@))]
  /\ IF ToSet(SubSeq(out40[c], 1, 2)) # {<<c, cl40[c].i>>}
     THEN mismatched' = mismatched \cup {c} /\ Set40(c, "error")
     ELSE /\ UNCHANGED mismatched
          /\ cl40' = [cl40 EXCEPT ![c] = [i |-> @.i + 1,
                                         at |-> IF @.i + 1 = Trips THEN "done" ELSE "send"]]
  /\ UNCHANGED <<server40, queue40, in40>>

\* A client is killed, in the middle of a frame too.
ClientDies40(c) ==
  /\ cl40[c].at \in {"send", "half", "wait"} /\ Set40(c, "done")
  /\ UNCHANGED <<server40, queue40, in40, out40, mismatched>>

\* "connection closed": the server has let go of the client.
ServerGone(c) ==
  /\ cl40[c].at \in {"send", "half", "wait"} /\ out40[c] = <<>>
  /\ served # <<c>> /\ c \notin ToSet(queue40) /\ Set40(c, "error")
  /\ UNCHANGED <<server40, queue40, in40, out40, mismatched>>

(* -------------------------------- server --------------------------------- *)

\* The handler sets the flag, and a read that sleeps returns EINTR.
OnSignal40 ==
  /\ ~stop40 /\ srv40 # "exit" /\ stop40' = TRUE
  /\ srv40' = IF srv40 = "asleep" THEN "break" ELSE srv40
  /\ UNCHANGED <<read40, queue40, served, buf40, off40, client40, out40>>

CheckStop40 ==
  /\ srv40 = "check" /\ srv40' = IF stop40 THEN "exit" ELSE "poll"
  /\ queue40' = IF stop40 THEN <<>> ELSE queue40
  /\ UNCHANGED <<read40, stop40, served, buf40, off40, client40, out40>>

\* poll for 200 ms, ended by a connection, by the time or by a signal.
PollAccept ==
  /\ srv40 = "poll"
  /\ IF queue40 = <<>> THEN srv40' = "check" /\ UNCHANGED <<queue40, served, buf40, off40>>
     ELSE /\ srv40' = "read" /\ served' = <<Head(queue40)>> /\ queue40' = Tail(queue40)
          /\ buf40' = <<Zero, Zero>> /\ off40' = 0
  /\ UNCHANGED <<read40, stop40, client40, out40>>

Filled(b, off, new) ==
  [j \in 1..2 |-> IF j > off /\ j <= off + Len(new) THEN new[j - off] ELSE b[j]]

\* Faulty variant: one read is taken for a whole frame.
TakePiecesOnce(c, n) ==
  /\ buf40' = Filled(buf40, off40, SubSeq(in40[c], 1, n)) /\ off40' = 0 /\ srv40' = "write"
  /\ in40' = [in40 EXCEPT ![c] = SubSeq(@, n + 1, Len(@))]

\* read of what is still missing of a frame; what it returns may be less.
TakePieces(c, n) ==
  /\ buf40' = Filled(buf40, off40, SubSeq(in40[c], 1, n))
  /\ in40' = [in40 EXCEPT ![c] = SubSeq(@, n + 1, Len(@))]
  /\ IF off40 + n = 2 THEN off40' = 0 /\ srv40' = "write"
     ELSE off40' = off40 + n /\ srv40' = "read"

Closed40(c) == cl40[c].at \in {"done", "error"}

\* Faulty variant: the spinning read does not look at the flag.
NothingToReadSpin(c) ==
  \/ Closed40(c) /\ srv40' = "break"
  \/ ~Closed40(c) /\ read40 = "blocking" /\ srv40' = "asleep"

\* Nothing to read: the end of the stream; else sleep, or spin until g_stop.
NothingToRead(c) ==
  \/ Closed40(c) /\ srv40' = "break"
  \/ ~Closed40(c) /\ read40 = "blocking" /\ srv40' = "asleep"
  \/ ~Closed40(c) /\ read40 = "busy" /\ stop40 /\ srv40' = "break"

ReadFull ==
  /\ srv40 = "read"
  /\ LET c == served[1]
     IN \/ in40[c] # <<>> /\ \E n \in 1..Len(in40[c]) : n <= 2 - off40 /\ TakePieces(c, n)
        \/ in40[c] = <<>> /\ NothingToRead(c) /\ UNCHANGED <<buf40, off40, in40>>
  /\ UNCHANGED <<read40, stop40, queue40, served, cl40, mismatched, out40>>

\* Something came while read slept.
WakeRead ==
  /\ srv40 = "asleep" /\ (in40[served[1]] # <<>> \/ Closed40(served[1])) /\ srv40' = "read"
  /\ UNCHANGED <<read40, stop40, queue40, served, buf40, off40, client40, out40>>

\* write_all of the buffer; a client that is gone loses it.
EchoFrame ==
  /\ srv40 = "write" /\ srv40' = "read"
  /\ out40' = IF Closed40(served[1]) THEN out40
              ELSE [out40 EXCEPT ![served[1]] = @ \o buf40]
  /\ UNCHANGED <<read40, stop40, queue40, served, buf40, off40, client40>>

\* The connection is closed; the condition of the loop comes next.
CloseConn40 ==
  /\ srv40 = "break" /\ srv40' = "check" /\ served' = <<>>
  /\ UNCHANGED <<read40, stop40, queue40, buf40, off40, client40, out40>>

FastServer ==
  CheckStop40 \/ PollAccept \/ ReadFull \/ WakeRead \/ EchoFrame \/ CloseConn40
FastNext ==
  \/ FastServer \/ OnSignal40
  \/ \E c \in Clients40 :
       \/ Connect40(c) \/ SendPiece(c) \/ CheckEcho(c) \/ ClientDies40(c) \/ ServerGone(c)

\* No client gets the frame of another one, an older one or a mixture of two back,
\* although one buffer serves all frames and reads come in pieces.
OwnEcho == mismatched = {}

\* The signal came between the check of the loop and a read that blocks: only the
\* client ends this read.
Missed40 == stop40 /\ srv40 = "asleep"

\* "a non-restarting SIGINT/SIGTERM handler unblock the accept wait and the read in
\* progress" (main.cpp): no read is in progress after the signal.
SignalUnblocks == <>[]~Missed40
=============================================================================
