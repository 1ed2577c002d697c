------------------------------- MODULE ChatV0 -------------------------------
(***************************************************************************)
(* chatterd v0, examples/21-tcp-sockets, cpp/src/main.cpp: a thread per    *)
(* connection, a hub whose mutex is held during a whole broadcast, and a   *)
(* shutdown that stops and joins every thread.  SIGPIPE keeps its default  *)
(* action, so a write to a socket that is shut ends the server.            *)
(***************************************************************************)
EXTENDS Naturals, Sequences, FiniteSets, SequencesExt

CONSTANTS Clients21, Scripts   \* chatctl processes; the frames one of them sends

VARIABLES
  main21,  \* "accept", "stop", "join", "exit", "killed"
  sigint,  \* g_stop
  ctl21,   \* client -> "idle", "open", "left"
  script,  \* client -> frames it will still send
  wire,    \* client -> frames sent and not yet read
  th21,    \* thread of a client: "none", "add", "read", "write", "remove", "gone"
  hub21,   \* clients_, in the order they were added
  named,   \* clients whose JOIN was read
  lock21,  \* who holds m_: a set of at most one client
  frame21, todo21, then21, \* thread: its broadcast, whom it still goes to, what follows
  shut21,  \* connections the server shut down
  reset21, \* connections that have answered a write with a reset
  inbox,   \* client -> frames that reached it
  casts21  \* history: broadcasts so far; a frame carries the number of its own
v0Vars == <<main21, sigint, ctl21, script, wire, th21, hub21, named, lock21, frame21,
            todo21, then21, shut21, reset21, inbox, casts21>>
v0Net == <<script, wire, ctl21>>
v0Hub == <<hub21, named, lock21, frame21, todo21, then21, casts21>>

\* chatctl commands, or other clients that speak the protocol.
CommandLine21 == script \in [Clients21 -> Scripts]

V0Init ==
  /\ CommandLine21 /\ main21 = "accept" /\ sigint = FALSE /\ ctl21 = [c \in Clients21 |-> "idle"]
  /\ wire = [c \in Clients21 |-> <<>>]
  /\ th21 = [c \in Clients21 |-> "none"] /\ hub21 = <<>> /\ named = {} /\ lock21 = {}
  /\ frame21 = [c \in Clients21 |-> <<>>] /\ todo21 = [c \in Clients21 |-> <<>>]
  /\ then21 = [c \in Clients21 |-> "read"] /\ shut21 = {} /\ reset21 = {}
  /\ inbox = [c \in Clients21 |-> <<>>] /\ casts21 = 0

Alive21 == main21 \notin {"exit", "killed"}

(* ------------------------------- chatctl --------------------------------- *)

\* The first frame, a JOIN in chatctl, follows at once.
Connect21(c) ==
  /\ Alive21 /\ ctl21[c] = "idle" /\ ctl21' = [ctl21 EXCEPT ![c] = "open"]
  /\ wire' = [wire EXCEPT ![c] = <<Head(script[c])>>]
  /\ script' = [script EXCEPT ![c] = Tail(@)]
  /\ UNCHANGED <<main21, sigint, th21, shut21, reset21, inbox, v0Hub>>

\* A frame per line.
SendFrame(c) ==
  /\ Alive21 /\ ctl21[c] = "open" /\ script[c] # <<>>
  /\ wire' = [wire EXCEPT ![c] = Append(@, Head(script[c]))]
  /\ script' = [script EXCEPT ![c] = Tail(@)]
  /\ UNCHANGED <<main21, sigint, ctl21, th21, shut21, reset21, inbox, v0Hub>>

\* The end of its input: shutdown, and the reader thread ends.
Leave21(c) ==
  /\ Alive21 /\ ctl21[c] = "open" /\ script[c] = <<>> /\ ctl21' = [ctl21 EXCEPT ![c] = "left"]
  /\ UNCHANGED <<main21, sigint, script, wire, th21, shut21, reset21, inbox, v0Hub>>

(* -------------------------------- serve ---------------------------------- *)

OnSigint ==
  /\ Alive21 /\ ~sigint /\ sigint' = TRUE
  /\ UNCHANGED <<main21, th21, shut21, reset21, inbox, v0Net, v0Hub>>

Accept21(c) ==
  /\ main21 = "accept" /\ ~sigint /\ ctl21[c] # "idle" /\ th21[c] = "none"
  /\ th21' = [th21 EXCEPT ![c] = "add"]
  /\ UNCHANGED <<main21, sigint, shut21, reset21, inbox, v0Net, v0Hub>>

SeeStop ==
  /\ main21 = "accept" /\ sigint /\ main21' = "stop"
  /\ UNCHANGED <<sigint, th21, shut21, reset21, inbox, v0Net, v0Hub>>

Threads21 == {c \in Clients21 : th21[c] # "none"}

\* Faulty variant: the threads are joined and not asked to stop.
RequestStopNone ==
  /\ main21 = "stop" /\ main21' = "join"
  /\ UNCHANGED <<sigint, th21, shut21, reset21, inbox, v0Net, v0Hub>>

\* request_stop, thread by thread: its callback shuts the socket down, unless
\* the thread is over.
RequestStop ==
  /\ main21 = "stop"
  /\ \/ \E c \in Threads21 \ shut21 :
          shut21' = shut21 \cup {c} /\ UNCHANGED main21
     \/ Threads21 \subseteq shut21 /\ main21' = "join" /\ UNCHANGED shut21
  /\ UNCHANGED <<sigint, th21, reset21, inbox, v0Net, v0Hub>>

JoinThreads ==
  /\ main21 = "join" /\ \A c \in Threads21 : th21[c] = "gone"
  /\ main21' = "exit"
  /\ UNCHANGED <<sigint, th21, shut21, reset21, inbox, v0Net, v0Hub>>

(* ----------------------------- serve_client ------------------------------ *)

Free21 == lock21 = {}

HubAdd(c) ==
  /\ Alive21 /\ th21[c] = "add" /\ Free21 /\ hub21' = Append(hub21, c)
  /\ th21' = [th21 EXCEPT ![c] = "read"]
  /\ UNCHANGED <<main21, sigint, shut21, reset21, inbox, v0Net, named, lock21, frame21,
                 todo21, then21, casts21>>

Stop21(c) ==
  /\ th21' = [th21 EXCEPT ![c] = "remove"]
  /\ UNCHANGED <<named, frame21, todo21, then21, casts21>>

\* Faulty variant: broadcast copies the list and writes without the mutex.
BroadcastUnlocked(c, kind, to) ==
  /\ Free21 /\ UNCHANGED lock21 /\ casts21' = casts21 + 1
  /\ frame21' = [frame21 EXCEPT ![c] = <<kind, c, casts21'>>] /\ todo21' = [todo21 EXCEPT ![c] = to]
  /\ th21' = [th21 EXCEPT ![c] = "write"]

\* broadcast: the mutex is taken, and held until the last write is done.
Broadcast21(c, kind, to) ==
  /\ Free21 /\ lock21' = {c} /\ casts21' = casts21 + 1
  /\ frame21' = [frame21 EXCEPT ![c] = <<kind, c, casts21'>>] /\ todo21' = [todo21 EXCEPT ![c] = to]
  /\ th21' = [th21 EXCEPT ![c] = "write"]

\* A frame: a JOIN is told to all, a MSG to the others if a JOIN came first, other
\* types are ignored.
OnFrame21(c) ==
  /\ Alive21 /\ th21[c] = "read" /\ wire[c] # <<>>
  /\ wire' = [wire EXCEPT ![c] = Tail(@)]
  /\ LET f == Head(wire[c])
     IN \/ /\ f = "JOIN" /\ named' = named \cup {c}
           /\ Broadcast21(c, "joined", hub21)
           /\ then21' = [then21 EXCEPT ![c] = "read"]
        \/ /\ f = "MSG" /\ c \in named /\ UNCHANGED named
           /\ Broadcast21(c, "said", RemoveFirst(hub21, c))
           /\ then21' = [then21 EXCEPT ![c] = "read"]
        \/ /\ (f = "MSG" /\ c \notin named) \/ f = "PING"
           /\ UNCHANGED <<th21, named, lock21, frame21, todo21, then21, casts21>>
        \/ f = "bad" /\ Stop21(c) /\ UNCHANGED lock21
  /\ UNCHANGED <<main21, sigint, ctl21, script, hub21, shut21, reset21, inbox>>

\* The end of the stream, or the shutdown of this side once all was read.
OnEnd21(c) ==
  /\ Alive21 /\ th21[c] = "read" /\ wire[c] = <<>> /\ (c \in shut21 \/ ctl21[c] = "left")
  /\ Stop21(c)
  /\ UNCHANGED <<main21, sigint, v0Net, hub21, lock21, shut21, reset21, inbox>>

\* write_all to the next client: SIGPIPE if the server has shut the socket, or
\* the peer has answered an earlier write with a reset.
WriteNext(c) ==
  /\ Alive21 /\ th21[c] = "write" /\ todo21[c] # <<>>
  /\ LET d == Head(todo21[c])
     IN \/ /\ d \in shut21 \cup reset21 /\ main21' = "killed"
           /\ UNCHANGED <<inbox, reset21>>
        \/ /\ d \notin shut21 \cup reset21 /\ UNCHANGED main21
           /\ IF ctl21[d] = "left" THEN reset21' = reset21 \cup {d} /\ UNCHANGED inbox
              ELSE /\ inbox' = [inbox EXCEPT ![d] = Append(@, frame21[c])]
                   /\ UNCHANGED reset21
  /\ todo21' = [todo21 EXCEPT ![c] = Tail(@)]
  /\ UNCHANGED <<sigint, th21, shut21, v0Net, hub21, named, lock21, frame21, then21,
                 casts21>>

Written21(c) ==
  /\ Alive21 /\ th21[c] = "write" /\ todo21[c] = <<>>
  /\ lock21' = lock21 \ {c} /\ th21' = [th21 EXCEPT ![c] = then21[c]]
  /\ UNCHANGED <<main21, sigint, shut21, reset21, inbox, v0Net, hub21, named, frame21,
                 todo21, then21, casts21>>

\* remove, then "left" to those who stay if there was a name.
HubRemove(c) ==
  /\ Alive21 /\ th21[c] = "remove" /\ Free21
  /\ hub21' = RemoveFirst(hub21, c)
  /\ IF c \in named
     THEN /\ Broadcast21(c, "left", hub21')
          /\ then21' = [then21 EXCEPT ![c] = "gone"]
     ELSE /\ th21' = [th21 EXCEPT ![c] = "gone"]
          /\ UNCHANGED <<lock21, frame21, todo21, then21, casts21>>
  /\ UNCHANGED <<main21, sigint, shut21, reset21, inbox, v0Net, named>>

V0Progress ==
  \/ SeeStop \/ RequestStop \/ JoinThreads
  \/ \E c \in Clients21 :
       \/ Accept21(c) \/ HubAdd(c) \/ OnFrame21(c) \/ OnEnd21(c) \/ WriteNext(c)
       \/ Written21(c) \/ HubRemove(c)
V0Next ==
  \/ V0Progress \/ OnSigint
  \/ \E c \in Clients21 : Connect21(c) \/ SendFrame(c) \/ Leave21(c)
V0Spec == V0Init /\ [][V0Next]_v0Vars

\* Any two clients get the frames that reach both in the same order, and nobody
\* gets one twice: a broadcast is never overtaken by another one half way, though
\* connections come and go in between.
SameOrder ==
  \A c, d \in Clients21 :
    \A i, j \in DOMAIN inbox[c], k, l \in DOMAIN inbox[d] :
      inbox[c][i] = inbox[d][k] /\ inbox[c][j] = inbox[d][l] => (i < j <=> k < l)

\* "SIGINT closes the listener and exits 0" (main.cpp): no signal ends the server
\* while all its clients stay.
ExitsZero == main21 = "killed" => \E c \in Clients21 : ctl21[c] = "left"
=============================================================================
