-------------------------------- MODULE MCNet --------------------------------
(* Four generations of chatterd and the fast path on small instances: v0 of *)
(* example 21, v2 of example 23, v3 of example 24, v4 of example 27, and    *)
(* the echo server of example 40.  sys selects the one that runs; the       *)
(* others stay in their first state.                                        *)
EXTENDS ChatV0, Discovery, HeartbeatPeers, CoroServer, FastPath

VARIABLE sys

netVars == <<sys, v0Vars, discVars, hbVars, coroVars, fastVars>>

\* What the clients of v0 send: a name and a line; a type
\* that is ignored and what is no frame.
ScriptsV0 == {<<"JOIN", "MSG">>, <<"PING", "bad">>}

NetInit ==
  /\ sys \in {"v0", "v2", "v3", "v4", "fast"}
  /\ V0Init /\ DiscInit /\ HbInit /\ CoroInit /\ FastInit
  /\ sys # "v0" => script = [c \in Clients21 |-> <<"JOIN", "MSG">>]
  /\ sys # "v4" => mode27 = "async"
  /\ sys # "fast" => read40 = "busy"

OnlyV0 == sys = "v0" /\ UNCHANGED <<sys, discVars, hbVars, coroVars, fastVars>>
OnlyV2 == sys = "v2" /\ UNCHANGED <<sys, v0Vars, hbVars, coroVars, fastVars>>
OnlyV3 == sys = "v3" /\ UNCHANGED <<sys, v0Vars, discVars, coroVars, fastVars>>
OnlyV4 == sys = "v4" /\ UNCHANGED <<sys, v0Vars, discVars, hbVars, fastVars>>
OnlyFast == sys = "fast" /\ UNCHANGED <<sys, v0Vars, discVars, hbVars, coroVars>>

NetNext ==
  \/ OnlyV0 /\ V0Next
  \/ OnlyV2 /\ DiscNext
  \/ OnlyV3 /\ HbNext
  \/ OnlyV4 /\ CoroNext
  \/ OnlyFast /\ FastNext

NetProgress ==
  \/ OnlyV0 /\ V0Progress
  \/ OnlyV2 /\ DiscProgress
  \/ OnlyV3 /\ HbProgress
  \/ OnlyV4 /\ CoroProgress
  \/ OnlyFast /\ FastServer
Repair == OnlyV3 /\ (Heal \/ \E p \in Peers : Up(p))

\* The program that was selected runs and its time passes; clients of v4 send
\* what the load test sends.  A network that was cut heals, and a peer that
\* crashed is started again: faults are few, so one repair after the other is
\* done.
NetSpec == NetInit /\ [][NetNext]_netVars /\ WF_netVars(NetProgress) /\ WF_netVars(Repair)

\* Nothing is answered twice or with something else: no peer of v2 is dialled again
\* although its beacon arrives before, during and after the exchange; no client of
\* the fast path gets another frame back than the one it sent.
ExchangesMatch == DialledOnce /\ OwnEcho

\* Whatever is interrupted, the network comes to rest with its work done: peers of
\* v2 that dial each other at the same time have greeted each other, and a dead one
\* holds nobody up; two peers of v3 that both stay are linked to each other, after
\* crashes, cuts and half-open connections; every message of v4's load test has
\* been read, through reused descriptors, full send buffers, one-shot interest and
\* frames that come in parts, unless a client reads no more (Stuck27).
Settles ==
  <>[](/\ sys = "v2" => Greeted
       /\ sys = "v3" => Relinked
       /\ sys = "v4" => LoadServed)

\* A signal ends the server: v0 wakes every blocked read and joins; the reactor of
\* v4 leaves its loop, with coroutines parked on reads and sends that wait for
\* room, but not from a send_all to a client that reads no more (Stuck27); the fast
\* path leaves its spinning read, or a blocking one that the signal found asleep,
\* but not one that began after the flag was looked at (Missed40).
StopsEnd ==
  (sigint \/ Stopping27("async") \/ stop40)
  ~> (~Alive21 \/ serving = "exited" \/ Stuck27 \/ srv40 = "exit" \/ Missed40)
=============================================================================
