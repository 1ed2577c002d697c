# Verification of linux-systems-programming

TLA+ models of the programs in `examples/`, checked with TLC and, for the
parts that matter most, proved with TLAPS. The repository teaches Linux systems
programming with programs that grow from chapter to chapter (`pmon`, a process
supervisor; `chatterd`, a chat daemon; `fwatch`, a file watcher; `shmkv`, a
shared-memory store) and come together in example 41 as a supervised fleet.
Most are written three times, in C++, Go and Rust; the C++ port is the
reference here, and a port is modelled where it behaves differently.

## The system

### Inventory

| Component | State | Operations | Shares / talks to | What is hard |
|---|---|---|---|---|
| `pmon` of the fleet (41) | per service: pid, state, restarts; `shutting_down`; `active` | fork/exec, record, wait, restart; take one signal, forward it; health loop, join | three supervisor threads, a signal thread and main share atomics; children through the kernel's process table | a signal between fork and record, or in a back-off; pid reuse; inherited signal masks; exit while threads run |
| `chatterd` server (41) | registry of connections, a write mutex each, the kernel's descriptor table | accept, JOIN, MSG, broadcast, leave, shutdown | one detached thread per connection; broadcasts write to other threads' sockets | descriptors closed and reused under a broadcast; two writers on one stream; SIGPIPE |
| `chatterd` bridge (41) | link of each worker, registries of both nodes, frames on the link | dial, JOIN, relay, lose, redial | is a client of the other node; broadcasts into its own hub | loops between nodes, old links in a registry, crash and restart, lost frames |
| SPSC ring (26) | slots, `head`, `tail` | push, pop | two threads, atomics only | full/empty at the boundary, publication order |
| worker pool (25) | bounded queue, two condition variables, accumulators | push, pop, close, fold, join | P producers, C consumers | lost wakeups, close against a waiting consumer, the `--buggy` race |
| `shmkv` v1 (20) | a mapped file: seqlock word, futex word, counter, 8 slots | publish, snapshot, print, wait | two processes | torn copies, a writer that dies inside its section, sleeping through an update, a reader left behind |
| `chatterd` v0 (21) | hub of clients under one mutex, a stop token per thread | accept, JOIN, MSG, broadcast, leave, stop and join | a thread per connection | the mutex held over blocking writes, sockets shut under writers, SIGPIPE |
| `chatterd` v1 (22) | registry or connection map, input and output buffers, EPOLLOUT interest | read, take frames, broadcast, flush, reap, shutdown | worker threads, or one epoll loop; clients `send`, `listen`, `flood` | partial sends, full buffers, events of a batch for a connection that died in it |
| `chatterd` v2 (23) | names seen, a listener and a multicast socket | announce, discover, dial, greet, stop | announcer, receiver and accepter thread of every peer; datagrams | lost and repeated beacons, peers dialling each other, a peer that is gone |
| `chatterd` v3 (24) | session, heartbeat timer, deadline, back-off | dial, accept, heartbeat, time out, reconnect | two processes over a network that fails | silence against slowness, half-open connections, retries in step |
| `chatterd` v4 (27) | registry, waiters and armed set by descriptor, an eventfd | accept, suspend, resume, broadcast, forget, stop | coroutines on one thread, or a thread per client | one-shot interest, reused descriptors, frames in parts, a client that does not read |
| `pmon` v0 to v2 (12, 13) | the child, restart budget, pending signals | spawn, reap, restart, reload, stop, time out | signals, a signalfd, a pidfd | coalesced and stale SIGCHLD, a death during reload |
| `pmon` v4 (18) | two pipes, a partial line each, the log; tail's offset and FIFO | capture, drain, report; splice, write, rewind | the child; readers of the FIFO | exit before the last output, pipes that grandchildren hold, children that never fall silent, readers that leave in mid-write |
| `pmon` v5 (19) | `State` under a mutex, a control socket | status, logfd, stop; wait, respawn, undo | main and reaper thread, clients | stop against respawn, process groups that do not exist yet, clients that hang up, SIGPIPE |
| Lua policy (42), container init (34) | interpreter and policy file; children of process 1 | load, decide, reload; reap, forward, spawn jobs | SIGHUP and editors; a worker and jobs | a reload asked for early; one SIGCHLD for many deaths |
| `fwatch` (09, 10, 41) | pending paths and their windows, one timer; a submission ring | merge, report, diff; batch of linked copies | inotify; the kernel's half of the ring | one timer for everything, events that are lost or not asked for, short completions, partial submissions, waits that fail |
| `shmkv` v0 (16) | a table in a mapped file | create, set, get, dump | one process per command | setters killed half way, probing over holes |
| fast path (40) | one connection, one buffer, a stop flag | accept, read, echo | measuring clients, a signal handler | a signal between check and read, frames in pieces |
| the rest | none that two actors share | one system call, tool or language feature each | | |

`PROJECT.json` lists every component with its status and every hazard with the
line where it bites.

### What makes each modelled component correct

* **pmon**: one instance of a service at a time; a dead service comes back;
  nothing outlives `pmon`; a shutdown tells and reaps everybody; signals go to
  services only.
* **chatterd server**: every client reads whole frames, in each sender's order,
  only after it joined; no client can end the server.
* **chatterd bridge**: the bridged servers behave as one chat room; nothing
  crosses two links; after failures stop, every link is up again.
* **ring / pool / shmkv**: nothing is lost, folded twice or overwritten; no copy
  that is used is torn; a key has one place; nobody waits for ever.
* **the other chatterds**: streams are whole frames in one order; whoever is
  welcomed is a member; everyone is served through full buffers; no live peer is
  declared dead and peers that stay are linked in the end; a signal ends them.
* **the other pmons**: no death is missed, no output lost, nothing left behind,
  no stale policy used; a request to stop is obeyed wherever it finds them.
* **fwatch**: what is reported follows the directory; a copy that is reported is
  exact and the kernel keeps no buffer of it.

## Modules

| Module | Models | Notes |
|---|---|---|
| `FleetPmon` | `41-capstone-fleet/cpp/src/pmon.cpp`, `go/pmon.go`, `rust/src/pmon.rs` | `Port` selects where they differ |
| `FleetHub` | `chatterd.cpp` `Hub`, `handle_client`, `serve`; `proto.cpp` | `Port` is `"cpp"` (raw descriptor, SIGPIPE) or `"rust"` (owned descriptor, SIGPIPE ignored) |
| `ChatRoom` | what bridged servers promise: an abstract specification | no code |
| `FleetBridge` | `chatterd.cpp` `bridge_worker` and its peers | refines `ChatRoom`; servers at message granularity, `FleetHub` has the byte level |
| `SpscRing` | `26-atomics-and-lock-free/cpp/src/main.cpp` `run_bench` | |
| `WorkQueue` | `25-shared-state-and-the-futex/cpp/src/main.cpp` | |
| `ShmKv` | `20-shared-memory-coordination/cpp/src/main.cpp` `serve`, `watch` | |
| `KvBench` | the same file, `bench` | three channels |
| `KvStore` | `16-mmap-and-shared-mappings` | `TakeTurns`: one writer at a time |
| `ScaleServer` | `22-scaling-the-server` | `engine` is threaded or epoll |
| `ChatV0` | `21-tcp-sockets` | |
| `Discovery` | `23-udp-and-peer-discovery` | |
| `HeartbeatPeers` | `24-time-timers-deadlines` | |
| `CoroServer` | `27-async-runtimes-and-coroutines` | `mode27` is thread or async |
| `FastPath` | `40-low-latency-fastpath` | `read40` blocks or spins |
| `Supervisor` | what a supervisor of one child promises: an abstract specification | no code |
| `PmonSupervise` | `12-signals-and-safe-handling`, `13-pidfd-modern-process-mgmt` | `eng13` is run, v1, sigchld or pidfd; refines `Supervisor` |
| `PmonPipes` | `18-pipes-fifos-splice` | supervise, which refines `Supervisor`, and tail |
| `CtlSocket` | `19-unix-sockets-fd-passing` | |
| `Entrypoint` | `34-our-programs-in-containers` | |
| `PolicyHost` | `42-embedded-lua-scripting` | the interpreter is external |
| `FwatchLoop` | `09-event-loops-epoll-inotify`; `41` `fwatch.cpp`; the watch of `10` | `kind09`; inotify is external |
| `UringSync` | `10-io-uring` | the kernel's half of the ring is external |
| `MCFleetPmon`, `MCFleetHub`, `MCFleetBridge`, `MCScale` | instances for TLC | |
| `MCSync`, `MCNet`, `MCProc` | instances of independent programs | one of them runs, chosen by `sys` or `prog`; the others keep their first state |
| `FleetPmonProofs`, `FleetHubProofs`, `FleetBridgeProofs` | theorems about the fleet (41) | |
| `SharedMemoryProofs` | theorems about 16, 20, 25 and 26 | |
| `SupervisorProofs` | theorems about `PmonSupervise`, `CtlSocket`, `PolicyHost` and both programs of `PmonPipes` | |
| `FileProofs` | theorems about `FwatchLoop` and `UringSync` | |
| `ChatProofs` | theorems about `HeartbeatPeers` and `ScaleServer` | |
| `NetProofs` | theorems about `ChatV0`, `Discovery` and `FastPath` | |

### Correspondence

* **FleetPmon.** `sup[s]` is the program counter of `run_child_supervisor` for
  service `s` and the lambda around it, `child[s]` its local `pid`; `pid`,
  `state` and `restarts` are the fields of `ChildState`; `sig`, `sigLeft` and
  `sigPid` are the signal thread; `main` the main thread. Each load, store and
  system call another thread can see is a step. `owner`, `zombie`, `masked` and
  `term` are the kernel: a pid is free, a service's or a stranger's. An operator
  signals `pmon` alone or its whole process group. `SigwaitReturnedBeforeDetach` says
  what the comment at `pmon.cpp:263` says, that sigwait has returned, and not that
  the thread is done with main's objects. Services die on their own up
  to `MaxRestarts` times.
* **FleetHub.** `thread[c]` is `handle_client` for connection `c`, `targets[c]`
  the copied registry of its broadcast, `wmu` the write mutexes, `fdTable` the
  kernel's descriptors, `out[c]` what arrived at the client, a header and a
  payload per frame. Writing after the peer closed is answered by a reset, the
  next write fails with a broken pipe. Frame kinds are JOIN, MSG and garbage; a
  second JOIN is a frame of another type for the loop.
* **FleetBridge.** `registry[n]` holds users and links `<<node, generation>>`;
  `job[t]` is the broadcast thread `t` is in; `chan[n]` the frames on the link
  `n` dialed. `LinkBreaks` and `Crash` keep any prefix of what was on its way.
  A crash ends the node's threads and user connections; `RestartNode` is what
  `pmon` does. A nick is the user's name and the tags appended to it.
* **SpscRing.** `prod.t`, `cons.h` are the threads' own counters, `tail`, `head`
  the published ones. Acquire and release order the slot accesses, so steps
  interleave as in sequentially consistent memory.
* **WorkQueue.** A critical section is one step; a waiter is in `not_full_` or
  `not_empty_` until notified or woken spuriously and then tests its predicate
  again. An item is its index (`Payload` is injective), a checksum the set of
  items folded in an odd number of times.
* **ShmKv.** A cell (key or value of a slot) holds the number of the update it
  was written for. The copy takes the cells in any order, each a step.
  `attempt` counts the tries of `seqlock_read`.

* **KvBench.** `word20` is the futex word, `counter20` the counter that is
  polled, `queue20` the message queue; the sender spins on the acknowledgement. `late20` is the one
  deadline of 30 s for all rounds, which is looked at only in that spin
  (`Stalled`, "consumer stalled"); the calls of the message queue may fail or time
  out. Either ends the process with 1 from whichever thread it is in (`gaveUp20`).
  What fails before the threads are there (`open_shm`, `mq_open`) is left out.
* **KvStore.** A process is one command. `set` is a step per probe, then clear,
  key, value; `SetterDies` ends it anywhere and `create` truncates under others. A
  `create` that is killed is not modelled, and in the run each key is set to one
  value, so that a get of a key that is there has one right answer.
* **ScaleServer.** A frame is two units; `down[c]` holds at most `SockBuf` of
  them. A worker is in `wpc[c]`, its broadcast in `snap`, `writing`, `wr`; an
  epoll event of the batch is a step and `dead` connections are reaped at its end.
* **ChatV0.** `lock21` is the hub's mutex (a set, the holder in it), held during
  the broadcast in `todo21`; `shut21` are sockets the stop callbacks shut, a write
  to one of them is SIGPIPE. `casts21` is history, the number of a broadcast, by
  which one notice is told from another; the code has no such counter.
* **Discovery.** `rx[p]` and `acc[p]` are the receiver and the accepter thread;
  all beacons of a peer are alike, so a socket keeps one of each sender. Time
  between beacons is not modelled, the grace window may end at any time.
* **HeartbeatPeers.** Time is in ticks and urgent: who has something to do does it
  first. A frame arrives after at most `Delay` ticks and may arrive sooner, so a
  deadline can pass while one is on its way; only a frame that is `Due` is read
  before the deadline is looked at. A cut loses what is on its way and leaves
  connections half open. `blamed` are the peers timed out in a session that was
  linked, the ones `run_listen` reports. Jitter is a choice over the range of the
  code. `Heartbeat + Delay < Timeout` fits the defaults; the command line does not
  insist on it, and with other values live peers are declared dead.
* **CoroServer.** `waiters_`, `armed_`, `clients_27` are keyed by descriptors of
  `Fds27`; `active` is the coroutine that runs, until it suspends. A passing client
  may stop reading for good (`StopsReading`): its buffer, which holds one DELIVER,
  fills with the first of two MSGs, and `send_all` of the second does not come
  back (`Stuck27`).
* **FastPath.** `Missed40`: the flag was set between its check and the read.
* **PmonSupervise.** `pend13` is the set of pending signals (they coalesce),
  `elapsed13` the back-off or the deadline.
* **PmonPipes.** A unit of output ends a line or does not; `buf18` is the
  partial line of `LineRelay`. Any call of `supervise` may fail (`SpawnFails18`, a
  failing `pidfd_open` in `SpawnChild`, `CallFails18` for poll, reads, the log and
  waits): it returns 1 (`"broken"`), and a child that runs then runs on. A `"daemon"`
  may leave children of its own that hold either pipe (`kin18`) and write to it;
  `Drained` waits for them. `tail` moves numbered bytes, so that an offset
  that is wrong shows as a byte that is missing or twice there; the look at
  `g_stop` (`CheckStop18`), the call of splice and its sleep (`"blocked"`) are steps
  of their own. Its other failing calls (mkfifo, open, a read of the log, a poll)
  end it with 1 and are left out.
* **CtlSocket.** `proc19[p] = "forked"` is a child before `setpgid`; `toKill` is
  stop's copy of the pid, taken under the mutex and used after it. A client may
  hang up at any time before its reply (`HangsUp`), also in the queue; the reply is
  then SIGPIPE (`ReplyIsSigpipe`), which ends the process and leaves the child. A
  failing `accept4` returns into the join of the reaper (`AcceptFails`).
* **Entrypoint, PolicyHost.** `pend34` coalesces; `file42` has a version, so that
  a decision can be compared with the file at the last SIGHUP that was read; a
  SIGHUP sent after the loop's one wait for it is never served.
* **FwatchLoop.** `pend09[n]` is the merged kind and when its window ends;
  `timer09` the one timer; `last09[n]` what the reader of the output knows. `InMask`
  are the masks of the three watches: only v1 asks for renames and new times. An
  event may find no room in the queue (`Notify`), and what is deleted may still be
  written to under its old name (`WriteUnlinked`, no watch has `IN_EXCL_UNLINK`).
  `untold09[n]` is history: whether the last change of the name is in an event, and
  if not, why.
* **UringSync.** Unit i of a file has the contents i; `op10[s]` is what the kernel
  holds of pair `s`; counters of the ring count modulo `Wrap`. `Submit` takes any
  part of a batch, the rest stays in the ring and the drain waits for it in vain, as
  the code does not look at the count; reads, writes and `io_uring_enter` may fail
  (`CallFails`), in a drain with operations in flight (`"abandoned"`).

Definitions called "Faulty variant" are plausible bugs, used by nothing in the
specifications; `PROJECT.json` pairs one with each property. The properties of
several programs have one more per program, put in place of its definition in
the same way, and TLC finds each of them:

| Property | Faulty variants |
|---|---|
| `WaitersEnd` | `PushStoreLate`, `PushSilently`, `CloseNotifiesOne`, `SeqOddForever` |
| `ExchangesMatch` | `TakePiecesOnce` |
| `Settles` | `JitterNone`, `CoroutineEndsUnforgotten` |
| `StopsEnd` | `OnSignalQuiet`, `NothingToReadSpin` |
| `ProgramsStop` | `WaitWorkerAlways`, `PollEventsForever`, `WaitForSighupDrained` |
| `BacklogClears` | `ArmTimerZero` |
| `CapturedWhole` | `DrainOnceUnflushed` |
| `ImplementsRoom` | `RelayKeeps` |

## Runs

| Run | Expect | What it shows | Bounds |
|---|---|---|---|
| `pmon_safety` | pass | `OneInstance`, `NeverOrphans`, `SigwaitReturnedBeforeDetach`, C++ | 2 services, 3 pids, 1 crash each, 1 signal, 1 stranger |
| `pmon_liveness` | pass | `ShutdownReapsAll`, `DeadServiceComesBack`, `SteadyShutdown`, Go | 2 services, 2 pids |
| `pmon_hang` | violation | `ShutdownCompletes` fails: a child the signal thread did not see | 1 service, 2 signals |
| `hub_rust` | pass | `FramesIntact`, `OnlyMembersReceive`, `SenderOrder` | 3 connections on 3 descriptors, 5 frames in all, 1 unread per client |
| `hub_fdreuse` | violation | `FramesIntact` fails in C++: raw descriptor closed under a broadcast | same |
| `bridge` | pass | `OneHop`, `ImplementsRoom`, `BridgeHeals` | 2 nodes dialing each other, 3 users, 1 break, 1 crash |
| `sync` | pass | 26: `RingExact`; 25: `ReportedLine`; 20: `SnapshotWhole`, `NoLostWake`, `RecentLinesRight`; 16: `GetsWhatWasSet`; all that wait end: `WaitersEnd` | ring: 5 items over 2 slots; pool: 2+2 threads, 3 items over 1 place; `shmkv`: 3 updates over 2 slots, 2 attempts; bench: 3 rounds on each channel; table: 3 keys, 2 slots, 2 processes, 5 commands |
| `scale` | pass | `StreamsWhole`, `WelcomeMeansMember`, `EveryoneServed`, `ServerStops` | two clients at a time in either engine, a send buffer of one and a half frames |
| `scale_eof` | violation | `EveryMsgBroadcast` fails in the epoll engine: frames read together with the end of stream are dropped | a flood client and a hasty one |
| `net` | pass | v0: `SameOrder`; v3: `NoFalseTimeout`; v2, fast path: `ExchangesMatch`; v2, v3, v4: `Settles`; v0, v4, fast path: `StopsEnd` | v0: 2 clients; v2: 2 peers, 1 beacon each, 1 fault; v3: timeout of 3 ticks, 6 connections, 2 faults; v4: 3 clients, 3 descriptors, 2 MSGs, a send buffer of one DELIVER; fast path: 2 clients, 2 round trips |
| `v0_sigint` | violation | `ExitsZero` fails: a notice written to a socket that the stop has shut is SIGPIPE | as `net` |
| `proc` | pass | 18: `CapturedWhole`, `RelayedInOrder`; 12, 13: `DeathIsPending`, `Supervises13`; 18: `Supervises18`; 19: `NoChildSurvives`; 42: `NoStaleDecision`; 09, 41: `ReportTracksDir`; 10: `CopyExact`, `BuffersIdle`; whoever is asked to stop does: `ProgramsStop`; 34, 09: `BacklogClears` | 18: 2 units of output (1 of a daemon and its children together), pipes of 1, 1 restart, log of 3 bytes; 12, 13: 2 restarts, 2 reloads; 19: 2 clients, 3 children; 34: 3 jobs; 42: 3 edits; 09: 2 names, 2 changes, 2 ticks; 10: 2 files of up to 7 units, batches of 2 pairs of 2 units |

Why the bounds are enough for what is asked: two services make supervisors
meet, a third pid lets a number be free, reused and foreign at once; three
connections on three descriptors are the least with which two handlers
broadcast to a third connection at once, and a descriptor is reused while a
third party still broadcasts; five frames are three JOINs and a MSG of each of
two senders, or two MSGs of one; two nodes that dial each other are the
loop, one break and one crash leave an old and a new link side by side; the
ring and the slots wrap more than once, the queue is full and empty, and both
seqlock attempts can fail; three keys over two slots fill the table and make
every probe collide. A send buffer of three units cuts every second frame.
Two MSGs over a buffer of one DELIVER are the
least with which a send waits for a client; one unit of a daemon's output is in a
pipe, in a partial line or still to come from a grandchild when its death is read.
Six connections let two faults each be followed by a retry of both sides; a
timeout of three heartbeats is the ratio of the defaults. Two edits
around a SIGHUP and one more tell a stale policy from a fresh one. A file of
seven units is two batches with a short last chunk, and the ring's counters
wrap in it. Symmetry is used where only safety is checked. The theorems below
need none of the bounds.

CHECK_DEADLOCK is off: every program here stops in the end (a finished
benchmark, an exited `pmon`, a client budget used up); that they do not stop
too early is what the liveness properties say.

### Fairness

* `pmon`: every thread of `pmon` runs; a process that has a deliverable SIGTERM
  ends, as the handlers in `util.cpp` make the services do; crashes, signals
  and strangers are not fair, and fork may fail but not for ever.
* bridge: threads run, the worker retries for ever (`bridge_worker` has no way
  out of its loop but the signal), `pmon` restarts a server, the reader of a
  dead link notices it.
* sync: each thread is scheduled (weak fairness per thread) and the clock moves.
  Nothing is assumed of spurious wakeups, of a futex wait that times out or of the
  bench's 30 s and failing calls, and nothing of mutex order: every thread has
  finitely much to do.
* scale: the behaviours are finite, and it is enough that server and clients move
  while they can; signals and the patience of a client are not fair.
* net: the selected server runs on and its clock ticks; the load test of v4 sends
  what it sends; a network that was cut heals and a crashed peer of v3 is started
  again, which `Settles` needs and `NoFalseTimeout` does not. Clients of v0 and of
  the fast path owe nothing: `StopsEnd` holds with clients that stay silent. That a
  client of v4 stops reading is not fair either; where it does, `Settles` and
  `StopsEnd` end in `Stuck27`, and `SignalStopsReactor`, which does not, is refuted.
* proc: the selected program runs on; told children die, as a SIGTERM makes them
  do unless they trap it; the clock of `fwatch` and the jobs of process 1 run
  beside it. Signals, edits, readers and changes of files are not fair, nor are
  failing calls, clients that hang up, lost events and grandchildren.
  `ProgramsStop` says it of a plain child of v4, of a v5 whose child was in its
  group when it was told (`missed19`) and of a tail whose splice was waiting when
  the signal came (`Missed18`).

## Findings

Four runs end in a violation; each is a place where the code does not do what a
comment or the documentation says. They are described, with the quoted lines,
under `findings` in `PROJECT.json`: a shutdown that never completes
(`pmon_hang`), a broadcast to a recycled descriptor (`hub_fdreuse`), messages
dropped with the end of stream (`scale_eof`) and a stop that ends in SIGPIPE
(`v0_sigint`). TLC's counterexamples are the shortest ways there.

### Further disagreements

Stated as definitions in the modules and refuted by TLC in the same models. The
first four have a configuration of their own. For the others, put the definition
in the place of all the properties in a copy of `MCNet.cfg` (`CoroServer`,
`Discovery`, `FastPath`) or `MCProc.cfg`; `SignalStopsReactor`, `DeadlineEnds18`,
`StopTearsDown`, `SignalEndsThreads`, `ExitsAfterGrace` and `SignalUnblocks` go
under PROPERTIES, the rest under INVARIANTS.

| Definition | Where | What the code does |
|---|---|---|
| `NeverOrphans`, `FleetPmon_go_orphan.cfg` | `41/go/pmon.go:105` | services are started before `signal.Notify`; a SIGTERM in between kills `pmon` alone |
| `SignalsOnlyServices`, `FleetPmon_pid_reuse.cfg` | `41/cpp/src/pmon.cpp:222` | a recorded pid is not cleared when its process is reaped and may be a stranger's |
| `ServerSurvivesClients`, `FleetHub_sigpipe.cfg` | `41/cpp/src/chatterd.cpp:203` | SIGPIPE is neither ignored nor suppressed in the C++ port |
| `BackfillsEveryId`, `MCSync_backfill.cfg` | `20/cpp/src/main.cpp:330` | a watcher more than 8 updates behind prints old ids with newer text |
| `StopTearsDown` in `CtlSocket` | `19/cpp/src/main.cpp:417` | a stop before the new child's `setpgid` signals a group that does not exist; `pmon` waits for a child nobody told |
| `ReplyErrorIgnored` in `CtlSocket` | `19/cpp/src/main.cpp:155` | the replies are `write` and `sendmsg` without MSG_NOSIGNAL and SIGPIPE is not ignored: a client that hangs up before its reply ends `pmon`, without a teardown and with its child running. The comment at `:161` says "peer gone; nothing sensible to do with a reply error" |
| `DeadlineEnds18` in `PmonPipes` | `18/cpp/src/main.cpp:370` | the deadline is acted on only when poll finds nothing ready, `term_and_reap` waits without reading the pipes, and `drain_to_eof` reads until the last process that has them is gone: a chatty child is never timed out, one that says more than a pipe holds on SIGTERM never exits, one that left its pipes to children of its own is never reported. `18/README.md:13` says "nothing about the v1/v2 restart/timeout/stop behavior changes" |
| `SignalStopsReactor` in `CoroServer` | `27/cpp/src/main.cpp:162` | `send_all` answers a full buffer with another poll for room and looks neither at `g_stop` nor at a clock: while a client stays connected and does not read, a signal does not end the server. `27/README.md:83` says it "serves until it receives `SIGINT` or `SIGTERM`" |
| `OverflowRescans` in `FwatchLoop` | `09/cpp/src/main.cpp:365` | the overflow record has no name and is skipped with the events "on the directory itself"; what was lost with it is not looked up. `_docs/09-event-loops-epoll-inotify.md:141` says "A correct watcher treats `IN_Q_OVERFLOW` as "my view is stale, re-scan"" |
| `BuffersOutlive` in `UringSync` | `10/cpp/src/main.cpp:242`, `:389` | a failing `io_uring_enter` in a drain ends `copy_file_uring` with operations in flight; its buffers and descriptors go with it. `_docs/10-io-uring.md:387` says "the kernel holds raw pointers into `bufs` until we have drained the completions" |
| `NothingLost` in `PmonPipes` | `18/cpp/src/main.cpp:14` | bytes in the FIFO are lost with its last reader |
| `RenamesTold` in `FwatchLoop` | `41/cpp/src/fwatch.cpp:196`, `10/cpp/src/main.cpp:448` | the masks leave renames out, so that a file moved in or out is never reported |
| `SignalEndsThreads` in `CoroServer` | `27/cpp/src/main.cpp:231` | the thread engine shuts only the connections it finds registered |
| `KeepsGoodPolicy` in `PolicyHost` | `42/policy-broken.lua:5` | a bad reload ends `run` instead of keeping the old policy |
| `ExitsAfterGrace` in `Discovery` | `23/cpp/src/main.cpp:425` | a receiver waits without a timeout for a greeting of a peer whose accepter has stopped |
| `SignalUnblocks` in `FastPath` | `40/cpp/src/main.cpp:47` | a signal between the check of the flag and a blocking read is not seen |

Not stated as properties, and in the models as the code has them:

* A failing `pidfd_open` (`13/cpp/src/main.cpp:325`, `18/cpp/src/main.cpp:468`) and
  in 18 a failing write of the log (`:270`) make `pmon` return with its child
  running; `Supervisor` has this as `Break`.
* A signal for `tail` between the look at `g_stop` (`18/cpp/src/main.cpp:660`) and a
  splice that waits (`:565`) is not noticed until a reader reads or leaves
  (`Missed18`).
* `io_uring_enter` may take fewer entries than asked; the return value is compared
  with 0 only (`10/cpp/src/main.cpp:256`), and the drain waits for completions that
  do not come.
* A failing `accept4` makes `pmon` v5 join a reaper that nobody has told to end.
* A write to a deleted file is reported as a modification of a name that is gone;
  no watch has `IN_EXCL_UNLINK`.

## Proofs

Every proof is an inductive invariant of a component's specification without
fairness (`Spec` of the fleet's modules, `KvSpec`, `SupSpec`, `ScaleSpec` and so
on for the others), or a step simulation under such an invariant where a component
implements an abstract specification. `MCSync`, `MCNet` and `MCProc` run these
components side by side, so what is proved of one holds in them. The bounds of the runs play no part:
constants are arbitrary but for the named assumptions. `PROJECT.json` lists the
theorems with the property each one states.

**FleetPmonProofs** (any finite set of services, any pids). The invariant ties each
supervisor's program counter to the process table (a child is owned by the
service whose supervisor is between fork and reap, and by no other), `active` to
the number of supervisors that have not counted themselves out, and the main
thread to both. `OneInstance` and `ShutdownReapsAll` are not inductive without it:
they speak of processes, and what keeps a second one from starting is where the
supervisor is. `NeverOrphans` needs `Port # "go"`, which is the finding.
Assumptions: `ServicesAssumption`, `PidsAssumption`, `PortAssumption`,
`BoundAssumption`.

**FleetHubProofs** (any connections and descriptors). The theorems are about the
Rust port (`Port = "rust"`); for the C++ port `FramesIntact` is false, as run
`hub_fdreuse` shows. `HubInv` says which descriptor is whose (`Descriptors`), who
is registered (`Registry`), whom a broadcast has left (`Broadcasts`), that a write
mutex is held exactly by the thread that writes (`Locks`), that a stream that is
still read ends in half a frame exactly while the broadcast of that frame holds its
mutex (`Halves`), and, for the order, that what a sender has not been read of, or
is about to be handed out, is newer than everything delivered of it (`Queues`,
`Delivered`). Assumption: `HubAssumption`.

**FleetBridgeProofs** (any nodes, users and peers, cycles included, as long as no
node is its own peer). `OneHop` says what is on a link and in a worker's
broadcast; it is inductive together with what a registry may contain
(`RegistryLocal`), what a user's handler is sending (`HandlerJobs`), what a worker
is relaying (`WorkerJobs`) and how a frame on a link is named (`ChanFrames`);
`GenBound` counts links by failures and gives the type invariant. `BridgeInOrder`
adds `OrderInv`: whatever is still on its way from a sender to a hearer, in the
handler's broadcast (`HandlerNew`), on the current link (`LinkNew`) or in the
relay (`WorkerNew`), is newer than what the hearer has heard. That is the guard of
`ChatRoom`'s `Hear`, and `BridgeImplementsRoom` uses it: initial states map to
initial states, a MSG a user sends is a `Post` of the room, a delivery to a user
is a `Hear`, and every other step, failures and relays included, is a stutter.
Assumptions:
`BridgeAssumption`, `LinkAssumption`.

**SharedMemoryProofs.** `SpscRing` (any capacity, any number of items,
`RingAssumption`): of the two halves of `RingExact`, `ExactSum` rests on
`NoOverwrite`, that on `Positions` (how far the threads' counters and the published
ones are apart) and on the lemma that positions less than a capacity apart are in
different slots. `ShmKv` (any number of slots, attempts and updates,
`ShmAssumption`): `Writer` says what the cells are at each step of the server,
`CopyFresh` that as long as the seqlock word has not moved every cell copied so far
is still the one in the table, which makes an accepted copy one table and not two;
`Printing` carries it to the lines. `KvStore` (any table, keys and processes,
`Kv0Assumption`; `TakeTurns`, as chapter 16 asks): `OnePlace` is inductive only with
what a setter that is half way has seen (`SetterAt`: the slots it has passed do
not hold its key), and a getter knows the same of its own (`GetterAt`). `WorkQueue`
(any threads, items and capacity, `WorkQueueAssumption`): an item is not produced,
queued, in one consumer's hands or folded in once (`ItemsApart`); consumers leave
only an empty queue that nothing is pushed to any more (`Drained25`). On the correct
path the consumers' sums part the items folded in between them (`LocalSums`); with
`--buggy` the shared count may stay behind and never runs ahead (`SharedSum`).

**SupervisorProofs.** `PmonSupervise` (any restart budget, `SupAssumption`):
`DeathHeard` says that in the engines that wait for SIGCHLD a zombie has one
pending while the supervisor polls; `ChildKnown` (which child there is at each
program counter) and `Budget` (a child is paid for before it is started) are what
`LeavesNothing` needs besides. `CtlSocket` (any clients and children,
`CtlAssumption`): every child but the newest is reaped, and that one exactly when the
reaper holds none (`OneChild`); main leaves only after the reaper has told that it
is done (`DoneIsTold`), also by way of a failing accept; a `pmon` that SIGPIPE killed has
not left, and of its child nothing is proved. `PolicyHost`: versions of the file, of the SIGHUP and of the
interpreter are ordered (`VersionOrder`, `PhaseOrder`, `Loaded`). `tail` of
`PmonPipes`: what the reader has got and what is in the FIFO are in order
(`SentInOrder`) and together with what was lost are the log up to the offset
(`Accounted`). `supervise` of `PmonPipes` (any output, pipe and line size): what the
child wrote of a stream is the text of its log lines, then the line that is still
partial, then what is in the pipe (`OnItsWay`); once every holder of the
write end, grandchildren included, has closed it and it is read to its end nothing
is on its way (`AtItsEnd`), and a line in the log that is
not the stream's last is cut at its newline or its size (`Partial`, `LogLines`). The
text of a log is a recursive function; that it exists and what appending a line
does to it is proved by induction on the log's length, from the least length at
which the claim would fail (`SetInduction`, out of `NatLessThanWellFounded`).

`PmonSupervise` and `supervise` of `PmonPipes` implement `Supervisor`
(`SupImplements`, `CapImplements`; `SupAssumption` and `CapAssumption` say that a
restart budget is a natural number, which the command lines insist on). A start is
*due* at the beginning, in v1's back-off, and while a child is stopped for a reload;
*told* is a stop signal or the deadline; what is *left* of the budget is
`max_restarts` less the restarts. A child that ended stays to be answered for until
the policy has been applied: in v4 that is `report_exit`, after the pipes were
drained. `WhyKnown` and `CapRole` tie program counter, child and reason together (at
`stop` there is a reason to stop; a pidfd that polled readable belongs to a zombie),
and with them each step is one of `Supervisor` or leaves its variables alone.
`Break` is the one promise not kept: when a system call fails (in v4 a pipe, a spawn,
`pidfd_open`, poll, a read, the log or a wait), or `run` is killed, a child may be
left. `FleetPmon` and `CtlSocket` restart whatever ended, without a budget,
and the entrypoint restarts nobody: other promises, which they keep by invariants of
their own.

**FileProofs.** `FwatchLoop` (any names and changes): the newest event of a name,
in the kernel's queue or held back by its window, is true of the directory
(`NewestTrue`), for a name whose last change is in an event (`untold09`); older ones
need not be, which is why the property itself is not inductive. `UringSync` (any chunk, batch and file; `UringAssumption`: the ring has
room for a read and a write of every pair, and its counters count further than
its size): completions owed are those in the ring and those in flight, and more after a
partial submission (`Counted`),
the chunks of a batch lie in the file (`Chunks`), every unit up to the offset is in
its place, still being copied, or of a chunk whose completion will tell
(`Copied`; `CopiedRw` for the plain loop), and as long as nothing fails outside
every completion is whole (`Sound10`). The first gives `BuffersIdle`, for every batch that was
drained or never taken and not for one that was abandoned, the others `CopyExact`; `Ring10` gives
that the ring is never full, so that no copy fails for the ring's sake.

**ChatProofs.** `HeartbeatPeers` (any heartbeat, deadline and delay with
`Heartbeat + Delay < Timeout`, `HeartbeatAssumption`): `NoFalseTimeout` is about one
moment; `InTime` is what makes it true, a margin: with nothing on its way the
deadline is further off than the other's next heartbeat by more than `Delay`, and
a frame on its way has not used up that margin. It holds of sessions that both
ends still have (`Sessions`, `Waiting`, `Unused`). `ScaleServer` (any clients, any
send buffer, `ScaleAssumption`): `Reached` says that nothing is written, queued or
about to be written to a connection that is not registered, unless it is over,
which is why a WELCOME means membership in both engines. `StreamsWhole` needs an
invariant per engine. In the epoll engine a stream and what is queued behind it are
whole frames together while the connection is there (`QueuesWhole`); a flush moves
the border between the two, and a client that leaves keeps the front of its stream.
In the threaded engine (`ThrInv`) a worker that writes a DELIVER holds the wmu of
its target (`WorkerAt`), who holds a wmu is writing to that target (`LockOf`), and the
last unit of the stream beside the WELCOME is a header exactly while the holder has
its payload left, and then the header of that very message (`Between`). The
WELCOME, written without the lock, may fall anywhere in between.

**NetProofs.** `ChatV0` (any clients and scripts): broadcasts are numbered as the
hub's lock is taken for them; every inbox is in the order of the numbers
(`InCastOrder`), and whoever the broadcast in the lock has not reached yet has
older ones only (`NewToTheRest`, which needs that a connection is in the hub once and
that one thread has the lock: `HubOnce`, `OneWriter`). Two inboxes with the same two
notices then agree on their order, which is `SameOrder`. `ExchangesMatch` is the
conjunction of two programs: in `Discovery` (any peers, restarts and stray datagrams)
a peer is noted before it is dialled and a noted one is never dialled again
(`NotedFirst`); in `FastPath` (any clients and round trips) everything on its way of
a living client is a piece of its present frame, and the pieces in the socket, in
the server's one buffer and on the way back are together as many as it has sent
(`InFlight`, `InBuffer`), so what comes back is the frame that was sent.

Proved and not among the runs' properties: the type invariants `TypeOK` of
`FleetPmon` and `BridgeTypeOK` of `FleetBridge`, `LeavesNothing` of `PmonSupervise`
(it counts the children between two reloads, which `Supervises13` bounds by the
budget), `RightNames`, the order in `FleetBridge` and `NoSpuriousFailure` of
`UringSync`.

Only model-checked:

* everything under fairness (`DeadServiceComesBack`, `SteadyShutdown`,
  `BridgeHeals`, `WaitersEnd`, `EveryoneServed`, `ServerStops`, `Settles`,
  `StopsEnd`, `ProgramsStop`, `BacklogClears`), which is outside what TLAPS's
  backends decide: the liveness properties of every component, and nothing else;
  each safety property of a passing run is a theorem.

## Not modelled

* Telemetry, health lines, message wording, histograms, CPU pinning.
* In `FleetHub` socket buffers are unbounded: a client that does not read never
  blocks a broadcast there, though it does in the code. `ScaleServer` and
  `CoroServer` have bounded buffers.
* In `FleetBridge` a peer that disappears without FIN or RST: the bridge worker
  would wait for ever, there being neither keepalive nor a read timeout.
  `HeartbeatPeers` has half-open connections.
* Bytes of a frame and payload lengths: the 65535-byte limit. A MSG whose nick and
  text together are longer is refused by `write_frame` when it is to be delivered
  (`41/cpp/src/proto.cpp:41`), and the broadcast does not notice.
* Failing calls at a program's start, where nothing is shared yet, but for the ones
  named above.
* A second `serve` on a `shmkv` file in use, and two servers at once (chapter
  20 excludes the latter). Two writers of `shmkv` v0 at once are in `KvStore`
  with `TakeTurns = FALSE`: `GetsWhatWasSet` is then false, which chapter 16 says
  itself (`_docs/16-mmap-and-shared-mappings.md:377`).
* Weak memory beyond acquire/release; the 32-bit wrap of the seqlock and futex
  words; the 64-bit wrap of the ring's sum.
* The chapters marked `not_modelled` in `PROJECT.json`: one-facility
  demonstrations (01 to 08, 11, 14, 15, 17), the thread compendium (06, 44, 49 to
  56), isolation and observability programs (32, 33, 35 to 39) whose state is the
  kernel's or a parsed report, and the deliberately faulty programs of the
  debugging chapters (28 to 31, 43, 45 to 48).

## Plan

Written: the fleet of example 41 (supervisor, server, bridge, watcher), the
shared-memory programs (16, 20, 25, 26), every generation of `chatterd` (21 to
24, 27) and of `pmon` (12, 13, 18, 19, 34, 42), `fwatch` (09, 10) and the fast
path (40). To come, in this order:

1. A server restart in `ShmKv`.
2. The barriers, pools and rendezvous of the thread compendium.
