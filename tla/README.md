# LibreRoute: TLA+ models, runs and proofs

LibreRoute is an Android client: it starts a native core, passes it a TUN interface
or a local SOCKS listener, keeps the connection alive over changing networks, and
administers its own servers by signed commands. It also carries the native data path
tun2socks of badvpn, which turns packets of a TUN interface into SOCKS connections. This
project models the parts of it where threads, callbacks, failures and lost messages
meet. Kotlin paths below are relative to `app/src/main/java/io/github/libreroute/`, C paths
to `app/src/main/jni/badvpn/`.

## 1. Inventory

| Part | State it keeps | Operations | Hard behaviour | What makes it correct |
|---|---|---|---|---|
| `service/SocksVpnService.kt` | `alreadyStopping`, `startupJob`, `reconnectJob`, `isNetworkStandby`, `recoveryNetworkRevision`, transport of the route | start intents, `stopEverything`, `scheduleRecovery`, `enterNetworkStandby`, `updateUnderlyingNetwork`, event collector | main thread, IO coroutines and the user interface's IO thread share every field; cancellation takes effect only at suspension points | a stop reaches the core and completes; one recovery at a time; standby ends; a live VPN is never left without recovery |
| `service/VpnServiceController.kt` | TUN descriptor, `isRunning` | `configure`, `stop` | runs on a coroutine that may be cancelled already | no interface outlives the stop |
| `service/NativeProcessSupervisor.kt` | `running`, `connected`, `launchGeneration`, `currentInstance`, `process`, posted runnables, administrative carrier | `start`, `stop`, `spawn`, `cleanup`, stdout reader | no lock inside; one reader per process; delayed runnables; processes that die | no orphan process, no state of one instance told by another, no leaked engines |
| `service/ChannelConnectionState.kt` | owner token, `running`, `ready`, `rejected`, `waitingForNetwork`, round-trip time | `begin`, `ready`, `networkLost`, `localNetworkRestored`, `sample`, `end` | late updates of replaced instances | ready only by the owner, never during an outage |
| `util/LocalSocksSession.kt` | current and ready session | new session, mark and clear ready | a late listener line of an old core | a ready session has a core |
| `event/EventBus.kt` | bounded queue, log history | `dispatch`, collectors | drops the oldest beyond 128 | order of transport events |
| `admin/AdminCommandControl.kt` | frame per thread, mutation lock per server | `run`, `phase`, `stage` | nested probes, workflows of several commands | one change at a time, locks given back, truthful cancellation |
| `admin/AdminRepository.kt`, command path | history, live access state, durable envelopes, snapshot receipts, grants | `executeAdminApiCommand`, `getClusterSnapshot`, `confirmServerResponse`, probes | lost, late, repeated and alien replies; kills of the application; several threads | history tells the truth, a durable change is applied once, access is live |
| `service/LibreRouteProxyService.kt` | `alreadyStopping`, `isProxyRunning`, jobs | start, `stopProxy`, LAN sharing | calls the supervisor without a monitor | as for the VPN service |
| `service/HotspotProxyBridge.kt`, `ProxySharing.kt` | server socket, clients | start, stop, accept loop | stop during accept | no sharing after a stop |
| `admin/CoreUpdateClient.kt`, `CoreUpdateStream.kt` | upload progress | plan, batches, resume | retries, lost acknowledgements | each batch in place once |
| `admin/RouteSyncWorker.kt` | queue and revisions of routes | enqueue, worker run | retries, concurrent edits | the latest revision wins |
| `admin/ServerInstaller.kt` and invitations | installation state, redemption | install, reconcile, redeem | unknown results | at most one installation and redemption |
| SSH, carrier and document clients, keys | sessions | request, reply | network | their outcomes are inputs of `AdminCommand` |
| data, routing rules, backups | stored documents | load, save, merge | sequential | data transformations |
| user interface, tile, boot receiver | display | send intents, call the repository | - | inputs of the models |
| `tun2socks/tun2socks.c`, TCP clients | `tcp_client`: buffers of both directions, `client_closed`, `socks_up`, `socks_closed`, pending bytes | accept, `client_recv_func`, `client_sent_func`, `client_err_func`, SOCKS handlers, free, abort, murder | one thread, but the callbacks of lwIP and of SOCKS nest in each other and free what the outer one uses; partial writes, full buffers | no byte lost, repeated or reordered; no use of a freed pcb; no direction asleep with work left |
| `lwip/src/core/tcp*.c`, `system/BConnection_unix.c`, `base/BPending.c`, `socksclient/` | pcb, jobs, socket | callbacks, jobs, socket events | the contract of `ERR_ABRT` | modelled as far as tun2socks uses them |
| `udpgw_client/UdpGwClient.c`, `tun2socks/SocksUdpGwClient.c` | connections by address and by id, send buffers, SOCKS connection, reconnect timer | submit, receive, connect, disconnect, keepalive | ids are reused; packets are dropped for lack of buffer; the stream breaks | answers keep their peer; the two trees agree; UDP comes back |
| `udpgw/udpgw.c` | clients, connections by id, closing connections | accept, receive, UDP answers, close | a closed connection still has a packet in the fair queue | one connection per id; the queue sends for what exists |
| other native code | - | pdnsd, JNI glue, the rest of badvpn and lwIP | vendored, mostly not built | not modelled |

Interactions. `SocksVpnService` calls `NativeProcessSupervisor` inside its own monitor
(but for the stop before a reconfiguration and `stopLibreRouteNative`); the
supervisor answers through flags the service polls, through `ClientChannel` and
through events on the `EventBus`, collected by the service on the main thread.
A ready administrative carrier makes the supervisor start a thread that reads a
snapshot through `AdminRepository`, beside the commands of the user.
`LibreRouteProxyService` drives its own supervisor, without a monitor, from the main thread
and from its startup coroutine; a core that is ready opens the shared `LocalSocksSession`,
which `ProxySharing` reads before it opens the LAN bridge. In the native code everything runs
on one reactor thread: lwIP calls tun2socks, tun2socks starts socket work and runs the jobs
it made before it returns (`SYNC_COMMIT`), and those jobs call tun2socks again.

## 2. Plan

1. `VpnService`: the life cycle of the VPN over an abstract core. **Done.**
2. `Supervisor`: what that core is made of; the channel and the sessions. **Done.**
3. `AdminCommand`: commands, locks, probes, history, durable envelopes. **Done**, but
   for the content of envelopes (`setJazzRoomPolicy`, guard of `issueBootstrapInvitation`).
4. `VpnServiceProofs`: types, stop and recovery; `AdminCommandProofs`: types and every
   safety property of the command path. **Done.**
5. `ProxyService`: `LibreRouteProxyService` with LAN sharing and what it sees of its
   supervisor. **Done.**
6. `TcpClient` and the abstract `ByteRelay` it implements; `UdpGw`: client, stream and
   server. **Done.**
7. Proofs over these: every safety property of `TcpClient`, `UdpGw`, `Supervisor` and
   `ProxyService`, and the refinement `RelaySpec`. **Done**; every invariant, action property
   and refinement of a passing run is now a theorem.
8. `CoreUpdate`: resumable upload in batches; `RouteSync`: queue, revisions, retries.
9. `Installation`: reconciliation of unknown results, single redemption.
10. An abstract specification of the core as `VpnService` sees it (`core`, `exitDue`),
    and `Supervisor` with the service's callers shown to implement it.
11. Runs on state without an instance token (`connected`, the carrier), on a
    cancelled startup that launches an old payload, and on the durable content.

## 3. Modules and their correspondence to the code

**`VpnService`.** The service's fields are variables of the same name (`vpnRunning` is
`vpn.isRunning`, `iface` the intent whose `configure` made the TUN interface). Every
accepted start intent has a startup coroutine of `Startup`, every launched recovery one
of `Recovery`, every `stopInternal` of the user interface one of `Ui`; `pc` says
where they are, `active` is `isActive`. A label of `pc` is a place where another thread
can come between: a suspension point, a call that takes time, the monitor
(`lock`), or the end of a test or an assignment whose effect on shared fields is relied on
later. The main thread runs one handler at a time and takes no lock but in `stopEverything`;
`mainPc` says where it is in one. So `scheduleRecovery` is its tests of the service and the
network, the revision with the test of `reconnectJob`, the end of standby, and the launch
(`ScheduleRecovery`, `MainSchedule`, `MainUnstandby`, `MainLaunch`), with any step of another
thread in between. On the startup coroutine's thread `registerNetworkCallback` and
`enterNetworkStandby` are cut likewise: the registration, the test of the Internet, the flag, the
cancel, the null, the fence (`StartupPublish` to `StartupFence`), all inside the monitor, which
keeps out launches but not the main thread. `stopEverything` on a thread other than main is six
steps (`StopEverything` to `StopTun`); on main, where recoveries and intents come from, the lines
up to the monitor are one. `crossed` is a history variable: the recoveries launched while another
thread was between its cancel of `reconnectJob` and its null.

`core` holds what the service can read of the supervisor, and whether the launch under way is
still wanted (`valid`). A launch is three steps (`StartCarrier`, `CarrierSpawned`, and
`CarrierStarted` or `CarrierFailed`), and so is a `stop()` outside the monitor (`NativeStop`,
`NativeFlags`, `NativeCleanup`), on the user interface's thread and in the startup coroutine
before a reconfiguration, so the two interleave. `bus` holds the transport events not yet
collected, `netQueue` the network callbacks posted to the main thread. Readiness, drops, refusals
and deaths of the core are inputs, bounded by `MaxFaults`.

**`Supervisor`.** A caller (`Starters`, `Stoppers`) goes through `start` or `stop` step by
step; those of `Guarded` hold the service's monitor around the call (`startCarrier`,
`stopEverything`), the others none (the binder, the stop before a reconfiguration,
`LibreRouteProxyService`). Each launch is
an instance with a process (`alive`), a cancellation flag, what it holds (engines, route
file and application server, as `held`) and a stdout reader. A stdout line is one of
the kinds the reader tells apart (listener, sample, drop, fatal, reject, ready), and may have
been left in the pipe by a process that is dead already; where
the reader makes several tests on shared state the steps are separate
(`ConnectCheck`, `ConnectSet`, `ConnectProxy`, `ConnectMark`, `ConnectPublish`). The main
looper runs the posted runnables by the same steps. The operations of
`ChannelConnectionState` carry the token of their instance, as in the code.
History variables: `confirmed` are the instances that reported readiness, `restored` those that
`localNetworkRestored` made ready without a report, `exposed` those that met another call
between their last `checkLaunchActive` and `ClientChannel.state.begin`: a stop past its flags, a
start past its check, or another launch in the same place.

**`AdminCommand`.** A thread runs one command at a time; `frame` is the frame of
`AdminCommandControl` with the locals of `executeAdminApiCommand`, `workflow` the enclosing
workflow frame. A command first asks for a signed snapshot (the probe, one level
deeper), then forms its envelope, which may fail on the way (`FormFails`), sends it and waits.
Requests and replies are
sets that never shrink: a message may be lost (never read), late, or read twice. The
server is external: it authorises, compares the expected revision and
remembers the outcome of each operation id. `Crash` keeps storage only (history,
envelope, receipt). `sent`, `applications` and `newest` are history variables.

**`ProxyService`.** Android makes a new service object after `onDestroy`, while the companion
flags `isProxyRunning` and `isProxyStarting`, the sessions and the bridge belong to the
process; so the objects are numbered (`service` is the present one) and each has its
`alreadyStopping`, `startupJob` and supervisor. Start intents are numbered too, and number
n names the startup coroutine, the session and the core of that start. `stopProxy` is five
steps (`stopper[t]`), on the main thread or on a coroutine's: flags, cancellation, bridge,
core, `stopSelf`. `JobSpawn` and `JobPublish` are the two sides of the gap between the last
`checkLaunchActive` of a launch and the publication of its instance. A coroutine that was
cancelled goes on to its next suspension point, as Kotlin's does.

**`TcpClient`, `ByteRelay`.** One connection, `k`: the pcb, the `tcp_client` and the SOCKS
connection. The handlers are operators from a connection to a connection under their C names,
because they call each other; an action runs one callback of `tcp_input` (`seg.at` says
which comes next) or one job of the reactor. While a callback is inside `SYNC_COMMIT` the stage
is `acceptSync`, `sentSync` or `recvSync`, and only jobs run. Errors are inputs: `tcp_write`
out of memory, `tcp_output` failing, no memory for a FIN, socket errors (of a connection at work,
or of an idle one: `IdleError`), resets, time-outs.
Bytes are numbered, so order and loss are visible. Sequence numbers and retransmission of lwIP
are not modelled: a segment arrives in order, as `tcp_input` hands it to its callbacks.
`ByteRelay` says what such a relay promises: two streams, each a run of consecutive
bytes of which only a tail may be forgotten, and an end-of-file mark only after the last
byte. `RelaySpec` maps the client's buffer with the segment in delivery to the one
stream, and lwIP's send queue with the receive buffer of SOCKS to the other.

**`UdpGw`.** `cons` is the client's list of connections, least recently used first, with the
packets waiting in each; `srv` the server's, `sending` the packet its fair queue is busy
with, which may belong to a connection already closed. `up` and `down` are the packets in the
stream. A datagram carries the addresses its application used, so that delivery can be
judged. The server's UDP sockets are not connected and `udpgw.c` does not look at who sent
what comes in, so a datagram towards the client is marked by what the socket it came in through
has sent (`asked`), and says nothing of its sender. The stream breaks at any
time (`StreamBreaks`); the server keeps the client's
structure until it notices (`stale`), which can make its accept fail for `max_clients`.

Operators with the comment "Mutant" are deliberately wrong forms of the definition that
follows them; no specification uses them. They show that each property fails when the
code behind it is wrong in a plausible way.

## 4. Runs

| Run | Bounds | Shows |
|---|---|---|
| `vpn` | 1 start intent, 2 recoveries, 1 stop of the user interface, both transports, 1 fault, 1 network change, 1 waiting event; 4,057,873 distinct states | `TypeOK`, `StopReachesCore`, `OneRecovery` |
| `vpn_liveness` | 1 start, 1 recovery, 1 stop of the user interface, no fault, 1 network change, 1 event; 89,254 states | `StopSettles`: a stop completes, from whichever thread; `StandbyEnds`: a returned network ends a standby entered completely |
| `vpn_stall` | 1 start, 2 recoveries, 1 fault, no network change, 2 events | violation: `RecoveryNeverStalls` |
| `vpn_disconnect` | 1 start, 1 recovery | violation: `DisconnectStopsAll` |
| `supervisor` | a starter and a stopper inside the monitor, a stopper outside, 2 launches, 2 calls, 2 lines, 1 outage, RULES mode; 651,727 states | 7 invariants on orphans, the channel, the session and leaked engines; `DeathIsNoticed` |
| `admin` | 2 threads, 2 calls of the kinds snapshot and durable change, 1 kill, 1 change of rights, grant or policy; 647,461 states | exclusion, history, live access, single application, latest probe, cancellation, `LockIsReleased` |
| `admin_snapshot` | 2 threads, 2 snapshot reads | violation: `SnapshotNeverGoesBack` |
| `proxy` | 1 service object, 2 start intents, 1 event, 1 change of the sharing switch | `NoStuckStart`: when all threads are done no start flag is left set |
| `proxy_disconnect` | 2 service objects, the rest the same | violation: `DisconnectStopsProxy` |
| `tcp_client` | window 3, send queue 2, receive buffer 3, 5 bytes each way; 94,079 states | 5 invariants on pcb, window, counts and wake-ups; the refinement `RelaySpec`; `ClosedClientIsFreed` |
| `tcp_leak` | window, queue and buffer 2, 2 bytes each way | violation: `NoPbufLeak` |
| `udpgw` | 3 flows over 2 applications and 2 peers, 2 connection ids, 1 server connection, 1 server client, buffers of 1, 4 datagrams | tables, peers and answers; `ServiceReturns` |

Why the bounds are enough for the questions asked. Two recoveries are what it
takes for a second to be launched while the first is still on its way out; one fault and one
network change give every order of a drop with an outage. Two launches
make an instance and its replaced predecessor with a reader still running; two calls
are a start over a running core (which stops it first) or a start against a stop. The stopper outside the
monitor gives the calls that overlap a launch. The kinds of command that
`admin` leaves out (plain reads and changes) take the same steps, and its safety properties
are proved for every kind. Two calls of a durable
command are the first attempt and its retry, with the kill in between; two threads are
a change and its rival. Two start intents are a stop of the
proxy overtaken by the next start. In `tcp_client` the send queue is smaller
than the receive buffer, so a block is copied in parts; the window is smaller than the
bytes sent, so it closes and reopens. In `udpgw` three flows share two ids and the server
holds one connection, so ids are reused and the server closes connections with packets in its
queue; four datagrams fill a table, reuse an id and come back to the first flow. With two
service objects, so that the stop is overtaken by a start on the successor, `proxy` passes
too (4,978,346 distinct states, and 6,986,007 with `Flexible = TRUE`), but takes too long for a
run; `StartsSettle` proves the property for every number of objects.

Larger instances of the same questions also pass, and take too long to be runs or add nothing to
them: two start intents, so that a new coroutine meets a cancelled one, for `StopReachesCore` and
`OneRecovery` (1,541,529 states with one recovery and a stop of the user interface, 513,540 with
two recoveries and a network change); `vpn_liveness` with a fault and a whole outage and without
the user interface (156,525); a supervisor with three calls, of which a thread outside the monitor
makes both starts and stops (2,145,240).

`SYMMETRY` is used in `vpn` only, where coroutines are interchangeable; runs
with a temporal property use none. `CHECK_DEADLOCK FALSE` is set
because every instance ends when its budgets are used up and the service rests.

### Fairness

`VpnService.FairSpec`: each coroutine that can take a step does (IO dispatcher), and so does
the main looper, the stdout reader that notices an exit, and a
`stopInternal` that has begun. New start intents, stops, faults and network changes are
never fair. `CoreReady` is strongly fair: a core that is relaunched over and over
with the network present connects in the end. This is an assumption about the network; it keeps
`vpn_stall` from being refuted by a core that never connects. `Supervisor.FairSpec`: the stdout
readers run; callers, looper, deaths, lines and outages are not fair.
`AdminCommand.FairSpec`: a command always takes a next step, because every wait has a
timeout (`Unanswered`, `ProbeFails`), and a workflow is a finite list of commands that ends;
neither the server nor the delivery of any message is assumed fair.
`TcpClient.FairSpec`: the reactor runs the callbacks and jobs it has; a handshake ends one way
or the other (`BSocksClient` gets an answer or an error of the socket); a socket that is
waited for becomes writable, and over and over writing to it sends something or fails.
The application, lwIP's peer, is never assumed to do anything. `UdpGw.FairSpec`: timers
run; a connection that is tried for ever comes up in the end (strong fairness of the attempts,
an assumption about the network), and the server frees a client whose stream is gone, by its
disconnect timer. Packets are not fair. `ProxyService` states safety only.

### Findings

* `vpn_stall`: a core that drops between the readiness test of the startup coroutine
  (line 486) and the block that sets `vpn.isRunning` (489) is not recovered: the event is
  ignored because the VPN does not run yet, and nobody looks again. The comment at
  line 136 promises the opposite.
* `vpn_disconnect`: a disconnection while a startup coroutine is in `vpn.configure` leaves
  the interface it establishes afterwards; one between lines 486 and 489 leaves `isRunning` set.
* `proxy_disconnect`: a disconnection while the startup coroutine of the proxy is inside
  `supervisor.start` finds no core; the coroutine then publishes one, ends, and every later
  `stopProxy` returns early. The core stays.
* `tcp_leak`: `client_recv_func` and `client_sent_func` return `ERR_ABRT` with the segment's
  data in lwIP's hands, which lwIP then drops without `pbuf_free`.
* `admin_snapshot`: two concurrent snapshot reads can store the older receipt over
  the newer one; the comparison and the store are separate steps.

Also visible in the models, and stated in the properties as exceptions or preconditions:

* The main thread may launch a recovery (100) while another thread is between its cancel of
  `reconnectJob` and its null (77-78, 564-565). The field no longer names the recovery that runs,
  and the next disconnection launches a second one beside it. `OneRecovery` excepts exactly the
  recoveries launched there (`crossed`); without the exception TLC refutes it.
* The startup coroutine may find no Internet (188) just before the network returns; the callback,
  the first, is ignored because the service is not in standby yet (212), and then the coroutine
  enters standby (76). No callback is due any more. So `StandbyEnds` speaks of a standby entered
  completely (`Resting`), and with network changes `RecoveryNeverStalls` fails by this way too.
* A `stop()` outside the monitor that sets its flags after the last check of a launch (346) finds
  no instance to destroy, and clears the reference (687) after the launch has published (352): the
  core runs and no later call reaches it. It is the gap of `proxy_disconnect`, reached in the VPN
  service by the binder. `NoOrphan` excepts the instances that met such a call (`exposed`);
  without the exception TLC refutes it.
* A `stopEverything` on a coroutine's thread that a start intent overtakes cancels the new
  startup coroutine, whose core then runs on with no coroutine to look after it.

## 5. Proofs

`VpnServiceProofs` proves for every set of coroutines, every set of transports and every
bound, from `ConstantsAssumption` alone (distinct coroutines, natural bounds, a
non-empty set of transports):

* `TypeCorrect`: `Spec => []TypeOK`. `TypeOK` is inductive; it is split into seven parts
  (fields, coroutines, attempts, monitor, core, bus, network), one lemma each, with one
  step per action that assigns a variable of the part. The shared helpers
  (`ScheduleRecovery`, `EnterNetworkStandby`, `UpdateUnderlyingNetwork`, `Finish`, `Goto`) have
  typing lemmas of their own.
* `StopReaches`: `Spec => []StopReachesCore`. Inductive together with the types and
  `MonitorHeld`: who is launching, or declaring the VPN running, holds the monitor. A core
  comes to life only in `CarrierStarted`, whose thread holds the monitor since
  `StartCarrier`, which refuses when `alreadyStopping` is set; `alreadyStopping` is set only by
  a thread that then goes on to `StopCore`, and no other step takes it from there
  (`Harmless`, with the lemma `HarmlessKeeps`, says what every remaining
  action leaves alone). `StopCore` itself leaves neither a core nor a held monitor.
* `RecoveriesDoNotCompete`: `Spec => []OneRecovery`. `RecoveryPart` adds what holds where the
  field is about to change (`MayCross`: another thread is between cancel and null, or main
  between the `isActive` test and the launch): every active recovery is one that had crossed
  such a place. A coroutine becomes active only in `MainLaunch`; the other steps leave field and
  coroutines alone (`Calm`) or cancel the recovery in the field (`Cancels`). Without the
  exception the property does not hold (section 4).

`AdminCommandProofs` proves for every set of threads and every bound, from
`AdminAssumption` (natural bounds, `None` distinct from threads, operations and
envelopes), one inductive invariant `IInv`, checked with TLC before it was proved. None
of the properties is inductive by itself; the parts of `IInv` that carry them are:

* `LockOwned` (whoever changes the server holds its lock) gives `ChangesExclude`, and is
  why nobody else touches the envelope of a signed command (`DurableKept`), which the type
  of the request that `Send` builds needs (`AdminTypeCorrect`).
* `RepliesTrue` (a reply says what the server remembers, and a verdict is final) and
  `ProbeOwned` (a probe waits for its own operation) give `LiveAccess`.
* `SentIsSending` (while a submitted command runs, its phase is `SENDING`) and
  `FramesDistinct` (running commands have different numbers) make a new record of
  a cancelled command true and keep the old ones true: `Truthful`, and `HistoryTruth`.
* `EnvelopeGuards` (a durable request the server may still apply is the stored one; once
  applied, the envelope stays until it is answered) gives `DurableOnce`. It uses the external
  server's memory of operation ids, as the code does.
* `LatestProbeKnown` gives `LatestProbe`; `NotYetSent` (the phase of a command that is
  still being checked, formed or signed is not `SENDING`) gives the action property `CancelledIsRecorded`.

The lemmas `StepShape` and `Moves` say once what a step does to the frame of its
thread: it ends the command, or moves it to the next position with its number and kind.

`TcpClientProofs` proves for every window, send queue and receive buffer and every bound on
the bytes, from `SizesAssumption`, one inductive invariant `IInv`, which is `Good(c, a, d)` of
the connection where `a` acknowledged and `d` arrived bytes have not been told to the callbacks
yet. Its parts are `PcbPart` (the pcb is open exactly while the client side is, with the
callbacks that the progress of SOCKS calls for), `SocksPart` (the two halves of the structure
and the connection below), `WorkPart` (each job queued once; a send under way whenever there
are bytes for SOCKS), `WaitPart` (who waits has something to wait for), `SizePart` (window plus
buffer plus what is being delivered never exceeds `TcpWnd`; `pending` is the send queue) and
`SegmentPart` (between two callbacks `tcp_input` finds the pcb open and no job left). The
handlers call each other, so the proof follows them: each has a lemma of what it returns for
any sound connection (`FreeClientCloses`, `AbortClientCloses`, `MurderCloses`,
`FreeSocksIsSound`, `SendDoneIsSound`, `RecvDoneIsSound`), and one lemma per action puts them
together. Theorems: `TcpTypeCorrect`, `PcbStaysValid`, `WindowFitsBuffer`, `PendingCounts`,
`WakeupsAreKept`, `WaitsAreJustified`. None of these but the type invariant is inductive
without the others.

`TcpClientRefinement` proves `RelayIsImplemented`: `Spec => RelaySpec`. `RInv` adds to `IInv`
what the buffers hold: each is a run of consecutive bytes that begins where the next one
towards its destination ends, and while both sides are open they reach up to the last byte
received (`UpHeld`, `DownHeld`, `EndHeld`). `JoinRuns` and `CutRun` are the facts on
sequences, by `SequenceTheorems`, without induction. For each action a lemma (`...Relayed`)
shows that `RInv` is kept and how the lengths change (`RStep`); `MappedRuns` and
`StepIsRelayed` turn that into a step of `ByteRelay` or a stutter.

`UdpGwProofs` proves for every set of flows and every size, from `SizesAssumption` and
`FlowsAssumption`, the invariant `IInv`: the properties `SocksOrTimer`, `TreesAgree`,
`ServerTable`, with `StreamPart` (which end may hold packets in which state of the stream) and
`FlightPart` (a datagram under an id was meant for the peer it carries, by the only
application that ever had the id unless one was reused; in the client, the stream, the server
and on the way back). `PeersAreNeverMixed` and `AnswersReachTheirOwner` follow from
`FlightPart`. `UnusedConid` shows that `find_unused_conid` finds an id in a table that is not
full, by the pigeonhole principle of `FiniteSetTheorems` and the least number of a set
(`LeastNatural`); `WithoutKeeps` and `MoveReorders` say what unlinking and moving to the end of
the list leave in place. The others: `UdpTypeCorrect`, `UdpIsNeverDead`, `ClientTreesAgree`,
`ServerTableIsSound`.

`SupervisorProofs` proves for every number of callers, inside or outside the monitor in any
mixture, every number of launches, lines and outages and both values of `Flexible`, from
`SupervisorAssumption`, one invariant `IInv`. `LaunchPart` (an instance belongs to one caller
until `Attach` gives it a reader), `ReadyPart` (whoever is about to publish readiness does it for
an instance that reported it and has a reader) and `HeldPart` (engines are held by a launch, or
by a reader before its `finally` block) give `SupervisorTypeCorrect`, `ReadyIsReported`,
`OutageIsFenced`, `ReadySessionWasLaunched` and `EnginesAreReleased`. `CallPart` is what the
launch generation buys when calls overlap: every launch has a generation of its own and one that
was overtaken will find it changed (`GenerationPart`); a launch in the window between its last
check and `begin` that met no other call is alone there (`WindowPart`); a core that is alive and
was never exposed there is still its launcher's to destroy, or is the current instance with
nobody about to forget it and, once `shuttingDown` is set, a stop on its way to it (`CorePart`);
and the channel is the current instance's (`OwnerPart`). From these come `NoCoreIsOrphaned`,
`StopIsComplete` and `ChannelIsCurrent`. None of the three rests on the monitor. The exception
they make for `exposed` instances is needed (section 4); for callers that are
all in the monitor no instance is ever exposed.

`ProxyServiceProofs` proves for every number of service objects, starts, events and changes of
the sharing switch and both values of `Flexible`, from `ProxyAssumption`, `ProxyTypeCorrect`
and `StartsSettle`: `Spec => []NoStuckStart`. The invariant `StartPart` names who will clear
`isProxyStarting`: a `stopProxy` that is about to clear the flags, the coroutine of the start
while it is not cancelled, `onDestroy`, or a `stopProxy` on a coroutine that will ask for
`onDestroy`; and it says that `alreadyStopping` is set during a start only by a `stopProxy` that
has not cleared the flags yet. This is why a coroutine that leaves because of
`alreadyStopping` leaves the flag to someone. `JobPart`, `ObjectPart`, `StopperPart` and `EventPart`
say which object a coroutine, a `startupJob`, a `stopProxy` and an event belong to.

Every inductive invariant was checked with TLC on an instance before it was proved
(`SupervisorProofs.IInv` with the three overlapping calls of section 4).

Only model-checked: the liveness properties `StopSettles`, `StandbyEnds`, `DeathIsNoticed`,
`LockIsReleased`, `ClosedClientIsFreed` and `ServiceReturns` (fairness and `ENABLED` are out of
the prover's reach), and the five violations. No module uses a `RECURSIVE` operator.

## 6. Abstractions and what is left out

* `VpnService`: `onDestroy` (the service object and its coroutines end with it); the ping
  request, notifications and speed display; `startTun2Socks` and `startLibreRouteNative` of the
  binder, which nothing in the repository calls; the payload of a route and the rotation of its
  lanes; the routes, DNS servers and application lists of the interface. On the main thread
  the lines of `stopEverything` before the monitor are one step. `supervisor.stop()` inside the
  monitor is one step for the service, and a core that the supervisor loses sight of
  (`exposed` in `Supervisor`) is not part of `core`. The bus never drops
  events in the model; in the code it does so beyond 128.
* `Supervisor`: the command line, the zapret strategy and the log filter are data; adjacent
  assignments to atomic flags in `start` and `stop` (`StartFlags`, `StopFlags`) are one step each;
  destroying a process ends it in the same step, as `destroyForcibly` after the waits does.
* `AdminCommand`: one server; signatures, roles and the content of commands are outcomes; the
  choice of the carrier is not modelled, its results are (answered, lost, late, alien). The
  server's memory of operation ids is an assumption about the server that the code relies on.
  A store whose commit fails counts as not written, and a write that Android applies later and
  loses with the process is not modelled. The legacy commands that keep the history themselves
  (`AdminRepository.kt` 2122, 2834, 3107), and record a lost answer as failed, are outside the
  model; `HistoryIsTrue` says nothing of them.
* `ProxyService`: the supervisor at the grain of what the service reads of it; destroying a
  core ends it in the same step; `VpnDisconnected` and the notifications are display; LAN sharing
  by the VPN service is not composed in.
* `TcpClient`: one connection (clients share nothing but the list they are in and memory,
  whose shortage is an input); out-of-order segments, retransmission and the persist timer of
  lwIP; data or a FIN on the ACK that ends the handshake (`tcp_in.c` 738-752) arrives as a segment
  of its own; the bytes of the SOCKS handshake.
* `UdpGw`: DNS packets and the server's fixed local ports; the direct mode under `ANDROID_UDP`,
  which no build file defines; the bytes of the framing, of which a broken one is a stream
  error.

### Not modelled

The parts marked so in `PROJECT.json`, with the reason for each. Most of the C code under
`jni/` is vendored and not the application's own logic: of badvpn the build (`Android.mk`) takes
tun2socks with the flow, reactor and SOCKS libraries and part of lwIP; NCD, the peer-to-peer
VPN, parser generators and generated parsers, lwIP's socket API and SNMP are not built. pdnsd is a
DNS proxy run as a separate daemon. They hold the bulk of the repository's C lines, so the
map covers a small share of all of them and most of the state-changing code of the
services, the command path, TCP forwarding and UDP forwarding.
