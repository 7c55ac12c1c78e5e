----------------------------- MODULE ProxyService -----------------------------
(***************************************************************************)
(* LibreRouteProxyService, the proxy without a VPN interface, composed     *)
(* with the supervisor it owns, the SOCKS session and the LAN bridge.      *)
(*                                                                         *)
(* Threads: the main looper (intents, event collector, onDestroy), one IO  *)
(* coroutine per accepted start, the stdout readers of the cores, and the  *)
(* user interface's IO thread that refreshes the sharing.  stopProxy runs  *)
(* on the main looper and on the coroutines, without a lock.               *)
(*                                                                         *)
(* The n-th accepted start makes session n, coroutine n and core n.  The   *)
(* flags of the companion object outlive the service object; everything    *)
(* else belongs to one service object.  start() and stop() of the          *)
(* supervisor are cut where another thread may come in between; module     *)
(* Supervisor has their detail.                                            *)
(***************************************************************************)
EXTENDS Integers, FiniteSets

CONSTANTS
    Flexible,     \* the core routes by rules (ProxyRoutingMode.RULES)
    MaxServices,  \* bound on service objects
    MaxStarts,    \* bound on accepted start intents
    MaxBus,       \* bound on events waiting for the collector
    MaxToggles    \* bound on changes of the sharing settings

ASSUME ProxyAssumption ==
    /\ Flexible \in BOOLEAN
    /\ MaxServices \in Nat \ {0} /\ MaxStarts \in Nat \ {0}
    /\ MaxBus \in Nat \ {0} /\ MaxToggles \in Nat

Services == 1..MaxServices
Starts == 1..MaxStarts

Main == 0                        \* the main looper; coroutine n is thread n
Threads == {Main} \cup Starts

VARIABLES
    isProxyRunning, isProxyStarting,  \* companion flags
    service,          \* the service object Android knows, 0 if none
    made,             \* number of service objects made
    destroying,       \* onDestroy of service is queued on the main looper
    alreadyStopping,  \* per service object
    startupJob,       \* per service object, 0 is null
    sup,              \* per service object, its NativeProcessSupervisor; launch is the
                      \* coroutine with the latest generation, 0 after a stop
    job,              \* the coroutines
    stopper,          \* per thread, where it is in stopProxy
    core,             \* the core processes
    session,          \* LocalSocksSession.currentSession
    readySession, active,  \* readySession (0 is null), ProxyRoutingStatus.active # null
    bridge,           \* HotspotProxyBridge.isRunning
    share,            \* shareLanProxy and credentials that canShare accepts
    toggles, refresher,    \* uses of the switch so far, the user interface's refresh
    bus               \* TransportDisconnected events not yet collected

flags == <<isProxyRunning, isProxyStarting>>
object == <<service, made, destroying>>
sharing == <<share, toggles, refresher>>
socks == <<readySession, active, bridge>>
vars == <<flags, object, alreadyStopping, startupJob, sup, job, stopper, core,
          session, socks, sharing, bus>>

JobPc == {"none", "new", "begin", "spawn", "publish", "launched", "wait", "decide", "running", "timeout",
          "share", "bridge", "stopping", "ended"}
StopPc == {"idle", "flags", "cancel", "bridge", "core", "self"}

TypeOK ==
    /\ isProxyRunning \in BOOLEAN /\ isProxyStarting \in BOOLEAN
    /\ service \in 0..MaxServices /\ made \in 0..MaxServices /\ destroying \in BOOLEAN
    /\ alreadyStopping \in [Services -> BOOLEAN]
    /\ startupJob \in [Services -> 0..MaxStarts]
    /\ sup \in [Services -> [running : BOOLEAN, connected : BOOLEAN,
                             launch : 0..MaxStarts, current : 0..MaxStarts]]
    /\ job \in [Starts -> [pc : JobPc, svc : 0..MaxServices, cancelled : BOOLEAN,
                           ready : BOOLEAN]]
    /\ stopper \in [Threads -> [pc : StopPc, svc : 0..MaxServices, destroy : BOOLEAN]]
    /\ core \in [Starts -> {"none", "alive", "exited", "dead"}]
    /\ session \in 0..MaxStarts /\ readySession \in 0..MaxStarts /\ bridge \in BOOLEAN
    /\ active \in BOOLEAN /\ share \in BOOLEAN
    /\ toggles \in 0..MaxToggles /\ refresher \in {"idle", "read", "start"}
    /\ bus \in 0..MaxBus

Init ==
    /\ isProxyRunning = FALSE /\ isProxyStarting = FALSE
    /\ service = 0 /\ made = 0 /\ destroying = FALSE
    /\ alreadyStopping = [i \in Services |-> FALSE]
    /\ startupJob = [i \in Services |-> 0]
    /\ sup = [i \in Services |-> [running |-> FALSE, connected |-> FALSE,
                                  launch |-> 0, current |-> 0]]
    /\ job = [n \in Starts |-> [pc |-> "none", svc |-> 0, cancelled |-> FALSE,
                                ready |-> FALSE]]
    /\ stopper = [t \in Threads |-> [pc |-> "idle", svc |-> 0, destroy |-> FALSE]]
    /\ core = [n \in Starts |-> "none"]
    /\ session = 0 /\ readySession = 0 /\ active = FALSE /\ bridge = FALSE
    /\ share = FALSE /\ toggles = 0 /\ refresher = "idle"
    /\ bus = 0

-----------------------------------------------------------------------------
(* Sessions, supervisor, events *)

getReady == IF readySession = session THEN readySession ELSE 0

\* isRunning and isLocalProxyReady of the supervisor of service object i.
IsRunning(i) == sup[i].running /\ sup[i].current # 0 /\ core[sup[i].current] = "alive"
IsLocalProxyReady(i) == sup[i].current # 0 /\ getReady = sup[i].current

\* setLocalProxyReady(instance n, true) and (instance n, false).
ProxyReady(n) ==
    /\ readySession' = IF n = session THEN n ELSE readySession
    /\ active' = TRUE
    /\ UNCHANGED bridge

ProxyNotReady(n) ==
    IF n # 0 /\ getReady = n
    THEN readySession' = 0 /\ active' = FALSE /\ bridge' = FALSE
    ELSE UNCHANGED socks

\* Mutant: the buffer of the bus has no limit.
DispatchUnbounded == bus' = IF service # 0 THEN bus + 1 ELSE bus

\* EventBus.dispatch(TransportDisconnected): only a collecting service sees it.
Dispatch == bus' = IF service # 0 /\ bus < MaxBus THEN bus + 1 ELSE bus

JobGoes(n, to) ==
    job' = [job EXCEPT ![n].pc = to, ![n].ready = FALSE,
                       ![n].cancelled = @ /\ to # "ended"]

\* cancel() of a set of coroutines: it does nothing to one that has ended.
Cancel(J) ==
    job' = [n \in Starts |-> IF n \in J /\ job[n].pc # "ended"
                             THEN [job[n] EXCEPT !.cancelled = TRUE] ELSE job[n]]

\* supervisor.stop() of service object i.
SupervisorStop(i) ==
    LET n == sup[i].current
    IN  /\ sup' = [sup EXCEPT ![i] = [@ EXCEPT !.running = FALSE, !.connected = FALSE,
                                       !.launch = 0, !.current = 0]]
        /\ core' = IF n = 0 THEN core ELSE [core EXCEPT ![n] = "dead"]
        /\ ProxyNotReady(n)

-----------------------------------------------------------------------------
(* stopProxy of service object i on thread t *)

\* Its first line, as a step of the caller, which then waits in stopper[t].
StopBegins(t, i, destroy) ==
    /\ alreadyStopping' = [alreadyStopping EXCEPT ![i] = TRUE]
    /\ stopper' = [stopper EXCEPT ![t] = [pc |-> "flags", svc |-> i, destroy |-> destroy]]

StopGoes(t, from, to) ==
    /\ stopper[t].pc = from
    /\ stopper' = [stopper EXCEPT ![t].pc = to]

StopFlags(t) ==
    /\ StopGoes(t, "flags", "cancel")
    /\ isProxyRunning' = FALSE /\ isProxyStarting' = FALSE
    /\ UNCHANGED <<object, alreadyStopping, startupJob, sup, job, core, session, socks, sharing, bus>>

StopCancel(t) ==
    LET i == stopper[t].svc
    IN  /\ StopGoes(t, "cancel", "bridge")
        /\ Cancel({startupJob[i]})
        /\ startupJob' = [startupJob EXCEPT ![i] = 0]
        /\ UNCHANGED <<flags, object, alreadyStopping, sup, core, session, socks, sharing, bus>>

StopBridge(t) ==
    /\ StopGoes(t, "bridge", "core")
    /\ bridge' = FALSE
    /\ UNCHANGED <<flags, object, alreadyStopping, startupJob, sup, job, core, session, readySession,
                   active, sharing, bus>>

StopCore(t) ==
    /\ StopGoes(t, "core", "self")
    /\ SupervisorStop(stopper[t].svc)
    /\ UNCHANGED <<flags, object, alreadyStopping, startupJob, job, session, sharing, bus>>

\* serviceScope.cancel(), and Android forgets the service object.
Gone(i) ==
    /\ Cancel({n \in Starts : job[n].svc = i})
    /\ service' = 0 /\ destroying' = FALSE /\ bus' = 0

\* Mutant: stopProxy does not stop the service.
StopWithoutSelf(t) ==
    LET i == stopper[t].svc
    IN  /\ stopper[t].pc = "self"
        /\ stopper' = [stopper EXCEPT ![t] = [pc |-> "idle", svc |-> 0, destroy |-> FALSE]]
        /\ IF stopper[t].destroy THEN Gone(i)
           ELSE /\ IF t = Main THEN UNCHANGED job ELSE JobGoes(t, "ended")
                /\ UNCHANGED <<service, destroying, bus>>
        /\ UNCHANGED <<flags, made, alreadyStopping, startupJob, sup, core, session, socks, sharing>>

\* stopSelf, and what the caller does next: onDestroy, the end of a coroutine.
StopSelf(t) ==
    LET i == stopper[t].svc
    IN  /\ stopper[t].pc = "self"
        /\ stopper' = [stopper EXCEPT ![t] = [pc |-> "idle", svc |-> 0, destroy |-> FALSE]]
        /\ IF stopper[t].destroy THEN Gone(i)
           ELSE /\ destroying' = (destroying \/ service = i)
                /\ IF t = Main THEN UNCHANGED job ELSE JobGoes(t, "ended")
                /\ UNCHANGED <<service, bus>>
        /\ UNCHANGED <<flags, made, alreadyStopping, startupJob, sup, core, session, socks, sharing>>

-----------------------------------------------------------------------------
(* The main looper *)

MainIdle == stopper[Main].pc = "idle"

\* startService makes a service object where there is none (onCreate).
ServiceUsed(i) ==
    /\ MainIdle
    /\ IF service # 0 THEN i = service /\ UNCHANGED <<service, made>>
       ELSE /\ made < MaxServices /\ i = made + 1
            /\ service' = i /\ made' = i

\* onStartCommand with a start intent, from the flags to the launch.
Connect(i) ==
    /\ ServiceUsed(i)
    /\ ~isProxyRunning /\ ~isProxyStarting /\ session < MaxStarts
    /\ alreadyStopping' = [alreadyStopping EXCEPT ![i] = FALSE]
    /\ isProxyStarting' = TRUE
    /\ session' = session + 1
    /\ job' = [job EXCEPT ![session + 1] = [@ EXCEPT !.pc = "new", !.svc = i]]
    /\ startupJob' = [startupJob EXCEPT ![i] = session + 1]
    /\ UNCHANGED <<isProxyRunning, destroying, sup, stopper, core, socks, sharing, bus>>

\* The payload cannot be built: stopProxy instead of a coroutine.
ConnectFails(i) ==
    /\ ServiceUsed(i)
    /\ ~isProxyRunning /\ ~isProxyStarting /\ session < MaxStarts
    /\ isProxyStarting' = TRUE
    /\ session' = session + 1
    /\ StopBegins(Main, i, FALSE)
    /\ UNCHANGED <<isProxyRunning, destroying, startupJob, sup, job, core, socks, sharing, bus>>

\* A start intent while the flags say that a proxy starts or runs.
ConnectIgnored(i) ==
    /\ ServiceUsed(i)
    /\ isProxyRunning \/ isProxyStarting
    /\ UNCHANGED <<flags, destroying, alreadyStopping, startupJob, sup, job, stopper, core, session,
                   socks, sharing, bus>>

\* ACTION_DISCONNECT.
Disconnect(i) ==
    /\ ServiceUsed(i)
    /\ IF alreadyStopping[i] THEN UNCHANGED <<alreadyStopping, stopper>>
       ELSE StopBegins(Main, i, FALSE)
    /\ UNCHANGED <<flags, destroying, startupJob, sup, job, core, session, socks, sharing, bus>>

\* stopService of the user interface.
StopService ==
    /\ service # 0 /\ ~destroying
    /\ destroying' = TRUE
    /\ UNCHANGED <<flags, service, made, alreadyStopping, startupJob, sup, job, stopper, core, session,
                   socks, sharing, bus>>

OnDestroy ==
    /\ MainIdle /\ destroying
    /\ IF alreadyStopping[service]
       THEN Gone(service) /\ UNCHANGED <<alreadyStopping, stopper>>
       ELSE StopBegins(Main, service, TRUE) /\ UNCHANGED <<job, service, destroying, bus>>
    /\ UNCHANGED <<flags, made, startupJob, sup, core, session, socks, sharing>>

\* The collector of onCreate, on TransportDisconnected.
Collect ==
    /\ MainIdle /\ bus > 0
    /\ bus' = bus - 1
    /\ IF /\ isProxyRunning \/ isProxyStarting
          /\ ~(Flexible /\ active /\ IsRunning(service))
          /\ ~alreadyStopping[service]
       THEN StopBegins(Main, service, FALSE)
       ELSE UNCHANGED <<alreadyStopping, stopper>>
    /\ UNCHANGED <<flags, object, startupJob, sup, job, core, session, socks, sharing>>

-----------------------------------------------------------------------------
(* The startup coroutine n *)

At(n, pc) == job[n].pc = pc

\* stopProxy() of the coroutine, which then ends.
JobStops(n) ==
    LET i == job[n].svc
    IN  IF alreadyStopping[i]
        THEN JobGoes(n, "ended") /\ UNCHANGED <<alreadyStopping, stopper>>
        ELSE JobGoes(n, "stopping") /\ StopBegins(n, i, FALSE)

\* The coroutine was cancelled before it ran, or while it was suspended.
JobCancelled(n) ==
    /\ At(n, "new") \/ At(n, "wait")
    /\ job[n].cancelled
    /\ JobGoes(n, "ended")
    /\ UNCHANGED <<flags, object, alreadyStopping, startupJob, sup, stopper, core, session, socks,
                   sharing, bus>>

\* A worker thread takes the coroutine up.
JobDispatched(n) ==
    /\ At(n, "new") /\ ~job[n].cancelled
    /\ JobGoes(n, "begin")
    /\ UNCHANGED <<flags, object, alreadyStopping, startupJob, sup, stopper, core, session, socks,
                   sharing, bus>>

\* supervisor.start up to spawn: a predecessor is stopped first.
JobStart(n) ==
    LET i    == job[n].svc
        cur  == sup[i].current
        pred == sup[i].running \/ (cur # 0 /\ core[cur] = "alive")
    IN  /\ At(n, "begin")
        /\ sup' = [sup EXCEPT ![i] = [running |-> TRUE, connected |-> FALSE,
                                      launch |-> n, current |-> IF pred THEN 0 ELSE cur]]
        /\ IF pred /\ cur # 0
           THEN core' = [core EXCEPT ![cur] = "dead"] /\ ProxyNotReady(cur)
           ELSE UNCHANGED <<core, socks>>
        /\ JobGoes(n, "spawn")
        /\ UNCHANGED <<flags, object, alreadyStopping, startupJob, stopper, session, sharing, bus>>

\* spawn: the process is started and the last checkLaunchActive passes, or
\* the launch was cancelled, or it fails.
JobSpawn(n, ok) ==
    LET i    == job[n].svc
        live == sup[i].launch = n
    IN  /\ At(n, "spawn")
        /\ IF live /\ ok
           THEN core' = [core EXCEPT ![n] = "alive"] /\ JobGoes(n, "publish") /\ UNCHANGED <<sup, bus>>
           ELSE /\ JobGoes(n, "launched") /\ UNCHANGED core
                /\ IF live
                   THEN /\ sup' = [sup EXCEPT ![i].running = FALSE, ![i].connected = FALSE]
                        /\ Dispatch
                   ELSE UNCHANGED <<sup, bus>>
        /\ UNCHANGED <<flags, object, alreadyStopping, startupJob, stopper, session, socks, sharing>>

JobPublish(n) ==
    /\ At(n, "publish")
    /\ sup' = [sup EXCEPT ![job[n].svc].current = n]
    /\ JobGoes(n, "launched")
    /\ UNCHANGED <<flags, object, alreadyStopping, startupJob, stopper, core, session, socks, sharing,
                   bus>>

\* if (!supervisor.isRunning) stopProxy().
JobLaunched(n) ==
    /\ At(n, "launched")
    /\ IF IsRunning(job[n].svc) THEN JobGoes(n, "wait") /\ UNCHANGED <<alreadyStopping, stopper>>
       ELSE JobStops(n)
    /\ UNCHANGED <<flags, object, startupJob, sup, core, session, socks, sharing, bus>>

\* The wait for readiness ends: ready, not to be waited for, or timed out.
JobWaits(n, timeout) ==
    LET i   == job[n].svc
        may == IsRunning(i) /\ ~alreadyStopping[i]
        ok  == IF Flexible THEN IsLocalProxyReady(i) ELSE may /\ sup[i].connected
    IN  /\ At(n, "wait") /\ (Flexible \/ ~job[n].cancelled)
        /\ ok \/ ~may \/ timeout
        /\ job' = [job EXCEPT ![n] = [@ EXCEPT !.pc = "decide", !.ready = ok]]
        /\ UNCHANGED <<flags, object, alreadyStopping, startupJob, sup, stopper, core, session, socks,
                       sharing, bus>>

\* if (alreadyStopping.get()) return.
JobDecides(n) ==
    /\ At(n, "decide")
    /\ JobGoes(n, IF alreadyStopping[job[n].svc] THEN "ended"
                  ELSE IF job[n].ready THEN "running" ELSE "timeout")
    /\ UNCHANGED <<flags, object, alreadyStopping, startupJob, sup, stopper, core, session, socks,
                   sharing, bus>>

JobRuns(n) ==
    /\ At(n, "running")
    /\ isProxyRunning' = TRUE /\ isProxyStarting' = FALSE
    /\ JobGoes(n, "share")
    /\ UNCHANGED <<object, alreadyStopping, startupJob, sup, stopper, core, session, socks, sharing,
                   bus>>

JobTimesOut(n) ==
    /\ At(n, "timeout")
    /\ Dispatch
    /\ JobStops(n)
    /\ UNCHANGED <<flags, object, startupJob, sup, core, session, socks, sharing>>

\* ProxySharing.refresh: the session and the settings are read, the bridge is
\* started afterwards.
JobShares(n) ==
    /\ At(n, "share")
    /\ IF share /\ getReady # 0 THEN JobGoes(n, "bridge") /\ UNCHANGED bridge
       ELSE JobGoes(n, "ended") /\ bridge' = (bridge /\ ~share)
    /\ UNCHANGED <<flags, object, alreadyStopping, startupJob, sup, stopper, core, session, readySession,
                   active, sharing, bus>>

\* HotspotProxyBridge.start, which may fail to bind.
JobBridges(n, ok) ==
    /\ At(n, "bridge")
    /\ bridge' = ok
    /\ JobGoes(n, "ended")
    /\ UNCHANGED <<flags, object, alreadyStopping, startupJob, sup, stopper, core, session, readySession,
                   active, sharing, bus>>

-----------------------------------------------------------------------------
(* The user interface: sharing settings and ProxySharing.refresh *)

\* The sharing switch: the setting is saved and a refresh launched.
ToggleSharing ==
    /\ toggles < MaxToggles /\ refresher = "idle"
    /\ share' = ~share /\ toggles' = toggles + 1 /\ refresher' = "read"
    /\ UNCHANGED <<flags, object, alreadyStopping, startupJob, sup, job, stopper, core, session, socks, bus>>

RefreshReads ==
    /\ refresher = "read"
    /\ IF share /\ getReady # 0 THEN refresher' = "start" /\ UNCHANGED bridge
       ELSE refresher' = "idle" /\ bridge' = FALSE
    /\ UNCHANGED <<flags, object, alreadyStopping, startupJob, sup, job, stopper, core, session,
                   readySession, active, share, toggles, bus>>

RefreshStarts(ok) ==
    /\ refresher = "start"
    /\ bridge' = ok
    /\ refresher' = "idle"
    /\ UNCHANGED <<flags, object, alreadyStopping, startupJob, sup, job, stopper, core, session,
                   readySession, active, share, toggles, bus>>

-----------------------------------------------------------------------------
(* The core n and its stdout reader, which works for the current instance *)

Owner(n) == job[n].svc
Current(n) == job[n].svc # 0 /\ sup[Owner(n)].current = n

\* The listener, and in tunnel mode the transport, is ready.
CoreReady(n) ==
    /\ core[n] = "alive" /\ Current(n) /\ ~sup[Owner(n)].connected
    /\ ProxyReady(n)
    /\ sup' = [sup EXCEPT ![Owner(n)].connected = sup[Owner(n)].running]
    /\ UNCHANGED <<flags, object, alreadyStopping, startupJob, job, stopper, core, session, sharing,
                   bus>>

\* A drop after the connection.
CoreDrops(n) ==
    /\ core[n] = "alive" /\ Current(n) /\ sup[Owner(n)].connected
    /\ sup' = [sup EXCEPT ![Owner(n)].connected = FALSE]
    /\ IF Flexible THEN UNCHANGED socks ELSE ProxyNotReady(n)
    /\ Dispatch
    /\ UNCHANGED <<flags, object, alreadyStopping, startupJob, job, stopper, core, session, sharing>>

CoreExits(n) ==
    /\ core[n] = "alive"
    /\ core' = [core EXCEPT ![n] = "exited"]
    /\ UNCHANGED <<flags, object, alreadyStopping, startupJob, sup, job, stopper, session, socks,
                   sharing, bus>>

\* The reader finds the end of the output of a published core.
ReaderEnds(n) ==
    /\ core[n] = "exited" /\ ~At(n, "publish")
    /\ core' = [core EXCEPT ![n] = "dead"]
    /\ IF Current(n)
       THEN /\ ProxyNotReady(n)
            /\ sup' = [sup EXCEPT ![Owner(n)].running = FALSE, ![Owner(n)].connected = FALSE]
            /\ Dispatch
       ELSE UNCHANGED <<socks, sup, bus>>
    /\ UNCHANGED <<flags, object, alreadyStopping, startupJob, job, stopper, session, sharing>>

-----------------------------------------------------------------------------
StopStep(t) == StopFlags(t) \/ StopCancel(t) \/ StopBridge(t) \/ StopCore(t) \/ StopSelf(t)

JobStep(n) ==
    \/ JobCancelled(n) \/ JobDispatched(n) \/ JobStart(n) \/ JobPublish(n) \/ JobLaunched(n) \/ JobDecides(n)
    \/ JobRuns(n) \/ JobTimesOut(n) \/ JobShares(n)
    \/ \E b \in BOOLEAN : JobSpawn(n, b) \/ JobWaits(n, b) \/ JobBridges(n, b)

MainStep == OnDestroy \/ Collect

Next ==
    \/ \E i \in Services : Connect(i) \/ ConnectFails(i) \/ ConnectIgnored(i) \/ Disconnect(i)
    \/ StopService \/ MainStep
    \/ \E t \in Threads : StopStep(t)
    \/ \E n \in Starts : JobStep(n) \/ CoreReady(n) \/ CoreDrops(n) \/ CoreExits(n) \/ ReaderEnds(n)
    \/ ToggleSharing \/ RefreshReads \/ \E ok \in BOOLEAN : RefreshStarts(ok)

Spec == Init /\ [][Next]_vars

-----------------------------------------------------------------------------
(* Properties *)

\* No thread is inside the service, the supervisor or the sharing.
Quiet ==
    /\ MainIdle /\ ~destroying /\ bus = 0 /\ refresher = "idle"
    /\ \A n \in Starts : job[n].pc \in {"none", "ended"} /\ core[n] # "exited"

\* A start settles: isProxyStarting, which makes onStartCommand ignore every
\* further start, is not left set when all threads are done, although a
\* stopProxy that was overtaken by the start may cancel its coroutine, stop
\* its core and find alreadyStopping reset.
NoStuckStart == Quiet => ~isProxyStarting

\* What the user interface says it does by stopping the service: an
\* in-progress launch is stopped as well as a connected proxy, so that nothing
\* is left when the service is gone and every thread is done.
DisconnectStopsProxy ==
    service = 0 /\ Quiet =>
        ~isProxyRunning /\ ~bridge /\ \A n \in Starts : core[n] # "alive"
=============================================================================
