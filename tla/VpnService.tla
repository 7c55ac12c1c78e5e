------------------------------ MODULE VpnService ------------------------------
(***************************************************************************)
(* The life cycle of SocksVpnService: start intents, stopEverything, the   *)
(* startup and recovery coroutines that run on IO threads, the main-thread *)
(* event collector and the physical-network callback.                      *)
(*                                                                         *)
(* The main thread runs its handlers one at a time; the coroutines run     *)
(* beside it and beside each other, and so does the user interface's IO    *)
(* thread, which stops the service through its binder.  None but the code  *)
(* in synchronized(this), whose monitor is the variable lock, excludes     *)
(* the others, so a handler is cut where another thread may write what it  *)
(* has read: mainPc says where the main thread is in it.  Cancelling a     *)
(* coroutine only clears its isActive flag: it goes on until its next      *)
(* suspension point.                                                       *)
(*                                                                         *)
(* The native core is the record core: what the service can read of        *)
(* NativeProcessSupervisor (isRunning, isConnected, isTransportRejected,   *)
(* the outage fence of ClientChannel) and whether the launch under way is  *)
(* still wanted.  A core that the supervisor itself loses sight of is the  *)
(* subject of module Supervisor.                                           *)
(***************************************************************************)
EXTENDS Naturals, Sequences, FiniteSets

CONSTANTS
    Startup,      \* startup coroutines, one per accepted start intent
    Recovery,     \* recovery coroutines
    Ui,           \* stopInternal calls of the user interface, each a coroutine of its own
    Transports,   \* transport types an intent may ask for, of TransportType
    Flexible,     \* TRUE when the RULES proxy mode makes the listener's readiness enough
    MaxFaults,    \* bound on drops, deaths and refusals of the core
    MaxNet,       \* bound on changes of the physical network
    MaxBus,       \* bound on the events a new ready line may find uncollected
    None          \* no coroutine, no lock holder, no interface

\* Through a provider's servers, or the autonomous direct-dpi mode.
TransportType == {"relay", "direct-dpi"}

ASSUME ConstantsAssumption ==
    /\ Transports \subseteq TransportType /\ Transports # {}
    /\ Flexible \in BOOLEAN
    /\ MaxFaults \in Nat /\ MaxNet \in Nat /\ MaxBus \in Nat
    /\ None \notin Startup \cup Recovery \cup Ui
    /\ Startup \cap Recovery = {} /\ Ui \cap (Startup \cup Recovery) = {}

Job == Startup \cup Recovery
Stopping == Startup \cup Ui      \* the threads beside main that call stopEverything
Thread == Job \cup Ui

VARIABLES
    currentTransportType,
    alreadyStopping,   \* AtomicBoolean of the service
    vpnRunning,        \* vpn.isRunning
    iface,             \* the intent whose configure() made the TUN interface
    isNetworkStandby,
    startupJob,        \* the fields that hold the coroutines
    reconnectJob,
    pc,                \* where each coroutine is
    active,            \* the isActive flag of the service's coroutines
    rev,               \* recovery coroutine: initialRevision, attemptRevision, networkReturned, ready
    recoveryNetworkRevision,
    mainPc,            \* where the main thread is
    returning,         \* networkReturned of the scheduleRecovery it is in
    lock,              \* holder of the service monitor
    core,              \* what the service reads of the supervisor
    exitDue,           \* the core's process died, its stdout reader has not noticed
    bus,               \* TransportConnected / TransportDisconnected not yet collected
    internet,          \* a physical network with Internet exists
    registered,        \* networkCallback # null
    netQueue,          \* callbacks of this registration not yet run on the main thread
    selected,          \* the tracker's selection: unset, none or net
    faults, netChanges,\* used budgets
    crossed            \* history: recoveries launched while another thread was between
                       \* its cancel of reconnectJob and its null

serviceVars == <<currentTransportType, alreadyStopping, vpnRunning, iface, isNetworkStandby>>
jobRefs == <<startupJob, reconnectJob>>
recoveryVars == <<rev, recoveryNetworkRevision, crossed>>
jobVars == <<jobRefs, pc, active>>
mainVars == <<mainPc, returning>>
coreVars == <<core, exitDue>>
netVars == <<internet, registered, netQueue, selected, netChanges>>
vars == <<serviceVars, jobVars, recoveryVars, mainVars, lock, coreVars, bus,
          netVars, faults>>

\* supervisor.stop() outside the monitor, and stopEverything.
NativePc   == {"native", "nativeFlags", "nativeCleanup"}
StopPc     == {"stop", "stopStartup", "stopRecovery", "stopFields", "stopCore", "closeTun"}
LaunchPc   == {"launching", "publishing"}
StartupPc  == {"new", "stopOld", "configure", "carrier", "passFd", "await", "publish",
               "netCheck", "standby", "cancel", "clear", "fence", "announce", "done"}
              \cup NativePc \cup StopPc \cup LaunchPc
RecoveryPc == {"new", "begin", "settle", "loop", "standby", "carrier", "passFd",
               "await", "verdict", "backoff", "return", "done"} \cup LaunchPc
UiPc       == {"new", "done"} \cup NativePc \cup StopPc
MainPc     == {"idle", "starting", "standby", "schedule", "unstandby", "launch",
               "direct", "restore", "stopCore", "closeTun"}

\* running, connected: the supervisor's flags; rejected: isTransportRejected;
\* waiting: the fence of ClientChannel; live: the published process runs and was
\* not cancelled; valid: no stop() came since the latest launch began.
CoreState  == [running: BOOLEAN, connected: BOOLEAN, rejected: BOOLEAN,
               waiting: BOOLEAN, live: BOOLEAN, valid: BOOLEAN]
NoCore == [running |-> FALSE, connected |-> FALSE, rejected |-> FALSE,
           waiting |-> FALSE, live |-> FALSE, valid |-> FALSE]

Attempt == [initial: Nat, attempt: Nat, returned: BOOLEAN, ready: BOOLEAN]

FieldTypes ==
    /\ currentTransportType \in TransportType
    /\ alreadyStopping \in BOOLEAN /\ vpnRunning \in BOOLEAN
    /\ iface \in Startup \cup {None}
    /\ isNetworkStandby \in BOOLEAN
    /\ startupJob \in Startup \cup {None}
    /\ reconnectJob \in Recovery \cup {None}
JobTypes ==
    /\ pc \in [Thread -> StartupPc \cup RecoveryPc \cup UiPc]
    /\ \A s \in Startup : pc[s] \in StartupPc
    /\ \A r \in Recovery : pc[r] \in RecoveryPc
    /\ \A u \in Ui : pc[u] \in UiPc
    /\ active \in [Job -> BOOLEAN]
AttemptTypes ==
    /\ rev \in [Recovery -> Attempt] /\ recoveryNetworkRevision \in Nat
    /\ crossed \subseteq Recovery
MonitorTypes ==
    /\ mainPc \in MainPc /\ returning \in BOOLEAN
    /\ lock \in Job \cup {None}
CoreTypes == core \in CoreState /\ exitDue \in BOOLEAN
BusTypes == bus \in Seq({"up", "down"}) /\ faults \in 0..MaxFaults
NetTypes ==
    /\ internet \in BOOLEAN /\ registered \in BOOLEAN
    /\ netQueue \in Seq({"none", "net"})
    /\ selected \in {"unset", "none", "net"}
    /\ netChanges \in 0..MaxNet

TypeOK ==
    FieldTypes /\ JobTypes /\ AttemptTypes /\ MonitorTypes /\ CoreTypes /\ BusTypes /\ NetTypes

Init ==
    /\ currentTransportType = "relay"
    /\ alreadyStopping = FALSE /\ vpnRunning = FALSE /\ iface = None
    /\ isNetworkStandby = FALSE
    /\ startupJob = None /\ reconnectJob = None
    /\ pc = [t \in Thread |-> "new"] /\ active = [j \in Job |-> FALSE]
    /\ rev = [r \in Recovery |->
                 [initial |-> 0, attempt |-> 0, returned |-> FALSE, ready |-> FALSE]]
    /\ recoveryNetworkRevision = 0 /\ crossed = {}
    /\ mainPc = "idle" /\ returning = FALSE /\ lock = None
    /\ core = NoCore /\ exitDue = FALSE
    /\ bus = <<>>
    /\ internet \in BOOLEAN /\ registered = FALSE /\ netQueue = <<>>
    /\ selected = "unset"
    /\ faults = 0 /\ netChanges = 0
-----------------------------------------------------------------------------
(* Helpers shared by the handlers. *)

Goto(t, label) == pc' = [pc EXCEPT ![t] = label]

Cancel(jobs) == [j \in Job |-> active[j] /\ j \notin jobs]

\* A coroutine that returns, or is cancelled at a suspension point.
Finish(t) == Goto(t, "done") /\ active' = Cancel({t})

\* A step that only moves its thread.
Move(t, label) ==
    /\ Goto(t, label)
    /\ UNCHANGED <<jobRefs, recoveryVars, serviceVars, mainVars, coreVars, netVars, active,
                   lock, bus, faults>>

IsDirectDpi == currentTransportType = "direct-dpi"

\* supervisor.isRunning
IsRunning == core.running /\ core.live

\* Mutant: stop() only marks the transport as disconnected.
DisconnectedCore == [core EXCEPT !.connected = FALSE]

\* supervisor.stop(): the refusal of the active session outlives the core.
StoppedCore == [NoCore EXCEPT !.rejected = core.rejected]

\* Mutant: the isActive test is missing.
RecoveryUnchecked == FALSE

\* reconnectJob?.isActive == true
RecoveryActive == reconnectJob # None /\ active[reconnectJob]

\* EventBus.dispatch of a transport event.  The bounds keep the queue far below
\* the 128 events at which the bus drops the oldest.
Dispatch(e) == bus' = Append(bus, e)

\* supervisor.networkUnavailable()
FencedCore == [core EXCEPT !.connected = FALSE, !.waiting = core.live]
-----------------------------------------------------------------------------
(* Network standby and recovery, on the main thread. *)

MainGoto(label) == mainPc' = label /\ UNCHANGED returning

\* enterNetworkStandby() on the main thread, where recoveries are launched.
EnterNetworkStandby ==
    /\ isNetworkStandby' = TRUE
    /\ IF isNetworkStandby
       THEN UNCHANGED <<reconnectJob, active, core>>
       ELSE /\ active' = Cancel({reconnectJob})
            /\ reconnectJob' = None
            /\ core' = FencedCore

MainStandby ==
    /\ mainPc = "standby" /\ EnterNetworkStandby
    /\ MainGoto("idle")
    /\ UNCHANGED <<recoveryVars, netVars, currentTransportType, alreadyStopping, vpnRunning,
                   iface, startupJob, pc, lock, exitDue, bus, faults>>

\* Mutant: a service in standby is taken for one that recovers already.
RecoveryOutsideStandby ==
    /\ vpnRunning /\ ~alreadyStopping /\ ~isNetworkStandby
    /\ ~(IsDirectDpi /\ IsRunning)
    /\ ~core.rejected

RecoveryWanted ==
    /\ vpnRunning /\ ~alreadyStopping
    /\ ~(IsDirectDpi /\ IsRunning)
    /\ ~core.rejected

\* scheduleRecovery, its tests of the service and of the network.
ScheduleRecovery(networkReturned) ==
    /\ mainPc' = IF ~RecoveryWanted THEN "idle"
                 ELSE IF internet THEN "schedule" ELSE "standby"
    /\ returning' = (RecoveryWanted /\ internet /\ networkReturned)

\* The revision, and the test whether a recovery is under way.
MainSchedule ==
    /\ mainPc = "schedule"
    /\ recoveryNetworkRevision' =
           IF returning THEN recoveryNetworkRevision + 1 ELSE recoveryNetworkRevision
    /\ IF RecoveryActive
       THEN mainPc' = "idle" /\ returning' = FALSE
       ELSE MainGoto("unstandby")
    /\ UNCHANGED <<jobVars, serviceVars, coreVars, netVars, rev, crossed, lock, bus, faults>>

MainUnstandby ==
    /\ mainPc = "unstandby"
    /\ isNetworkStandby' = FALSE
    /\ MainGoto("launch")
    /\ UNCHANGED <<jobVars, recoveryVars, coreVars, netVars, currentTransportType,
                   alreadyStopping, vpnRunning, iface, lock, bus, faults>>

\* Another thread has cancelled the recovery in reconnectJob and is about to
\* clear the field.
Clearing == \E t \in Stopping : pc[t] \in {"clear", "stopFields"}

\* reconnectJob = launch: a new coroutine, or the object of one that completed.
MainLaunch ==
    /\ mainPc = "launch"
    /\ \E r \in {q \in Recovery : pc[q] \in {"new", "done"}} :
          /\ reconnectJob' = r
          /\ Goto(r, "begin")
          /\ active' = [active EXCEPT ![r] = TRUE]
          /\ rev' = [rev EXCEPT ![r] = [initial |-> 0, attempt |-> 0,
                                        returned |-> returning, ready |-> FALSE]]
          /\ crossed' = IF Clearing THEN crossed \cup {r} ELSE crossed \ {r}
    /\ mainPc' = "idle" /\ returning' = FALSE
    /\ UNCHANGED <<serviceVars, coreVars, netVars, startupJob, recoveryNetworkRevision, lock,
                   bus, faults>>
-----------------------------------------------------------------------------
(* stopEverything: alreadyStopping.getAndSet, the fields, the core under   *)
(* the monitor, the interface.                                             *)

Unregister == registered' = FALSE /\ netQueue' = <<>> /\ selected' = "unset"

StopCore ==
    /\ lock = None
    /\ core' = StoppedCore /\ exitDue' = FALSE

CloseTun == vpnRunning' = FALSE /\ iface' = None

\* ACTION_DISCONNECT, onRevoke and a YandexAuthIssue of this route.  Only this
\* thread launches coroutines, so up to the monitor it is one step.
MainStop ==
    /\ mainPc = "idle" /\ ~alreadyStopping
    /\ alreadyStopping' = TRUE
    /\ active' = Cancel({startupJob, reconnectJob})
    /\ startupJob' = None /\ reconnectJob' = None
    /\ isNetworkStandby' = FALSE
    /\ Unregister
    /\ MainGoto("stopCore")
    /\ UNCHANGED <<recoveryVars, coreVars, currentTransportType, vpnRunning, iface, pc, lock,
                   bus, internet, netChanges, faults>>

MainStopCore ==
    /\ mainPc = "stopCore" /\ StopCore
    /\ MainGoto("closeTun")
    /\ UNCHANGED <<jobVars, recoveryVars, serviceVars, netVars, lock, bus, faults>>

MainCloseTun ==
    /\ mainPc = "closeTun" /\ CloseTun
    /\ MainGoto("idle")
    /\ UNCHANGED <<jobVars, recoveryVars, coreVars, netVars, currentTransportType,
                   alreadyStopping, isNetworkStandby, lock, bus, faults>>

\* The same on the thread of a startup coroutine or of the user interface, which
\* the main thread may overtake: it launches recoveries and takes start intents.
StopEverything(t) ==
    /\ pc[t] = "stop"
    /\ IF alreadyStopping
       THEN Finish(t)
       ELSE Goto(t, "stopStartup") /\ UNCHANGED active
    /\ alreadyStopping' = TRUE
    /\ UNCHANGED <<jobRefs, recoveryVars, mainVars, coreVars, netVars, currentTransportType,
                   vpnRunning, iface, isNetworkStandby, lock, bus, faults>>

\* startupJob?.cancel()
StopStartup(t) ==
    /\ pc[t] = "stopStartup"
    /\ active' = Cancel({startupJob})
    /\ Goto(t, "stopRecovery")
    /\ UNCHANGED <<jobRefs, recoveryVars, serviceVars, mainVars, coreVars, netVars, lock, bus,
                   faults>>

\* startupJob = null; reconnectJob?.cancel()
StopRecovery(t) ==
    /\ pc[t] = "stopRecovery"
    /\ startupJob' = None
    /\ active' = Cancel({reconnectJob})
    /\ Goto(t, "stopFields")
    /\ UNCHANGED <<recoveryVars, serviceVars, mainVars, coreVars, netVars, reconnectJob, lock,
                   bus, faults>>

\* reconnectJob = null, and the lines up to the monitor.
StopFields(t) ==
    /\ pc[t] = "stopFields"
    /\ reconnectJob' = None
    /\ isNetworkStandby' = FALSE
    /\ Unregister
    /\ Goto(t, "stopCore")
    /\ UNCHANGED <<recoveryVars, mainVars, coreVars, currentTransportType, alreadyStopping,
                   vpnRunning, iface, startupJob, active, lock, bus, internet, netChanges,
                   faults>>

StopSupervisor(t) ==
    /\ pc[t] = "stopCore" /\ StopCore
    /\ Goto(t, "closeTun")
    /\ UNCHANGED <<jobRefs, recoveryVars, serviceVars, mainVars, netVars, active, lock, bus,
                   faults>>

StopTun(t) ==
    /\ pc[t] = "closeTun" /\ CloseTun
    /\ Finish(t)
    /\ UNCHANGED <<jobRefs, recoveryVars, mainVars, coreVars, netVars, currentTransportType,
                   alreadyStopping, isNetworkStandby, lock, bus, faults>>
-----------------------------------------------------------------------------
(* supervisor.stop() outside the monitor: a launch on another thread may   *)
(* come between any two of its steps.                                      *)

\* stopInternal of the user interface: stopLibreRouteNative, then stopVpn.
UiStopInternal(u) ==
    pc[u] = "new" /\ Move(u, "native")

\* shuttingDown, and a new launchGeneration.
NativeStop(t) ==
    /\ pc[t] = "native"
    /\ core' = [core EXCEPT !.valid = FALSE]
    /\ Goto(t, "nativeFlags")
    /\ UNCHANGED <<jobRefs, recoveryVars, serviceVars, mainVars, netVars, active, lock,
                   exitDue, bus, faults>>

\* running, connected and, of the instance that is published now, isCancelled.
NativeFlags(t) ==
    /\ pc[t] = "nativeFlags"
    /\ core' = [core EXCEPT !.running = FALSE, !.connected = FALSE, !.live = FALSE]
    /\ exitDue' = FALSE
    /\ Goto(t, "nativeCleanup")
    /\ UNCHANGED <<jobRefs, recoveryVars, serviceVars, mainVars, netVars, active, lock, bus,
                   faults>>

\* cleanup() of the instance published by then.  When that is a new one, which is
\* not cancelled, its reader may still report its end before the field is cleared.
\* A startup coroutine then waits in delay(100), a cancellation point.
NativeCleanup(t) ==
    /\ pc[t] = "nativeCleanup"
    /\ \/ /\ core' = [core EXCEPT !.live = FALSE, !.waiting = FALSE]
          /\ UNCHANGED bus
       \/ /\ core.live
          /\ core' = [core EXCEPT !.live = FALSE, !.waiting = FALSE, !.running = FALSE,
                                  !.connected = FALSE]
          /\ Dispatch("down")
    /\ exitDue' = FALSE
    /\ IF t \in Ui
       THEN Goto(t, "stop") /\ UNCHANGED active
       ELSE IF active[t] THEN Goto(t, "configure") /\ UNCHANGED active ELSE Finish(t)
    /\ UNCHANGED <<jobRefs, recoveryVars, serviceVars, mainVars, netVars, lock, faults>>
-----------------------------------------------------------------------------
(* The start intent and the startup coroutine. *)

\* A new intent, unless it repeats the one in force.  The sender made a new SOCKS
\* session, so an earlier refusal no longer applies to the active one.
OnStartCommand ==
    /\ mainPc = "idle" /\ \E s \in Startup : pc[s] = "new"
    /\ ~(iface # None /\ core.connected /\ vpnRunning)
    /\ alreadyStopping' = FALSE
    /\ active' = Cancel({reconnectJob})
    /\ reconnectJob' = None
    /\ currentTransportType' \in Transports
    /\ core' = [core EXCEPT !.rejected = FALSE]
    /\ MainGoto("starting")
    /\ UNCHANGED <<recoveryVars, netVars, vpnRunning, iface, isNetworkStandby, startupJob, pc,
                   lock, exitDue, bus, faults>>

\* Mutant: the new coroutine is kept in the wrong field.
LaunchStartupSwapped ==
    /\ mainPc = "starting"
    /\ \E s \in Startup :
          /\ pc[s] = "new" /\ Goto(s, "stopOld")
          /\ active' = [Cancel({startupJob}) EXCEPT ![s] = TRUE]
          /\ reconnectJob' = s
    /\ MainGoto("idle")
    /\ UNCHANGED <<recoveryVars, serviceVars, coreVars, netVars, startupJob, lock, bus,
                   faults>>

\* startupJob?.cancel(); startupJob = launch
LaunchStartup ==
    /\ mainPc = "starting"
    /\ \E s \in Startup :
          /\ pc[s] = "new" /\ Goto(s, "stopOld")
          /\ active' = [Cancel({startupJob}) EXCEPT ![s] = TRUE]
          /\ startupJob' = s
    /\ MainGoto("idle")
    /\ UNCHANGED <<recoveryVars, serviceVars, coreVars, netVars, reconnectJob, lock, bus,
                   faults>>

\* A coroutine cancelled before its dispatcher ran it never runs its body.
NeverStarted(j) ==
    /\ pc[j] \in {"stopOld", "begin"} /\ ~active[j]
    /\ Move(j, "done")

\* if (supervisor.isRunning) supervisor.stop(), without the monitor
StartupStopOld(s) ==
    /\ pc[s] = "stopOld"
    /\ Move(s, IF IsRunning THEN "native" ELSE "configure")

\* vpn.configure: closes the interface it finds, then establishes one, or
\* returns false, or throws (the catch ignores it once stopping or cancelled).
StartupConfigure(s) ==
    /\ pc[s] = "configure"
    /\ \/ /\ iface' = s
          /\ Goto(s, "carrier")
          /\ UNCHANGED <<active, bus>>
       \/ /\ iface' = None
          /\ Dispatch("down") /\ Goto(s, "stop")
          /\ UNCHANGED active
       \/ /\ iface' = None
          /\ alreadyStopping \/ ~active[s]
          /\ Finish(s)
          /\ UNCHANGED bus
    /\ UNCHANGED <<jobRefs, recoveryVars, mainVars, coreVars, netVars, currentTransportType,
                   alreadyStopping, vpnRunning, isNetworkStandby, lock, faults>>

\* What supervisor.start makes of the core before it spawns the process.
LaunchedCore == [NoCore EXCEPT !.running = TRUE, !.valid = TRUE]

\* Mutant: alreadyStopping is not tested inside the monitor.
StartCarrierUnchecked(j) ==
    /\ pc[j] = "carrier" /\ lock = None
    /\ lock' = j /\ core' = LaunchedCore /\ exitDue' = FALSE
    /\ Goto(j, "launching")
    /\ UNCHANGED <<jobRefs, recoveryVars, serviceVars, mainVars, netVars, active, bus, faults>>

\* startCarrier returned false.
GiveUp(j) == IF j \in Startup THEN Finish(j) ELSE Goto(j, "return") /\ UNCHANGED active

\* startCarrier: enter the monitor, give up when stopping, otherwise
\* supervisor.start stops the previous core and begins a launch.
StartCarrier(j) ==
    /\ pc[j] = "carrier" /\ lock = None
    /\ IF alreadyStopping
       THEN GiveUp(j) /\ UNCHANGED <<coreVars, lock>>
       ELSE /\ lock' = j /\ core' = LaunchedCore /\ exitDue' = FALSE
            /\ Goto(j, "launching")
            /\ UNCHANGED active
    /\ UNCHANGED <<jobRefs, recoveryVars, serviceVars, mainVars, netVars, bus, faults>>

\* The process was started and the last checkLaunchActive passed.
CarrierSpawned(j) ==
    /\ pc[j] = "launching" /\ core.valid
    /\ Move(j, "publishing")

\* The launch has ended: leave the monitor and return !alreadyStopping.
LeaveCarrier(j) ==
    /\ lock' = None
    /\ IF alreadyStopping THEN GiveUp(j) ELSE Goto(j, "passFd") /\ UNCHANGED active

\* spawn threw: its own check of the launch, or a failure, which is reported
\* unless the launch was cancelled.
CarrierFailed(j) ==
    /\ pc[j] \in LaunchPc
    /\ LeaveCarrier(j)
    /\ IF pc[j] = "launching" /\ ~core.valid
       THEN UNCHANGED faults
       ELSE faults < MaxFaults /\ faults' = faults + 1
    /\ IF core.valid
       THEN /\ core' = [core EXCEPT !.running = FALSE, !.connected = FALSE, !.valid = FALSE]
            /\ Dispatch("down")
       ELSE UNCHANGED <<core, bus>>
    /\ UNCHANGED <<jobRefs, recoveryVars, serviceVars, mainVars, netVars, exitDue>>

\* The instance is published, also when a stop() came after the last check.
CarrierStarted(j) ==
    /\ pc[j] = "publishing"
    /\ LeaveCarrier(j)
    /\ core' = [core EXCEPT !.live = TRUE, !.waiting = FALSE, !.valid = FALSE]
    /\ UNCHANGED <<jobRefs, recoveryVars, serviceVars, mainVars, netVars, exitDue, bus,
                   faults>>

\* isRunning check, the descriptor, passTunFd.
StartupPassFd(s) ==
    /\ pc[s] = "passFd"
    /\ \/ /\ ~IsRunning \/ iface = None
          /\ Goto(s, "stop")
          /\ UNCHANGED <<bus, faults>>
       \/ /\ iface # None
          /\ faults < MaxFaults /\ faults' = faults + 1
          /\ Dispatch("down") /\ Goto(s, "stop")
       \/ /\ IsRunning /\ iface # None
          /\ Goto(s, "await")
          /\ UNCHANGED <<bus, faults>>
    /\ UNCHANGED <<jobRefs, serviceVars, recoveryVars, mainVars, coreVars, netVars, active,
                   lock>>

\* awaitReady: cancelled at a delay, refused by canWait, connected, or out of
\* polls; then the check of alreadyStopping and isActive.
StartupAwait(s) ==
    LET canWait == ~alreadyStopping /\ IsRunning /\ ~core.rejected
        connected == core.connected \/ (Flexible /\ IsRunning)
    IN
    /\ pc[s] = "await"
    /\ \/ /\ ~active[s] \/ alreadyStopping
          /\ Finish(s)
          /\ UNCHANGED bus
       \/ /\ active[s] /\ canWait /\ connected
          /\ Goto(s, "publish")
          /\ UNCHANGED <<active, bus>>
       \/ /\ active[s] /\ ~alreadyStopping
          /\ ~canWait \/ ~core.connected
          /\ Dispatch("down") /\ Goto(s, "stop")
          /\ UNCHANGED active
    /\ UNCHANGED <<jobRefs, recoveryVars, serviceVars, mainVars, coreVars, netVars, lock,
                   faults>>

\* The synchronized block that declares the VPN running, up to the registration
\* of the network callback, whose first call tells of the networks there are.
\* The main thread takes no lock and runs on beside the rest of the block.
StartupPublish(s) ==
    /\ pc[s] = "publish" /\ lock = None
    /\ lock' = s
    /\ vpnRunning' = TRUE
    /\ \/ /\ registered
          /\ Goto(s, "announce")
          /\ UNCHANGED <<registered, netQueue, faults>>
       \/ /\ ~registered
          /\ registered' = TRUE
          /\ netQueue' = IF internet THEN <<"net">> ELSE <<>>
          /\ Goto(s, "netCheck")
          /\ UNCHANGED faults
       \/ /\ ~registered /\ faults < MaxFaults /\ faults' = faults + 1
          /\ Goto(s, "announce")
          /\ UNCHANGED <<registered, netQueue>>
    /\ UNCHANGED <<jobRefs, recoveryVars, mainVars, coreVars, currentTransportType,
                   alreadyStopping, iface, isNetworkStandby, active, bus, internet, selected,
                   netChanges>>

\* if (!hasActiveInternet()) enterNetworkStandby()
StartupNetCheck(s) ==
    /\ pc[s] = "netCheck"
    /\ Move(s, IF internet THEN "announce" ELSE "standby")

\* enterNetworkStandby on the startup coroutine's thread: the flag,
StartupStandby(s) ==
    /\ pc[s] = "standby"
    /\ Goto(s, IF isNetworkStandby THEN "announce" ELSE "cancel")
    /\ isNetworkStandby' = TRUE
    /\ UNCHANGED <<jobRefs, recoveryVars, mainVars, coreVars, netVars, currentTransportType,
                   alreadyStopping, vpnRunning, iface, active, lock, bus, faults>>

\* reconnectJob?.cancel(),
StartupCancel(s) ==
    /\ pc[s] = "cancel"
    /\ active' = Cancel({reconnectJob})
    /\ Goto(s, "clear")
    /\ UNCHANGED <<jobRefs, recoveryVars, serviceVars, mainVars, coreVars, netVars, lock, bus,
                   faults>>

\* reconnectJob = null,
StartupClear(s) ==
    /\ pc[s] = "clear"
    /\ reconnectJob' = None
    /\ Goto(s, "fence")
    /\ UNCHANGED <<recoveryVars, serviceVars, mainVars, coreVars, netVars, startupJob, active,
                   lock, bus, faults>>

\* and supervisor.networkUnavailable().
StartupFence(s) ==
    /\ pc[s] = "fence"
    /\ core' = FencedCore
    /\ Goto(s, "announce")
    /\ UNCHANGED <<jobRefs, recoveryVars, serviceVars, mainVars, netVars, active, lock,
                   exitDue, bus, faults>>

\* VpnConnected, and the end of the block.
StartupAnnounce(s) ==
    /\ pc[s] = "announce"
    /\ lock' = None
    /\ Finish(s)
    /\ UNCHANGED <<jobRefs, recoveryVars, serviceVars, mainVars, coreVars, netVars, bus,
                   faults>>
-----------------------------------------------------------------------------
(* The recovery coroutine. *)

\* Its first step on the IO thread.
RecoveryBegin(r) ==
    /\ pc[r] = "begin"
    /\ rev' = [rev EXCEPT ![r].initial = recoveryNetworkRevision]
    /\ Goto(r, IF rev[r].returned THEN "loop" ELSE "settle")
    /\ UNCHANGED <<jobRefs, serviceVars, mainVars, coreVars, netVars, active,
                   recoveryNetworkRevision, crossed, lock, bus, faults>>

\* Up to twenty polls that leave native recovery the time to finish.  The
\* delay between them is skipped once the network revision has moved.
RecoverySettle(r) ==
    /\ pc[r] = "settle"
    /\ \/ /\ core.connected
          /\ Goto(r, "return") /\ UNCHANGED active
       \/ /\ ~core.connected /\ ~active[r]
          /\ recoveryNetworkRevision = rev[r].initial
          /\ Finish(r)
       \/ /\ ~core.connected
          /\ Goto(r, "loop") /\ UNCHANGED active
    /\ UNCHANGED <<jobRefs, recoveryVars, serviceVars, mainVars, coreVars, netVars, lock, bus,
                   faults>>

\* The head of the while loop, up to the choice of an attempt.
RecoveryLoop(r) ==
    /\ pc[r] = "loop"
    /\ IF ~(active[r] /\ ~alreadyStopping /\ vpnRunning /\ ~core.rejected)
       THEN Goto(r, "return") /\ UNCHANGED rev
       ELSE IF ~internet
       THEN Goto(r, "standby") /\ UNCHANGED rev
       ELSE IF core.connected /\ recoveryNetworkRevision = rev[r].initial /\ ~rev[r].returned
       THEN Goto(r, "return") /\ UNCHANGED rev
       ELSE /\ rev' = [rev EXCEPT ![r].attempt = recoveryNetworkRevision]
            /\ Goto(r, "carrier")
    /\ UNCHANGED <<jobRefs, serviceVars, mainVars, coreVars, netVars, active,
                   recoveryNetworkRevision, crossed, lock, bus, faults>>

\* withContext(Main) { enterNetworkStandby() }; a cancelled coroutine throws instead.
RecoveryStandby(r) ==
    /\ pc[r] = "standby"
    /\ \/ /\ ~active[r]
          /\ Finish(r)
          /\ UNCHANGED <<isNetworkStandby, reconnectJob, core>>
       \/ /\ active[r] /\ mainPc = "idle"
          /\ EnterNetworkStandby
          /\ Goto(r, "return")
    /\ UNCHANGED <<recoveryVars, mainVars, netVars, currentTransportType, alreadyStopping,
                   vpnRunning, iface, startupJob, lock, exitDue, bus, faults>>

RecoveryPassFd(r) ==
    /\ pc[r] = "passFd"
    /\ \/ /\ IsRunning /\ iface # None
          /\ Goto(r, "await")
          /\ UNCHANGED <<rev, faults>>
       \/ /\ rev' = [rev EXCEPT ![r].ready = FALSE]
          /\ Goto(r, "verdict")
          /\ IF IsRunning /\ iface # None
             THEN faults < MaxFaults /\ faults' = faults + 1
             ELSE UNCHANGED faults
    /\ UNCHANGED <<jobRefs, serviceVars, mainVars, coreVars, netVars, active,
                   recoveryNetworkRevision, crossed, lock, bus>>

\* awaitReady of an attempt; canWait also fails when the network revision moved.
RecoveryAwait(r) ==
    LET canWait == /\ active[r] /\ ~alreadyStopping /\ IsRunning /\ ~core.rejected
                   /\ recoveryNetworkRevision = rev[r].attempt
    IN
    /\ pc[r] = "await"
    /\ \/ /\ ~active[r]
          /\ Finish(r)
          /\ UNCHANGED rev
       \/ /\ canWait /\ core.connected
          /\ rev' = [rev EXCEPT ![r].ready = TRUE]
          /\ Goto(r, "verdict") /\ UNCHANGED active
       \/ /\ active[r]
          /\ ~canWait \/ ~core.connected
          /\ rev' = [rev EXCEPT ![r].ready = FALSE]
          /\ Goto(r, "verdict") /\ UNCHANGED active
    /\ UNCHANGED <<jobRefs, serviceVars, mainVars, coreVars, netVars, recoveryNetworkRevision,
                   crossed, lock, bus, faults>>

RecoveryVerdict(r) ==
    /\ pc[r] = "verdict"
    /\ Move(r, IF ~active[r] \/ alreadyStopping \/ core.rejected THEN "return"
               ELSE IF recoveryNetworkRevision # rev[r].attempt THEN "loop"
               ELSE IF rev[r].ready THEN "return"
               ELSE "backoff")

\* The delay between attempts, a cancellation point.
RecoveryBackoff(r) ==
    /\ pc[r] = "backoff"
    /\ IF active[r] THEN Goto(r, "loop") /\ UNCHANGED active ELSE Finish(r)
    /\ UNCHANGED <<jobRefs, recoveryVars, serviceVars, mainVars, coreVars, netVars, lock, bus,
                   faults>>

\* return@launch: the body is over, the Job completes a moment later.
RecoveryReturn(r) ==
    /\ pc[r] = "return"
    /\ Finish(r)
    /\ UNCHANGED <<jobRefs, recoveryVars, serviceVars, mainVars, coreVars, netVars, lock, bus,
                   faults>>
-----------------------------------------------------------------------------
(* Main thread: the event collector and the network callback. *)

CollectConnected ==
    /\ mainPc = "idle" /\ bus # <<>> /\ Head(bus) = "up"
    /\ bus' = Tail(bus)
    /\ IF vpnRunning /\ ~alreadyStopping
       THEN isNetworkStandby' = FALSE
       ELSE UNCHANGED <<isNetworkStandby>>
    /\ UNCHANGED <<jobVars, recoveryVars, mainVars, coreVars, netVars, currentTransportType,
                   alreadyStopping, vpnRunning, iface, lock, faults>>

CollectDisconnected ==
    /\ mainPc = "idle" /\ bus # <<>> /\ Head(bus) = "down"
    /\ bus' = Tail(bus)
    /\ IF core.rejected
       THEN /\ active' = Cancel({reconnectJob}) /\ reconnectJob' = None
            /\ UNCHANGED mainVars
       ELSE /\ ScheduleRecovery(FALSE)
            /\ UNCHANGED <<active, reconnectJob>>
    /\ UNCHANGED <<recoveryVars, serviceVars, coreVars, netVars, startupJob, pc, lock, faults>>

\* updateUnderlyingNetwork after the tracker chose sel.  recentlyConfirmed: a
\* round trip of the channel was measured within the last five seconds.
UpdateUnderlyingNetwork(sel, changed, becameValidated, recentlyConfirmed) ==
    LET initial == sel = "net" /\ selected = "unset"
        needsRecovery == ~core.connected \/ (becameValidated /\ ~recentlyConfirmed)
        direct == vpnRunning /\ ~alreadyStopping /\ sel = "net" /\ IsDirectDpi
    IN
    /\ selected' = sel
    /\ isNetworkStandby' = (isNetworkStandby /\ ~direct)
    /\ IF ~vpnRunning \/ alreadyStopping THEN UNCHANGED mainVars
       ELSE IF sel # "net" THEN MainGoto("standby")
       ELSE IF initial /\ ~isNetworkStandby THEN UNCHANGED mainVars
       ELSE IF IsDirectDpi
       THEN IF isNetworkStandby THEN MainGoto("direct") ELSE UNCHANGED mainVars
       ELSE IF isNetworkStandby \/ ((changed \/ becameValidated) /\ needsRecovery)
       THEN ScheduleRecovery(isNetworkStandby \/ becameValidated)
       ELSE UNCHANGED mainVars

\* The callbacks run in order; those of a former registration are dropped
\* (networkGeneration).
NetworkCallback ==
    /\ mainPc = "idle" /\ netQueue # <<>>
    /\ netQueue' = Tail(netQueue)
    /\ IF alreadyStopping
       THEN UNCHANGED <<mainVars, selected, isNetworkStandby>>
       ELSE UpdateUnderlyingNetwork(
               IF Head(netQueue) = "none" /\ selected = "unset" THEN "unset"
               ELSE Head(netQueue), TRUE, FALSE, FALSE)
    /\ UNCHANGED <<jobVars, recoveryVars, coreVars, currentTransportType, alreadyStopping,
                   vpnRunning, iface, lock, bus, internet, registered, netChanges, faults>>

\* The selection moves to another network, or the selected one becomes validated.
NetworkMoved ==
    /\ mainPc = "idle" /\ registered /\ netQueue = <<>> /\ ~alreadyStopping
    /\ internet /\ selected = "net"
    /\ netChanges < MaxNet /\ netChanges' = netChanges + 1
    /\ \E validated \in BOOLEAN, confirmed \in BOOLEAN :
          UpdateUnderlyingNetwork("net", ~validated, validated, confirmed)
    /\ UNCHANGED <<jobVars, recoveryVars, coreVars, currentTransportType, alreadyStopping,
                   vpnRunning, iface, lock, bus, internet, registered, netQueue, faults>>

\* The network is back in direct-dpi mode: a running core needs no restart.
MainDirect ==
    /\ mainPc = "direct"
    /\ IF IsRunning THEN MainGoto("restore") ELSE ScheduleRecovery(TRUE)
    /\ UNCHANGED <<jobVars, recoveryVars, serviceVars, coreVars, netVars, lock, bus, faults>>

\* supervisor.localNetworkRestored()
MainRestore ==
    /\ mainPc = "restore"
    /\ core' = [core EXCEPT !.connected = TRUE, !.waiting = FALSE]
    /\ MainGoto("idle")
    /\ UNCHANGED <<jobVars, recoveryVars, serviceVars, netVars, exitDue, lock, bus, faults>>

\* The system posts a callback for every change it reports.
InternetChanges ==
    /\ netChanges < MaxNet /\ netChanges' = netChanges + 1
    /\ internet' = ~internet
    /\ netQueue' = IF registered THEN Append(netQueue, IF internet THEN "none" ELSE "net")
                  ELSE netQueue
    /\ UNCHANGED <<jobVars, recoveryVars, serviceVars, mainVars, coreVars, lock, bus,
                   registered, selected, faults>>
-----------------------------------------------------------------------------
(* The core, as its stdout reader reports it. *)

CoreUnchanged == UNCHANGED <<jobVars, recoveryVars, serviceVars, mainVars, netVars, lock>>

\* The reader of the published process has lines to read, the last ones perhaps
\* of a process that is dead already.
Reading == core.live \/ exitDue

\* A ready line, fenced during a physical outage.
CoreReady ==
    /\ IsRunning /\ ~core.connected /\ ~core.waiting /\ Len(bus) < MaxBus
    /\ core' = [core EXCEPT !.connected = TRUE, !.rejected = FALSE]
    /\ Dispatch("up")
    /\ CoreUnchanged /\ UNCHANGED <<exitDue, faults>>

CoreDrop ==
    /\ Reading /\ core.connected
    /\ faults < MaxFaults /\ faults' = faults + 1
    /\ core' = [core EXCEPT !.connected = FALSE]
    /\ Dispatch("down")
    /\ CoreUnchanged /\ UNCHANGED exitDue

\* A startup error line clears running; the provider may also refuse the room.
CoreRefused ==
    /\ Reading
    /\ faults < MaxFaults /\ faults' = faults + 1
    /\ \/ ~core.connected /\ core' = [core EXCEPT !.running = FALSE]
       \/ core' = [core EXCEPT !.connected = FALSE, !.rejected = TRUE]
    /\ Dispatch("down")
    /\ CoreUnchanged /\ UNCHANGED exitDue

CoreDies ==
    /\ core.live
    /\ faults < MaxFaults /\ faults' = faults + 1
    /\ core' = [core EXCEPT !.live = FALSE]
    /\ exitDue' = TRUE
    /\ CoreUnchanged /\ UNCHANGED bus

\* The reader's finally block after the process died.
CoreExitSeen ==
    /\ exitDue
    /\ exitDue' = FALSE
    /\ core' = [core EXCEPT !.running = FALSE, !.connected = FALSE, !.waiting = FALSE]
    /\ Dispatch("down")
    /\ CoreUnchanged /\ UNCHANGED faults
-----------------------------------------------------------------------------
StopStep(t) ==
    \/ NativeStop(t) \/ NativeFlags(t) \/ NativeCleanup(t)
    \/ StopEverything(t) \/ StopStartup(t) \/ StopRecovery(t) \/ StopFields(t)
    \/ StopSupervisor(t) \/ StopTun(t)

CarrierStep(j) ==
    NeverStarted(j) \/ StartCarrier(j) \/ CarrierSpawned(j) \/ CarrierFailed(j) \/ CarrierStarted(j)

StartupStep(s) ==
    \/ StartupStopOld(s) \/ StartupConfigure(s) \/ StartupPassFd(s) \/ StartupAwait(s)
    \/ StartupPublish(s) \/ StartupNetCheck(s) \/ StartupStandby(s) \/ StartupCancel(s)
    \/ StartupClear(s) \/ StartupFence(s) \/ StartupAnnounce(s)

RecoveryStep(r) ==
    \/ RecoveryBegin(r) \/ RecoverySettle(r) \/ RecoveryLoop(r) \/ RecoveryStandby(r)
    \/ RecoveryPassFd(r) \/ RecoveryAwait(r) \/ RecoveryVerdict(r) \/ RecoveryBackoff(r)
    \/ RecoveryReturn(r)

MainStep ==
    \/ MainStopCore \/ MainCloseTun \/ LaunchStartup
    \/ CollectConnected \/ CollectDisconnected \/ NetworkCallback
    \/ MainStandby \/ MainSchedule \/ MainUnstandby \/ MainLaunch \/ MainDirect \/ MainRestore

CoreStep == CoreReady \/ CoreDrop \/ CoreRefused \/ CoreDies \/ CoreExitSeen

Next ==
    \/ OnStartCommand \/ MainStop \/ MainStep
    \/ \E s \in Startup : StartupStep(s)
    \/ \E r \in Recovery : RecoveryStep(r)
    \/ \E j \in Job : CarrierStep(j)
    \/ \E t \in Stopping : StopStep(t)
    \/ \E u \in Ui : UiStopInternal(u)
    \/ NetworkMoved \/ InternetChanges
    \/ CoreStep

Spec == Init /\ [][Next]_vars

\* The threads run: main looper, IO dispatcher, stdout reader.  A restarted
\* core that is given the time eventually connects, which awaitReady's timeout
\* may interrupt: hence the strong fairness of CoreReady.
FairSpec ==
    /\ Spec
    /\ \A s \in Startup : WF_vars(StartupStep(s) \/ CarrierStep(s) \/ StopStep(s))
    /\ \A r \in Recovery : WF_vars(RecoveryStep(r) \/ CarrierStep(r))
    /\ \A u \in Ui : WF_vars(StopStep(u))
    /\ WF_vars(MainStep) /\ WF_vars(CoreExitSeen) /\ SF_vars(CoreReady)
-----------------------------------------------------------------------------
(* Properties *)

\* Where stopEverything is between setting alreadyStopping and stopping the core.
BeforeStop == {"stopStartup", "stopRecovery", "stopFields", "stopCore"}

\* A launch is under way inside the monitor.
Launching == \E j \in Job : pc[j] \in LaunchPc

\* stopEverything never leaves a core behind: once alreadyStopping is set, a core
\* that the supervisor has, or is launching inside the monitor, still has a
\* thread ahead of it that will stop it (SocksVpnService.kt 143-147, 554-580).
\* A core that the supervisor has lost sight of is Supervisor's NoOrphan.
StopReachesCore ==
    alreadyStopping /\ (core.running \/ core.live \/ Launching) =>
        mainPc = "stopCore" \/ \E t \in Stopping : pc[t] \in BeforeStop

\* A recovery that still wants to restart the carrier is the one in reconnectJob,
\* which a stop or a standby can cancel, so no two restart it in parallel.  The one
\* exception, which the code leaves open, is a launch (100) while another thread is
\* between its cancel and its null of the field (77-78, 564-565): crossed records it.
OneRecovery ==
    \A r \in Recovery : active[r] /\ r \notin crossed => r = reconnectJob

Settled == /\ mainPc = "idle"
           /\ \A t \in Thread : pc[t] \in {"new", "done"}

\* A stop always completes: no coroutine, lock or cancelled wait holds it up,
\* unless a new start intent takes over.
StopSettles ==
    alreadyStopping ~> (~alreadyStopping \/ (Settled /\ ~core.running /\ ~core.live))

Live == vpnRunning /\ ~alreadyStopping /\ ~core.rejected /\ internet

\* Transient outages never leave a live VPN permanently stalled (136-137).
RecoveryNeverStalls == (Live /\ ~core.connected) ~> (core.connected \/ ~Live)

\* The user's Disconnect stops every path: when nothing is in flight any more
\* there is no core, no TUN interface and no VPN that counts as running.
DisconnectStopsAll ==
    alreadyStopping /\ Settled => ~core.running /\ iface = None /\ ~vpnRunning

\* Standby was entered completely: no startup coroutine is between its test of the
\* Internet and the end of enterNetworkStandby (188, 75-81), and the recovery it
\* cancels is over.
Resting ==
    /\ isNetworkStandby /\ mainPc = "idle"
    /\ \A s \in Startup : pc[s] \notin {"netCheck", "standby", "cancel", "clear", "fence"}
    /\ \A r \in Recovery : ~active[r]

\* Network standby ends when the system tells of a network, whichever handlers,
\* stops and outages come between the callback and the end of standby (83-84,
\* 90-100, 205-230).  A network told of while standby is being entered is another
\* matter: its callback may be ignored (212), and RecoveryNeverStalls fails.
StandbyEnds ==
    (Live /\ Resting /\ netQueue # <<>> /\ netQueue[Len(netQueue)] = "net")
        ~> (~isNetworkStandby \/ ~Live)
=============================================================================
