--------------------------- MODULE VpnServiceProofs ---------------------------
(***************************************************************************)
(* Proofs about VpnService for every number of coroutines and of stops of  *)
(* the user interface, every bound and every set of transports.            *)
(***************************************************************************)
EXTENDS VpnService, TLAPS

USE ConstantsAssumption DEF TypeOK

-----------------------------------------------------------------------------
(* Type correctness of the helpers shared by several actions. *)

LEMMA CancelType ==
    ASSUME NEW jobs
    PROVE  Cancel(jobs) \in [Job -> BOOLEAN]
BY DEF Cancel

\* A thread stays within its own labels.
LEMMA GotoType ==
    ASSUME JobTypes, NEW t \in Thread, NEW label,
           t \in Startup => label \in StartupPc,
           t \in Recovery => label \in RecoveryPc,
           t \in Ui => label \in UiPc,
           Goto(t, label)
    PROVE  /\ pc' \in [Thread -> StartupPc \cup RecoveryPc \cup UiPc]
           /\ \A s \in Startup : pc'[s] \in StartupPc
           /\ \A r \in Recovery : pc'[r] \in RecoveryPc
           /\ \A u \in Ui : pc'[u] \in UiPc
BY DEF Goto, JobTypes, Thread, Job

\* The same for a coroutine, and for a step that leaves every isActive flag alone.
LEMMA MoveType ==
    ASSUME JobTypes, NEW t \in Thread, NEW label,
           t \in Startup => label \in StartupPc,
           t \in Recovery => label \in RecoveryPc,
           t \in Ui => label \in UiPc,
           Goto(t, label), active' = active \/ \E jobs : active' = Cancel(jobs)
    PROVE  JobTypes'
<1>1. active' \in [Job -> BOOLEAN]
  BY CancelType DEF JobTypes
<1> QED BY <1>1, GotoType DEF JobTypes

LEMMA FinishType ==
    ASSUME JobTypes, NEW t \in Thread, Finish(t)
    PROVE  JobTypes'
<1>1. "done" \in StartupPc /\ "done" \in RecoveryPc /\ "done" \in UiPc
  BY DEF StartupPc, RecoveryPc, UiPc
<1> QED BY <1>1, MoveType DEF Finish

LEMMA StoppedCoreType ==
    ASSUME CoreTypes
    PROVE  StoppedCore \in CoreState /\ ~StoppedCore.running /\ ~StoppedCore.live
BY DEF StoppedCore, NoCore, CoreState, CoreTypes

LEMMA FencedCoreType ==
    ASSUME CoreTypes
    PROVE  /\ FencedCore \in CoreState
           /\ FencedCore.running = core.running /\ FencedCore.live = core.live
BY DEF FencedCore, CoreState, CoreTypes

LEMMA LaunchedCoreType == LaunchedCore \in CoreState
BY DEF LaunchedCore, NoCore, CoreState

LEMMA EnterNetworkStandbyType ==
    ASSUME TypeOK, EnterNetworkStandby
    PROVE  /\ isNetworkStandby' \in BOOLEAN
           /\ reconnectJob' \in Recovery \cup {None}
           /\ active' = active \/ \E jobs : active' = Cancel(jobs)
           /\ core' \in CoreState
           /\ core'.running = core.running /\ core'.live = core.live
BY FencedCoreType DEF EnterNetworkStandby, FieldTypes, CoreTypes

LEMMA ScheduleRecoveryType ==
    ASSUME NEW b \in BOOLEAN, ScheduleRecovery(b)
    PROVE  mainPc' \in {"idle", "schedule", "standby"} /\ returning' \in BOOLEAN
BY DEF ScheduleRecovery

LEMMA UpdateUnderlyingNetworkType ==
    ASSUME TypeOK, NEW sel, NEW changed, NEW becameValidated \in BOOLEAN, NEW confirmed,
           UpdateUnderlyingNetwork(sel, changed, becameValidated, confirmed)
    PROVE  /\ selected' = sel /\ isNetworkStandby' \in BOOLEAN
           /\ mainPc' \in {"idle", "schedule", "standby", "direct"} \/ mainPc' = mainPc
           /\ returning' \in BOOLEAN
<1>1. selected' = sel /\ isNetworkStandby' \in BOOLEAN
  BY DEF UpdateUnderlyingNetwork
<1>2. (isNetworkStandby \/ becameValidated) \in BOOLEAN /\ returning \in BOOLEAN
  BY DEF MonitorTypes
<1>3. \/ UNCHANGED mainVars \/ MainGoto("standby") \/ MainGoto("direct")
      \/ ScheduleRecovery(isNetworkStandby \/ becameValidated)
  BY DEF UpdateUnderlyingNetwork
<1>4. mainPc' \in {"idle", "schedule", "standby", "direct"} \/ mainPc' = mainPc
  BY <1>2, <1>3, ScheduleRecoveryType DEF mainVars, MainGoto
<1>5. returning' \in BOOLEAN
  BY <1>2, <1>3, ScheduleRecoveryType DEF mainVars, MainGoto
<1> QED BY <1>1, <1>4, <1>5

\* The queues hold nothing but network reports and transport events.
LEMMA QueueFacts ==
    /\ <<>> \in Seq({"none", "net"}) /\ <<"net">> \in Seq({"none", "net"})
    /\ \A q \in Seq({"none", "net"}) :
          q # <<>> => Tail(q) \in Seq({"none", "net"}) /\ Head(q) \in {"none", "net"}
OBVIOUS

LEMMA DispatchType ==
    ASSUME BusTypes, NEW e \in {"up", "down"}, Dispatch(e)
    PROVE  bus' \in Seq({"up", "down"})
BY DEF BusTypes, Dispatch

-----------------------------------------------------------------------------
(* Type correctness. *)


\* The fields of the service.
LEMMA FieldTypesStep == TypeOK /\ [Next]_vars => FieldTypes'
<1> SUFFICES ASSUME TypeOK, [Next]_vars PROVE FieldTypes'
  OBVIOUS
<1> USE DEF serviceVars, jobRefs, recoveryVars, jobVars, mainVars, coreVars, netVars
<1>1. ASSUME MainStep PROVE FieldTypes'
  <2>1. CASE MainCloseTun
    BY <2>1
      DEF MainCloseTun, CloseTun, FieldTypes
  <2>2. CASE LaunchStartup
    BY <2>2
      DEF LaunchStartup, FieldTypes
  <2>3. CASE CollectConnected
    BY <2>3
      DEF CollectConnected, FieldTypes
  <2>4. CASE CollectDisconnected
    BY <2>4
      DEF CollectDisconnected, FieldTypes
  <2>5. CASE NetworkCallback
    BY <2>5, UpdateUnderlyingNetworkType
      DEF NetworkCallback, FieldTypes
  <2>6. CASE MainStandby
    BY <2>6, EnterNetworkStandbyType
      DEF MainStandby, FieldTypes
  <2>7. CASE MainUnstandby
    BY <2>7
      DEF MainUnstandby, FieldTypes
  <2>8. CASE MainLaunch
    BY <2>8
      DEF MainLaunch, FieldTypes
  <2>9. CASE UNCHANGED <<alreadyStopping, currentTransportType, iface, isNetworkStandby, reconnectJob, startupJob, vpnRunning>>
    BY <2>9 DEF FieldTypes
  <2> QED BY <1>1, <2>1, <2>2, <2>3, <2>4, <2>5, <2>6, <2>7, <2>8, <2>9
    DEF MainStep, MainStopCore, MainSchedule, MainDirect, MainRestore
<1>2. ASSUME NEW s \in Startup, StartupStep(s) PROVE FieldTypes'
  <2>1. CASE StartupConfigure(s)
    BY <2>1
      DEF StartupConfigure, FieldTypes
  <2>2. CASE StartupPublish(s)
    BY <2>2
      DEF StartupPublish, FieldTypes
  <2>3. CASE StartupStandby(s)
    BY <2>3
      DEF StartupStandby, FieldTypes
  <2>4. CASE StartupClear(s)
    BY <2>4
      DEF StartupClear, FieldTypes
  <2>5. CASE UNCHANGED <<alreadyStopping, currentTransportType, iface, isNetworkStandby, reconnectJob, startupJob, vpnRunning>>
    BY <2>5 DEF FieldTypes
  <2> QED BY <1>2, <2>1, <2>2, <2>3, <2>4, <2>5
    DEF StartupStep, StartupStopOld, StartupPassFd, StartupAwait, StartupNetCheck,
        StartupCancel, StartupFence, StartupAnnounce, Move
<1>3. ASSUME NEW r \in Recovery, RecoveryStep(r) PROVE FieldTypes'
  <2>1. CASE RecoveryStandby(r)
    BY <2>1, EnterNetworkStandbyType
      DEF RecoveryStandby, FieldTypes
  <2>2. CASE UNCHANGED <<alreadyStopping, currentTransportType, iface, isNetworkStandby, reconnectJob, startupJob, vpnRunning>>
    BY <2>2 DEF FieldTypes
  <2> QED BY <1>3, <2>1, <2>2
    DEF RecoveryStep, RecoveryBegin, RecoverySettle, RecoveryLoop, RecoveryPassFd,
        RecoveryAwait, RecoveryVerdict, RecoveryBackoff, RecoveryReturn, Move
<1>4. ASSUME NEW j \in Job, CarrierStep(j) PROVE FieldTypes'
  <2>1. CASE UNCHANGED <<alreadyStopping, currentTransportType, iface, isNetworkStandby, reconnectJob, startupJob, vpnRunning>>
    BY <2>1 DEF FieldTypes
  <2> QED BY <1>4, <2>1
    DEF CarrierStep, NeverStarted, StartCarrier, CarrierSpawned, CarrierFailed, CarrierStarted,
        Move
<1>5. ASSUME NEW t \in Stopping, StopStep(t) PROVE FieldTypes'
  <2>1. CASE StopEverything(t)
    BY <2>1
      DEF StopEverything, FieldTypes
  <2>2. CASE StopRecovery(t)
    BY <2>2
      DEF StopRecovery, FieldTypes
  <2>3. CASE StopFields(t)
    BY <2>3
      DEF StopFields, FieldTypes
  <2>4. CASE StopTun(t)
    BY <2>4
      DEF StopTun, CloseTun, FieldTypes
  <2>5. CASE UNCHANGED <<alreadyStopping, currentTransportType, iface, isNetworkStandby, reconnectJob, startupJob, vpnRunning>>
    BY <2>5 DEF FieldTypes
  <2> QED BY <1>5, <2>1, <2>2, <2>3, <2>4, <2>5
    DEF StopStep, NativeStop, NativeFlags, NativeCleanup, StopStartup, StopSupervisor
<1>6. ASSUME CoreStep PROVE FieldTypes'
  <2>1. CASE UNCHANGED <<alreadyStopping, currentTransportType, iface, isNetworkStandby, reconnectJob, startupJob, vpnRunning>>
    BY <2>1 DEF FieldTypes
  <2> QED BY <1>6, <2>1
    DEF CoreStep, CoreReady, CoreDrop, CoreRefused, CoreDies, CoreExitSeen, CoreUnchanged
<1>7. ASSUME OnStartCommand PROVE FieldTypes'
  BY <1>7
    DEF OnStartCommand, FieldTypes
<1>8. ASSUME MainStop PROVE FieldTypes'
  BY <1>8
    DEF MainStop, FieldTypes
<1>9. ASSUME NetworkMoved PROVE FieldTypes'
  BY <1>9, UpdateUnderlyingNetworkType
    DEF NetworkMoved, FieldTypes
<1>10. CASE UNCHANGED <<alreadyStopping, currentTransportType, iface, isNetworkStandby, reconnectJob, startupJob, vpnRunning>>
  BY <1>10 DEF FieldTypes
<1> QED BY <1>1, <1>2, <1>3, <1>4, <1>5, <1>6, <1>7, <1>8, <1>9, <1>10
  DEF Next, vars, InternetChanges, UiStopInternal, Move

\* The revisions a recovery attempt works with.
LEMMA AttemptTypesStep == TypeOK /\ [Next]_vars => AttemptTypes'
<1> SUFFICES ASSUME TypeOK, [Next]_vars PROVE AttemptTypes'
  OBVIOUS
<1> USE DEF serviceVars, jobRefs, recoveryVars, jobVars, mainVars, coreVars, netVars
<1>1. ASSUME MainStep PROVE AttemptTypes'
  <2>1. CASE MainSchedule
    BY <2>1
      DEF MainSchedule, AttemptTypes, Attempt
  <2>2. CASE MainLaunch
    <3>1. PICK r \in Recovery :
            /\ rev' = [rev EXCEPT ![r] = [initial |-> 0, attempt |-> 0,
                                          returned |-> returning, ready |-> FALSE]]
            /\ crossed' = IF Clearing THEN crossed \cup {r} ELSE crossed \ {r}
      BY <2>2 DEF MainLaunch
    <3>2. [initial |-> 0, attempt |-> 0, returned |-> returning, ready |-> FALSE] \in Attempt
      BY DEF Attempt, MonitorTypes
    <3>3. rev' \in [Recovery -> Attempt] /\ crossed' \subseteq Recovery
      BY <3>1, <3>2 DEF AttemptTypes
    <3> QED BY <2>2, <3>3 DEF MainLaunch, AttemptTypes
  <2>3. CASE UNCHANGED <<crossed, recoveryNetworkRevision, rev>>
    BY <2>3 DEF AttemptTypes
  <2> QED BY <1>1, <2>1, <2>2, <2>3
    DEF MainStep, MainStopCore, MainCloseTun, LaunchStartup, CollectConnected,
        CollectDisconnected, NetworkCallback, MainStandby, MainUnstandby, MainDirect,
        MainRestore
<1>2. ASSUME NEW s \in Startup, StartupStep(s) PROVE AttemptTypes'
  <2>1. CASE UNCHANGED <<crossed, recoveryNetworkRevision, rev>>
    BY <2>1 DEF AttemptTypes
  <2> QED BY <1>2, <2>1
    DEF StartupStep, StartupStopOld, StartupConfigure, StartupPassFd, StartupAwait,
        StartupPublish, StartupNetCheck, StartupStandby, StartupCancel, StartupClear,
        StartupFence, StartupAnnounce, Move
<1>3. ASSUME NEW r \in Recovery, RecoveryStep(r) PROVE AttemptTypes'
  <2>1. CASE RecoveryBegin(r)
    BY <2>1
      DEF RecoveryBegin, AttemptTypes, Attempt
  <2>2. CASE RecoveryLoop(r)
    BY <2>2
      DEF RecoveryLoop, AttemptTypes, Attempt
  <2>3. CASE RecoveryPassFd(r)
    BY ZenonT(60), <2>3
      DEF RecoveryPassFd, AttemptTypes, Attempt
  <2>4. CASE RecoveryAwait(r)
    <3>1. UNCHANGED rev \/ \E b \in BOOLEAN : rev' = [rev EXCEPT ![r].ready = b]
      BY <2>4 DEF RecoveryAwait
    <3>2. UNCHANGED <<recoveryNetworkRevision, crossed>>
      BY <2>4 DEF RecoveryAwait
    <3> QED BY <3>1, <3>2 DEF AttemptTypes, Attempt
  <2>5. CASE UNCHANGED <<crossed, recoveryNetworkRevision, rev>>
    BY <2>5 DEF AttemptTypes
  <2> QED BY <1>3, <2>1, <2>2, <2>3, <2>4, <2>5
    DEF RecoveryStep, RecoverySettle, RecoveryStandby, RecoveryVerdict, RecoveryBackoff,
        RecoveryReturn, Move
<1>4. ASSUME NEW j \in Job, CarrierStep(j) PROVE AttemptTypes'
  <2>1. CASE UNCHANGED <<crossed, recoveryNetworkRevision, rev>>
    BY <2>1 DEF AttemptTypes
  <2> QED BY <1>4, <2>1
    DEF CarrierStep, NeverStarted, StartCarrier, CarrierSpawned, CarrierFailed, CarrierStarted,
        Move
<1>5. ASSUME NEW t \in Stopping, StopStep(t) PROVE AttemptTypes'
  <2>1. CASE UNCHANGED <<crossed, recoveryNetworkRevision, rev>>
    BY <2>1 DEF AttemptTypes
  <2> QED BY <1>5, <2>1
    DEF StopStep, NativeStop, NativeFlags, NativeCleanup, StopEverything, StopStartup,
        StopRecovery, StopFields, StopSupervisor, StopTun
<1>6. ASSUME CoreStep PROVE AttemptTypes'
  <2>1. CASE UNCHANGED <<crossed, recoveryNetworkRevision, rev>>
    BY <2>1 DEF AttemptTypes
  <2> QED BY <1>6, <2>1
    DEF CoreStep, CoreReady, CoreDrop, CoreRefused, CoreDies, CoreExitSeen, CoreUnchanged
<1>7. CASE UNCHANGED <<crossed, recoveryNetworkRevision, rev>>
  BY <1>7 DEF AttemptTypes
<1> QED BY <1>1, <1>2, <1>3, <1>4, <1>5, <1>6, <1>7
  DEF Next, vars, OnStartCommand, MainStop, NetworkMoved, InternetChanges, UiStopInternal, Move

\* The main thread and the holder of the monitor.
LEMMA MonitorTypesStep == TypeOK /\ [Next]_vars => MonitorTypes'
<1> SUFFICES ASSUME TypeOK, [Next]_vars PROVE MonitorTypes'
  OBVIOUS
<1> USE DEF serviceVars, jobRefs, recoveryVars, jobVars, mainVars, coreVars, netVars
<1>1. ASSUME MainStep PROVE MonitorTypes'
  <2>1. CASE MainStopCore
    BY <2>1
      DEF MainStopCore, MainGoto, MonitorTypes, MainPc
  <2>2. CASE MainCloseTun
    BY <2>2
      DEF MainCloseTun, MainGoto, MonitorTypes, MainPc
  <2>3. CASE LaunchStartup
    BY <2>3
      DEF LaunchStartup, MainGoto, MonitorTypes, MainPc
  <2>4. CASE CollectDisconnected
    BY <2>4, ScheduleRecoveryType
      DEF CollectDisconnected, MonitorTypes, MainPc
  <2>5. CASE NetworkCallback
    BY <2>5, UpdateUnderlyingNetworkType
      DEF NetworkCallback, MonitorTypes, MainPc
  <2>6. CASE MainStandby
    BY <2>6
      DEF MainStandby, MainGoto, MonitorTypes, MainPc
  <2>7. CASE MainSchedule
    BY <2>7
      DEF MainSchedule, MainGoto, MonitorTypes, MainPc
  <2>8. CASE MainUnstandby
    BY <2>8
      DEF MainUnstandby, MainGoto, MonitorTypes, MainPc
  <2>9. CASE MainLaunch
    BY <2>9
      DEF MainLaunch, MonitorTypes, MainPc
  <2>10. CASE MainDirect
    BY <2>10, ScheduleRecoveryType
      DEF MainDirect, MainGoto, MonitorTypes, MainPc
  <2>11. CASE MainRestore
    BY <2>11
      DEF MainRestore, MainGoto, MonitorTypes, MainPc
  <2>12. CASE UNCHANGED <<lock, mainPc, returning>>
    BY <2>12 DEF MonitorTypes
  <2> QED BY <1>1, <2>1, <2>2, <2>3, <2>4, <2>5, <2>6, <2>7, <2>8, <2>9, <2>10, <2>11, <2>12
    DEF MainStep, CollectConnected
<1>2. ASSUME NEW s \in Startup, StartupStep(s) PROVE MonitorTypes'
  <2>1. CASE StartupPublish(s)
    BY <2>1
      DEF StartupPublish, Job, MonitorTypes, MainPc
  <2>2. CASE StartupAnnounce(s)
    BY <2>2
      DEF StartupAnnounce, Job, MonitorTypes, MainPc
  <2>3. CASE UNCHANGED <<lock, mainPc, returning>>
    BY <2>3 DEF MonitorTypes
  <2> QED BY <1>2, <2>1, <2>2, <2>3
    DEF StartupStep, StartupStopOld, StartupConfigure, StartupPassFd, StartupAwait,
        StartupNetCheck, StartupStandby, StartupCancel, StartupClear, StartupFence, Move
<1>3. ASSUME NEW r \in Recovery, RecoveryStep(r) PROVE MonitorTypes'
  <2>1. CASE UNCHANGED <<lock, mainPc, returning>>
    BY <2>1 DEF MonitorTypes
  <2> QED BY <1>3, <2>1
    DEF RecoveryStep, RecoveryBegin, RecoverySettle, RecoveryLoop, RecoveryStandby,
        RecoveryPassFd, RecoveryAwait, RecoveryVerdict, RecoveryBackoff, RecoveryReturn, Move
<1>4. ASSUME NEW j \in Job, CarrierStep(j) PROVE MonitorTypes'
  <2>1. CASE StartCarrier(j)
    BY <2>1
      DEF StartCarrier, MonitorTypes, MainPc
  <2>2. CASE CarrierFailed(j)
    BY <2>2
      DEF CarrierFailed, LeaveCarrier, MonitorTypes, MainPc
  <2>3. CASE CarrierStarted(j)
    BY <2>3
      DEF CarrierStarted, LeaveCarrier, MonitorTypes, MainPc
  <2>4. CASE UNCHANGED <<lock, mainPc, returning>>
    BY <2>4 DEF MonitorTypes
  <2> QED BY <1>4, <2>1, <2>2, <2>3, <2>4
    DEF CarrierStep, NeverStarted, CarrierSpawned, Move
<1>5. ASSUME NEW t \in Stopping, StopStep(t) PROVE MonitorTypes'
  <2>1. CASE UNCHANGED <<lock, mainPc, returning>>
    BY <2>1 DEF MonitorTypes
  <2> QED BY <1>5, <2>1
    DEF StopStep, NativeStop, NativeFlags, NativeCleanup, StopEverything, StopStartup,
        StopRecovery, StopFields, StopSupervisor, StopTun
<1>6. ASSUME CoreStep PROVE MonitorTypes'
  <2>1. CASE UNCHANGED <<lock, mainPc, returning>>
    BY <2>1 DEF MonitorTypes
  <2> QED BY <1>6, <2>1
    DEF CoreStep, CoreReady, CoreDrop, CoreRefused, CoreDies, CoreExitSeen, CoreUnchanged
<1>7. ASSUME OnStartCommand PROVE MonitorTypes'
  BY <1>7
    DEF OnStartCommand, MainGoto, MonitorTypes, MainPc
<1>8. ASSUME MainStop PROVE MonitorTypes'
  BY <1>8
    DEF MainStop, MainGoto, MonitorTypes, MainPc
<1>9. ASSUME NetworkMoved PROVE MonitorTypes'
  BY <1>9, UpdateUnderlyingNetworkType
    DEF NetworkMoved, MonitorTypes, MainPc
<1>10. CASE UNCHANGED <<lock, mainPc, returning>>
  BY <1>10 DEF MonitorTypes
<1> QED BY <1>1, <1>2, <1>3, <1>4, <1>5, <1>6, <1>7, <1>8, <1>9, <1>10
  DEF Next, vars, InternetChanges, UiStopInternal, Move

\* What the service reads of the core.
LEMMA CoreTypesStep == TypeOK /\ [Next]_vars => CoreTypes'
<1> SUFFICES ASSUME TypeOK, [Next]_vars PROVE CoreTypes'
  OBVIOUS
<1> USE DEF serviceVars, jobRefs, recoveryVars, jobVars, mainVars, coreVars, netVars
<1>1. ASSUME MainStep PROVE CoreTypes'
  <2>1. CASE MainStopCore
    BY <2>1, StoppedCoreType
      DEF MainStopCore, StopCore, CoreTypes, CoreState
  <2>2. CASE MainStandby
    BY <2>2, EnterNetworkStandbyType
      DEF MainStandby, CoreTypes, CoreState
  <2>3. CASE MainRestore
    BY <2>3
      DEF MainRestore, CoreTypes, CoreState
  <2>4. CASE UNCHANGED <<core, exitDue>>
    BY <2>4 DEF CoreTypes
  <2> QED BY <1>1, <2>1, <2>2, <2>3, <2>4
    DEF MainStep, MainCloseTun, LaunchStartup, CollectConnected, CollectDisconnected,
        NetworkCallback, MainSchedule, MainUnstandby, MainLaunch, MainDirect
<1>2. ASSUME NEW s \in Startup, StartupStep(s) PROVE CoreTypes'
  <2>1. CASE StartupFence(s)
    BY <2>1, FencedCoreType
      DEF StartupFence, CoreTypes, CoreState
  <2>2. CASE UNCHANGED <<core, exitDue>>
    BY <2>2 DEF CoreTypes
  <2> QED BY <1>2, <2>1, <2>2
    DEF StartupStep, StartupStopOld, StartupConfigure, StartupPassFd, StartupAwait,
        StartupPublish, StartupNetCheck, StartupStandby, StartupCancel, StartupClear,
        StartupAnnounce, Move
<1>3. ASSUME NEW r \in Recovery, RecoveryStep(r) PROVE CoreTypes'
  <2>1. CASE RecoveryStandby(r)
    BY <2>1, EnterNetworkStandbyType
      DEF RecoveryStandby, CoreTypes, CoreState
  <2>2. CASE UNCHANGED <<core, exitDue>>
    BY <2>2 DEF CoreTypes
  <2> QED BY <1>3, <2>1, <2>2
    DEF RecoveryStep, RecoveryBegin, RecoverySettle, RecoveryLoop, RecoveryPassFd,
        RecoveryAwait, RecoveryVerdict, RecoveryBackoff, RecoveryReturn, Move
<1>4. ASSUME NEW j \in Job, CarrierStep(j) PROVE CoreTypes'
  <2>1. CASE StartCarrier(j)
    BY <2>1, LaunchedCoreType
      DEF StartCarrier, CoreTypes, CoreState
  <2>2. CASE CarrierFailed(j)
    BY <2>2
      DEF CarrierFailed, CoreTypes, CoreState
  <2>3. CASE CarrierStarted(j)
    BY <2>3
      DEF CarrierStarted, CoreTypes, CoreState
  <2>4. CASE UNCHANGED <<core, exitDue>>
    BY <2>4 DEF CoreTypes
  <2> QED BY <1>4, <2>1, <2>2, <2>3, <2>4
    DEF CarrierStep, NeverStarted, CarrierSpawned, Move
<1>5. ASSUME NEW t \in Stopping, StopStep(t) PROVE CoreTypes'
  <2>1. CASE NativeStop(t)
    BY <2>1
      DEF NativeStop, CoreTypes, CoreState
  <2>2. CASE NativeFlags(t)
    BY <2>2
      DEF NativeFlags, CoreTypes, CoreState
  <2>3. CASE NativeCleanup(t)
    BY ZenonT(60), <2>3
      DEF NativeCleanup, CoreTypes, CoreState
  <2>4. CASE StopSupervisor(t)
    BY <2>4, StoppedCoreType
      DEF StopSupervisor, StopCore, CoreTypes, CoreState
  <2>5. CASE UNCHANGED <<core, exitDue>>
    BY <2>5 DEF CoreTypes
  <2> QED BY <1>5, <2>1, <2>2, <2>3, <2>4, <2>5
    DEF StopStep, StopEverything, StopStartup, StopRecovery, StopFields, StopTun
<1>6. ASSUME CoreStep PROVE CoreTypes'
  <2>1. CASE CoreReady
    BY <2>1
      DEF CoreReady, CoreTypes, CoreState
  <2>2. CASE CoreDrop
    BY <2>2
      DEF CoreDrop, CoreTypes, CoreState
  <2>3. CASE CoreRefused
    BY <2>3
      DEF CoreRefused, CoreTypes, CoreState
  <2>4. CASE CoreDies
    BY <2>4
      DEF CoreDies, CoreTypes, CoreState
  <2>5. CASE CoreExitSeen
    BY <2>5
      DEF CoreExitSeen, CoreTypes, CoreState
  <2> QED BY <1>6, <2>1, <2>2, <2>3, <2>4, <2>5
    DEF CoreStep
<1>7. ASSUME OnStartCommand PROVE CoreTypes'
  BY <1>7
    DEF OnStartCommand, CoreTypes, CoreState
<1>8. CASE UNCHANGED <<core, exitDue>>
  BY <1>8 DEF CoreTypes
<1> QED BY <1>1, <1>2, <1>3, <1>4, <1>5, <1>6, <1>7, <1>8
  DEF Next, vars, MainStop, NetworkMoved, InternetChanges, UiStopInternal, Move

\* The event queue and the budget of faults.
LEMMA BusTypesStep == TypeOK /\ [Next]_vars => BusTypes'
<1> SUFFICES ASSUME TypeOK, [Next]_vars PROVE BusTypes'
  OBVIOUS
<1> USE DEF serviceVars, jobRefs, recoveryVars, jobVars, mainVars, coreVars, netVars
<1>1. ASSUME MainStep PROVE BusTypes'
  <2>1. CASE CollectConnected
    BY <2>1
      DEF CollectConnected, BusTypes
  <2>2. CASE CollectDisconnected
    BY <2>2
      DEF CollectDisconnected, BusTypes
  <2>3. CASE UNCHANGED <<bus, faults>>
    BY <2>3 DEF BusTypes
  <2> QED BY <1>1, <2>1, <2>2, <2>3
    DEF MainStep, MainStopCore, MainCloseTun, LaunchStartup, NetworkCallback, MainStandby,
        MainSchedule, MainUnstandby, MainLaunch, MainDirect, MainRestore
<1>2. ASSUME NEW s \in Startup, StartupStep(s) PROVE BusTypes'
  <2>1. CASE StartupConfigure(s)
    BY <2>1, DispatchType
      DEF StartupConfigure, BusTypes
  <2>2. CASE StartupPassFd(s)
    BY <2>2, DispatchType
      DEF StartupPassFd, BusTypes
  <2>3. CASE StartupAwait(s)
    BY <2>3, DispatchType
      DEF StartupAwait, BusTypes
  <2>4. CASE StartupPublish(s)
    BY <2>4
      DEF StartupPublish, BusTypes
  <2>5. CASE UNCHANGED <<bus, faults>>
    BY <2>5 DEF BusTypes
  <2> QED BY <1>2, <2>1, <2>2, <2>3, <2>4, <2>5
    DEF StartupStep, StartupStopOld, StartupNetCheck, StartupStandby, StartupCancel,
        StartupClear, StartupFence, StartupAnnounce, Move
<1>3. ASSUME NEW r \in Recovery, RecoveryStep(r) PROVE BusTypes'
  <2>1. CASE RecoveryPassFd(r)
    BY <2>1
      DEF RecoveryPassFd, BusTypes
  <2>2. CASE UNCHANGED <<bus, faults>>
    BY <2>2 DEF BusTypes
  <2> QED BY <1>3, <2>1, <2>2
    DEF RecoveryStep, RecoveryBegin, RecoverySettle, RecoveryLoop, RecoveryStandby,
        RecoveryAwait, RecoveryVerdict, RecoveryBackoff, RecoveryReturn, Move
<1>4. ASSUME NEW j \in Job, CarrierStep(j) PROVE BusTypes'
  <2>1. CASE CarrierFailed(j)
    BY <2>1, DispatchType
      DEF CarrierFailed, BusTypes
  <2>2. CASE UNCHANGED <<bus, faults>>
    BY <2>2 DEF BusTypes
  <2> QED BY <1>4, <2>1, <2>2
    DEF CarrierStep, NeverStarted, StartCarrier, CarrierSpawned, CarrierStarted, Move
<1>5. ASSUME NEW t \in Stopping, StopStep(t) PROVE BusTypes'
  <2>1. CASE NativeCleanup(t)
    BY <2>1, DispatchType
      DEF NativeCleanup, BusTypes
  <2>2. CASE UNCHANGED <<bus, faults>>
    BY <2>2 DEF BusTypes
  <2> QED BY <1>5, <2>1, <2>2
    DEF StopStep, NativeStop, NativeFlags, StopEverything, StopStartup, StopRecovery,
        StopFields, StopSupervisor, StopTun
<1>6. ASSUME CoreStep PROVE BusTypes'
  <2>1. CASE CoreReady
    BY <2>1, DispatchType
      DEF CoreReady, BusTypes
  <2>2. CASE CoreDrop
    BY <2>2, DispatchType
      DEF CoreDrop, BusTypes
  <2>3. CASE CoreRefused
    BY <2>3, DispatchType
      DEF CoreRefused, BusTypes
  <2>4. CASE CoreDies
    BY <2>4
      DEF CoreDies, BusTypes
  <2>5. CASE CoreExitSeen
    BY <2>5, DispatchType
      DEF CoreExitSeen, BusTypes
  <2> QED BY <1>6, <2>1, <2>2, <2>3, <2>4, <2>5
    DEF CoreStep
<1>7. CASE UNCHANGED <<bus, faults>>
  BY <1>7 DEF BusTypes
<1> QED BY <1>1, <1>2, <1>3, <1>4, <1>5, <1>6, <1>7
  DEF Next, vars, OnStartCommand, MainStop, NetworkMoved, InternetChanges, UiStopInternal, Move

\* The physical network and its callbacks.
LEMMA NetTypesStep == TypeOK /\ [Next]_vars => NetTypes'
<1> SUFFICES ASSUME TypeOK, [Next]_vars PROVE NetTypes'
  OBVIOUS
<1> USE DEF serviceVars, jobRefs, recoveryVars, jobVars, mainVars, coreVars, netVars
<1>1. ASSUME MainStep PROVE NetTypes'
  <2>1. CASE NetworkCallback
    <3>1. netQueue' \in Seq({"none", "net"})
      BY <2>1, QueueFacts DEF NetworkCallback, NetTypes
    <3>2. /\ internet' \in BOOLEAN /\ registered' \in BOOLEAN /\ netChanges' \in 0..MaxNet
      BY <2>1 DEF NetworkCallback, NetTypes
    <3>3. Head(netQueue) \in {"none", "net"} /\ selected \in {"unset", "none", "net"}
      BY <2>1, QueueFacts DEF NetworkCallback, NetTypes
    <3>4. selected' \in {"unset", "none", "net"}
      BY <2>1, <3>3, UpdateUnderlyingNetworkType DEF NetworkCallback
    <3> QED BY <3>1, <3>2, <3>4 DEF NetTypes
  <2>2. CASE UNCHANGED <<internet, netChanges, netQueue, registered, selected>>
    BY <2>2 DEF NetTypes
  <2> QED BY <1>1, <2>1, <2>2
    DEF MainStep, MainStopCore, MainCloseTun, LaunchStartup, CollectConnected,
        CollectDisconnected, MainStandby, MainSchedule, MainUnstandby, MainLaunch, MainDirect,
        MainRestore
<1>2. ASSUME NEW s \in Startup, StartupStep(s) PROVE NetTypes'
  <2>1. CASE StartupPublish(s)
    <3>1. netQueue' \in Seq({"none", "net"})
      BY <2>1, QueueFacts DEF StartupPublish, NetTypes
    <3>2. /\ internet' \in BOOLEAN /\ registered' \in BOOLEAN /\ netChanges' \in 0..MaxNet
          /\ selected' \in {"unset", "none", "net"}
      BY <2>1 DEF StartupPublish, NetTypes
    <3> QED BY <3>1, <3>2 DEF NetTypes
  <2>2. CASE UNCHANGED <<internet, netChanges, netQueue, registered, selected>>
    BY <2>2 DEF NetTypes
  <2> QED BY <1>2, <2>1, <2>2
    DEF StartupStep, StartupStopOld, StartupConfigure, StartupPassFd, StartupAwait,
        StartupNetCheck, StartupStandby, StartupCancel, StartupClear, StartupFence,
        StartupAnnounce, Move
<1>3. ASSUME NEW r \in Recovery, RecoveryStep(r) PROVE NetTypes'
  <2>1. CASE UNCHANGED <<internet, netChanges, netQueue, registered, selected>>
    BY <2>1 DEF NetTypes
  <2> QED BY <1>3, <2>1
    DEF RecoveryStep, RecoveryBegin, RecoverySettle, RecoveryLoop, RecoveryStandby,
        RecoveryPassFd, RecoveryAwait, RecoveryVerdict, RecoveryBackoff, RecoveryReturn, Move
<1>4. ASSUME NEW j \in Job, CarrierStep(j) PROVE NetTypes'
  <2>1. CASE UNCHANGED <<internet, netChanges, netQueue, registered, selected>>
    BY <2>1 DEF NetTypes
  <2> QED BY <1>4, <2>1
    DEF CarrierStep, NeverStarted, StartCarrier, CarrierSpawned, CarrierFailed, CarrierStarted,
        Move
<1>5. ASSUME NEW t \in Stopping, StopStep(t) PROVE NetTypes'
  <2>1. CASE StopFields(t)
    <3>1. netQueue' \in Seq({"none", "net"})
      BY <2>1, QueueFacts DEF StopFields, NetTypes, Unregister
    <3>2. /\ internet' \in BOOLEAN /\ registered' \in BOOLEAN /\ netChanges' \in 0..MaxNet
          /\ selected' \in {"unset", "none", "net"}
      BY <2>1 DEF StopFields, NetTypes, Unregister
    <3> QED BY <3>1, <3>2 DEF NetTypes
  <2>2. CASE UNCHANGED <<internet, netChanges, netQueue, registered, selected>>
    BY <2>2 DEF NetTypes
  <2> QED BY <1>5, <2>1, <2>2
    DEF StopStep, NativeStop, NativeFlags, NativeCleanup, StopEverything, StopStartup,
        StopRecovery, StopSupervisor, StopTun
<1>6. ASSUME CoreStep PROVE NetTypes'
  <2>1. CASE UNCHANGED <<internet, netChanges, netQueue, registered, selected>>
    BY <2>1 DEF NetTypes
  <2> QED BY <1>6, <2>1
    DEF CoreStep, CoreReady, CoreDrop, CoreRefused, CoreDies, CoreExitSeen, CoreUnchanged
<1>7. ASSUME MainStop PROVE NetTypes'
  <2>1. netQueue' \in Seq({"none", "net"})
    BY <1>7, QueueFacts DEF MainStop, NetTypes, Unregister
  <2>2. /\ internet' \in BOOLEAN /\ registered' \in BOOLEAN /\ netChanges' \in 0..MaxNet
        /\ selected' \in {"unset", "none", "net"}
    BY <1>7 DEF MainStop, NetTypes, Unregister
  <2> QED BY <2>1, <2>2 DEF NetTypes
<1>8. ASSUME NetworkMoved PROVE NetTypes'
  <2>1. netQueue' \in Seq({"none", "net"})
    BY <1>8, QueueFacts DEF NetworkMoved, NetTypes
  <2>2. /\ internet' \in BOOLEAN /\ registered' \in BOOLEAN /\ netChanges' \in 0..MaxNet
    BY <1>8 DEF NetworkMoved, NetTypes
  <2>3. selected' = "net"
    BY <1>8, UpdateUnderlyingNetworkType DEF NetworkMoved
  <2> QED BY <2>1, <2>2, <2>3 DEF NetTypes
<1>9. ASSUME InternetChanges PROVE NetTypes'
  BY <1>9
    DEF InternetChanges, NetTypes
<1>10. CASE UNCHANGED <<internet, netChanges, netQueue, registered, selected>>
  BY <1>10 DEF NetTypes
<1> QED BY <1>1, <1>2, <1>3, <1>4, <1>5, <1>6, <1>7, <1>8, <1>9, <1>10
  DEF Next, vars, OnStartCommand, UiStopInternal, Move

\* The coroutines.
LEMMA JobTypesStep == TypeOK /\ [Next]_vars => JobTypes'
<1> SUFFICES ASSUME TypeOK, [Next]_vars PROVE JobTypes'
  OBVIOUS
<1> USE DEF serviceVars, jobRefs, recoveryVars, jobVars, mainVars, coreVars, netVars, Stopping
<1>1. ASSUME MainStep PROVE JobTypes'
  <2>1. CASE LaunchStartup
    <3>1. PICK s \in Startup :
            Goto(s, "stopOld") /\ active' = [Cancel({startupJob}) EXCEPT ![s] = TRUE]
      BY <2>1 DEF LaunchStartup
    <3>2. "stopOld" \in StartupPc
      BY DEF StartupPc
    <3>3. active' \in [Job -> BOOLEAN]
      BY <3>1, CancelType
    <3> QED BY <3>1, <3>2, <3>3, GotoType DEF JobTypes, Thread, Job
  <2>2. CASE CollectDisconnected
    BY <2>2, CancelType
      DEF CollectDisconnected, JobTypes, Thread, Job
  <2>3. CASE MainStandby
    BY <2>3, CancelType, EnterNetworkStandbyType
      DEF MainStandby, JobTypes, Thread, Job
  <2>4. CASE MainLaunch
    <3>1. PICK r \in Recovery : Goto(r, "begin") /\ active' = [active EXCEPT ![r] = TRUE]
      BY <2>4 DEF MainLaunch
    <3>2. "begin" \in RecoveryPc
      BY DEF RecoveryPc
    <3>3. active' \in [Job -> BOOLEAN]
      BY <3>1 DEF JobTypes
    <3> QED BY <3>1, <3>2, <3>3, GotoType DEF JobTypes, Thread, Job
  <2>5. CASE UNCHANGED <<active, pc>>
    BY <2>5 DEF JobTypes
  <2> QED BY <1>1, <2>1, <2>2, <2>3, <2>4, <2>5
    DEF MainStep, MainStopCore, MainCloseTun, CollectConnected, NetworkCallback, MainSchedule,
        MainUnstandby, MainDirect, MainRestore
<1>2. ASSUME NEW s \in Startup, StartupStep(s) PROVE JobTypes'
  <2>1. CASE StartupStopOld(s)
    BY <2>1, MoveType, FinishType
      DEF StartupStopOld, Move, StartupPc, NativePc, JobTypes, Thread, Job
  <2>2. CASE StartupConfigure(s)
    BY <2>2, MoveType, FinishType
      DEF StartupConfigure, StartupPc, StopPc, JobTypes, Thread, Job
  <2>3. CASE StartupPassFd(s)
    BY <2>3, MoveType, FinishType
      DEF StartupPassFd, StartupPc, StopPc, JobTypes, Thread, Job
  <2>4. CASE StartupAwait(s)
    BY <2>4, MoveType, FinishType
      DEF StartupAwait, StartupPc, StopPc, JobTypes, Thread, Job
  <2>5. CASE StartupPublish(s)
    BY <2>5, MoveType, FinishType
      DEF StartupPublish, StartupPc, JobTypes, Thread, Job
  <2>6. CASE StartupNetCheck(s)
    BY <2>6, MoveType, FinishType
      DEF StartupNetCheck, Move, StartupPc, JobTypes, Thread, Job
  <2>7. CASE StartupStandby(s)
    BY <2>7, MoveType, FinishType
      DEF StartupStandby, StartupPc, JobTypes, Thread, Job
  <2>8. CASE StartupCancel(s)
    BY <2>8, MoveType, FinishType
      DEF StartupCancel, StartupPc, JobTypes, Thread, Job
  <2>9. CASE StartupClear(s)
    BY <2>9, MoveType, FinishType
      DEF StartupClear, StartupPc, JobTypes, Thread, Job
  <2>10. CASE StartupFence(s)
    BY <2>10, MoveType, FinishType
      DEF StartupFence, StartupPc, JobTypes, Thread, Job
  <2>11. CASE StartupAnnounce(s)
    BY <2>11, MoveType, FinishType
      DEF StartupAnnounce, StartupPc, JobTypes, Thread, Job
  <2> QED BY <1>2, <2>1, <2>2, <2>3, <2>4, <2>5, <2>6, <2>7, <2>8, <2>9, <2>10, <2>11
    DEF StartupStep
<1>3. ASSUME NEW r \in Recovery, RecoveryStep(r) PROVE JobTypes'
  <2>1. CASE RecoveryBegin(r)
    BY <2>1, MoveType, FinishType
      DEF RecoveryBegin, RecoveryPc, JobTypes, Thread, Job
  <2>2. CASE RecoverySettle(r)
    BY <2>2, MoveType, FinishType
      DEF RecoverySettle, RecoveryPc, JobTypes, Thread, Job
  <2>3. CASE RecoveryLoop(r)
    BY <2>3, MoveType, FinishType
      DEF RecoveryLoop, RecoveryPc, JobTypes, Thread, Job
  <2>4. CASE RecoveryStandby(r)
    BY <2>4, MoveType, FinishType, EnterNetworkStandbyType
      DEF RecoveryStandby, RecoveryPc, JobTypes, Thread, Job
  <2>5. CASE RecoveryPassFd(r)
    BY <2>5, MoveType, FinishType
      DEF RecoveryPassFd, RecoveryPc, JobTypes, Thread, Job
  <2>6. CASE RecoveryAwait(r)
    BY <2>6, MoveType, FinishType
      DEF RecoveryAwait, RecoveryPc, JobTypes, Thread, Job
  <2>7. CASE RecoveryVerdict(r)
    BY <2>7, MoveType, FinishType
      DEF RecoveryVerdict, Move, RecoveryPc, JobTypes, Thread, Job
  <2>8. CASE RecoveryBackoff(r)
    BY <2>8, MoveType, FinishType
      DEF RecoveryBackoff, RecoveryPc, JobTypes, Thread, Job
  <2>9. CASE RecoveryReturn(r)
    BY <2>9, MoveType, FinishType
      DEF RecoveryReturn, RecoveryPc, JobTypes, Thread, Job
  <2> QED BY <1>3, <2>1, <2>2, <2>3, <2>4, <2>5, <2>6, <2>7, <2>8, <2>9
    DEF RecoveryStep
<1>4. ASSUME NEW j \in Job, CarrierStep(j) PROVE JobTypes'
  <2>1. CASE NeverStarted(j)
    BY <2>1, MoveType, FinishType
      DEF NeverStarted, Move, StartupPc, RecoveryPc, JobTypes, Thread, Job
  <2>2. CASE StartCarrier(j)
    BY <2>2, MoveType, FinishType
      DEF StartCarrier, StartupPc, RecoveryPc, GiveUp, LaunchPc, JobTypes, Thread, Job
  <2>3. CASE CarrierSpawned(j)
    BY <2>3, MoveType, FinishType
      DEF CarrierSpawned, Move, StartupPc, RecoveryPc, LaunchPc, JobTypes, Thread, Job
  <2>4. CASE CarrierFailed(j)
    BY <2>4, MoveType, FinishType
      DEF CarrierFailed, StartupPc, RecoveryPc, GiveUp, LeaveCarrier, JobTypes, Thread, Job
  <2>5. CASE CarrierStarted(j)
    BY <2>5, MoveType, FinishType
      DEF CarrierStarted, StartupPc, RecoveryPc, GiveUp, LeaveCarrier, JobTypes, Thread, Job
  <2> QED BY <1>4, <2>1, <2>2, <2>3, <2>4, <2>5
    DEF CarrierStep
<1>5. ASSUME NEW t \in Stopping, StopStep(t) PROVE JobTypes'
  <2>1. CASE NativeStop(t)
    BY <2>1, MoveType, FinishType
      DEF NativeStop, StartupPc, UiPc, NativePc, StopPc, JobTypes, Thread, Job
  <2>2. CASE NativeFlags(t)
    BY <2>2, MoveType, FinishType
      DEF NativeFlags, StartupPc, UiPc, NativePc, StopPc, JobTypes, Thread, Job
  <2>3. CASE NativeCleanup(t)
    BY <2>3, MoveType, FinishType
      DEF NativeCleanup, StartupPc, UiPc, NativePc, StopPc, JobTypes, Thread, Job
  <2>4. CASE StopEverything(t)
    BY <2>4, MoveType, FinishType
      DEF StopEverything, StartupPc, UiPc, NativePc, StopPc, JobTypes, Thread, Job
  <2>5. CASE StopStartup(t)
    BY <2>5, MoveType, FinishType
      DEF StopStartup, StartupPc, UiPc, NativePc, StopPc, JobTypes, Thread, Job
  <2>6. CASE StopRecovery(t)
    BY <2>6, MoveType, FinishType
      DEF StopRecovery, StartupPc, UiPc, NativePc, StopPc, JobTypes, Thread, Job
  <2>7. CASE StopFields(t)
    BY <2>7, MoveType, FinishType
      DEF StopFields, StartupPc, UiPc, NativePc, StopPc, JobTypes, Thread, Job
  <2>8. CASE StopSupervisor(t)
    BY <2>8, MoveType, FinishType
      DEF StopSupervisor, StartupPc, UiPc, NativePc, StopPc, JobTypes, Thread, Job
  <2>9. CASE StopTun(t)
    BY <2>9, MoveType, FinishType
      DEF StopTun, StartupPc, UiPc, NativePc, StopPc, JobTypes, Thread, Job
  <2> QED BY <1>5, <2>1, <2>2, <2>3, <2>4, <2>5, <2>6, <2>7, <2>8, <2>9
    DEF StopStep
<1>6. ASSUME CoreStep PROVE JobTypes'
  <2>1. CASE UNCHANGED <<active, pc>>
    BY <2>1 DEF JobTypes
  <2> QED BY <1>6, <2>1
    DEF CoreStep, CoreReady, CoreDrop, CoreRefused, CoreDies, CoreExitSeen, CoreUnchanged
<1>7. ASSUME OnStartCommand PROVE JobTypes'
  BY <1>7, CancelType
    DEF OnStartCommand, JobTypes, Thread, Job
<1>8. ASSUME MainStop PROVE JobTypes'
  BY <1>8, CancelType
    DEF MainStop, JobTypes, Thread, Job
<1>9. ASSUME NEW u \in Ui, UiStopInternal(u) PROVE JobTypes'
  BY <1>9, MoveType, FinishType
    DEF UiStopInternal, Move, UiPc, NativePc, JobTypes, Thread, Job
<1>10. CASE UNCHANGED <<active, pc>>
  BY <1>10 DEF JobTypes
<1> QED BY <1>1, <1>2, <1>3, <1>4, <1>5, <1>6, <1>7, <1>8, <1>9, <1>10
  DEF Next, vars, NetworkMoved, InternetChanges

LEMMA TypeInit == Init => TypeOK
<1> SUFFICES ASSUME Init PROVE TypeOK
  OBVIOUS
<1>1. FieldTypes /\ MonitorTypes
  BY DEF Init, FieldTypes, MonitorTypes, TransportType, MainPc
<1>2. JobTypes
  BY DEF Init, JobTypes, StartupPc, RecoveryPc, UiPc, Thread, Job
<1>3. AttemptTypes
  BY DEF Init, AttemptTypes, Attempt
<1>4. CoreTypes
  BY DEF Init, CoreTypes, CoreState, NoCore
<1>5. BusTypes
  BY DEF Init, BusTypes
<1>6. NetTypes
  <2>1. netQueue \in Seq({"none", "net"})
    BY QueueFacts DEF Init
  <2>2. internet \in BOOLEAN /\ registered \in BOOLEAN
    BY DEF Init
  <2>3. netChanges \in 0..MaxNet
    BY DEF Init
  <2>4. selected \in {"unset", "none", "net"}
    BY DEF Init
  <2> QED BY <2>1, <2>2, <2>3, <2>4 DEF NetTypes
<1> QED BY <1>1, <1>2, <1>3, <1>4, <1>5, <1>6

\* Every field, coroutine, queue and budget of SocksVpnService keeps its type, for
\* any number of start intents, recovery coroutines and stops.
THEOREM TypeCorrect == Spec => []TypeOK
<1>1. TypeOK /\ [Next]_vars => TypeOK'
  BY FieldTypesStep, JobTypesStep, AttemptTypesStep, MonitorTypesStep, CoreTypesStep,
     BusTypesStep, NetTypesStep
<1> QED BY <1>1, TypeInit, PTL DEF Spec

-----------------------------------------------------------------------------
(* The monitor. *)

\* Where a startup coroutine is inside its synchronized block.
Publishing == {"netCheck", "standby", "cancel", "clear", "fence", "announce"}

\* A launch and the block that declares the VPN running are inside the monitor.
MonitorHeld ==
    /\ \A j \in Job : pc[j] \in LaunchPc => lock = j
    /\ \A s \in Startup : pc[s] \in Publishing => lock = s

\* The monitor is entered when it is free and left at the end of the block.
LEMMA MonitorHeldStep == TypeOK /\ MonitorHeld /\ [Next]_vars => MonitorHeld'
<1> SUFFICES ASSUME TypeOK, MonitorHeld, [Next]_vars PROVE MonitorHeld'
  OBVIOUS
<1> USE DEF serviceVars, jobRefs, recoveryVars, jobVars, mainVars, coreVars, netVars, Stopping
<1>1. ASSUME MainStep PROVE MonitorHeld'
  <2>1. CASE LaunchStartup
    BY <2>1
      DEF LaunchStartup, Goto, MonitorHeld, Publishing, LaunchPc, JobTypes, Thread, Job
  <2>2. CASE MainLaunch
    BY <2>2
      DEF MainLaunch, Goto, MonitorHeld, Publishing, LaunchPc, JobTypes, Thread, Job
  <2>3. CASE UNCHANGED <<lock, pc>>
    BY <2>3 DEF MonitorHeld
  <2> QED BY <1>1, <2>1, <2>2, <2>3
    DEF MainStep, MainStopCore, MainCloseTun, CollectConnected, CollectDisconnected,
        NetworkCallback, MainStandby, MainSchedule, MainUnstandby, MainDirect, MainRestore
<1>2. ASSUME NEW s \in Startup, StartupStep(s) PROVE MonitorHeld'
  <2>1. CASE StartupStopOld(s)
    BY <2>1
      DEF StartupStopOld, Move, Goto, MonitorHeld, Publishing, LaunchPc, JobTypes, Thread, Job
  <2>2. CASE StartupConfigure(s)
    BY <2>2
      DEF StartupConfigure, Goto, Finish, MonitorHeld, Publishing, LaunchPc, JobTypes, Thread,
          Job
  <2>3. CASE StartupPassFd(s)
    BY <2>3
      DEF StartupPassFd, Goto, MonitorHeld, Publishing, LaunchPc, JobTypes, Thread, Job
  <2>4. CASE StartupAwait(s)
    BY <2>4
      DEF StartupAwait, Goto, Finish, MonitorHeld, Publishing, LaunchPc, JobTypes, Thread, Job
  <2>5. CASE StartupPublish(s)
    BY <2>5
      DEF StartupPublish, Goto, MonitorHeld, Publishing, LaunchPc, JobTypes, Thread, Job
  <2>6. CASE StartupNetCheck(s)
    BY <2>6
      DEF StartupNetCheck, Move, Goto, MonitorHeld, Publishing, LaunchPc, JobTypes, Thread, Job
  <2>7. CASE StartupStandby(s)
    BY <2>7
      DEF StartupStandby, Goto, MonitorHeld, Publishing, LaunchPc, JobTypes, Thread, Job
  <2>8. CASE StartupCancel(s)
    BY <2>8
      DEF StartupCancel, Goto, MonitorHeld, Publishing, LaunchPc, JobTypes, Thread, Job
  <2>9. CASE StartupClear(s)
    BY <2>9
      DEF StartupClear, Goto, MonitorHeld, Publishing, LaunchPc, JobTypes, Thread, Job
  <2>10. CASE StartupFence(s)
    BY <2>10
      DEF StartupFence, Goto, MonitorHeld, Publishing, LaunchPc, JobTypes, Thread, Job
  <2>11. CASE StartupAnnounce(s)
    BY <2>11
      DEF StartupAnnounce, Goto, Finish, MonitorHeld, Publishing, LaunchPc, JobTypes, Thread,
          Job
  <2> QED BY <1>2, <2>1, <2>2, <2>3, <2>4, <2>5, <2>6, <2>7, <2>8, <2>9, <2>10, <2>11
    DEF StartupStep
<1>3. ASSUME NEW r \in Recovery, RecoveryStep(r) PROVE MonitorHeld'
  <2>1. CASE RecoveryBegin(r)
    BY <2>1
      DEF RecoveryBegin, Goto, MonitorHeld, Publishing, LaunchPc, JobTypes, Thread, Job
  <2>2. CASE RecoverySettle(r)
    BY <2>2
      DEF RecoverySettle, Goto, Finish, MonitorHeld, Publishing, LaunchPc, JobTypes, Thread,
          Job
  <2>3. CASE RecoveryLoop(r)
    BY <2>3
      DEF RecoveryLoop, Goto, MonitorHeld, Publishing, LaunchPc, JobTypes, Thread, Job
  <2>4. CASE RecoveryStandby(r)
    BY <2>4
      DEF RecoveryStandby, Goto, Finish, MonitorHeld, Publishing, LaunchPc, JobTypes, Thread,
          Job
  <2>5. CASE RecoveryPassFd(r)
    BY <2>5
      DEF RecoveryPassFd, Goto, MonitorHeld, Publishing, LaunchPc, JobTypes, Thread, Job
  <2>6. CASE RecoveryAwait(r)
    BY <2>6
      DEF RecoveryAwait, Goto, Finish, MonitorHeld, Publishing, LaunchPc, JobTypes, Thread, Job
  <2>7. CASE RecoveryVerdict(r)
    BY <2>7
      DEF RecoveryVerdict, Move, Goto, MonitorHeld, Publishing, LaunchPc, JobTypes, Thread, Job
  <2>8. CASE RecoveryBackoff(r)
    BY <2>8
      DEF RecoveryBackoff, Goto, Finish, MonitorHeld, Publishing, LaunchPc, JobTypes, Thread,
          Job
  <2>9. CASE RecoveryReturn(r)
    BY <2>9
      DEF RecoveryReturn, Goto, Finish, MonitorHeld, Publishing, LaunchPc, JobTypes, Thread,
          Job
  <2> QED BY <1>3, <2>1, <2>2, <2>3, <2>4, <2>5, <2>6, <2>7, <2>8, <2>9
    DEF RecoveryStep
<1>4. ASSUME NEW j \in Job, CarrierStep(j) PROVE MonitorHeld'
  <2>1. CASE NeverStarted(j)
    BY <2>1
      DEF NeverStarted, Move, Goto, MonitorHeld, Publishing, LaunchPc, JobTypes, Thread, Job
  <2>2. CASE StartCarrier(j)
    BY <2>2
      DEF StartCarrier, Goto, Finish, GiveUp, MonitorHeld, Publishing, LaunchPc, JobTypes,
          Thread, Job
  <2>3. CASE CarrierSpawned(j)
    BY <2>3
      DEF CarrierSpawned, Move, Goto, MonitorHeld, Publishing, LaunchPc, JobTypes, Thread, Job
  <2>4. CASE CarrierFailed(j)
    BY <2>4
      DEF CarrierFailed, Goto, Finish, GiveUp, LeaveCarrier, MonitorHeld, Publishing, LaunchPc,
          JobTypes, Thread, Job
  <2>5. CASE CarrierStarted(j)
    BY <2>5
      DEF CarrierStarted, Goto, Finish, GiveUp, LeaveCarrier, MonitorHeld, Publishing,
          LaunchPc, JobTypes, Thread, Job
  <2> QED BY <1>4, <2>1, <2>2, <2>3, <2>4, <2>5
    DEF CarrierStep
<1>5. ASSUME NEW t \in Stopping, StopStep(t) PROVE MonitorHeld'
  <2>1. CASE NativeStop(t)
    BY <2>1
      DEF NativeStop, Goto, MonitorHeld, Publishing, LaunchPc, JobTypes, Thread, Job
  <2>2. CASE NativeFlags(t)
    BY <2>2
      DEF NativeFlags, Goto, MonitorHeld, Publishing, LaunchPc, JobTypes, Thread, Job
  <2>3. CASE NativeCleanup(t)
    BY <2>3
      DEF NativeCleanup, Goto, Finish, MonitorHeld, Publishing, LaunchPc, JobTypes, Thread, Job
  <2>4. CASE StopEverything(t)
    BY <2>4
      DEF StopEverything, Goto, Finish, MonitorHeld, Publishing, LaunchPc, JobTypes, Thread,
          Job
  <2>5. CASE StopStartup(t)
    BY <2>5
      DEF StopStartup, Goto, MonitorHeld, Publishing, LaunchPc, JobTypes, Thread, Job
  <2>6. CASE StopRecovery(t)
    BY <2>6
      DEF StopRecovery, Goto, MonitorHeld, Publishing, LaunchPc, JobTypes, Thread, Job
  <2>7. CASE StopFields(t)
    BY <2>7
      DEF StopFields, Goto, MonitorHeld, Publishing, LaunchPc, JobTypes, Thread, Job
  <2>8. CASE StopSupervisor(t)
    BY <2>8
      DEF StopSupervisor, Goto, MonitorHeld, Publishing, LaunchPc, JobTypes, Thread, Job
  <2>9. CASE StopTun(t)
    BY <2>9
      DEF StopTun, Goto, Finish, MonitorHeld, Publishing, LaunchPc, JobTypes, Thread, Job
  <2> QED BY <1>5, <2>1, <2>2, <2>3, <2>4, <2>5, <2>6, <2>7, <2>8, <2>9
    DEF StopStep
<1>6. ASSUME CoreStep PROVE MonitorHeld'
  <2>1. CASE UNCHANGED <<lock, pc>>
    BY <2>1 DEF MonitorHeld
  <2> QED BY <1>6, <2>1
    DEF CoreStep, CoreReady, CoreDrop, CoreRefused, CoreDies, CoreExitSeen, CoreUnchanged
<1>7. ASSUME NEW u \in Ui, UiStopInternal(u) PROVE MonitorHeld'
  BY <1>7
    DEF UiStopInternal, Move, Goto, MonitorHeld, Publishing, LaunchPc, JobTypes, Thread, Job
<1>8. CASE UNCHANGED <<lock, pc>>
  BY <1>8 DEF MonitorHeld
<1> QED BY <1>1, <1>2, <1>3, <1>4, <1>5, <1>6, <1>7, <1>8
  DEF Next, vars, OnStartCommand, MainStop, NetworkMoved, InternetChanges

-----------------------------------------------------------------------------
(* Stopping reaches the core. *)

\* A step that stops no stopper and neither begins a stop nor gives a stopped
\* service a core keeps StopReachesCore.
Harmless ==
    /\ alreadyStopping' => alreadyStopping
    /\ core'.running => core.running
    /\ core'.live => core.live \/ Launching
    /\ \A j \in Job : pc'[j] \in LaunchPc => pc[j] \in LaunchPc
    /\ mainPc = "stopCore" => mainPc' = "stopCore"
    /\ \A t \in Stopping : pc[t] \in BeforeStop => pc'[t] \in BeforeStop

LEMMA HarmlessKeeps == StopReachesCore /\ Harmless => StopReachesCore'
<1> SUFFICES ASSUME StopReachesCore, Harmless, alreadyStopping',
                    (core.running \/ core.live \/ Launching)'
             PROVE  mainPc' = "stopCore" \/ \E t \in Stopping : pc'[t] \in BeforeStop
  BY DEF StopReachesCore
<1>1. alreadyStopping /\ (core.running \/ core.live \/ Launching)
  BY DEF Harmless, Launching
<1>2. mainPc = "stopCore" \/ \E t \in Stopping : pc[t] \in BeforeStop
  BY <1>1 DEF StopReachesCore
<1> QED BY <1>2 DEF Harmless

\* The lock being free, no launch is under way, and the core is stopped.
LEMMA StopCoreReaches ==
    ASSUME TypeOK, MonitorHeld, StopCore, NEW label, label \notin LaunchPc,
           pc' = pc \/ \E t \in Thread : Goto(t, label)
    PROVE  StopReachesCore'
<1>1. \A j \in Job : pc[j] \notin LaunchPc
  BY DEF StopCore, MonitorHeld, Job
<1>2. \A j \in Job : pc'[j] \notin LaunchPc
  BY <1>1 DEF Goto, JobTypes, Thread
<1>3. ~core'.running /\ ~core'.live
  BY StoppedCoreType DEF StopCore
<1> QED BY <1>2, <1>3 DEF StopReachesCore, Launching

\* Every step keeps a stopper ahead of the core.
LEMMA StopReachesStep == TypeOK /\ MonitorHeld /\ StopReachesCore /\ [Next]_vars => StopReachesCore'
<1> SUFFICES ASSUME TypeOK, MonitorHeld, StopReachesCore, [Next]_vars PROVE StopReachesCore'
  OBVIOUS
<1> USE HarmlessKeeps DEF serviceVars, jobRefs, recoveryVars, jobVars, mainVars, coreVars, netVars, Stopping
<1>1. ASSUME MainStep PROVE StopReachesCore'
  <2>1. CASE MainStopCore
    <3>1. StopCore /\ pc' = pc
      BY <2>1 DEF MainStopCore
    <3> QED BY <3>1, StopCoreReaches DEF LaunchPc
  <2>2. CASE MainCloseTun
    BY <2>2
      DEF MainCloseTun, Harmless, MainGoto
  <2>3. CASE LaunchStartup
    BY <2>3
      DEF LaunchStartup, Harmless, Goto, JobTypes, Thread, Job, BeforeStop, LaunchPc, MainGoto
  <2>4. CASE CollectDisconnected
    BY <2>4, ScheduleRecoveryType
      DEF CollectDisconnected, Harmless
  <2>5. CASE NetworkCallback
    BY <2>5, UpdateUnderlyingNetworkType
      DEF NetworkCallback, Harmless
  <2>6. CASE MainStandby
    BY <2>6, EnterNetworkStandbyType
      DEF MainStandby, Harmless, CoreTypes, CoreState, MainGoto
  <2>7. CASE MainSchedule
    BY <2>7
      DEF MainSchedule, Harmless, MainGoto
  <2>8. CASE MainUnstandby
    BY <2>8
      DEF MainUnstandby, Harmless, MainGoto
  <2>9. CASE MainLaunch
    BY <2>9
      DEF MainLaunch, Harmless, Goto, JobTypes, Thread, Job, BeforeStop, LaunchPc
  <2>10. CASE MainDirect
    BY <2>10, ScheduleRecoveryType
      DEF MainDirect, Harmless, MainGoto
  <2>11. CASE MainRestore
    BY <2>11
      DEF MainRestore, Harmless, CoreTypes, CoreState, MainGoto
  <2>12. CASE UNCHANGED <<alreadyStopping, core, mainPc, pc>>
    BY <2>12 DEF Harmless
  <2> QED BY <1>1, <2>1, <2>2, <2>3, <2>4, <2>5, <2>6, <2>7, <2>8, <2>9, <2>10, <2>11, <2>12
    DEF MainStep, CollectConnected
<1>2. ASSUME NEW s \in Startup, StartupStep(s) PROVE StopReachesCore'
  <2>1. CASE StartupStopOld(s)
    BY <2>1
      DEF StartupStopOld, Move, Harmless, Goto, JobTypes, Thread, Job, BeforeStop, LaunchPc
  <2>2. CASE StartupConfigure(s)
    BY <2>2
      DEF StartupConfigure, Harmless, Goto, JobTypes, Thread, Job, BeforeStop, LaunchPc, Finish
  <2>3. CASE StartupPassFd(s)
    BY <2>3
      DEF StartupPassFd, Harmless, Goto, JobTypes, Thread, Job, BeforeStop, LaunchPc
  <2>4. CASE StartupAwait(s)
    BY <2>4
      DEF StartupAwait, Harmless, Goto, JobTypes, Thread, Job, BeforeStop, LaunchPc, Finish
  <2>5. CASE StartupPublish(s)
    BY <2>5
      DEF StartupPublish, Harmless, Goto, JobTypes, Thread, Job, BeforeStop, LaunchPc
  <2>6. CASE StartupNetCheck(s)
    BY <2>6
      DEF StartupNetCheck, Move, Harmless, Goto, JobTypes, Thread, Job, BeforeStop, LaunchPc
  <2>7. CASE StartupStandby(s)
    BY <2>7
      DEF StartupStandby, Harmless, Goto, JobTypes, Thread, Job, BeforeStop, LaunchPc
  <2>8. CASE StartupCancel(s)
    BY <2>8
      DEF StartupCancel, Harmless, Goto, JobTypes, Thread, Job, BeforeStop, LaunchPc
  <2>9. CASE StartupClear(s)
    BY <2>9
      DEF StartupClear, Harmless, Goto, JobTypes, Thread, Job, BeforeStop, LaunchPc
  <2>10. CASE StartupFence(s)
    BY <2>10, FencedCoreType
      DEF StartupFence, Harmless, Goto, JobTypes, Thread, Job, BeforeStop, LaunchPc, CoreTypes,
          CoreState
  <2>11. CASE StartupAnnounce(s)
    BY <2>11
      DEF StartupAnnounce, Harmless, Goto, JobTypes, Thread, Job, BeforeStop, LaunchPc, Finish
  <2> QED BY <1>2, <2>1, <2>2, <2>3, <2>4, <2>5, <2>6, <2>7, <2>8, <2>9, <2>10, <2>11
    DEF StartupStep
<1>3. ASSUME NEW r \in Recovery, RecoveryStep(r) PROVE StopReachesCore'
  <2>1. CASE RecoveryBegin(r)
    BY <2>1
      DEF RecoveryBegin, Harmless, Goto, JobTypes, Thread, Job, BeforeStop, LaunchPc
  <2>2. CASE RecoverySettle(r)
    BY <2>2
      DEF RecoverySettle, Harmless, Goto, JobTypes, Thread, Job, BeforeStop, LaunchPc, Finish
  <2>3. CASE RecoveryLoop(r)
    BY <2>3
      DEF RecoveryLoop, Harmless, Goto, JobTypes, Thread, Job, BeforeStop, LaunchPc
  <2>4. CASE RecoveryStandby(r)
    BY <2>4, EnterNetworkStandbyType
      DEF RecoveryStandby, Harmless, Goto, JobTypes, Thread, Job, BeforeStop, LaunchPc,
          CoreTypes, CoreState, Finish
  <2>5. CASE RecoveryPassFd(r)
    BY <2>5
      DEF RecoveryPassFd, Harmless, Goto, JobTypes, Thread, Job, BeforeStop, LaunchPc
  <2>6. CASE RecoveryAwait(r)
    BY <2>6
      DEF RecoveryAwait, Harmless, Goto, JobTypes, Thread, Job, BeforeStop, LaunchPc, Finish
  <2>7. CASE RecoveryVerdict(r)
    BY <2>7
      DEF RecoveryVerdict, Move, Harmless, Goto, JobTypes, Thread, Job, BeforeStop, LaunchPc
  <2>8. CASE RecoveryBackoff(r)
    BY <2>8
      DEF RecoveryBackoff, Harmless, Goto, JobTypes, Thread, Job, BeforeStop, LaunchPc, Finish
  <2>9. CASE RecoveryReturn(r)
    BY <2>9
      DEF RecoveryReturn, Harmless, Goto, JobTypes, Thread, Job, BeforeStop, LaunchPc, Finish
  <2> QED BY <1>3, <2>1, <2>2, <2>3, <2>4, <2>5, <2>6, <2>7, <2>8, <2>9
    DEF RecoveryStep
<1>4. ASSUME NEW j \in Job, CarrierStep(j) PROVE StopReachesCore'
  <2>1. CASE NeverStarted(j)
    BY <2>1
      DEF NeverStarted, Move, Harmless, Goto, JobTypes, Thread, Job, BeforeStop, LaunchPc
  <2>2. CASE StartCarrier(j)
    <3>1. CASE alreadyStopping
      BY <2>2, <3>1 DEF StartCarrier, Harmless, GiveUp, Finish, Goto, JobTypes, Thread, Job,
                       BeforeStop, LaunchPc
    <3>2. CASE ~alreadyStopping
      BY <2>2, <3>2 DEF StartCarrier, StopReachesCore
    <3> QED BY <3>1, <3>2
  <2>3. CASE CarrierSpawned(j)
    BY <2>3
      DEF CarrierSpawned, Move, Harmless, Goto, JobTypes, Thread, Job, BeforeStop, LaunchPc
  <2>4. CASE CarrierFailed(j)
    <3>1. core'.running => core.running
      BY <2>4 DEF CarrierFailed, CoreTypes, CoreState
    <3>2. core'.live => core.live \/ Launching
      BY <2>4 DEF CarrierFailed, CoreTypes, CoreState, Launching, LaunchPc
    <3>3. \E label : label \notin LaunchPc /\ Goto(j, label)
      BY <2>4 DEF CarrierFailed, LeaveCarrier, GiveUp, Finish, LaunchPc
    <3>4. pc[j] \notin BeforeStop
      BY <2>4 DEF CarrierFailed, LaunchPc, BeforeStop
    <3> QED BY <2>4, <3>1, <3>2, <3>3, <3>4 DEF CarrierFailed, Harmless, Goto, JobTypes, Thread, Job
  <2>5. CASE CarrierStarted(j)
    <3>1. core'.running => core.running
      BY <2>5 DEF CarrierStarted, CoreTypes, CoreState
    <3>2. core'.live => core.live \/ Launching
      BY <2>5 DEF CarrierStarted, CoreTypes, CoreState, Launching, LaunchPc
    <3>3. \E label : label \notin LaunchPc /\ Goto(j, label)
      BY <2>5 DEF CarrierStarted, LeaveCarrier, GiveUp, Finish, LaunchPc
    <3>4. pc[j] \notin BeforeStop
      BY <2>5 DEF CarrierStarted, LaunchPc, BeforeStop
    <3> QED BY <2>5, <3>1, <3>2, <3>3, <3>4 DEF CarrierStarted, Harmless, Goto, JobTypes, Thread, Job
  <2> QED BY <1>4, <2>1, <2>2, <2>3, <2>4, <2>5
    DEF CarrierStep
<1>5. ASSUME NEW t \in Stopping, StopStep(t) PROVE StopReachesCore'
  <2>1. CASE NativeStop(t)
    BY <2>1
      DEF NativeStop, Harmless, Goto, JobTypes, Thread, Job, BeforeStop, LaunchPc, CoreTypes,
          CoreState
  <2>2. CASE NativeFlags(t)
    BY <2>2
      DEF NativeFlags, Harmless, Goto, JobTypes, Thread, Job, BeforeStop, LaunchPc, CoreTypes,
          CoreState
  <2>3. CASE NativeCleanup(t)
    BY ZenonT(60), <2>3
      DEF NativeCleanup, Harmless, Goto, JobTypes, Thread, Job, BeforeStop, LaunchPc,
          CoreTypes, CoreState, Finish
  <2>4. CASE StopEverything(t)
    <3>1. CASE alreadyStopping
      BY <2>4, <3>1 DEF StopEverything, Harmless, Finish, Goto, JobTypes, Thread, Job, BeforeStop,
                       LaunchPc
    <3>2. CASE ~alreadyStopping
      <4>1. pc'[t] = "stopStartup"
        BY <2>4, <3>2 DEF StopEverything, Goto, JobTypes, Thread, Job
      <4> QED BY <4>1 DEF StopReachesCore, BeforeStop
    <3> QED BY <3>1, <3>2
  <2>5. CASE StopStartup(t)
    BY <2>5
      DEF StopStartup, Harmless, Goto, JobTypes, Thread, Job, BeforeStop, LaunchPc
  <2>6. CASE StopRecovery(t)
    BY <2>6
      DEF StopRecovery, Harmless, Goto, JobTypes, Thread, Job, BeforeStop, LaunchPc
  <2>7. CASE StopFields(t)
    BY <2>7
      DEF StopFields, Harmless, Goto, JobTypes, Thread, Job, BeforeStop, LaunchPc
  <2>8. CASE StopSupervisor(t)
    <3>1. StopCore /\ Goto(t, "closeTun") /\ t \in Thread
      BY <2>8 DEF StopSupervisor, Thread, Job
    <3>2. "closeTun" \notin LaunchPc
      BY DEF LaunchPc
    <3> QED BY <3>1, <3>2, StopCoreReaches
  <2>9. CASE StopTun(t)
    BY <2>9
      DEF StopTun, Harmless, Goto, JobTypes, Thread, Job, BeforeStop, LaunchPc, Finish
  <2> QED BY <1>5, <2>1, <2>2, <2>3, <2>4, <2>5, <2>6, <2>7, <2>8, <2>9
    DEF StopStep
<1>6. ASSUME CoreStep PROVE StopReachesCore'
  <2>1. CASE CoreReady
    BY <2>1
      DEF CoreReady, Harmless, CoreTypes, CoreState, CoreUnchanged
  <2>2. CASE CoreDrop
    BY <2>2
      DEF CoreDrop, Harmless, CoreTypes, CoreState, CoreUnchanged
  <2>3. CASE CoreRefused
    BY <2>3
      DEF CoreRefused, Harmless, CoreTypes, CoreState, CoreUnchanged
  <2>4. CASE CoreDies
    BY <2>4
      DEF CoreDies, Harmless, CoreTypes, CoreState, CoreUnchanged
  <2>5. CASE CoreExitSeen
    BY <2>5
      DEF CoreExitSeen, Harmless, CoreTypes, CoreState, CoreUnchanged
  <2> QED BY <1>6, <2>1, <2>2, <2>3, <2>4, <2>5
    DEF CoreStep
<1>7. ASSUME OnStartCommand PROVE StopReachesCore'
  BY <1>7
    DEF OnStartCommand, StopReachesCore
<1>8. ASSUME MainStop PROVE StopReachesCore'
  BY <1>8
    DEF MainStop, StopReachesCore, MainGoto
<1>9. ASSUME NetworkMoved PROVE StopReachesCore'
  BY <1>9, UpdateUnderlyingNetworkType
    DEF NetworkMoved, Harmless
<1>10. ASSUME NEW u \in Ui, UiStopInternal(u) PROVE StopReachesCore'
  BY <1>10
    DEF UiStopInternal, Move, Harmless, Goto, JobTypes, Thread, Job, BeforeStop, LaunchPc
<1>11. CASE UNCHANGED <<alreadyStopping, core, mainPc, pc>>
  BY <1>11 DEF Harmless
<1> QED BY <1>1, <1>2, <1>3, <1>4, <1>5, <1>6, <1>7, <1>8, <1>9, <1>10, <1>11
  DEF Next, vars, InternetChanges

\* stopEverything never leaves a core behind, whatever it interrupts: for any number
\* of start intents, recoveries and stops, a core that runs or is being launched
\* while the service stops still has a thread ahead of it that will stop it
\* (SocksVpnService.kt 143-147, 554-580).
THEOREM StopReaches == Spec => []StopReachesCore
<1>1. Init => MonitorHeld /\ StopReachesCore
  BY DEF Init, MonitorHeld, StopReachesCore, Launching, LaunchPc, Publishing, NoCore, Thread, Job
<1> QED BY <1>1, MonitorHeldStep, StopReachesStep, TypeCorrect, PTL DEF Spec

-----------------------------------------------------------------------------
(* Recovery coroutines. *)

\* A thread is about to clear reconnectJob, or the main thread to launch a recovery
\* that has passed the isActive test.
MayCross == Clearing \/ mainPc \in {"unstandby", "launch"}

\* OneRecovery, and what makes it inductive: where the field is about to change, no
\* active recovery depends on it.
RecoveryPart ==
    /\ OneRecovery
    /\ MayCross => \A r \in Recovery : active[r] => r \in crossed

\* A step that launches no recovery and leaves the field alone.
Calm ==
    /\ reconnectJob' = reconnectJob /\ crossed' = crossed
    /\ \A r \in Recovery : active'[r] => active[r]
    /\ MayCross' => MayCross

LEMMA CalmKeeps == RecoveryPart /\ Calm => RecoveryPart'
BY DEF Calm, RecoveryPart, OneRecovery

\* A step that cancels the recovery in the field.
Cancels ==
    /\ reconnectJob' \in {reconnectJob, None} /\ crossed' = crossed
    /\ \A r \in Recovery : active'[r] => active[r] /\ r # reconnectJob

LEMMA CancelsKeeps == RecoveryPart /\ Cancels => RecoveryPart'
BY DEF Cancels, RecoveryPart, OneRecovery

\* MainLaunch alone makes a recovery active; a cancelled recovery stays cancelled.
LEMMA CancelOnly ==
    ASSUME NEW jobs, active' = Cancel(jobs), NEW r \in Recovery, active'[r]
    PROVE  active[r] /\ r \notin jobs
BY DEF Cancel, Job

\* Every step keeps the active recoveries in the field, or among the crossed ones.
LEMMA RecoveryPartStep == TypeOK /\ RecoveryPart /\ [Next]_vars => RecoveryPart'
<1> SUFFICES ASSUME TypeOK, RecoveryPart, [Next]_vars PROVE RecoveryPart'
  OBVIOUS
<1> USE CalmKeeps, CancelsKeeps DEF serviceVars, jobRefs, recoveryVars, jobVars, mainVars, coreVars, netVars, Stopping
<1>1. ASSUME MainStep PROVE RecoveryPart'
  <2>1. CASE MainStopCore
    BY <2>1
      DEF MainStopCore, Calm, MayCross, Clearing, MainGoto
  <2>2. CASE MainCloseTun
    BY <2>2
      DEF MainCloseTun, Calm, MayCross, Clearing, MainGoto
  <2>3. CASE LaunchStartup
    <3>1. PICK s \in Startup :
            Goto(s, "stopOld") /\ active' = [Cancel({startupJob}) EXCEPT ![s] = TRUE]
      BY <2>3 DEF LaunchStartup
    <3>2. \A r \in Recovery : active'[r] => active[r]
      BY <3>1 DEF Cancel, Job
    <3>3. MayCross' => MayCross
      BY <2>3, <3>1 DEF LaunchStartup, MainGoto, MayCross, Clearing, Goto, JobTypes, Thread, Job
    <3> QED BY <2>3, <3>2, <3>3 DEF LaunchStartup, Calm
  <2>4. CASE CollectDisconnected
    <3>1. CASE core.rejected
      BY <2>4, <3>1, CancelOnly DEF CollectDisconnected, Cancels
    <3>2. CASE ~core.rejected
      BY <2>4, <3>2, ScheduleRecoveryType DEF CollectDisconnected, Calm, MayCross, Clearing
    <3> QED BY <3>1, <3>2
  <2>5. CASE NetworkCallback
    BY <2>5, UpdateUnderlyingNetworkType
      DEF NetworkCallback, Calm, MayCross, Clearing
  <2>6. CASE MainStandby
    <3>1. CASE isNetworkStandby
      BY <2>6, <3>1 DEF MainStandby, EnterNetworkStandby, MainGoto, Calm, MayCross, Clearing
    <3>2. CASE ~isNetworkStandby
      BY <2>6, <3>2, CancelOnly DEF MainStandby, EnterNetworkStandby, Cancels
    <3> QED BY <3>1, <3>2
  <2>7. CASE MainSchedule
    <3>1. CASE RecoveryActive
      BY <2>7, <3>1 DEF MainSchedule, Calm, MayCross, Clearing
    <3>2. CASE ~RecoveryActive
      <4>1. \A r \in Recovery : active[r] => r \in crossed
        BY <3>2 DEF RecoveryActive, RecoveryPart, OneRecovery
      <4> QED BY <2>7, <4>1 DEF MainSchedule, RecoveryPart, OneRecovery
    <3> QED BY <3>1, <3>2
  <2>8. CASE MainUnstandby
    BY <2>8
      DEF MainUnstandby, Calm, MayCross, Clearing, MainGoto
  <2>9. CASE MainLaunch
    <3>1. PICK r \in Recovery :
            /\ reconnectJob' = r /\ Goto(r, "begin")
            /\ active' = [active EXCEPT ![r] = TRUE]
            /\ crossed' = IF Clearing THEN crossed \cup {r} ELSE crossed \ {r}
      BY <2>9 DEF MainLaunch
    <3>2. \A q \in Recovery : active[q] => q \in crossed
      BY <2>9 DEF MainLaunch, RecoveryPart, MayCross
    <3>3. \A q \in Recovery \ {r} : active'[q] => q \in crossed'
      BY <3>1, <3>2 DEF JobTypes, Job
    <3>4. MayCross' => Clearing
      BY <2>9, <3>1 DEF MainLaunch, MayCross, Clearing, Goto, JobTypes, Thread, Job
    <3>5. Clearing => r \in crossed'
      BY <3>1
    <3> QED BY <3>1, <3>3, <3>4, <3>5 DEF RecoveryPart, OneRecovery
  <2>10. CASE MainDirect
    BY <2>10, ScheduleRecoveryType
      DEF MainDirect, Calm, MayCross, Clearing, MainGoto
  <2>11. CASE MainRestore
    BY <2>11
      DEF MainRestore, Calm, MayCross, Clearing, MainGoto
  <2>12. CASE UNCHANGED <<active, crossed, mainPc, pc, reconnectJob>>
    BY <2>12 DEF Calm, MayCross, Clearing
  <2> QED BY <1>1, <2>1, <2>2, <2>3, <2>4, <2>5, <2>6, <2>7, <2>8, <2>9, <2>10, <2>11, <2>12
    DEF MainStep, CollectConnected
<1>2. ASSUME NEW s \in Startup, StartupStep(s) PROVE RecoveryPart'
  <2>1. CASE StartupStopOld(s)
    BY <2>1
      DEF StartupStopOld, Move, Calm, MayCross, Clearing, Goto, JobTypes, Thread, Job
  <2>2. CASE StartupConfigure(s)
    BY <2>2, CancelOnly
      DEF StartupConfigure, Calm, MayCross, Clearing, Goto, JobTypes, Thread, Job, Finish
  <2>3. CASE StartupPassFd(s)
    BY <2>3
      DEF StartupPassFd, Calm, MayCross, Clearing, Goto, JobTypes, Thread, Job
  <2>4. CASE StartupAwait(s)
    BY <2>4, CancelOnly
      DEF StartupAwait, Calm, MayCross, Clearing, Goto, JobTypes, Thread, Job, Finish
  <2>5. CASE StartupPublish(s)
    BY <2>5
      DEF StartupPublish, Calm, MayCross, Clearing, Goto, JobTypes, Thread, Job
  <2>6. CASE StartupNetCheck(s)
    BY <2>6
      DEF StartupNetCheck, Move, Calm, MayCross, Clearing, Goto, JobTypes, Thread, Job
  <2>7. CASE StartupStandby(s)
    BY <2>7
      DEF StartupStandby, Calm, MayCross, Clearing, Goto, JobTypes, Thread, Job
  <2>8. CASE StartupCancel(s)
    BY <2>8, CancelOnly
      DEF StartupCancel, Cancels
  <2>9. CASE StartupClear(s)
    <3>1. \A r \in Recovery : active[r] => r \in crossed
      BY <2>9 DEF StartupClear, RecoveryPart, MayCross, Clearing
    <3> QED BY <2>9, <3>1 DEF StartupClear, RecoveryPart, OneRecovery
  <2>10. CASE StartupFence(s)
    BY <2>10
      DEF StartupFence, Calm, MayCross, Clearing, Goto, JobTypes, Thread, Job
  <2>11. CASE StartupAnnounce(s)
    BY <2>11, CancelOnly
      DEF StartupAnnounce, Calm, MayCross, Clearing, Goto, JobTypes, Thread, Job, Finish
  <2> QED BY <1>2, <2>1, <2>2, <2>3, <2>4, <2>5, <2>6, <2>7, <2>8, <2>9, <2>10, <2>11
    DEF StartupStep
<1>3. ASSUME NEW r \in Recovery, RecoveryStep(r) PROVE RecoveryPart'
  <2>1. CASE RecoveryBegin(r)
    BY <2>1
      DEF RecoveryBegin, Calm, MayCross, Clearing, Goto, JobTypes, Thread, Job
  <2>2. CASE RecoverySettle(r)
    BY <2>2, CancelOnly
      DEF RecoverySettle, Calm, MayCross, Clearing, Goto, JobTypes, Thread, Job, Finish
  <2>3. CASE RecoveryLoop(r)
    BY <2>3
      DEF RecoveryLoop, Calm, MayCross, Clearing, Goto, JobTypes, Thread, Job
  <2>4. CASE RecoveryStandby(r)
    <3>1. CASE ~active[r] \/ isNetworkStandby
      BY <2>4, <3>1, CancelOnly DEF RecoveryStandby, EnterNetworkStandby, Finish, Calm, MayCross,
         Clearing, Goto, JobTypes, Thread, Job
    <3>2. CASE active[r] /\ ~isNetworkStandby
      BY <2>4, <3>2, CancelOnly DEF RecoveryStandby, EnterNetworkStandby, Cancels
    <3> QED BY <3>1, <3>2
  <2>5. CASE RecoveryPassFd(r)
    BY <2>5
      DEF RecoveryPassFd, Calm, MayCross, Clearing, Goto, JobTypes, Thread, Job
  <2>6. CASE RecoveryAwait(r)
    BY <2>6, CancelOnly
      DEF RecoveryAwait, Calm, MayCross, Clearing, Goto, JobTypes, Thread, Job, Finish
  <2>7. CASE RecoveryVerdict(r)
    BY <2>7
      DEF RecoveryVerdict, Move, Calm, MayCross, Clearing, Goto, JobTypes, Thread, Job
  <2>8. CASE RecoveryBackoff(r)
    BY <2>8, CancelOnly
      DEF RecoveryBackoff, Calm, MayCross, Clearing, Goto, JobTypes, Thread, Job, Finish
  <2>9. CASE RecoveryReturn(r)
    BY <2>9, CancelOnly
      DEF RecoveryReturn, Calm, MayCross, Clearing, Goto, JobTypes, Thread, Job, Finish
  <2> QED BY <1>3, <2>1, <2>2, <2>3, <2>4, <2>5, <2>6, <2>7, <2>8, <2>9
    DEF RecoveryStep
<1>4. ASSUME NEW j \in Job, CarrierStep(j) PROVE RecoveryPart'
  <2>1. CASE NeverStarted(j)
    BY <2>1
      DEF NeverStarted, Move, Calm, MayCross, Clearing, Goto, JobTypes, Thread, Job
  <2>2. CASE StartCarrier(j)
    BY <2>2, CancelOnly
      DEF StartCarrier, Calm, MayCross, Clearing, Goto, JobTypes, Thread, Job, Finish, GiveUp
  <2>3. CASE CarrierSpawned(j)
    BY <2>3
      DEF CarrierSpawned, Move, Calm, MayCross, Clearing, Goto, JobTypes, Thread, Job
  <2>4. CASE CarrierFailed(j)
    BY <2>4, CancelOnly
      DEF CarrierFailed, Calm, MayCross, Clearing, Goto, JobTypes, Thread, Job, Finish, GiveUp,
          LeaveCarrier, LaunchPc
  <2>5. CASE CarrierStarted(j)
    BY <2>5, CancelOnly
      DEF CarrierStarted, Calm, MayCross, Clearing, Goto, JobTypes, Thread, Job, Finish,
          GiveUp, LeaveCarrier, LaunchPc
  <2> QED BY <1>4, <2>1, <2>2, <2>3, <2>4, <2>5
    DEF CarrierStep
<1>5. ASSUME NEW t \in Stopping, StopStep(t) PROVE RecoveryPart'
  <2>1. CASE NativeStop(t)
    BY <2>1
      DEF NativeStop, Calm, MayCross, Clearing, Goto, JobTypes, Thread, Job
  <2>2. CASE NativeFlags(t)
    BY <2>2
      DEF NativeFlags, Calm, MayCross, Clearing, Goto, JobTypes, Thread, Job
  <2>3. CASE NativeCleanup(t)
    BY <2>3, CancelOnly
      DEF NativeCleanup, Calm, MayCross, Clearing, Goto, JobTypes, Thread, Job, Finish
  <2>4. CASE StopEverything(t)
    BY <2>4, CancelOnly
      DEF StopEverything, Calm, MayCross, Clearing, Goto, JobTypes, Thread, Job, Finish
  <2>5. CASE StopStartup(t)
    BY <2>5, CancelOnly
      DEF StopStartup, Calm, MayCross, Clearing, Goto, JobTypes, Thread, Job
  <2>6. CASE StopRecovery(t)
    BY <2>6, CancelOnly
      DEF StopRecovery, Cancels
  <2>7. CASE StopFields(t)
    <3>1. \A r \in Recovery : active[r] => r \in crossed
      BY <2>7 DEF StopFields, RecoveryPart, MayCross, Clearing
    <3> QED BY <2>7, <3>1 DEF StopFields, RecoveryPart, OneRecovery
  <2>8. CASE StopSupervisor(t)
    BY <2>8
      DEF StopSupervisor, Calm, MayCross, Clearing, Goto, JobTypes, Thread, Job
  <2>9. CASE StopTun(t)
    BY <2>9, CancelOnly
      DEF StopTun, Calm, MayCross, Clearing, Goto, JobTypes, Thread, Job, Finish
  <2> QED BY <1>5, <2>1, <2>2, <2>3, <2>4, <2>5, <2>6, <2>7, <2>8, <2>9
    DEF StopStep
<1>6. ASSUME CoreStep PROVE RecoveryPart'
  <2>1. CASE UNCHANGED <<active, crossed, mainPc, pc, reconnectJob>>
    BY <2>1 DEF Calm, MayCross, Clearing
  <2> QED BY <1>6, <2>1
    DEF CoreStep, CoreReady, CoreDrop, CoreRefused, CoreDies, CoreExitSeen, CoreUnchanged
<1>7. ASSUME OnStartCommand PROVE RecoveryPart'
  BY <1>7, CancelOnly
    DEF OnStartCommand, Cancels
<1>8. ASSUME MainStop PROVE RecoveryPart'
  BY <1>8, CancelOnly
    DEF MainStop, Cancels
<1>9. ASSUME NetworkMoved PROVE RecoveryPart'
  BY <1>9, UpdateUnderlyingNetworkType
    DEF NetworkMoved, Calm, MayCross, Clearing
<1>10. ASSUME NEW u \in Ui, UiStopInternal(u) PROVE RecoveryPart'
  BY <1>10
    DEF UiStopInternal, Move, Calm, MayCross, Clearing, Goto, JobTypes, Thread, Job
<1>11. CASE UNCHANGED <<active, crossed, mainPc, pc, reconnectJob>>
  BY <1>11 DEF Calm, MayCross, Clearing
<1> QED BY <1>1, <1>2, <1>3, <1>4, <1>5, <1>6, <1>7, <1>8, <1>9, <1>10, <1>11
  DEF Next, vars, InternetChanges

\* For any number of recoveries, start intents and stops, a recovery that may still
\* restart the carrier is the one in reconnectJob, unless it was launched (100)
\* while another thread was between its cancel and its null of the field
\* (SocksVpnService.kt 77-78, 564-565): those two windows are the only way for
\* recoveries to run in parallel.
THEOREM RecoveriesDoNotCompete == Spec => []OneRecovery
<1>1. Init => RecoveryPart
  BY DEF Init, RecoveryPart, OneRecovery, MayCross, Clearing, Job, Stopping, Thread
<1>2. RecoveryPart => OneRecovery
  BY DEF RecoveryPart
<1> QED BY <1>1, <1>2, RecoveryPartStep, TypeCorrect, PTL DEF Spec

=============================================================================
