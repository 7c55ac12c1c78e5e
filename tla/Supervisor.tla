------------------------------ MODULE Supervisor ------------------------------
(***************************************************************************)
(* NativeProcessSupervisor: launches the native core, follows its stdout,  *)
(* and publishes its state in ClientChannel (ChannelConnectionState), in   *)
(* LocalSocksSession and in the administrative carrier.                    *)
(*                                                                         *)
(* Threads: the callers of start() and stop(); one stdout reader per       *)
(* launched process; the main looper, which runs the delayed runnables.    *)
(* None of them holds a lock inside the supervisor, so a test of shared    *)
(* state and the step that relies on it are separate actions.  Guarded are *)
(* the callers that hold their service's monitor around the whole call:    *)
(* startCarrier and stopEverything of SocksVpnService.  Its binder, its    *)
(* startup coroutine's stop() before a reconfiguration and                 *)
(* LibreRouteProxyService hold none.                                       *)
(*                                                                         *)
(* The transport events of the same handlers are modelled by VpnService,   *)
(* their reader; the counters of ProxyRoutingStatus are display only.      *)
(***************************************************************************)
EXTENDS Naturals, FiniteSets

CONSTANTS
    Starters,    \* threads that call start()
    Stoppers,    \* threads that call stop()
    Guarded,     \* those of them that call inside the service's monitor
    Flexible,    \* TRUE in the RULES proxy mode, whose listener outlives a drop
    FreshSession,\* whether a start may come with a new SOCKS session, or reuse it
    MaxLaunch,   \* bound on launches
    MaxCalls,    \* bound on calls of start() and stop()
    MaxLines,    \* bound on the stdout lines that are handled
    MaxNet       \* bound on physical outages

ASSUME SupervisorAssumption ==
    /\ Guarded \subseteq Starters \cup Stoppers /\ Flexible \in BOOLEAN
    /\ FreshSession \subseteq BOOLEAN /\ FreshSession # {}
    /\ MaxLaunch \in Nat /\ MaxCalls \in Nat /\ MaxLines \in Nat /\ MaxNet \in Nat
    /\ "nobody" \notin Starters \cup Stoppers

Caller == Starters \cup Stoppers
Instance == 1..MaxLaunch            \* launches, in order; 0 is no instance

VARIABLES
    lock, pc, back, mine, myGen,    \* callers: monitor, position, return point, launch
    calls, lines, outages,          \* used budgets
    shuttingDown, running, connected, launchGeneration,
    rejectedSession,
    currentInstance, process,
    delayedConnect, gracePeriod,    \* the posted runnables, by instance
    launched,                       \* number of instances so far
    alive, cancelled, held, session,\* per instance: process, isCancelled, its engines,
                                    \* route file and app server, its SOCKS session
    reader,                         \* per instance: position of its stdout reader
    looper,                         \* main looper: position and instance
    channel,                        \* ClientChannel.state
    currentSession, readySession,   \* LocalSocksSession
    carrier, carrierPath,           \* activeAdminCarrier, currentAdminCarrierPath
    confirmed, restored,            \* history: instances that reported readiness, and
                                    \* those localNetworkRestored() made ready
    exposed                         \* history: instances that met another call in the
                                    \* window between their last check and begin()

callerVars == <<lock, pc, back, mine, myGen, calls, exposed>>
flagVars == <<shuttingDown, running, connected, launchGeneration, rejectedSession>>
fieldVars == <<currentInstance, process, delayedConnect, gracePeriod>>
instVars == <<launched, alive, cancelled, held, session>>
readerVars == <<reader, lines>>
readyVars == <<confirmed, restored>>
sessionVars == <<currentSession, readySession>>
carrierVars == <<carrier, carrierPath>>
vars == <<callerVars, flagVars, fieldVars, instVars, readerVars, looper, channel,
          sessionVars, carrierVars, readyVars, outages>>

MaybeInstance == Instance \cup {0}

CallerPc == {"idle", "check", "flags", "prepare", "launch", "recheck", "publish", "begin",
             "attach", "fail", "stopFlags", "stopCancel", "stopDetach", "stopDestroy",
             "stopClear", "stopProcess"}
ConnectPc == {"check", "set", "proxy", "mark", "publish"}
ReaderPc == {"none", "read", "listener", "drop", "dropped", "fatal", "reject", "ready",
             "final", "release", "wait", "exit", "done"} \cup ConnectPc
ChannelState == [owner: MaybeInstance, running: BOOLEAN, ready: BOOLEAN, rejected: BOOLEAN,
                 waitingForNetwork: BOOLEAN, rtt: BOOLEAN]
NoChannel == [owner |-> 0, running |-> FALSE, ready |-> FALSE, rejected |-> FALSE,
              waitingForNetwork |-> FALSE, rtt |-> FALSE]

TypeOK ==
    /\ calls \in 0..MaxCalls /\ lines \in 0..MaxLines /\ outages \in 0..MaxNet
    /\ lock \in Caller \cup {"nobody"}
    /\ pc \in [Caller -> CallerPc] /\ back \in [Caller -> {"flags", "idle"}]
    /\ mine \in [Caller -> MaybeInstance] /\ myGen \in [Caller -> Nat]
    /\ {shuttingDown, running, connected} \subseteq BOOLEAN
    /\ launchGeneration \in Nat
    /\ {rejectedSession, currentInstance, process, delayedConnect, gracePeriod, launched,
        currentSession, readySession, carrierPath} \subseteq MaybeInstance
    /\ {alive, cancelled, held} \subseteq [Instance -> BOOLEAN]
    /\ session \in [Instance -> MaybeInstance]
    /\ reader \in [Instance -> ReaderPc]
    /\ looper \in [at: {"idle", "dead"} \cup ConnectPc, inst: MaybeInstance]
    /\ channel \in ChannelState
    /\ carrier \in [path: MaybeInstance, ready: BOOLEAN]
    /\ {confirmed, restored, exposed} \subseteq SUBSET Instance

Init ==
    /\ calls = 0 /\ lines = 0 /\ outages = 0
    /\ lock = "nobody" /\ pc = [c \in Caller |-> "idle"] /\ back = [c \in Caller |-> "idle"]
    /\ mine = [c \in Caller |-> 0] /\ myGen = [c \in Caller |-> 0]
    /\ shuttingDown = FALSE /\ running = FALSE /\ connected = FALSE
    /\ launchGeneration = 0 /\ rejectedSession = 0
    /\ currentInstance = 0 /\ process = 0 /\ delayedConnect = 0 /\ gracePeriod = 0
    /\ launched = 0
    /\ alive = [i \in Instance |-> FALSE] /\ cancelled = [i \in Instance |-> FALSE]
    /\ held = [i \in Instance |-> FALSE] /\ session = [i \in Instance |-> 0]
    /\ reader = [i \in Instance |-> "none"] /\ looper = [at |-> "idle", inst |-> 0]
    /\ channel = NoChannel
    /\ currentSession = 0 /\ readySession = 0
    /\ carrier = [path |-> 0, ready |-> FALSE] /\ carrierPath = 0
    /\ confirmed = {} /\ restored = {} /\ exposed = {}
-----------------------------------------------------------------------------
(* ChannelConnectionState: every update carries the token of its instance. *)

ChannelBegin(i) == channel' = [NoChannel EXCEPT !.owner = i, !.running = TRUE]

\* Mutant: any instance speaks for the channel.
ChannelReadyAnyOwner(i, ready, rejected) ==
    channel' = IF ready /\ channel.waitingForNetwork THEN channel
               ELSE [channel EXCEPT !.ready = ready, !.rejected = rejected,
                                    !.rtt = @ /\ ready]

ChannelReady(i, ready, rejected) ==
    channel' = IF channel.owner # i \/ (ready /\ channel.waitingForNetwork) THEN channel
               ELSE [channel EXCEPT !.ready = ready, !.rejected = rejected,
                                    !.rtt = @ /\ ready]

ChannelNetworkLost(i) ==
    channel' = IF channel.owner # i THEN channel
               ELSE [channel EXCEPT !.ready = FALSE, !.waitingForNetwork = TRUE, !.rtt = FALSE]

ChannelLocalNetworkRestored(i) ==
    channel' = IF channel.owner # i THEN channel
               ELSE [channel EXCEPT !.waitingForNetwork = FALSE, !.ready = TRUE]

\* Mutant: a sample counts while the channel is not ready.
ChannelSampleAlways(i) ==
    channel' = IF channel.owner # i THEN channel ELSE [channel EXCEPT !.rtt = TRUE]

ChannelSample(i) ==
    channel' = IF channel.owner # i \/ ~channel.ready THEN channel
               ELSE [channel EXCEPT !.rtt = TRUE]

\* Mutant: the end of an instance leaves its channel.
ChannelEndKeeps(i) == UNCHANGED channel

ChannelEnd(i) == channel' = IF channel.owner # i THEN channel ELSE NoChannel
-----------------------------------------------------------------------------
(* The other published state. *)

\* Mutant: whichever session is current is marked.
MarkCurrentSession(i) == readySession' = currentSession

\* setLocalProxyReady(instance, true) once its test has passed.
MarkLocalProxyReady(i) ==
    readySession' = IF session[i] = currentSession THEN session[i] ELSE readySession

\* setLocalProxyReady(instance, false)
ClearLocalProxyReady(i) ==
    readySession' = IF readySession = session[i] /\ session[i] = currentSession
                    THEN 0 ELSE readySession

\* No token here: whoever calls it speaks for the carrier of the current path.
SetAdminCarrierReady(ready) ==
    carrier' = IF carrier.path # 0 /\ carrier.path = carrierPath
               THEN [carrier EXCEPT !.ready = ready] ELSE carrier
-----------------------------------------------------------------------------
(* start() and spawn() *)

\* From the last checkLaunchActive to ClientChannel.state.begin.
Window == {"publish", "begin"}

\* Where another call may take what is published in the window for its own: a
\* stop() past its flags, a start() that has found no core or is in the window too.
InTheWay == {"stopCancel", "stopDetach", "stopDestroy", "stopClear", "stopProcess", "flags"}
            \cup Window

Goto(c, label) ==
    /\ pc' = [pc EXCEPT ![c] = label]
    /\ exposed' = exposed \cup
          {mine[d] : d \in {e \in Caller :
              pc'[e] \in Window /\ \E f \in Caller \ {e} : pc'[f] \in InTheWay}}

Return(c) == Goto(c, "idle") /\ lock' = IF c \in Guarded THEN "nobody" ELSE lock

EnterMonitor(c) ==
    /\ c \in Guarded => lock = "nobody"
    /\ lock' = IF c \in Guarded THEN c ELSE lock

LaunchActive(c) == ~shuttingDown /\ launchGeneration = myGen[c]

CallStart(c) ==
    /\ c \in Starters /\ pc[c] = "idle"
    /\ calls < MaxCalls /\ calls' = calls + 1 /\ launched < MaxLaunch
    /\ EnterMonitor(c)
    /\ \E fresh \in FreshSession :
          currentSession' = IF fresh \/ currentSession = 0 THEN launched + 1 ELSE currentSession
    /\ Goto(c, "check")
    /\ UNCHANGED <<back, mine, myGen, flagVars, fieldVars, instVars, readerVars, looper,
                   channel, readySession, carrierVars, readyVars, outages>>

\* Mutant: the running core is not stopped first.
StartCheckSkipsStop(c) ==
    /\ pc[c] = "check" /\ Goto(c, "flags")
    /\ UNCHANGED <<lock, back, mine, myGen, calls, flagVars, fieldVars, instVars, readerVars,
                   looper, channel, sessionVars, carrierVars, readyVars, outages>>

StartCheck(c) ==
    /\ pc[c] = "check"
    /\ IF (process # 0 /\ alive[process]) \/ running
       THEN Goto(c, "stopFlags") /\ back' = [back EXCEPT ![c] = "flags"]
       ELSE Goto(c, "flags") /\ UNCHANGED back
    /\ UNCHANGED <<lock, mine, myGen, calls, flagVars, fieldVars, instVars, readerVars,
                   looper, channel, sessionVars, carrierVars, readyVars, outages>>

StartFlags(c) ==
    /\ pc[c] = "flags"
    /\ shuttingDown' = FALSE /\ running' = TRUE /\ connected' = FALSE /\ rejectedSession' = 0
    /\ launchGeneration' = launchGeneration + 1
    /\ myGen' = [myGen EXCEPT ![c] = launchGeneration + 1]
    /\ Goto(c, "prepare")
    /\ UNCHANGED <<lock, back, mine, calls, fieldVars, instVars, readerVars, looper, channel,
                   sessionVars, carrierVars, readyVars, outages>>

\* Options, zapret engines, app route server, route file: an exception or a
\* cancelled launch on the way leaves for the catch block.
Prepare(c) ==
    LET i == launched + 1 IN
    /\ pc[c] = "prepare" /\ launched < MaxLaunch
    /\ launched' = i
    /\ mine' = [mine EXCEPT ![c] = i]
    /\ held' = [held EXCEPT ![i] = TRUE]
    /\ session' = [session EXCEPT ![i] = currentSession]
    /\ \/ /\ LaunchActive(c)
          /\ carrierPath' = i
          /\ Goto(c, "launch")
       \/ /\ Goto(c, "fail")
          /\ UNCHANGED carrierPath
    /\ UNCHANGED <<lock, back, myGen, calls, flagVars, fieldVars, alive, cancelled,
                   readerVars, looper, channel, sessionVars, carrier, readyVars, outages>>

Launch(c) ==
    /\ pc[c] = "launch"
    /\ \/ /\ LaunchActive(c)
          /\ alive' = [alive EXCEPT ![mine[c]] = TRUE]
          /\ Goto(c, "recheck")
       \/ Goto(c, "fail") /\ UNCHANGED alive
    /\ UNCHANGED <<lock, back, mine, myGen, calls, flagVars, fieldVars, launched, cancelled,
                   held, session, readerVars, looper, channel, sessionVars, carrierVars,
                   readyVars, outages>>

Recheck(c) ==
    /\ pc[c] = "recheck"
    /\ Goto(c, IF LaunchActive(c) THEN "publish" ELSE "fail")
    /\ UNCHANGED <<lock, back, mine, myGen, calls, flagVars, fieldVars, instVars, readerVars,
                   looper, channel, sessionVars, carrierVars, readyVars, outages>>

Publish(c) ==
    /\ pc[c] = "publish"
    /\ currentInstance' = mine[c]
    /\ Goto(c, "begin")
    /\ UNCHANGED <<lock, back, mine, myGen, calls, flagVars, process, delayedConnect,
                   gracePeriod, instVars, readerVars, looper, channel, sessionVars,
                   carrierVars, readyVars, outages>>

Begin(c) ==
    /\ pc[c] = "begin"
    /\ ChannelBegin(mine[c])
    /\ process' = mine[c]
    /\ carrier' = [path |-> mine[c], ready |-> FALSE]
    /\ Goto(c, "attach")
    /\ UNCHANGED <<lock, back, mine, myGen, calls, flagVars, currentInstance, delayedConnect,
                   gracePeriod, instVars, readerVars, looper, sessionVars, carrierPath,
                   readyVars, outages>>

\* The configuration goes down the core's stdin, which fails when it is dead;
\* then the reader thread and the grace period start.
Attach(c) ==
    /\ pc[c] = "attach"
    /\ \/ /\ reader' = [reader EXCEPT ![mine[c]] = "read"]
          /\ gracePeriod' = mine[c]
          /\ Return(c)
       \/ /\ ~alive[mine[c]]
          /\ Goto(c, "fail")
          /\ UNCHANGED <<lock, reader, gracePeriod>>
    /\ UNCHANGED <<back, mine, myGen, calls, flagVars, currentInstance, process,
                   delayedConnect, instVars, lines, looper, channel, sessionVars, carrierVars,
                   readyVars, outages>>

\* Mutant: the catch block forgets the engines.
FailKeepsEngines(c) ==
    /\ pc[c] = "fail"
    /\ alive' = [alive EXCEPT ![mine[c]] = FALSE]
    /\ running' = (running /\ ~LaunchActive(c))
    /\ connected' = (connected /\ ~LaunchActive(c))
    /\ Return(c)
    /\ UNCHANGED <<back, mine, myGen, calls, shuttingDown, launchGeneration, rejectedSession,
                   fieldVars, launched, cancelled, held, session, readerVars, looper, channel,
                   sessionVars, carrierVars, readyVars, outages>>

\* The catch block of spawn.
Fail(c) ==
    /\ pc[c] = "fail"
    /\ alive' = [alive EXCEPT ![mine[c]] = FALSE]
    /\ held' = [held EXCEPT ![mine[c]] = FALSE]
    /\ running' = (running /\ ~LaunchActive(c))
    /\ connected' = (connected /\ ~LaunchActive(c))
    /\ Return(c)
    /\ UNCHANGED <<back, mine, myGen, calls, shuttingDown, launchGeneration, rejectedSession,
                   fieldVars, launched, cancelled, session, readerVars, looper, channel,
                   sessionVars, carrierVars, readyVars, outages>>
-----------------------------------------------------------------------------
(* stop() and cleanup() *)

CallStop(c) ==
    /\ c \in Stoppers /\ pc[c] = "idle"
    /\ calls < MaxCalls /\ calls' = calls + 1
    /\ EnterMonitor(c)
    /\ back' = [back EXCEPT ![c] = "idle"]
    /\ Goto(c, "stopFlags")
    /\ UNCHANGED <<mine, myGen, flagVars, fieldVars, instVars, readerVars, looper, channel,
                   sessionVars, carrierVars, readyVars, outages>>

\* Mutant: the generation of the launch is taken back, not passed.
StopFlagsBack(c) ==
    /\ pc[c] = "stopFlags"
    /\ shuttingDown' = TRUE
    /\ launchGeneration' = launchGeneration - 1
    /\ Goto(c, "stopCancel")
    /\ UNCHANGED <<lock, back, mine, myGen, calls, running, connected, rejectedSession,
                   fieldVars, instVars, readerVars, looper, channel, sessionVars, carrierVars,
                   readyVars, outages>>

StopFlags(c) ==
    /\ pc[c] = "stopFlags"
    /\ shuttingDown' = TRUE
    /\ launchGeneration' = launchGeneration + 1
    /\ Goto(c, "stopCancel")
    /\ UNCHANGED <<lock, back, mine, myGen, calls, running, connected, rejectedSession,
                   fieldVars, instVars, readerVars, looper, channel, sessionVars, carrierVars,
                   readyVars, outages>>

StopCancel(c) ==
    /\ pc[c] = "stopCancel"
    /\ running' = FALSE /\ connected' = FALSE
    /\ cancelled' = [i \in Instance |-> cancelled[i] \/ i = currentInstance]
    /\ Goto(c, "stopDetach")
    /\ UNCHANGED <<lock, back, mine, myGen, calls, shuttingDown, launchGeneration,
                   rejectedSession, fieldVars, launched, alive, held, session, readerVars,
                   looper, channel, sessionVars, carrierVars, readyVars, outages>>

StopDetach(c) ==
    /\ pc[c] = "stopDetach"
    /\ carrier' = IF carrier.path = carrierPath THEN [path |-> 0, ready |-> FALSE] ELSE carrier
    /\ carrierPath' = 0
    /\ delayedConnect' = 0 /\ gracePeriod' = 0
    /\ Goto(c, "stopDestroy")
    /\ UNCHANGED <<lock, back, mine, myGen, calls, flagVars, currentInstance, process,
                   instVars, readerVars, looper, channel, sessionVars, readyVars, outages>>

\* Mutant: cleanupInstance is not called.
StopDestroyNothing(c) ==
    /\ pc[c] = "stopDestroy" /\ Goto(c, "stopClear")
    /\ UNCHANGED <<lock, back, mine, myGen, calls, flagVars, fieldVars, instVars, readerVars,
                   looper, channel, sessionVars, carrierVars, readyVars, outages>>

\* currentInstance?.let { cleanupInstance(it) }
StopDestroy(c) ==
    /\ pc[c] = "stopDestroy"
    /\ IF currentInstance = 0
       THEN UNCHANGED <<channel, readySession, alive, held>>
       ELSE /\ ChannelEnd(currentInstance)
            /\ ClearLocalProxyReady(currentInstance)
            /\ held' = [held EXCEPT ![currentInstance] = FALSE]
            /\ alive' = [alive EXCEPT ![currentInstance] = FALSE]
    /\ Goto(c, "stopClear")
    /\ UNCHANGED <<lock, back, mine, myGen, calls, flagVars, fieldVars, launched, cancelled,
                   session, readerVars, looper, currentSession, carrierVars, readyVars,
                   outages>>

StopClear(c) ==
    /\ pc[c] = "stopClear"
    /\ currentInstance' = 0
    /\ Goto(c, "stopProcess")
    /\ UNCHANGED <<lock, back, mine, myGen, calls, flagVars, process, delayedConnect,
                   gracePeriod, instVars, readerVars, looper, channel, sessionVars,
                   carrierVars, readyVars, outages>>

StopProcess(c) ==
    /\ pc[c] = "stopProcess"
    /\ process' = 0
    /\ IF back[c] = "flags" THEN Goto(c, "flags") /\ UNCHANGED lock ELSE Return(c)
    /\ UNCHANGED <<back, mine, myGen, calls, flagVars, currentInstance, delayedConnect,
                   gracePeriod, instVars, readerVars, looper, channel, sessionVars,
                   carrierVars, readyVars, outages>>
-----------------------------------------------------------------------------
(* Readiness of instance i, told by its reader or by the looper: the thread *)
(* goes to the step "to" of the handler, or back to where it came from.     *)

Belongs(i) == ~cancelled[i] /\ currentInstance = i

ConnectCheck(i, to) ==
    /\ to = IF running /\ Belongs(i) /\ alive[i] THEN "set" ELSE "back"
    /\ UNCHANGED <<connected, readySession, channel, carrier>>

\* connected.getAndSet(true)
ConnectSet(to) ==
    /\ to = IF connected THEN "back" ELSE "proxy"
    /\ connected' = TRUE
    /\ UNCHANGED <<readySession, channel, carrier>>

ConnectProxy(i, to) ==
    /\ to = IF Belongs(i) /\ alive[i] THEN "mark" ELSE "publish"
    /\ UNCHANGED <<connected, readySession, channel, carrier>>

ConnectMark(i, to) ==
    /\ to = "publish"
    /\ MarkLocalProxyReady(i)
    /\ UNCHANGED <<connected, channel, carrier>>

ConnectPublish(i, to) ==
    /\ to = "back"
    /\ ChannelReady(i, TRUE, FALSE)
    /\ SetAdminCarrierReady(TRUE)
    /\ UNCHANGED <<connected, readySession>>

ConnectStep(i, at, to) ==
    /\ \/ at = "check" /\ ConnectCheck(i, to)
       \/ at = "set" /\ ConnectSet(to)
       \/ at = "proxy" /\ ConnectProxy(i, to)
       \/ at = "mark" /\ ConnectMark(i, to)
       \/ at = "publish" /\ ConnectPublish(i, to)
    /\ UNCHANGED <<callerVars, shuttingDown, running, launchGeneration, rejectedSession,
                   fieldVars, instVars, lines, currentSession, carrierPath, readyVars,
                   outages>>
-----------------------------------------------------------------------------
(* The stdout reader of an instance. *)

ReaderGo(i, label) == reader' = [reader EXCEPT ![i] = label]

\* A line arrives, also one the process left in the pipe before it died; the loop
\* breaks when its instance is no longer the current one.  A listener line counts
\* as long as the process lives.
ReadLine(i) ==
    /\ reader[i] = "read"
    /\ IF ~Belongs(i)
       THEN ReaderGo(i, "final")
       ELSE \E kind \in {"listener", "drop", "fatal", "reject", "ready"} :
               (kind = "listener" => alive[i]) /\ ReaderGo(i, kind)
    /\ lines < MaxLines /\ lines' = lines + 1
    /\ UNCHANGED <<callerVars, flagVars, fieldVars, instVars, looper, channel, sessionVars,
                   carrierVars, readyVars, outages>>

\* [CORE_RTT]
ReadSample(i) ==
    /\ reader[i] = "read" /\ Belongs(i)
    /\ ChannelSample(i)
    /\ lines < MaxLines /\ lines' = lines + 1
    /\ UNCHANGED <<callerVars, flagVars, fieldVars, instVars, reader, looper, sessionVars,
                   carrierVars, readyVars, outages>>

\* [PROXY_LISTENER] ready, after the test made when the line was read.
LineListener(i) ==
    /\ reader[i] = "listener"
    /\ MarkLocalProxyReady(i)
    /\ ReaderGo(i, "read")
    /\ UNCHANGED <<callerVars, flagVars, fieldVars, instVars, lines, looper, channel,
                   currentSession, carrierVars, readyVars, outages>>

\* A disconnection; [CORE_CONNECTION] unavailable also takes the carrier down when
\* the transport was not connected.  "close 1005" falls through to the fatal test.
LineDrop(i) ==
    /\ reader[i] = "drop"
    /\ connected' = FALSE
    /\ \/ connected /\ ReaderGo(i, "dropped") /\ UNCHANGED carrier
       \/ ~connected /\ ReaderGo(i, "read") /\ SetAdminCarrierReady(FALSE)
       \/ ~connected /\ ~Flexible /\ ReaderGo(i, "fatal") /\ UNCHANGED carrier
    /\ UNCHANGED <<callerVars, shuttingDown, running, launchGeneration, rejectedSession,
                   fieldVars, instVars, lines, looper, channel, sessionVars, carrierPath,
                   readyVars, outages>>

LineDropped(i) ==
    /\ reader[i] = "dropped"
    /\ ChannelReady(i, FALSE, FALSE)
    /\ IF Flexible THEN UNCHANGED readySession ELSE ClearLocalProxyReady(i)
    /\ SetAdminCarrierReady(FALSE)
    /\ \/ ReaderGo(i, "read")
       \/ ~Flexible /\ ReaderGo(i, "fatal")
    /\ UNCHANGED <<callerVars, flagVars, fieldVars, instVars, lines, looper, currentSession,
                   carrierPath, readyVars, outages>>

\* A startup error while not connected.
LineFatal(i) ==
    /\ reader[i] = "fatal"
    /\ IF connected THEN UNCHANGED <<running, delayedConnect, gracePeriod>>
       ELSE running' = FALSE /\ delayedConnect' = 0 /\ gracePeriod' = 0
    /\ ReaderGo(i, "read")
    /\ UNCHANGED <<callerVars, shuttingDown, connected, launchGeneration, rejectedSession,
                   currentInstance, process, instVars, lines, looper, channel, sessionVars,
                   carrierVars, readyVars, outages>>

\* Jazz refuses the room.
LineReject(i) ==
    /\ reader[i] = "reject"
    /\ rejectedSession' = session[i]
    /\ connected' = FALSE
    /\ ChannelReady(i, FALSE, TRUE)
    /\ SetAdminCarrierReady(FALSE)
    /\ delayedConnect' = 0
    /\ ReaderGo(i, "read")
    /\ UNCHANGED <<callerVars, shuttingDown, running, launchGeneration, currentInstance,
                   process, gracePeriod, instVars, lines, looper, sessionVars, carrierPath,
                   readyVars, outages>>

\* A ready line: ignored during a physical outage; a Yandex document gets two
\* seconds before it counts.
LineReady(i) ==
    /\ reader[i] = "ready"
    /\ IF channel.waitingForNetwork
       THEN /\ ReaderGo(i, "read")
            /\ UNCHANGED <<rejectedSession, gracePeriod, delayedConnect, confirmed>>
       ELSE /\ rejectedSession' = 0
            /\ gracePeriod' = 0
            /\ confirmed' = confirmed \cup {i}
            /\ \/ delayedConnect' = i /\ ReaderGo(i, "read")
               \/ delayedConnect' = 0 /\ ReaderGo(i, "check")
    /\ UNCHANGED <<callerVars, shuttingDown, running, connected, launchGeneration,
                   currentInstance, process, instVars, lines, looper, channel, sessionVars,
                   carrierVars, restored, outages>>

ReaderConnect(i) ==
    /\ \E to \in ConnectPc \cup {"back"} :
          /\ ConnectStep(i, reader[i], to)
          /\ ReaderGo(i, IF to = "back" THEN "read" ELSE to)
    /\ UNCHANGED looper

\* End of the stream; the finally block releases what the launch held.
ReadEof(i) ==
    /\ reader[i] = "read" /\ ~alive[i]
    /\ ReaderGo(i, "final")
    /\ UNCHANGED <<callerVars, flagVars, fieldVars, instVars, lines, looper, channel,
                   sessionVars, carrierVars, readyVars, outages>>

ReaderFinal(i) ==
    /\ reader[i] = "final"
    /\ held' = [held EXCEPT ![i] = FALSE]
    /\ ReaderGo(i, IF currentInstance = i THEN "release" ELSE "wait")
    /\ UNCHANGED <<callerVars, flagVars, fieldVars, launched, alive, cancelled, session,
                   lines, looper, channel, sessionVars, carrierVars, readyVars, outages>>

ReaderRelease(i) ==
    /\ reader[i] = "release"
    /\ ChannelEnd(i)
    /\ ClearLocalProxyReady(i)
    /\ delayedConnect' = 0 /\ gracePeriod' = 0
    /\ ReaderGo(i, "wait")
    /\ UNCHANGED <<callerVars, flagVars, currentInstance, process, instVars, lines, looper,
                   currentSession, carrierVars, readyVars, outages>>

\* Mutant: the reader ends without handling the exit.
ReaderWaitForgets(i) ==
    /\ reader[i] = "wait" /\ ~alive[i]
    /\ ReaderGo(i, "done")
    /\ UNCHANGED <<callerVars, flagVars, fieldVars, instVars, lines, looper, channel,
                   sessionVars, carrierVars, readyVars, outages>>

\* proc.waitFor()
ReaderWait(i) ==
    /\ reader[i] = "wait" /\ ~alive[i]
    /\ ReaderGo(i, IF Belongs(i) THEN "exit" ELSE "done")
    /\ UNCHANGED <<callerVars, flagVars, fieldVars, instVars, lines, looper, channel,
                   sessionVars, carrierVars, readyVars, outages>>

ReaderExit(i) ==
    /\ reader[i] = "exit"
    /\ SetAdminCarrierReady(FALSE)
    /\ connected' = FALSE /\ running' = FALSE
    /\ ReaderGo(i, "done")
    /\ UNCHANGED <<callerVars, shuttingDown, launchGeneration, rejectedSession, fieldVars,
                   instVars, lines, looper, channel, sessionVars, carrierPath, readyVars,
                   outages>>
-----------------------------------------------------------------------------
(* The main looper's runnables. *)

RunDelayedConnect ==
    /\ looper.at = "idle" /\ delayedConnect # 0
    /\ looper' = [at |-> "check", inst |-> delayedConnect]
    /\ delayedConnect' = 0
    /\ UNCHANGED <<callerVars, flagVars, currentInstance, process, gracePeriod, instVars,
                   readerVars, channel, sessionVars, carrierVars, readyVars, outages>>

LooperConnect ==
    /\ \E to \in ConnectPc \cup {"back"} :
          /\ ConnectStep(looper.inst, looper.at, to)
          /\ looper' = IF to = "back" THEN [at |-> "idle", inst |-> 0]
                       ELSE [looper EXCEPT !.at = to]
    /\ UNCHANGED reader

\* The grace period is over: only a dead process counts.
RunGracePeriod ==
    /\ looper.at = "idle" /\ gracePeriod # 0
    /\ looper' = IF Belongs(gracePeriod) /\ ~alive[gracePeriod]
                 THEN [at |-> "dead", inst |-> gracePeriod] ELSE looper
    /\ gracePeriod' = 0
    /\ UNCHANGED <<callerVars, flagVars, currentInstance, process, delayedConnect, instVars,
                   readerVars, channel, sessionVars, carrierVars, readyVars, outages>>

LooperDead ==
    /\ looper.at = "dead"
    /\ connected' = FALSE /\ running' = FALSE
    /\ looper' = [at |-> "idle", inst |-> 0]
    /\ UNCHANGED <<callerVars, shuttingDown, launchGeneration, rejectedSession, fieldVars,
                   instVars, readerVars, channel, sessionVars, carrierVars, readyVars,
                   outages>>
-----------------------------------------------------------------------------
(* The network, and the core's death. *)

NetworkUnavailable ==
    /\ outages < MaxNet /\ outages' = outages + 1
    /\ connected' = FALSE
    /\ IF currentInstance # 0 THEN ChannelNetworkLost(currentInstance) ELSE UNCHANGED channel
    /\ SetAdminCarrierReady(FALSE)
    /\ UNCHANGED <<callerVars, shuttingDown, running, launchGeneration, rejectedSession,
                   fieldVars, instVars, readerVars, looper, sessionVars, carrierPath,
                   readyVars>>

\* The service calls it for a running direct-dpi core that was in standby.
LocalNetworkRestored ==
    /\ channel.waitingForNetwork /\ running /\ process # 0 /\ alive[process]
    /\ IF currentInstance # 0
       THEN /\ ChannelLocalNetworkRestored(currentInstance)
            /\ restored' = restored \cup {currentInstance}
       ELSE UNCHANGED <<channel, restored>>
    /\ connected' = TRUE
    /\ UNCHANGED <<callerVars, shuttingDown, running, launchGeneration, rejectedSession,
                   fieldVars, instVars, readerVars, looper, sessionVars, carrierVars,
                   confirmed, outages>>

CoreDies(i) ==
    /\ alive[i]
    /\ alive' = [alive EXCEPT ![i] = FALSE]
    /\ UNCHANGED <<callerVars, flagVars, fieldVars, launched, cancelled, held, session,
                   readerVars, looper, channel, sessionVars, carrierVars, readyVars, outages>>
-----------------------------------------------------------------------------
CallerStep(c) ==
    \/ StartCheck(c) \/ StartFlags(c) \/ Prepare(c) \/ Launch(c) \/ Recheck(c) \/ Publish(c)
    \/ Begin(c) \/ Attach(c) \/ Fail(c)
    \/ StopFlags(c) \/ StopCancel(c) \/ StopDetach(c) \/ StopDestroy(c) \/ StopClear(c)
    \/ StopProcess(c)

ReaderStep(i) ==
    \/ ReadLine(i) \/ ReadEof(i) \/ ReadSample(i)
    \/ LineListener(i) \/ LineDrop(i) \/ LineDropped(i) \/ LineFatal(i) \/ LineReject(i)
    \/ LineReady(i) \/ ReaderConnect(i)
    \/ ReaderFinal(i) \/ ReaderRelease(i) \/ ReaderWait(i) \/ ReaderExit(i)

LooperStep == RunDelayedConnect \/ LooperConnect \/ RunGracePeriod \/ LooperDead

Next ==
    \/ \E c \in Caller : CallStart(c) \/ CallStop(c) \/ CallerStep(c)
    \/ \E i \in Instance : ReaderStep(i) \/ CoreDies(i)
    \/ LooperStep
    \/ NetworkUnavailable \/ LocalNetworkRestored

Spec == Init /\ [][Next]_vars

\* A reader's thread runs whenever it can; nothing is asked of callers or looper.
FairSpec == Spec /\ \A i \in Instance : WF_vars(ReaderStep(i))
-----------------------------------------------------------------------------
(* Properties *)

Quiet == \A c \in Caller : pc[c] = "idle"

\* Between calls a core that is alive is the one the supervisor can stop: no start
\* leaves its predecessor behind and no failed launch leaves a process (86-110,
\* 600-611, 627-648, 673-690).  That needs no monitor.  The one way out, which the
\* code leaves open, is a core that met another call in the window between its last
\* check (346) and begin (353): exposed records it.
NoOrphan ==
    Quiet => \A i \in Instance \ exposed : alive[i] => i = currentInstance /\ i = process

\* After stop() returned, and before another start, no core of this supervisor
\* runs (102-110), but for one exposed in that window.
StopLeavesNoCore == Quiet /\ shuttingDown => \A i \in Instance \ exposed : ~alive[i]

\* What the user interface reads as a ready channel was reported by the very
\* process that owns the channel, never by a predecessor's late line, or was set
\* by the service itself, which restores a direct-dpi channel without a report
\* (ChannelConnectionState.kt 32-67).
ReadyIsConfirmed == channel.ready => channel.owner \in confirmed \cup restored

\* A physical outage fences the channel: as long as its instance waits for the
\* network, no late ready line, sample or delayed runnable makes it ready
\* (NativeProcessSupervisor.kt 480, ChannelConnectionState.kt 37-61).
OutageFencesChannel == channel.waitingForNetwork => ~channel.ready /\ ~channel.rtt

\* Between calls the channel, if any, is the current instance's, whatever the reader
\* of an earlier one still does: a stop ends it, a launch that fails after its
\* publication stays the current instance (353, 557, 600-611, 628, 687).  Only one
\* exposed to another call may leave it behind.
ChannelFollowsInstance == Quiet => channel.owner \in {0, currentInstance} \cup exposed

\* getReady(), which lets the local proxy be used and shared on the LAN, never
\* names a session that no core was launched for: a predecessor's late listener
\* line cannot vouch for a session made since (653-654, LocalSocksSession.kt 66-74).
ReadySessionHasCore ==
    readySession = currentSession /\ readySession # 0
    => \E i \in Instance : session[i] = readySession /\ reader[i] # "none"

\* Engines, route file and app server of a launch do not outlive it: once its
\* process is dead and its reader is through, they are released.
NoLeakedEngines ==
    Quiet => \A i \in Instance : held[i] => alive[i] \/ reader[i] \notin {"none", "done", "wait"}

\* A core that dies on its own is noticed: its reader, the last to know of it,
\* clears running and connected, unless a stop or a start came first (547-573).
DeathIsNoticed ==
    \A i \in Instance :
        (~alive[i] /\ reader[i] = "read") ~>
        ((~running /\ ~connected) \/ cancelled[i] \/ currentInstance # i)
=============================================================================
